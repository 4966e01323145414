----------------------------- MODULE MCSessions -----------------------------
(***************************************************************************)
(* What lies between the processes of the client, one part of it at a      *)
(* time: session ids, method calls, and the register of clients.           *)
(*                                                                         *)
(* Sessions are those of a plugin of one scope, next to a scope that is    *)
(* not its.  There are two method calls, with small arguments or with      *)
(* arguments of two and three chunks, and every way to use a RemoteObject; *)
(* and two clients, of which one handles the messages.                     *)
(***************************************************************************)
EXTENDS Sessions, SequencesExt

CONSTANTS
    plugin1, package, user,
    Calls, Settings, MaxLosses,                     \* RemoteCalls
    monitor, manager, Remotes, Operations, MaxRegistrations, MaxDeaths, MaxRestarts
                                                    \* ClientRegistry

\* There are so many calls, each of some chunks.
ASSUME CallsAssumption ==
    IsFiniteSet(Calls) /\ \A s \in Settings : s.chunks \in [Calls -> Nat \ {0}]

VARIABLES
    part,
    setting, connected, losses, call, pending, wire, answers, buffer, executed, garbled,
    client, linked, calling, registered, connectors, remote, op, bounds

UserScope == [p \in Plugins |-> user]

Small == [c \in Calls |-> 1]
Large == [c \in Calls |-> IF c = CHOOSE d \in Calls : TRUE THEN 2 ELSE 3]
EverySetting == [chunks: {Small, Large}, retryOnReconnect: BOOLEAN, retryTimeout: BOOLEAN,
                 hangs: BOOLEAN]

R == INSTANCE RemoteCalls
C == INSTANCE ClientRegistry WITH Clients <- {monitor, manager}, Handler <- manager,
                                  MaxCalls <- MaxRegistrations

remote_vars == <<setting, connected, losses, call, pending, wire, answers, buffer, executed,
                 garbled>>
client_vars == <<client, linked, calling, registered, connectors, remote, op, bounds>>
all_vars == <<part, vars, remote_vars, client_vars>>

PartsInit ==
    /\ part \in {"sessions", "calls", "clients"}
    /\ Init /\ R!Init /\ C!Init
    /\ part # "calls" => setting = CHOOSE s \in Settings : TRUE

PartsNext ==
    \/ part = "sessions" /\ Next /\ UNCHANGED <<part, remote_vars, client_vars>>
    \/ part = "calls" /\ R!Next /\ UNCHANGED <<part, vars, client_vars>>
    \/ part = "clients" /\ C!Next /\ UNCHANGED <<part, vars, remote_vars>>

\* The fairness of each module, where it has its part
PartsSpec ==
    /\ PartsInit /\ [][PartsNext]_all_vars
    /\ \A p \in Plugins :
         /\ WF_vars(part = "sessions" /\ (GetSessionId(p) \/ SendMessage(p)))
         /\ WF_vars(part = "sessions" /\ ResynchronizePlugin(p))
         /\ WF_vars(part = "sessions" /\ SessionIdArrives(p))
         /\ WF_vars(part = "sessions" /\ StartLoop(p))
    /\ \A c \in Calls :
         /\ WF_remote_vars(part = "calls" /\ R!TimeOut(c))
         /\ WF_remote_vars(part = "calls" /\ R!RetryTimeOut(c))
    /\ WF_remote_vars(part = "calls" /\ R!Acknowledged)
    /\ WF_remote_vars(part = "calls" /\ R!Result)
    /\ WF_remote_vars(part = "calls" /\ R!Reconnect)
    /\ WF_remote_vars(part = "calls" /\ ~setting.hangs /\ (R!ReceiveChunk \/ R!ReceiveCall))
    /\ \A n \in {monitor, manager} :
         /\ WF_client_vars(part = "clients" /\ C!RegisterClient(n))
         /\ WF_client_vars(part = "clients" /\ C!ClientStarts(n))
         /\ WF_client_vars(part = "clients" /\ C!ClientConnects(n))
    /\ \A r \in Remotes : WF_client_vars(part = "clients" /\ C!Connects(r))
    /\ \A o \in Operations :
         WF_client_vars(part = "clients" /\ \E n \in {monitor, manager} : C!MessageCalled(o, n))

-----------------------------------------------------------------------------
(* A plugin ends up with an id that the broker accepts (Sessions).         *)
IdsRenewed == part = "sessions" => SessionsRenewed

(* A call is executed and answered once, with its own arguments, for each  *)
(* connection it was sent over (RemoteCalls).                              *)
CallsRight == R!CallsRight

(* Every call ends (RemoteCalls).                                          *)
CallsEnd == part = "calls" => R!CallsEnd

(* What a plugin handled is not reported as failed (ClientRegistry).       *)
NotFailedIfHandled == C!NotFailedIfHandled

(* A client that stays up is registered over a connection that works       *)
(* (ClientRegistry).                                                       *)
StaysRegistered == part = "clients" => C!StaysRegistered
=============================================================================
