--------------------------- MODULE ClientRegistry ---------------------------
(***************************************************************************)
(* The broker's register of its clients, the monitor and the manager       *)
(* (landscape/client/broker/server.py, client.py and client/amp.py), and   *)
(* what depends on it: messages of the server that are broadcast to the    *)
(* clients.                                                                *)
(*                                                                         *)
(* A client connects to the broker and calls register_client; the broker   *)
(* then connects back, with a connector that tries for ever and connects   *)
(* again by itself.  Remote i is the RemoteObject of connector i.          *)
(***************************************************************************)
EXTENDS Naturals, FiniteSets

CONSTANTS
  Clients,
  Handler,      \* the client with a plugin for the messages of this model
  Remotes,      \* bound: connectors that exist at once (identities)
  Operations,   \* messages with an operation-id that the server sends
  MaxCalls,     \* bound: register_client calls of one client on their way
  MaxDeaths,    \* bound: times a client dies
  MaxRestarts   \* bound: times the broker is restarted

VARIABLES
  client,      \* "down", "listening", "plugged" (its plugins are added)
  linked,      \* the client's connection to the broker is there
  calling,     \* register_client calls on their way to the broker
  registered,  \* _registered_clients: name -> set of at most one remote
  connectors,  \* the keys of _connectors
  remote,      \* each remote: [state, of]
  op,          \* each operation: what became of its broadcast; `results' has the
               \* clients whose result is True
  bounds       \* how often what is bounded happened

vars == <<client, linked, calling, registered, connectors, remote, op, bounds>>

Free == [state |-> "free", of |-> Handler]

Init ==
  /\ client = [n \in Clients |-> "down"]
  /\ linked = [n \in Clients |-> FALSE]
  /\ calling = [n \in Clients |-> 0]
  /\ registered = [n \in Clients |-> {}]
  /\ connectors = {}
  /\ remote = [r \in Remotes |-> Free]
  /\ op = [o \in Operations |-> [state |-> "none", out |-> {}, results |-> {},
                                 handled |-> 0, failed |-> 0]]
  /\ bounds = [deaths |-> 0, restarts |-> 0]

-----------------------------------------------------------------------------
(* Calls of the broker on its clients.                                     *)

\* The clients the broker's calls reach, and those it would call.
Known == {n \in Clients : registered[n] # {}}
Connected(n) == \E r \in registered[n] : remote[r].state = "connected"

\* The calls out to the clients lost fail: gather_results fires with the
\* first error, and nothing follows it.
CallsFail(lost) ==
  op' = [o \in Operations |->
    IF op[o].out \cap lost = {} THEN op[o]
    ELSE [op[o] EXCEPT !.out = @ \ lost,
            !.state = IF @ = "out" THEN "error" ELSE @]]

\* broadcast_message: the message is sent to every client; a call over a
\* connection that is gone fails at once.
Broadcast(o) ==
  /\ op[o].state = "none"
  /\ op' = [op EXCEPT ![o] =
             [op[o] EXCEPT !.out = {n \in Known : Connected(n)},
                       !.state = IF \A n \in Known : Connected(n) THEN "out" ELSE "error",
                       !.failed = IF Known = {} THEN 1 ELSE 0]]
  /\ UNCHANGED <<client, linked, calling, registered, connectors, remote, bounds>>

\* BrokerClient.message, and its answer: whether there was a handler.
Handles(n) == n = Handler /\ client[n] = "plugged"
MessageCalled(o, n) ==
  /\ n \in op[o].out /\ client[n] # "down"
  /\ LET results == op[o].results \cup {m \in {n} : Handles(m)}
         last    == op[o].state = "out" /\ op[o].out = {n}
     IN  op' = [op EXCEPT ![o] =
                  [op[o] EXCEPT !.out = @ \ {n}, !.results = results,
                            !.handled = IF Handles(n) THEN @ + 1 ELSE @,
                            \* _message_delivered
                            !.state = IF last THEN "done" ELSE @,
                            !.failed = IF last /\ results = {} THEN @ + 1 ELSE @]]
  /\ UNCHANGED <<client, linked, calling, registered, connectors, remote, bounds>>

\* Mutant: an error counts as a result that is not True.
AnswerLostFails(o, n) ==
  /\ n \in op[o].out /\ client[n] # "down"
  /\ op' = [op EXCEPT ![o].out = @ \ {n},
              ![o].handled = IF Handles(n) THEN @ + 1 ELSE @,
              ![o].state = IF op[o].out = {n} THEN "done" ELSE @,
              ![o].failed = IF op[o].out = {n} /\ op[o].results = {} THEN 1 ELSE @]
  /\ UNCHANGED <<client, linked, calling, registered, connectors, remote, bounds>>

\* The message was handled, and the answer is lost with the connection or
\* comes after the timeout of the call.
AnswerLost(o, n) ==
  /\ n \in op[o].out /\ client[n] # "down"
  /\ op' = [op EXCEPT ![o] =
              [op[o] EXCEPT !.out = @ \ {n},
                        !.handled = IF Handles(n) THEN @ + 1 ELSE @,
                        !.state = IF @ = "out" THEN "error" ELSE @]]
  /\ UNCHANGED <<client, linked, calling, registered, connectors, remote, bounds>>

-----------------------------------------------------------------------------
(* Registration.                                                           *)

Unused == {r \in Remotes : remote[r].state = "free"}

\* Mutant: a client that is known is disconnected, and not connected again.
RegisterClientOnce(n) ==
  LET old == registered[n]
  IN  /\ calling[n] > 0 /\ Unused # {}
      /\ calling' = [calling EXCEPT ![n] = @ - 1]
      /\ connectors' = connectors \ old
      /\ remote' = [s \in Remotes |->
           IF old = {} /\ s = CHOOSE r \in Unused : TRUE
           THEN [state |-> "connecting", of |-> n]
           ELSE IF s \in old THEN [remote[s] EXCEPT !.state = "closed"] ELSE remote[s]]
      /\ CallsFail(IF old = {} THEN {} ELSE {n})
      /\ UNCHANGED <<client, linked, registered, bounds>>

\* register_client.  The connector of a remote that is registered already is
\* taken out and disconnected; one that was taken out before makes the call
\* fail.  A new connector starts to connect.
RegisterClient(n) ==
  LET old == registered[n]
      again == old # {} /\ old \cap connectors = {}
  IN  /\ calling[n] > 0
      /\ calling' = [calling EXCEPT ![n] = @ - 1]
      /\ \/ /\ again
            /\ UNCHANGED <<connectors, remote, op>>
         \/ /\ ~again
            /\ connectors' = connectors \ old
            /\ Unused # {}
            /\ remote' = [s \in Remotes |->
                 IF s = CHOOSE r \in Unused : TRUE
                 THEN [state |-> "connecting", of |-> n]
                 ELSE IF s \in old THEN [remote[s] EXCEPT !.state = "closed"]
                 ELSE remote[s]]
            /\ CallsFail(IF old = {} THEN {} ELSE {n})
      /\ UNCHANGED <<client, linked, registered, bounds>>

\* A connector reaches its client: the first time, `register'.  A remote that
\* is not registered any more, and whose connector is closed, is gone.
Connects(r) ==
  LET n == remote[r].of
      gone == {s \in registered[n] : remote[s].state = "closed"}
  IN  /\ remote[r].state \in {"connecting", "lost"} /\ client[n] # "down"
      /\ IF remote[r].state = "connecting"
         THEN /\ registered' = [registered EXCEPT ![n] = {r}]
              /\ connectors' = connectors \cup {r}
              /\ remote' = [s \in Remotes |->
                   IF s = r THEN [remote[r] EXCEPT !.state = "connected"]
                   ELSE IF s \in gone THEN Free ELSE remote[s]]
         ELSE /\ remote' = [remote EXCEPT ![r].state = "connected"]
              /\ UNCHANGED <<registered, connectors>>
      /\ UNCHANGED <<client, linked, calling, op, bounds>>

-----------------------------------------------------------------------------
(* The clients and the broker as processes.                                *)

\* The client starts, and listens.
ClientStarts(n) ==
  /\ client[n] = "down"
  /\ client' = [client EXCEPT ![n] = "listening"]
  /\ UNCHANGED <<linked, calling, registered, connectors, remote, op, bounds>>

\* It connects to the broker: start_plugins the first time, later
\* handle_reconnect.  Both register the client.
ClientConnects(n) ==
  /\ client[n] # "down" /\ ~linked[n] /\ calling[n] < MaxCalls
  /\ client' = [client EXCEPT ![n] = "plugged"]
  /\ linked' = [linked EXCEPT ![n] = TRUE]
  /\ calling' = [calling EXCEPT ![n] = @ + 1]
  /\ UNCHANGED <<registered, connectors, remote, op, bounds>>

\* It dies, and what the broker calls on it fails.
ClientDies(n) ==
  /\ client[n] # "down" /\ bounds.deaths < MaxDeaths
  /\ client' = [client EXCEPT ![n] = "down"]
  /\ linked' = [linked EXCEPT ![n] = FALSE]
  /\ remote' = [r \in Remotes |-> IF remote[r] = [state |-> "connected", of |-> n]
                                  THEN [remote[r] EXCEPT !.state = "lost"] ELSE remote[r]]
  /\ CallsFail({n})
  /\ bounds' = [bounds EXCEPT !.deaths = @ + 1]
  /\ UNCHANGED <<calling, registered, connectors>>

\* The broker is restarted: the register is empty, the clients notice.
BrokerRestarts ==
  /\ bounds.restarts < MaxRestarts
  /\ linked' = [n \in Clients |-> FALSE]
  /\ calling' = [n \in Clients |-> 0]
  /\ registered' = [n \in Clients |-> {}]
  /\ connectors' = {}
  /\ remote' = [r \in Remotes |-> Free]
  /\ op' = [o \in Operations |-> IF op[o].state \in {"out", "error"}
              THEN [op[o] EXCEPT !.state = "gone", !.out = {}] ELSE op[o]]
  /\ bounds' = [bounds EXCEPT !.restarts = @ + 1]
  /\ UNCHANGED <<client>>

-----------------------------------------------------------------------------
ClientSteps(n) == RegisterClient(n) \/ ClientStarts(n) \/ ClientConnects(n)
Next ==
  \/ \E n \in Clients : ClientSteps(n) \/ ClientDies(n)
  \/ \E r \in Remotes : Connects(r)
  \/ \E o \in Operations, n \in Clients : MessageCalled(o, n) \/ AnswerLost(o, n)
  \/ \E o \in Operations : Broadcast(o)
  \/ BrokerRestarts

Spec == Init /\ [][Next]_vars

\* The watchdog starts a client that is down, connections that are tried are
\* made, and calls are answered.
FairSpec ==
  /\ Spec
  /\ \A n \in Clients : /\ WF_vars(RegisterClient(n)) /\ WF_vars(ClientStarts(n))
                        /\ WF_vars(ClientConnects(n))
  /\ \A r \in Remotes : WF_vars(Connects(r))
  /\ \A o \in Operations : WF_vars(\E n \in Clients : MessageCalled(o, n))

-----------------------------------------------------------------------------
\* An operation is not answered as failed when a plugin handled it, and no
\* client handles it twice: what the broker cannot know it does not report.
NotFailedIfHandled ==
  \A o \in Operations : /\ op[o].handled <= 1
                        /\ op[o].failed = 1 => op[o].handled = 0

\* Every client that stays up is registered with a connection that works.
StaysRegistered ==
  \A n \in Clients : <>[](client[n] = "plugged") => <>[]Connected(n)
=============================================================================
