------------------------------ MODULE Sessions ------------------------------
(***************************************************************************)
(* Session ids: how reports made before a resynchronisation are kept from  *)
(* being sent after it (landscape/client/broker/client.py, server.py and   *)
(* store.py).                                                              *)
(*                                                                         *)
(* A plugin sends with an id that the broker gave it, one per scope.  A    *)
(* resynchronisation drops the ids of the scopes it is about and is then   *)
(* broadcast; a plugin that hears of it forgets what it has reported and   *)
(* asks for an id again.  The broker's events go to a plugin's process     *)
(* over one socket, the plugin's calls and their results over another one, *)
(* so that an event and a result may overtake each other.                  *)
(***************************************************************************)
EXTENDS Naturals, Sequences, FiniteSets

CONSTANTS
    Plugins, Scopes,
    Scope,          \* the scope of each plugin
    MayBeEmpty,     \* whether a resynchronisation may name an empty list of scopes
    MaxResyncs,     \* bound: resynchronisations
    MaxCrashes,     \* bound: times the broker is killed
    MaxCalls        \* bound: calls of a plugin on their way

ASSUME SessionsAssumption ==
    /\ Scope \in [Plugins -> Scopes]
    /\ MayBeEmpty \in BOOLEAN
    /\ MaxResyncs \in Nat /\ MaxCrashes \in Nat /\ MaxCalls \in Nat \ {0}

VARIABLES
    sessions,   \* the id in use for each scope, as the broker knows it
    saved,      \* the same, in the persist file
    issued,     \* ids given out so far
    plugin,     \* each plugin's _session_id, _loop, and loops
    events,     \* resynchronisations on their way to each plugin
    calls,      \* calls on their way to the broker
    results,    \* results of get_session_id on their way back
    resyncs,    \* resynchronisations of each scope, and all of them
    crashes,
    history     \* stale: a stale message was let in; deaf: the plugins that lost
                \* their id and were not told, or did not listen

vars == <<sessions, saved, issued, plugin, events, calls, results, resyncs,
          crashes, history>>

NoId == 0

\* scopes=None is everything
Requests ==
    {r \in [all: BOOLEAN, of: SUBSET Scopes] :
        /\ r.all => r.of = {}
        /\ ~r.all /\ r.of = {} => MayBeEmpty}

InScope(request, scope) == request.all \/ scope \in request.of

get_session_id == [method |-> "get_session_id"]

\* register: every plugin asks for an id.
Init ==
    /\ sessions = [s \in Scopes |-> NoId] /\ saved = sessions
    /\ issued = 0
    /\ plugin = [p \in Plugins |-> [id |-> NoId, loop |-> "none", delayed |-> 0,
                                    running |-> 0]]
    /\ events = [p \in Plugins |-> <<>>]
    /\ calls = [p \in Plugins |-> <<get_session_id>>]
    /\ results = [p \in Plugins |-> <<>>]
    /\ resyncs = [scope |-> [s \in Scopes |-> 0], all |-> 0]
    /\ crashes = 0
    /\ history = [stale |-> FALSE, deaf |-> {}]

-----------------------------------------------------------------------------
(* The broker *)

\* Mutant: the test is the wrong way round
KeepsScope(request, scope) == ~request.all /\ scope \notin request.of

\* drop_session_ids: `if scopes' does not tell an empty list from None.
Drops(request, scope) ==
    request.all \/ request.of = {} \/ scope \in request.of

\* _resynchronize, the broadcast, and the commit that follows a message
Resynchronize(request) ==
    /\ resyncs.all < MaxResyncs
    /\ sessions' = [s \in Scopes |-> IF Drops(request, s) THEN NoId ELSE sessions[s]]
    /\ saved' = sessions'
    /\ resyncs' = [all |-> resyncs.all + 1,
                   scope |-> [s \in Scopes |->
                      IF InScope(request, s) THEN resyncs.scope[s] + 1
                                             ELSE resyncs.scope[s]]]
    /\ events' = [p \in Plugins |-> Append(events[p], request)]
    /\ history' = [history EXCEPT !.deaf = @ \cup
          {p \in Plugins : Drops(request, Scope[p]) /\ ~InScope(request, Scope[p])}]
    /\ UNCHANGED <<issued, plugin, calls, results, crashes>>

\* get_session_id: one id per scope
GetSessionId(p) ==
    /\ calls[p] # <<>> /\ Head(calls[p]) = get_session_id
    /\ calls' = [calls EXCEPT ![p] = Tail(@)]
    /\ IF sessions[Scope[p]] = NoId
       THEN /\ issued' = issued + 1
            /\ sessions' = [sessions EXCEPT ![Scope[p]] = issued']
       ELSE UNCHANGED <<issued, sessions>>
    /\ results' = [results EXCEPT ![p] = Append(@, sessions'[Scope[p]])]
    /\ UNCHANGED <<saved, plugin, events, resyncs, crashes, history>>

is_valid_session_id(id) == \E s \in Scopes : sessions[s] = id

\* send_message: without a valid id it does nothing.
SendMessage(p) ==
    /\ calls[p] # <<>> /\ Head(calls[p]).method = "send_message"
    /\ calls' = [calls EXCEPT ![p] = Tail(@)]
    /\ LET message == Head(calls[p])
           now == resyncs.scope[Scope[p]]
           accepted == is_valid_session_id(message.id)
       IN  history' = [history EXCEPT !.stale = @ \/ (accepted /\ message.made < now)]
    /\ UNCHANGED <<sessions, saved, issued, plugin, events, results, resyncs, crashes>>

\* Every exchange saves the persist file.
Commit ==
    /\ saved' = sessions
    /\ UNCHANGED <<sessions, issued, plugin, events, calls, results, resyncs,
                   crashes, history>>

\* The connections break.  The clients' connectors do not retry calls, and
\* handle_reconnect does not ask for ids.
Crash ==
    /\ crashes < MaxCrashes /\ crashes' = crashes + 1
    /\ sessions' = saved
    /\ events' = [p \in Plugins |-> <<>>]
    /\ calls' = [p \in Plugins |-> <<>>]
    /\ results' = [p \in Plugins |-> <<>>]
    /\ history' = [history EXCEPT !.deaf = Plugins]
    /\ UNCHANGED <<saved, issued, plugin, resyncs>>

-----------------------------------------------------------------------------
(* The plugins.  _loop names a delayed call or a looping call, which may   *)
(* have been cancelled or stopped since.                                   *)

\* cancel_call(self._loop)
CancelLoop(q) ==
    CASE q.loop = "delayed" -> [q EXCEPT !.loop = "cancelled", !.delayed = @ - 1]
      [] q.loop = "running" -> [q EXCEPT !.loop = "stopped", !.running = @ - 1]
      [] OTHER -> q

\* _resynchronize.  To stop a looping call a second time raises, and fire()
\* swallows that.
ResynchronizePlugin(p) ==
    /\ events[p] # <<>>
    /\ events' = [events EXCEPT ![p] = Tail(@)]
    /\ IF InScope(Head(events[p]), Scope[p]) /\ plugin[p].loop # "stopped"
       THEN /\ plugin' = [plugin EXCEPT ![p] = CancelLoop(@)]
            /\ calls' = [calls EXCEPT ![p] = Append(@, get_session_id)]
       ELSE UNCHANGED <<plugin, calls>>
    /\ history' = [history EXCEPT !.deaf =
          CASE ~InScope(Head(events[p]), Scope[p]) -> @
            [] plugin[p].loop = "stopped" -> @ \cup {p}
            [] OTHER -> @ \ {p}]
    /\ UNCHANGED <<sessions, saved, issued, results, resyncs, crashes>>

\* Mutant: an id is only taken by a plugin that has none
FirstIdStays(q, id) ==
    [q EXCEPT !.id = IF @ = NoId THEN id ELSE @, !.loop = "delayed",
              !.delayed = @ + 1]

\* _got_session_id
GotSessionId(q, id) ==
    [q EXCEPT !.id = id, !.loop = "delayed", !.delayed = @ + 1]

SessionIdArrives(p) ==
    /\ results[p] # <<>>
    /\ results' = [results EXCEPT ![p] = Tail(@)]
    /\ plugin' = [plugin EXCEPT ![p] = GotSessionId(@, Head(results[p]))]
    /\ UNCHANGED <<sessions, saved, issued, events, calls, resyncs, crashes, history>>

_start_loop(q) ==
    [q EXCEPT !.loop = "running", !.delayed = @ - 1, !.running = @ + 1]

\* Any delayed call that is left may be due.
StartLoop(p) ==
    /\ plugin[p].delayed > 0
    /\ plugin' = [plugin EXCEPT ![p] = _start_loop(@)]
    /\ UNCHANGED <<sessions, saved, issued, events, calls, results, resyncs,
                   crashes, history>>

\* A report of run(), or the result of an operation
Report(p) ==
    /\ plugin[p].id # NoId /\ Len(calls[p]) < MaxCalls
    /\ calls' = [calls EXCEPT ![p] = Append(@,
                   [method |-> "send_message", id |-> plugin[p].id,
                    made |-> resyncs.scope[Scope[p]]])]
    /\ UNCHANGED <<sessions, saved, issued, plugin, events, results, resyncs,
                   crashes, history>>

Next ==
    \/ \E request \in Requests : Resynchronize(request)
    \/ Commit
    \/ Crash
    \/ \E p \in Plugins :
         \/ GetSessionId(p) \/ SendMessage(p) \/ ResynchronizePlugin(p)
         \/ SessionIdArrives(p) \/ StartLoop(p) \/ Report(p)

Spec == Init /\ [][Next]_vars

(***************************************************************************)
(* Calls, results and events arrive, and timers run.                       *)
(***************************************************************************)
FairSpec ==
    /\ Spec
    /\ \A p \in Plugins :
         /\ WF_vars(GetSessionId(p) \/ SendMessage(p))
         /\ WF_vars(ResynchronizePlugin(p)) /\ WF_vars(SessionIdArrives(p))
         /\ WF_vars(StartLoop(p))
-----------------------------------------------------------------------------
(***************************************************************************)
(* A message made before a resynchronisation is not let in after it, not   *)
(* even one that is then on its way (exchange.py, _resynchronize: "we      *)
(* don't want any previous messages being sent to the server").            *)
(***************************************************************************)
NoStaleMessage == ~history.stale

\* The broker accepts the id that the plugin sends with.
Connected(p) == plugin[p].id # NoId /\ sessions[Scope[p]] = plugin[p].id

(***************************************************************************)
(* Every plugin ends up with an id that the broker accepts, however events *)
(* and results overtake each other.  Excused are plugins that were not     *)
(* told that their id is gone (the broker was killed, or the list of       *)
(* scopes was empty) or whose _resynchronize raised, until they have       *)
(* handled another resynchronisation.                                      *)
(***************************************************************************)
SessionsRenewed == \A p \in Plugins : <>[](Connected(p) \/ p \in history.deaf)
=============================================================================
