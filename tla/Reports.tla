------------------------------ MODULE Reports ------------------------------
(***************************************************************************)
(* A plugin that keeps the server informed of some items of the machine    *)
(* (landscape/client/monitor/plugin.py and the plugins themselves), with   *)
(* the session ids it needs for that, resynchronisations, failing calls    *)
(* and crashes of its process.                                             *)
(*                                                                         *)
(* Calls to the broker and their results keep their order on one socket.   *)
(* The events of the broker come over another one, and are lost while the  *)
(* client is not registered.  call_if_accepted is a call as well: what is  *)
(* to be sent is looked up when its result comes.                          *)
(*                                                                         *)
(* `copy' is what the server knows, and `astray' is true from the moment   *)
(* something happened that this code does not repair by itself, until the  *)
(* server asks for everything again.                                       *)
(***************************************************************************)
EXTENDS ReportPlugins, Naturals, SequencesExt

CONSTANTS
    Items, Values,
    Absent,         \* an item that is not there
    NotThere,       \* the value that tells so
    Plugins,        \* the plugins to look at, one at a time
    Starts,         \* what the machine may be like at first
    MaxChanges,     \* bound: changes of the machine
    MaxResyncs,     \* bound: resynchronisations
    MaxFaults,      \* bound: calls that fail and crashes
    MaxCalls        \* bound: calls of the plugin that are under way

ASSUME PluginsAssumption == Plugins \subseteq ReportPlugins /\ IsFiniteSet(Items)

VARIABLES
    plugin,     \* one of Plugins
    shown,      \* the states of the machine so far
    memory,     \* the state of the plugin
    saved,      \* `reported' in the persist file
    valid,      \* the session id the broker accepts, and how many it gave out
    calls, results, events,
    registered, \* the client hears the events of the broker
    copy, at, since, astray,
    bounds

vars == <<plugin, shown, memory, saved, valid, calls, results, events, registered,
          copy, at, since, astray, bounds>>

Blank == [i \in Items |-> Absent]
Never == [i \in Items |-> 0]
NoId == 0

\* get_data of the plugin: what it makes of the machine
Look(p, m) ==
    [i \in Items |-> IF m[i] = Absent /\ p.absent = "told" THEN NotThere ELSE m[i]]

machine == Last(shown)

\* __init__ and register: a new process knows what the persist file says.
Fresh(disk) ==
    [id |-> NoId, loop |-> FALSE, first |-> TRUE, started |-> FALSE, resets |-> 0,
     reported |-> disk,
     previous |-> Blank,                    \* ActiveProcessInfo._previous_processes
     queue |-> <<>>, to_persist |-> <<>>]   \* MountInfo._mount_info, _mount_info_to_persist

Init ==
    /\ plugin \in Plugins
    /\ \E m \in Starts : shown = <<Look(plugin, m)>>
    /\ memory = Fresh(Blank) /\ saved = Blank
    /\ valid = [id |-> NoId, given |-> 0]
    /\ calls = <<[method |-> "get_session_id", again |-> FALSE]>>
    /\ results = <<>> /\ events = 0 /\ registered = TRUE
    /\ copy = Blank /\ at = Never /\ since = 0 /\ astray = FALSE
    /\ bounds = [changes |-> 0, resyncs |-> 0, faults |-> 0]

\* Rules that count data as told when they send it; the others do when
\* send_message has returned.
Eager == plugin.rule \in {"data", "items", "processors", "always"}

UnderWay == Len(calls) + Len(results)
Sends(s) == SelectSeq(s, LAMBDA c : c.method = "send_message")

-----------------------------------------------------------------------------
(* Messages: what is set, what is deleted, and whether all else is gone    *)

Message(replaces, sets, deletes) ==
    [replaces |-> replaces, sets |-> sets, deletes |-> deletes,
     at |-> [i \in Items |-> Len(shown)]]

Present == {i \in Items : machine[i] # Absent}
Only(f, S) == [i \in S |-> f[i]]

\* diff(old, new): creates and updates, deletes
Created(old) == {i \in Present : old[i] # machine[i]}
Deleted(old) == {i \in Items \ Present : old[i] # Absent}

DataMessage ==
    IF memory.reported = machine \/ (plugin.absent = "silent" /\ Present = {}) THEN {}
    ELSE {Message(TRUE, Only(machine, Present), {})}

AlwaysMessage == {Message(TRUE, Only(machine, Present), {})}

\* _add_if_new, _create_message
ItemsMessage ==
    LET new == Created(memory.reported)
    IN IF new = {} THEN {} ELSE {Message(FALSE, Only(machine, new), {})}

\* send_message: all of them if one is dirty
ProcessorsMessage ==
    IF Created(memory.reported) = {} THEN {}
    ELSE {Message(TRUE, Only(machine, Present), {})}

ProcessesMessage ==
    LET new == Created(memory.reported)  gone == Deleted(memory.reported)
    IN IF ~memory.first /\ new = {} /\ gone = {} THEN {}
       ELSE {Message(memory.first, Only(machine, new), gone)}

UsersMessage ==
    LET new == Created(memory.reported)  gone == Deleted(memory.reported)
    IN IF new = {} /\ gone = {} THEN {} ELSE {Message(FALSE, Only(machine, new), gone)}

\* create_mount_info_message: the queue, in its order
MountsMessage ==
    LET q == memory.queue
        Latest(i) == Max({k \in DOMAIN q : q[k].item = i})
        told == {q[k].item : k \in DOMAIN q}
    IN IF q = <<>> THEN {}
       ELSE {[Message(FALSE, [i \in told |-> q[Latest(i)].value], {})
                EXCEPT !.at = [i \in Items |-> IF i \in told THEN q[Latest(i)].seen ELSE 0]]}

Messages ==
    CASE plugin.rule = "data" -> DataMessage
      [] plugin.rule = "always" -> AlwaysMessage
      [] plugin.rule = "items" -> ItemsMessage
      [] plugin.rule = "processors" -> ProcessorsMessage
      [] plugin.rule = "processes" -> ProcessesMessage
      [] plugin.rule = "users" -> UsersMessage
      [] plugin.rule = "mounts" -> MountsMessage

-----------------------------------------------------------------------------
(* What a plugin keeps in mind                                             *)

\* Items that are not there any more stay where absence is not told.
Told ==
    CASE plugin.rule = "always" -> memory.reported
      [] plugin.rule \in {"items", "processors"} ->
           [i \in Items |-> IF i \in Present THEN machine[i] ELSE memory.reported[i]]
      [] OTHER -> machine

\* What get_message and its like leave behind
AfterMessage ==
    CASE Eager -> [memory EXCEPT !.reported = Told]
      [] plugin.rule = "processes" -> [memory EXCEPT !.previous = machine]
      [] plugin.rule = "users" -> memory
      [] plugin.rule = "mounts" ->
           IF memory.queue = <<>> THEN memory
           ELSE [memory EXCEPT !.to_persist = memory.queue, !.queue = <<>>]

\* send_message, exchange, _detect_changes: a message, if there is one.  To
\* look while one is under way confuses the rules that wait for the result.
Send ==
    /\ memory' = AfterMessage
    /\ calls' = calls \o SetToSeq({[method |-> "send_message", message |-> m,
                     id |-> memory.id, resets |-> memory.resets,
                     snapshot |-> machine] : m \in Messages})
    /\ astray' = (astray \/ (~Eager /\ Sends(calls) \o Sends(results) # <<>>))

\* persist_data of ActiveProcessInfo
ProcessesSent ==
    [memory EXCEPT !.first = FALSE, !.reported = memory.previous, !.previous = Blank]

\* persist_mount_info; the second of two calls has nothing left, and raises.
MountsSent ==
    LET told == memory.to_persist IN
    [memory EXCEPT !.to_persist = <<>>,
       !.reported = [i \in Items |->
          LET ks == {k \in DOMAIN told : told[k].item = i}
          IN IF ks = {} THEN @[i] ELSE told[Max(ks)].value]]

\* update_snapshot: the data that was compared, not the data of now
UsersSent(snapshot) == [memory EXCEPT !.reported = snapshot]

Counted(result) ==
    CASE Eager -> memory
      [] plugin.rule = "processes" -> ProcessesSent
      [] plugin.rule = "mounts" -> MountsSent
      [] plugin.rule = "users" -> UsersSent(result.snapshot)

\* Mutant: what was told is not forgotten
NoReset == [memory EXCEPT !.resets = @ + 1, !.loop = FALSE]

\* MonitorPlugin._reset, ActiveProcessInfo._reset, DataWatcherManager._reset:
\* the lists that MountInfo has in memory stay.
_reset ==
    [memory EXCEPT !.reported = IF plugin.resets THEN Blank ELSE @, !.first = TRUE, !.resets = @ + 1,
                   !.previous = Blank, !.loop = FALSE]

-----------------------------------------------------------------------------
(* What makes a plugin look                                                *)

\* call_if_accepted
Ask == calls' = Append(calls, [method |-> "get_accepted_message_types"])

\* BrokerClient.exchange, or the plugin's own loop, or its delayed start
Looks ==
    /\ UnderWay < MaxCalls
    /\ \/ "exchange" \in plugin.triggers /\ UNCHANGED memory
       \/ "run" \in plugin.triggers /\ memory.loop /\ UNCHANGED memory
       \/ "start" \in plugin.triggers /\ ~memory.started
          /\ memory' = [memory EXCEPT !.started = TRUE]
    /\ Ask
    /\ UNCHANGED <<plugin, since, shown, saved, valid, results, events, registered, copy, at,
                   astray, bounds>>

\* message-type-acceptance-changed comes over the other socket.
Accepted ==
    /\ "accepted" \in plugin.triggers /\ registered /\ UnderWay < MaxCalls
    /\ Send
    /\ UNCHANGED <<plugin, since, shown, saved, valid, results, events, registered, copy, at, bounds>>

\* MountInfo.run: what differs from what was told is queued, once each.
RunMounts ==
    LET new == {i \in Present : /\ memory.reported[i] # machine[i]
                                /\ \A k \in DOMAIN memory.queue :
                                     [item |-> i, value |-> machine[i]] #
                                     [item |-> memory.queue[k].item,
                                      value |-> memory.queue[k].value]}
    IN /\ plugin.rule = "mounts" /\ memory.loop /\ new # {}
       /\ memory' = [memory EXCEPT !.queue = @ \o SetToSeq(
                       {[item |-> i, value |-> machine[i], seen |-> Len(shown)] : i \in new})]
       /\ UNCHANGED <<plugin, since, shown, saved, valid, calls, results, events, registered,
                      copy, at, astray, bounds>>

-----------------------------------------------------------------------------
(* The broker                                                              *)

Apply(m) ==
    [i \in Items |-> IF i \in DOMAIN m.sets THEN m.sets[i]
                     ELSE IF m.replaces \/ i \in m.deletes THEN Absent ELSE copy[i]]

Touches(m, i) == m.replaces \/ i \in DOMAIN m.sets \cup m.deletes

Deliver(m) ==
    /\ copy' = Apply(m)
    /\ at' = [i \in Items |-> IF Touches(m, i) THEN m.at[i] ELSE at[i]]

\* A plugin that has forgotten what it told can not tell what is gone since
\* then, unless its next message replaces everything.
Forgets == plugin.rule = "users" \/ (plugin.rule = "data" /\ plugin.absent = "none")
Forgotten(call) == Forgets /\ call.resets # memory.resets

\* Mutant: session ids are not looked at
AnyId(call) == TRUE

is_valid_session_id(call) == call.id = valid.id

\* get_session_id, get_accepted_message_types, send_message.  An id that is
\* not valid means that the message is dropped, and the caller can not tell.
Answer ==
    LET call == Head(calls) IN
    /\ calls # <<>> /\ calls' = Tail(calls)
    /\ CASE call.method = "get_session_id" ->
              /\ valid' = IF valid.id = NoId
                          THEN [id |-> valid.given + 1, given |-> valid.given + 1] ELSE valid
              /\ results' = Append(results, [method |-> call.method, again |-> call.again,
                                             id |-> valid'.id])
              /\ UNCHANGED <<copy, at, astray>>
         [] call.method = "get_accepted_message_types" ->
              /\ results' = Append(results, call)
              /\ UNCHANGED <<valid, copy, at, astray>>
         [] call.method = "send_message" /\ call.id = NoId ->
              /\ results' = Append(results, [method |-> "failure"])
              /\ astray' = (astray \/ Eager)
              /\ UNCHANGED <<valid, copy, at>>
         [] call.method = "send_message" /\ call.id # NoId ->
              /\ results' = Append(results, call)
              /\ IF is_valid_session_id(call)
                 THEN Deliver(call.message) /\ astray' = (astray \/ Forgotten(call))
                 ELSE /\ astray' = (astray \/ events = 0) /\ UNCHANGED <<copy, at>>
              /\ UNCHANGED valid
    /\ UNCHANGED <<plugin, since, shown, memory, saved, events, registered, bounds>>

\* The call times out, or the connection is lost: the broker may have had it.
CallFails ==
    LET call == Head(calls) IN
    /\ calls # <<>> /\ call.method = "send_message" /\ bounds.faults < MaxFaults
    /\ calls' = Tail(calls) /\ results' = Append(results, [method |-> "failure"])
    /\ \/ /\ is_valid_session_id(call) /\ call.id # NoId
          /\ Deliver(call.message) /\ astray' = (astray \/ ~Eager \/ Forgotten(call))
       \/ astray' = (astray \/ Eager) /\ UNCHANGED <<copy, at>>
    /\ bounds' = [bounds EXCEPT !.faults = @ + 1]
    /\ UNCHANGED <<plugin, since, shown, memory, saved, valid, events, registered>>

\* The server asks for everything: what it has does not count any more, and
\* nothing from before this moment is to be told; but MountInfo keeps its
\* lists, and tells them later.
Resynchronize ==
    /\ bounds.resyncs < MaxResyncs
    /\ bounds' = [bounds EXCEPT !.resyncs = @ + 1]
    /\ valid' = [valid EXCEPT !.id = NoId]
    /\ events' = IF registered THEN events + 1 ELSE events
    /\ copy' \in IF plugin.rule = "processes" THEN {copy} ELSE {Blank}
    /\ at' = Never
    /\ since' = IF plugin.rule = "mounts" THEN 0 ELSE Len(shown)
    /\ astray' = (~registered \/ ~plugin.resets)
    /\ UNCHANGED <<plugin, shown, memory, saved, calls, results, registered>>

-----------------------------------------------------------------------------
(* What comes back to the plugin                                           *)

\* BrokerClientPlugin._resynchronize
ResynchronizeEvent ==
    /\ events > 0 /\ events' = events - 1
    /\ memory' = _reset
    /\ calls' = Append(calls, [method |-> "get_session_id", again |-> TRUE])
    /\ astray' = (~plugin.resets \/ (at # Never /\ (astray \/ Forgets)))
    /\ UNCHANGED <<plugin, since, shown, saved, valid, results, registered, copy, at, bounds>>

Result ==
    LET result == Head(results) IN
    /\ results # <<>> /\ results' = Tail(results)
    /\ CASE result.method = "get_session_id" ->     \* _got_session_id
              /\ memory' = [memory EXCEPT !.id = result.id, !.loop = TRUE]
              /\ IF \/ "session" \in plugin.triggers
                    \/ "resync" \in plugin.triggers /\ result.again
                 THEN Ask ELSE UNCHANGED calls
              /\ UNCHANGED <<saved, astray>>
         [] result.method = "get_accepted_message_types" ->
              Send /\ UNCHANGED saved
         [] result.method = "failure" ->            \* log_failure
              UNCHANGED <<memory, calls, saved, astray>>
         [] result.method = "send_message" ->
              /\ memory' = Counted(result)
              /\ saved' = IF plugin.rule = "mounts" THEN memory'.reported ELSE saved
              /\ astray' = (astray \/ (~Eager /\ result.resets # memory.resets))
              /\ UNCHANGED calls
    /\ UNCHANGED <<plugin, since, shown, valid, events, registered, copy, at, bounds>>

-----------------------------------------------------------------------------
(* The machine and the process                                             *)

Change ==
    /\ bounds.changes < MaxChanges
    /\ \E i \in Items, v \in Values \cup {Absent} :
         LET new == Look(plugin, [machine EXCEPT ![i] = v])
         IN new # machine /\ shown' = Append(shown, new)
    /\ bounds' = [bounds EXCEPT !.changes = @ + 1]
    /\ UNCHANGED <<plugin, since, memory, saved, valid, calls, results, events, registered,
                   copy, at, astray>>

\* Monitor.flush, every flush_interval and at every exchange
Flush ==
    /\ plugin.disk /\ saved # memory.reported
    /\ saved' = memory.reported
    /\ UNCHANGED <<plugin, since, shown, memory, valid, calls, results, events, registered, copy,
                   at, astray, bounds>>

\* The process is killed and started again.
Crash ==
    /\ bounds.faults < MaxFaults
    /\ memory' = Fresh(saved)
    /\ calls' = <<[method |-> "get_session_id", again |-> FALSE]>>
    /\ results' = <<>> /\ events' = 0 /\ registered' = FALSE
    /\ astray' = (astray \/ (plugin.disk /\ (\/ saved # memory.reported
                                             \/ Sends(calls) \o Sends(results) # <<>>
                                             \/ events > 0)))
    /\ bounds' = [bounds EXCEPT !.faults = @ + 1]
    /\ UNCHANGED <<plugin, since, shown, saved, valid, copy, at>>

RegisterClient ==
    /\ ~registered /\ registered' = TRUE
    /\ UNCHANGED <<plugin, since, shown, memory, saved, valid, calls, results, events, copy, at,
                   astray, bounds>>

Next ==
    \/ Looks \/ Accepted \/ RunMounts
    \/ Answer \/ CallFails \/ Resynchronize
    \/ ResynchronizeEvent \/ Result
    \/ Change \/ Flush \/ Crash \/ RegisterClient

\* Calls are answered, events and results arrive, and loops go on.
Spec ==
    /\ Init /\ [][Next]_vars
    /\ WF_vars(Looks) /\ WF_vars(RunMounts) /\ WF_vars(Answer)
    /\ WF_vars(ResynchronizeEvent) /\ WF_vars(Result) /\ WF_vars(RegisterClient)

-----------------------------------------------------------------------------
M == INSTANCE Mirror WITH
       mirror <- [i \in Items |-> IF at[i] = 0 THEN Absent ELSE copy[i]]

(***************************************************************************)
(* The server is told nothing but what was so, item by item and never back *)
(* in time, and after a resynchronisation nothing from before it.          *)
(***************************************************************************)
TellsTheTruth == M!Spec

\* Nothing makes ProcessorInfo look again.
LooksAgain == plugin.triggers \cap {"exchange", "run"} # {}

(***************************************************************************)
(* In the end the server knows how the machine is, whatever resynchroni-   *)
(* sations, changes, failing calls and crashes there were in between,      *)
(* unless one of these led astray.  A thing whose absence is not told may  *)
(* stay.                                                                   *)
(***************************************************************************)
ServerIsTold ==
    LooksAgain =>
        <>[](astray \/ \A i \in Items : copy[i] = machine[i]
                                        \/ (plugin.absent = "silent" /\ machine[i] = Absent))
=============================================================================
