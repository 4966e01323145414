--------------------------- MODULE PackageReports ---------------------------
(***************************************************************************)
(* The package reporter and what it keeps in the package store: the ids    *)
(* that the server has for packages (known to the client by a hash), the   *)
(* requests for ids, and the ids that were reported                        *)
(* (landscape/client/package/reporter.py, landscape/lib/apt/package/       *)
(* store.py), with the broker's queue, the server, and the plugin of the   *)
(* monitor that makes tasks of what the server answers.                    *)
(*                                                                         *)
(* A hash is a number, and the server's id for it is that number: a client *)
(* that has another one for it is wrong.  The machine is a set of hashes   *)
(* for each kind (installed, available, locked...).  A run of the reporter *)
(* reads APT's data once, when it first needs them.                        *)
(***************************************************************************)
EXTENDS Naturals, SequencesExt, FiniteSetsExt

CONSTANTS
    Hash,           \* positive numbers
    Kinds,          \* the tables of ids that were reported
    NotCleared,     \* kinds that _handle_resynchronize leaves alone
    ServerKnows,    \* the packages that the server knows at first
    MaxUnknown,     \* max_unknown_hashes_per_request
    Settings        \* bounds: what may happen, and how often

VARIABLES
    setting,        \* one of Settings
    machine,        \* the hashes of each kind
    stamp,          \* detect_package_changes_stamp: none, old or fresh
    hash_ids,       \* table hash
    db_file,        \* the hash=>id database has been fetched
    reported,       \* tables installed, available...
    requests,       \* table hash_id_request
    tasks,          \* table task, queue reporter
    reporter,       \* the process of the reporter
    queue,          \* messages to the server
    answers,        \* messages of the server
    view, server_knows, \* the server
    told,           \* the monitor is told to resynchronise
    excuses,        \* what happened that the code does not repair by itself
    bounds

store_vars == <<hash_ids, db_file, reported, requests>>
server_vars == <<answers, view, server_knows>>
vars == <<setting, machine, stamp, store_vars, tasks, reporter, queue, server_vars, told,
          excuses, bounds>>

(***************************************************************************)
(* The excuses:                                                            *)
(*   given up   a request was removed that may still be answered           *)
(*   repeated   an answer came a second time                               *)
(*   misled     a hash was given a wrong id                                *)
(*   missed     a change came between the look at APT and the new stamp    *)
(*   unnoticed  ids came with a database, or in a run that then broke, and *)
(*              no run has looked at the packages with them                *)
(*   unsure     the broker took a report, and the reporter does not know   *)
(*   discarded  a report was discarded, and is in the tables all the same  *)
(*   crossed    packages were reported after the broker, and before the    *)
(*              reporter, began to resynchronise                           *)
(***************************************************************************)
With(excuse, cond) == IF cond THEN excuses \cup {excuse} ELSE excuses

NoId == 0
NotSent == 0
Nothing == [k \in Kinds |-> {}]
NoRequest == [r \in {} |-> {}]
NoCall == [type |-> "none"]
NoTask == [type |-> "none"]
Away == [at |-> "none", loaded |-> FALSE, seen |-> Nothing, session |-> FALSE,
         attached |-> FALSE, got_task |-> FALSE, task |-> NoTask, call |-> NoCall,
         message_id |-> NotSent]

\* What the hash=>id database of the server holds
Canned == setting.canned

Init ==
    /\ setting \in Settings /\ machine = setting.machine
    /\ stamp = "none" /\ hash_ids = [h \in Hash |-> NoId] /\ db_file = FALSE
    /\ reported = Nothing /\ requests = NoRequest /\ tasks = <<>> /\ reporter = Away
    /\ queue = <<>> /\ answers = <<>> /\ view = Nothing /\ server_knows = ServerKnows
    /\ told = FALSE /\ excuses = {}
    /\ bounds = [changes |-> 0, resyncs |-> 0, faults |-> 0, old |-> 0, repeats |-> 0,
                 sent |-> 0]

-----------------------------------------------------------------------------
(* The package store                                                       *)

\* PackageStore.get_hash_id: the attached database first
get_hash_id(h) == IF reporter.attached /\ h \in Canned THEN h ELSE hash_ids[h]

\* set_hash_ids: both the id and the hash are unique in the table.
set_hash_ids(new) ==
    [h \in Hash |-> IF h \in DOMAIN new THEN new[h]
                    ELSE IF \E g \in DOMAIN new : new[g] = hash_ids[h] THEN NoId
                    ELSE hash_ids[h]]

\* Mutant: the row of the request before is taken again
LastRow == Max(DOMAIN requests \cup {0})

\* INTEGER PRIMARY KEY: the row after the last one there is
NewRow == Max(DOMAIN requests \cup {0}) + 1

Without(rows) == [r \in DOMAIN requests \ rows |-> requests[r]]

\* Somebody may still answer the request of this row.
Outstanding(row) ==
    \E m \in Range(queue) \cup Range(answers) \cup Range(tasks) :
       m.type \notin {"packages", "resynchronize"} /\ m.row = row

GivenUp(rows) == {x \in {"given_up"} : \E r \in rows : Outstanding(r)}

-----------------------------------------------------------------------------
(* A run of the reporter                                                   *)

At(where) == reporter.at = where

\* ensure_channels_reloaded
Seen == IF reporter.loaded THEN reporter.seen ELSE machine
Channel == UNION {Seen[k] : k \in Kinds}
Loaded == [reporter EXCEPT !.loaded = TRUE, !.seen = Seen]

\* spawn_reporter, run: a session id, and the hash=>id database if it is to be
\* had; the monitor starts the reporter for every task and every half hour.
Start(fetched) ==
    /\ At("none")
    /\ db_file' = (db_file \/ fetched)
    /\ reporter' = [Away EXCEPT !.at = "tasks", !.session = TRUE, !.attached = db_file']
    /\ excuses' = With("unnoticed", db_file' # db_file)
    /\ UNCHANGED <<machine, stamp, hash_ids, reported, requests, tasks, queue, server_vars,
                   told, bounds>>

\* _send_message_with_hash_id_request: first the row, then the message
Ask(type, hashes, run) ==
    /\ requests' = [r \in DOMAIN requests \cup {NewRow} |->
                      IF r = NewRow THEN [hashes |-> hashes, message |-> NotSent, old |-> FALSE]
                      ELSE requests[r]]
    /\ reporter' = [run EXCEPT !.at = "sending",
                      !.call = [type |-> type, id |-> NotSent, row |-> NewRow, hashes |-> hashes]]

\* _handle_next_task removes the task that succeeded, if it is still there.
Done(task) == IF tasks # <<>> /\ Head(tasks) = task THEN Tail(tasks) ELSE tasks

Sorted(S) == SetToSortSeq(S, <)

\* _handle_package_ids, _handle_unknown_packages
HandlePackageIds ==
    /\ At("tasks") /\ tasks # <<>> /\ Head(tasks).type = "package-ids"
    /\ LET task == Head(tasks)
           row == task.row
           hashes == requests[row].hashes
           both == DOMAIN hashes \cap DOMAIN task.ids
           found == {i \in both : task.ids[i] # NoId}
           new == [h \in {hashes[i] : i \in found} |->
                     task.ids[CHOOSE i \in found : hashes[i] = h]]
           unknown == {hashes[i] : i \in both \ found}
           run == [(IF unknown = {} THEN reporter ELSE Loaded) EXCEPT
                     !.got_task = TRUE, !.task = task]
       IN IF row \notin DOMAIN requests
          THEN /\ tasks' = Done(task) /\ reporter' = [reporter EXCEPT !.got_task = TRUE]
               /\ UNCHANGED <<hash_ids, requests, excuses>>
          ELSE /\ hash_ids' = set_hash_ids(new)
               /\ excuses' = With("misled", \E h \in DOMAIN new : new[h] # h)
               /\ IF unknown \cap Channel = {}
                  THEN /\ requests' = Without({row}) /\ reporter' = run
                       /\ tasks' = Done(task)
                  ELSE Ask("add-packages", Sorted(unknown \cap Channel), run) /\ UNCHANGED tasks
    /\ UNCHANGED <<machine, stamp, db_file, reported, queue, server_vars, told, bounds>>

Cleared == Kinds \ NotCleared

\* _handle_resynchronize.  A database that is attached stays so in this run.
HandleResynchronize ==
    /\ At("tasks") /\ tasks # <<>> /\ Head(tasks).type = "resynchronize"
    /\ hash_ids' = [h \in Hash |-> NoId] /\ db_file' = FALSE
    /\ reported' = [k \in Kinds |-> IF k \in Cleared THEN {} ELSE reported[k]]
    /\ requests' = NoRequest
    /\ excuses' = (excuses \ {"unsure", "discarded", "misled"}) \cup GivenUp(DOMAIN requests)
    /\ tasks' = Done(Head(tasks)) /\ reporter' = [reporter EXCEPT !.got_task = TRUE]
    /\ UNCHANGED <<machine, stamp, queue, server_vars, told, bounds>>

IsPending(id) == \E m \in Range(queue) : m.type # "resynchronize" /\ m.id = id

\* remove_expired_hash_id_requests
RemoveExpired ==
    /\ At("tasks") /\ tasks = <<>>
    /\ LET expired == {r \in DOMAIN requests :
                          \/ requests[r].message = NotSent
                          \/ ~IsPending(requests[r].message) /\ requests[r].old}
       IN requests' = Without(expired) /\ excuses' = excuses \cup GivenUp(expired)
    /\ reporter' = [reporter EXCEPT !.at = "requesting"]
    /\ UNCHANGED <<machine, stamp, hash_ids, db_file, reported, tasks, queue, server_vars,
                   told, bounds>>

\* request_unknown_hashes
RequestUnknown ==
    /\ At("requesting")
    /\ LET unknown == {h \in Channel : get_hash_id(h) = NoId}
                      \ UNION {Range(requests[r].hashes) : r \in DOMAIN requests}
           some == SubSeq(Sorted(unknown), 1, Min({MaxUnknown, Cardinality(unknown)}))
       IN IF unknown = {} THEN /\ reporter' = [Loaded EXCEPT !.at = "detecting"]
                               /\ UNCHANGED requests
                          ELSE Ask("unknown-package-hashes", some, Loaded)
    /\ UNCHANGED <<machine, stamp, hash_ids, db_file, reported, tasks, queue, server_vars,
                   told, excuses, bounds>>

\* The ids of each kind now, for what has one
Current(k) == {get_hash_id(h) : h \in Seen[k]} \ {NoId}

\* Mutant: ids that came are no reason to look
OnlyIfChanged == stamp # "fresh"

\* detect_packages_changes, _package_state_has_changed
MayHaveChanged == reporter.got_task \/ stamp # "fresh"

\* _compute_packages_changes
DetectChanges ==
    /\ At("detecting")
    /\ LET new == [k \in Kinds |-> Current(k) \ reported[k]]
           not == [k \in Kinds |-> reported[k] \ Current(k)]
       IN IF MayHaveChanged /\ (new # Nothing \/ not # Nothing)
          THEN /\ reporter' = [reporter EXCEPT !.at = "sending",
                                 !.call = [type |-> "packages", id |-> NotSent, new |-> new, not |-> not]]
               /\ UNCHANGED excuses
          ELSE /\ reporter' = Away
               /\ excuses' = IF MayHaveChanged THEN excuses \ {"unnoticed"} ELSE excuses
    /\ UNCHANGED <<machine, stamp, store_vars, tasks, queue, server_vars, told, bounds>>

-----------------------------------------------------------------------------
(* send_message                                                            *)

\* The tables will be cleared, though the ids of the sessions are new already.
ToReset == told \/ \E i \in DOMAIN tasks : tasks[i].type = "resynchronize"

\* The broker takes the message, or discards it with its session id.
BrokerTakes ==
    /\ At("sending")
    /\ IF reporter.session
       THEN /\ bounds' = [bounds EXCEPT !.sent = @ + 1]
            /\ queue' = Append(queue, [reporter.call EXCEPT !.id = bounds.sent + 1])
            /\ reporter' = [reporter EXCEPT !.at = "sent", !.message_id = bounds.sent + 1]
       ELSE /\ reporter' = [reporter EXCEPT !.at = "sent", !.message_id = NotSent]
            /\ UNCHANGED <<bounds, queue>>
    /\ excuses' = With("crossed", reporter.session /\ reporter.call.type = "packages" /\ ToReset)
    /\ UNCHANGED <<machine, stamp, store_vars, tasks, server_vars, told>>

\* set_message_id; then the request that led to this one is removed.
RequestSent ==
    /\ At("sent") /\ reporter.call.type # "packages"
    /\ LET given == [requests EXCEPT ![reporter.call.row].message = reporter.message_id]
       IN IF reporter.call.type = "add-packages"
          THEN /\ requests' = [r \in DOMAIN given \ {reporter.task.row} |-> given[r]]
               /\ tasks' = Done(reporter.task)
               /\ reporter' = [reporter EXCEPT !.at = "tasks", !.call = NoCall, !.task = NoTask]
          ELSE /\ requests' = given /\ UNCHANGED tasks
               /\ reporter' = [reporter EXCEPT !.at = "detecting", !.call = NoCall]
    /\ UNCHANGED <<machine, stamp, hash_ids, db_file, reported, queue, server_vars, told, excuses,
                   bounds>>

\* update_currently_known, whether the message was discarded or not
PackagesSent ==
    /\ At("sent") /\ reporter.call.type = "packages"
    /\ reported' = [k \in Kinds |-> (reported[k] \cup reporter.call.new[k]) \ reporter.call.not[k]]
    /\ stamp' = "fresh"
    /\ excuses' = (excuses \ {"unnoticed", "missed"})
                    \cup {x \in {"missed"} : reporter.seen # machine}
                    \cup {x \in {"discarded"} : reporter.message_id = NotSent /\ ~ToReset}
    /\ reporter' = Away
    /\ UNCHANGED <<machine, hash_ids, db_file, requests, tasks, queue, server_vars, told, bounds>>

Fault == bounds.faults < setting.faults /\ bounds' = [bounds EXCEPT !.faults = @ + 1]

\* What a run leaves behind that breaks off
Broken ==
    {x \in {"unnoticed"} : reporter.got_task}
    \cup {x \in {"unsure"} : /\ At("sent") /\ reporter.call.type = "packages"
                              /\ reporter.message_id # NotSent}

\* send_message_failed: the request is removed, and the run ends.
CallFails ==
    /\ reporter.at \in {"sending", "sent"} /\ Fault
    /\ LET rows == IF reporter.call.type = "packages" THEN {} ELSE {reporter.call.row}
       IN requests' = Without(rows) /\ excuses' = excuses \cup Broken \cup GivenUp(rows)
    /\ reporter' = Away
    /\ UNCHANGED <<machine, stamp, hash_ids, db_file, reported, tasks, queue, server_vars, told>>

Killed ==
    /\ ~At("none") /\ Fault /\ reporter' = Away /\ excuses' = excuses \cup Broken
    /\ UNCHANGED <<machine, stamp, store_vars, tasks, queue, server_vars, told>>

-----------------------------------------------------------------------------
(* The server, the broker, the monitor and the machine                     *)

\* The server answers with the ids it has, and with none for a package it has
\* never heard of.
ServerTakes ==
    /\ queue # <<>> /\ queue' = Tail(queue)
    /\ LET message == Head(queue)
           knows == server_knows \cup (IF message.type = "add-packages"
                                       THEN Range(message.hashes) ELSE {})
       IN CASE message.type = "packages" ->
                 /\ view' = [k \in Kinds |-> (view[k] \cup message.new[k]) \ message.not[k]]
                 /\ UNCHANGED <<answers, server_knows>>
            [] message.type = "resynchronize" ->
                 view' = Nothing /\ UNCHANGED <<answers, server_knows>>
            [] OTHER ->
                 /\ server_knows' = knows /\ UNCHANGED view
                 /\ answers' = Append(answers,
                      [type |-> "package-ids", row |-> message.row,
                       ids |-> [i \in DOMAIN message.hashes |->
                                  IF message.hashes[i] \in knows THEN message.hashes[i]
                                  ELSE NoId]])
    /\ UNCHANGED <<machine, stamp, store_vars, tasks, reporter, told, excuses, bounds>>

\* PackageMonitor._enqueue_message_as_reporter_task; a message of the server may
\* come a second time.
Enqueue(repeats) ==
    /\ answers # <<>>
    /\ repeats => bounds.repeats < setting.repeats
    /\ tasks' = Append(tasks, Head(answers))
    /\ answers' = IF repeats THEN answers ELSE Tail(answers)
    /\ bounds' = IF repeats THEN [bounds EXCEPT !.repeats = @ + 1] ELSE bounds
    /\ excuses' = With("repeated", repeats)
    /\ UNCHANGED <<machine, stamp, store_vars, reporter, queue, view, server_knows, told>>

\* HASH_ID_REQUEST_TIMEOUT seconds since the message was last seen in the queue
GetsOld(row) ==
    /\ row \in DOMAIN requests /\ bounds.old < setting.old
    /\ requests[row].message # NotSent /\ ~IsPending(requests[row].message)
    /\ ~requests[row].old
    /\ requests' = [requests EXCEPT ![row].old = TRUE]
    /\ bounds' = [bounds EXCEPT !.old = @ + 1]
    /\ UNCHANGED <<machine, stamp, hash_ids, db_file, reported, tasks, reporter, queue,
                   server_vars, told, excuses>>

\* _handle_resynchronize of the exchange: an answer goes into the queue, and no
\* session id is valid any more.  If the message names scopes, the reporter, whose
\* id has none, keeps it, and the monitor's plugin is reset all the same.
Resynchronize ==
    /\ bounds.resyncs < setting.resyncs /\ ~told
    /\ bounds' = [bounds EXCEPT !.resyncs = @ + 1]
    /\ queue' = Append(queue, [type |-> "resynchronize"])
    /\ \E scopes \in BOOLEAN : reporter' = [reporter EXCEPT !.session = @ /\ scopes]
    /\ told' = TRUE
    /\ UNCHANGED <<machine, stamp, store_vars, tasks, server_vars, excuses>>

\* PackageMonitor._reset
Reset ==
    /\ told /\ told' = FALSE
    /\ tasks' = <<[type |-> "resynchronize"]>>
    /\ UNCHANGED <<machine, stamp, store_vars, reporter, queue, server_vars, excuses, bounds>>

\* A package is installed, removed, held...
Change(k, h) ==
    /\ bounds.changes < setting.changes /\ bounds' = [bounds EXCEPT !.changes = @ + 1]
    /\ machine' = [machine EXCEPT ![k] = IF h \in @ THEN @ \ {h} ELSE @ \cup {h}]
    /\ stamp' = IF stamp = "fresh" THEN "old" ELSE stamp
    /\ excuses' = excuses \ {"missed"}
    /\ UNCHANGED <<store_vars, tasks, reporter, queue, server_vars, told>>

-----------------------------------------------------------------------------
Starts == \E fetched \in BOOLEAN : (fetched => Canned # {}) /\ Start(fetched)
Run == \/ HandlePackageIds \/ HandleResynchronize \/ RemoveExpired \/ RequestUnknown
       \/ DetectChanges \/ BrokerTakes \/ RequestSent \/ PackagesSent

Next ==
    /\ \/ Starts \/ Run \/ CallFails \/ Killed
       \/ ServerTakes \/ (\E repeats \in BOOLEAN : Enqueue(repeats))
       \/ (\E row \in DOMAIN requests : GetsOld(row))
       \/ Resynchronize \/ Reset
       \/ (\E k \in Cleared, h \in Hash : Change(k, h))
    /\ UNCHANGED setting

On(A) == A /\ UNCHANGED setting

\* The reporter is started again and again and goes on, messages arrive.
Spec ==
    /\ Init /\ [][Next]_vars
    /\ WF_vars(On(Starts)) /\ WF_vars(On(Run)) /\ WF_vars(On(ServerTakes))
    /\ WF_vars(On(\E repeats \in BOOLEAN : Enqueue(repeats))) /\ WF_vars(On(Reset))

-----------------------------------------------------------------------------
(***************************************************************************)
(* A hash has the id that the server gave it, unless a request was given   *)
(* up (too old, resynchronised, its call failed, its reporter killed)      *)
(* while it was still to be answered, or an answer came a second time: its *)
(* row, and with it its id, may then belong to another request.            *)
(***************************************************************************)
IdsRight ==
    \/ excuses \cap {"given_up", "repeated"} # {}
    \/ \A h \in Hash : hash_ids[h] \in {NoId, h}

(***************************************************************************)
(* Once nothing changes any more the server has the machine's packages, of *)
(* every kind that is sent again after a resynchronisation: through        *)
(* discarded messages, lost requests, kills and failing calls.  Not so if  *)
(* a change fell between the look at APT's data and the new stamp, or ids  *)
(* came (with a database, or in a run that then broke) that no run since   *)
(* has looked with.                                                        *)
(***************************************************************************)
PackagesReported ==
    <>[](\/ excuses \ {"given_up", "repeated"} # {}
         \/ \A k \in Cleared : view[k] = machine[k])
=============================================================================
