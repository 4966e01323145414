---------------------------- MODULE PackageTasks ----------------------------
(***************************************************************************)
(* Package work as tasks: the table of tasks in SQLite                     *)
(* (lib/apt/package/store.py), the plugins that add to it                  *)
(* (manager/packagemanager.py, monitor/packagemonitor.py) and the          *)
(* short-lived processes that work it off, one at a time for each queue    *)
(* (package/taskhandler.py, changer.py, releaseupgrader.py, reporter.py).  *)
(*                                                                         *)
(* Every process is concurrent with every other; a step is one transaction *)
(* of the database, one call of the broker or one run of APT.  Rows have   *)
(* the numbers SQLite gives them: one more than the largest there is.      *)
(* What the reporter's tasks do to hashes and packages is left out.        *)
(***************************************************************************)
EXTENDS Naturals, FiniteSetsExt, Functions

CONSTANTS
  Changes,      \* change-packages and change-package-locks messages
  Upgrades,     \* release-upgrade messages
  Settings      \* what may happen: the messages sent, and how often at most the
                \* rest of it; and whether a behaviour has to go on (fair)

Operations == Changes \cup Upgrades
ReporterTasks == {"package-ids", "resynchronize"}
Queues == {"changer", "release-upgrader", "reporter"}

ASSUME TasksAssumption ==
  /\ Changes \cap Upgrades = {} /\ Operations \cap ReporterTasks = {}
  /\ Settings \subseteq [sent : SUBSET Operations, ids : Nat, resyncs : Nat,
                          breaks : Nat, downs : Nat, fair : BOOLEAN]

VARIABLES
  rows,       \* the task table: row -> what is to be done
  handler,    \* per queue: the process that holds the lock
  spawned,    \* the queues for which a process was started that has yet to try
              \* its lock (a second one would find nothing the first does not)
  reset,      \* the monitor in a resynchronisation: it was told, the row it added
  stamp,      \* the update stamp exists
  broker,     \* the broker can be reached
  unsent,     \* answers of the upgrader that nobody waits for
  op,         \* per operation: how often it was performed and answered
  history,    \* what happened, for the properties
  bounds,     \* how often what the setting bounds has happened
  setting     \* one of Settings

vars == <<rows, handler, spawned, reset, stamp, broker, unsent, op, history, bounds,
          setting>>

QueueOf(what) == CASE what \in Changes -> "changer"
                   [] what \in Upgrades -> "release-upgrader"
                   [] OTHER -> "reporter"

NoReset == [told |-> FALSE, row |-> 0]

NoProcess == [stage |-> "none", row |-> 0, what |-> "nothing", count |-> FALSE,
              session |-> FALSE]

Init ==
  /\ rows = <<>>
  /\ handler = [q \in Queues |-> NoProcess]
  /\ spawned = {} /\ reset = NoReset /\ stamp \in BOOLEAN /\ broker = TRUE /\ unsent = {}
  /\ op = [o \in Operations |-> [performed |-> 0, answered |-> 0]]
  /\ history = [added |-> {}, cleared |-> {}, dropped |-> {}, overtaken |-> FALSE]
  /\ setting \in Settings
  /\ bounds = [ids |-> 0, resyncs |-> 0, breaks |-> 0, downs |-> 0]

-----------------------------------------------------------------------------
(* The table.                                                              *)

\* add_task
NewRow == IF DOMAIN rows = {} THEN 1 ELSE Max(DOMAIN rows) + 1
AddTask(what) == [r \in DOMAIN rows \cup {NewRow} |-> IF r = NewRow THEN what ELSE rows[r]]

\* get_next_task: rows are numbered in the order of their timestamps.
RowsOf(q) == {r \in DOMAIN rows : QueueOf(rows[r]) = q}
NextTask(q) == Min(RowsOf(q))

\* PackageTask.remove
Removed(row) == Restrict(rows, DOMAIN rows \ {row})

-----------------------------------------------------------------------------
(* The plugins.                                                            *)

\* PackageManager._handle
ManagerMessage(o) ==
  /\ o \in setting.sent \ history.added
  /\ rows' = AddTask(o)
  /\ spawned' = spawned \cup {QueueOf(o)}
  /\ history' = [history EXCEPT !.added = @ \cup {o}]
  /\ UNCHANGED <<handler, reset, stamp, broker, unsent, op, bounds>>

\* Mutant: only a new message makes the manager look for tasks.
ManagerRunIdle ==
  /\ broker /\ FALSE
  /\ UNCHANGED <<rows, handler, spawned, reset, stamp, broker, unsent, op, history, bounds>>

\* PackageManager.run, every half hour and when package data has changed; both
\* types of answers are accepted.
ManagerRun ==
  /\ broker
  /\ spawned' = spawned \cup {q \in Queues \ {"reporter"} : RowsOf(q) # {}}
  /\ UNCHANGED <<rows, handler, reset, stamp, broker, unsent, op, history, bounds>>

\* _enqueue_message_as_reporter_task
MonitorMessage ==
  /\ bounds.ids < setting.ids /\ reset.row = 0
  /\ rows' = AddTask("package-ids")
  /\ spawned' = spawned \cup {"reporter"}
  /\ bounds' = [bounds EXCEPT !.ids = @ + 1]
  /\ UNCHANGED <<handler, reset, stamp, broker, unsent, op, history>>

\* PackageMonitor.run
MonitorRun ==
  /\ broker /\ reset.row = 0
  /\ spawned' = spawned \cup {"reporter"}
  /\ UNCHANGED <<rows, handler, reset, stamp, broker, unsent, op, history, bounds>>

\* The broker drops the session ids, all of them or those of one scope (the
\* handlers ask for none), and tells the monitor.
Resynchronize ==
  /\ broker /\ reset = NoReset /\ bounds.resyncs < setting.resyncs
  /\ reset' = [reset EXCEPT !.told = TRUE]
  /\ \E all \in BOOLEAN :
       /\ handler' = [q \in Queues |-> [handler[q] EXCEPT !.session = @ /\ ~all]]
       /\ unsent' = IF all THEN {} ELSE unsent
  /\ history' = [history EXCEPT !.overtaken = @ \/ handler' # handler,
                                !.dropped = @ \cup (unsent \ unsent')]
  /\ bounds' = [bounds EXCEPT !.resyncs = @ + 1]
  /\ UNCHANGED <<rows, spawned, stamp, broker, op>>

\* PackageMonitor._reset: its own task first, and then away with all others.
ResetAdds ==
  /\ reset.told
  /\ rows' = AddTask("resynchronize") /\ reset' = [told |-> FALSE, row |-> NewRow]
  /\ UNCHANGED <<handler, spawned, stamp, broker, unsent, op, history, bounds>>
ResetClears ==
  /\ reset.row # 0
  /\ rows' = Restrict(rows, DOMAIN rows \cap {reset.row})
  /\ reset' = NoReset
  /\ history' = [history EXCEPT
       !.cleared = @ \cup (Operations \cap (Range(rows) \ Range(rows'))),
       !.overtaken = @ \/ \E q \in Queues : handler[q].row # 0]
  /\ UNCHANGED <<handler, spawned, stamp, broker, unsent, op, bounds>>

-----------------------------------------------------------------------------
(* run_task_handler and PackageTaskHandler.                                *)

Stage(q) == handler[q].stage
To(q, stage) == handler' = [handler EXCEPT ![q].stage = stage]

\* The process is gone, and its lock with it.  What the upgrader did not wait
\* for is lost if the broker is not there to take it.
Leaves(q) ==
  /\ handler' = [handler EXCEPT ![q] = NoProcess]
  /\ unsent' = IF q = "release-upgrader" /\ ~broker THEN {} ELSE unsent
  /\ history' = [history EXCEPT !.dropped = @ \cup (unsent \ unsent')]

\* run_task_handler: a process takes the lock of its queue, or leaves again, as
\* the changer does if the reporter has never updated APT's lists.
Starts(q) ==
  /\ q \in spawned
  /\ spawned' = spawned \ {q}
  /\ IF Stage(q) # "none" \/ (q = "changer" /\ ~stamp)
     THEN UNCHANGED handler
     ELSE To(q, IF q = "release-upgrader" THEN "running" ELSE "starting")
  /\ UNCHANGED <<rows, reset, stamp, broker, unsent, op, history, bounds>>

\* PackageChanger.run and PackageReporter.run up to handle_tasks: both get a
\* session id, and wait for a broker that is away with their lock held.  The
\* reporter updates the lists, unless a release upgrade is under way.
Prepares(q, updates) ==
  /\ broker /\ Stage(q) = "starting"
  /\ handler' = [handler EXCEPT ![q].stage = "running", ![q].session = TRUE]
  /\ stamp' = (stamp \/ (q = "reporter" /\ updates))
  /\ UNCHANGED <<rows, spawned, reset, broker, unsent, op, history, bounds>>

\* Mutant: the task is removed when it is picked.
PicksAndRemoves(q) ==
  /\ Stage(q) = "running" /\ RowsOf(q) # {}
  /\ handler' = [handler EXCEPT ![q].stage = "handling", ![q].row = NextTask(q),
                                ![q].what = rows[NextTask(q)]]
  /\ rows' = Removed(NextTask(q))
  /\ UNCHANGED <<spawned, reset, stamp, broker, unsent, op, history, bounds>>

\* _handle_next_task: the next task, or the end.
Picks(q) ==
  /\ Stage(q) = "running" /\ RowsOf(q) # {}
  /\ handler' = [handler EXCEPT ![q].stage = "handling", ![q].row = NextTask(q),
                                ![q].what = rows[NextTask(q)]]
  /\ UNCHANGED <<rows, spawned, reset, stamp, broker, unsent, op, history, bounds>>
PicksNone(q) ==
  /\ Stage(q) = "running" /\ RowsOf(q) = {}
  /\ To(q, "finishing")
  /\ UNCHANGED <<rows, spawned, reset, stamp, broker, unsent, op, history, bounds>>

\* The task succeeded: its row is removed, whatever is in it by now.
Removes(q) ==
  /\ Stage(q) = "handled"
  /\ rows' = Removed(handler[q].row)
  /\ handler' = [handler EXCEPT ![q].stage = "running", ![q].row = 0,
                                ![q].what = "nothing", ![q].count = TRUE]
  /\ UNCHANGED <<spawned, reset, stamp, broker, unsent, op, history, bounds>>

\* The queue is empty or a task failed.  The changer runs the reporter if it
\* has done something, and waits for it with its lock held; how long that is
\* does not matter here.
Finishes(q) ==
  /\ Stage(q) = "finishing"
  /\ spawned' = IF q = "changer" /\ handler[q].count THEN spawned \cup {"reporter"}
                                                     ELSE spawned
  /\ Leaves(q)
  /\ UNCHANGED <<rows, reset, stamp, broker, op, bounds>>

\* The process is killed, or a task raises what is not a PackageTaskError.
Breaks(q) ==
  /\ Stage(q) # "none" /\ bounds.breaks < setting.breaks
  /\ bounds' = [bounds EXCEPT !.breaks = @ + 1]
  /\ Leaves(q)
  /\ UNCHANGED <<rows, spawned, reset, stamp, broker, op>>

-----------------------------------------------------------------------------
(* Handling a task.                                                        *)

Performed(q) == [op EXCEPT ![handler[q].what].performed = @ + 1]
Answered(q) == [op EXCEPT ![handler[q].what].answered = @ + 1]

\* change_packages with any result; package locks are not supported and only
\* answered, as is a task that waited too long for the reporter.
Change(performs) ==
  /\ Stage("changer") = "handling"
  /\ To("changer", "answering")
  /\ op' = IF performs THEN Performed("changer") ELSE op
  /\ UNCHANGED <<rows, spawned, reset, stamp, broker, unsent, history, bounds>>

\* UnknownPackageData, and the task is not old: PackageTaskError.
Postpones ==
  /\ Stage("changer") = "handling"
  /\ To("changer", "finishing")
  /\ UNCHANGED <<rows, spawned, reset, stamp, broker, unsent, op, history, bounds>>

\* The broker takes the answer, or discards it if the session id was dropped.
Answers ==
  /\ broker /\ Stage("changer") = "answering"
  /\ To("changer", "handled")
  /\ op' = IF handler["changer"].session THEN Answered("changer") ELSE op
  /\ UNCHANGED <<rows, spawned, reset, stamp, broker, unsent, history, bounds>>

\* handle_release_upgrade runs the upgrade tool, or a step before that fails.
Upgrade(performs) ==
  /\ Stage("release-upgrader") = "handling"
  /\ To("release-upgrader", IF performs THEN "answering" ELSE "aborting")
  /\ op' = IF performs THEN Performed("release-upgrader") ELSE op
  /\ UNCHANGED <<rows, spawned, reset, stamp, broker, unsent, history, bounds>>

\* _send_message of the upgrader asks for a session id; the result of
\* send_message is not returned, and nobody waits for it.
SendsUnwaited ==
  /\ broker /\ Stage("release-upgrader") \in {"answering", "aborting"}
  /\ unsent' = unsent \cup {handler["release-upgrader"].what}
  /\ To("release-upgrader",
        IF Stage("release-upgrader") = "aborting" THEN "handled" ELSE "tidying")
  /\ UNCHANGED <<rows, spawned, reset, stamp, broker, op, history, bounds>>

\* finish: the tool is removed and the reporter run; if that fails, abort sends
\* a second answer.
Tidies ==
  /\ Stage("release-upgrader") = "tidying"
  /\ \/ /\ To("release-upgrader", "handled")
        /\ spawned' = spawned \cup {"reporter"}
        /\ UNCHANGED bounds
     \/ /\ bounds.breaks < setting.breaks
        /\ bounds' = [bounds EXCEPT !.breaks = @ + 1]
        /\ To("release-upgrader", "aborting")
        /\ UNCHANGED spawned
  /\ UNCHANGED <<rows, reset, stamp, broker, unsent, op, history>>

Delivered(o) ==
  /\ broker /\ o \in unsent
  /\ unsent' = unsent \ {o}
  /\ op' = [op EXCEPT ![o].answered = @ + 1]
  /\ UNCHANGED <<rows, handler, spawned, reset, stamp, broker, history, bounds>>

\* PackageReporter.handle_task, of either kind.
Reports ==
  /\ Stage("reporter") = "handling"
  /\ To("reporter", "handled")
  /\ UNCHANGED <<rows, spawned, reset, stamp, broker, unsent, op, history, bounds>>

\* The broker goes away, as when the client itself is upgraded, and returns.
\* What was on its way is sent again by a process that is still there, also if
\* the broker has already taken it.
BrokerGoes ==
  /\ broker /\ bounds.downs < setting.downs
  /\ broker' = FALSE
  /\ bounds' = [bounds EXCEPT !.downs = @ + 1]
  /\ unsent' = IF Stage("release-upgrader") = "none" THEN {} ELSE unsent
  /\ op' \in {op} \cup {[op EXCEPT ![o].answered = @ + 1] : o \in unsent}
            \cup {Answered(q) : q \in {"changer"} \cap
                    {p \in Queues : Stage(p) = "answering" /\ handler[p].session}}
  /\ history' = [history EXCEPT !.dropped = @ \cup (unsent \ unsent')]
  /\ UNCHANGED <<rows, handler, spawned, reset, stamp>>
BrokerReturns ==
  /\ ~broker /\ broker' = TRUE
  /\ UNCHANGED <<rows, handler, spawned, reset, stamp, unsent, op, history, bounds>>

-----------------------------------------------------------------------------
Plugins == ManagerRun \/ MonitorMessage \/ MonitorRun
           \/ Resynchronize \/ ResetAdds \/ ResetClears
           \/ \E o \in Operations : ManagerMessage(o)
Process(q) == (\E updates \in BOOLEAN : Prepares(q, updates)) \/ Picks(q) \/ PicksNone(q) \/ Removes(q) \/ Finishes(q)
Handling == \/ \E performs \in BOOLEAN : Change(performs) \/ Upgrade(performs)
            \/ Postpones \/ Answers \/ SendsUnwaited \/ Tidies \/ Reports
            \/ \E o \in Operations : Delivered(o)

Next == /\ \/ Plugins \/ Handling \/ BrokerGoes \/ BrokerReturns
           \/ \E q \in Queues : Starts(q) \/ Process(q) \/ Breaks(q)
        /\ UNCHANGED setting

Runs(A) == setting.fair /\ A /\ UNCHANGED setting

Spec == Init /\ [][Next]_vars

\* The plugins run at their intervals, processes go on, the broker returns, and
\* a change is not postponed for ever: in the end its data is there, or it is
\* too old.
FairSpec ==
  /\ Spec
  /\ WF_vars(Runs(ManagerRun)) /\ WF_vars(Runs(MonitorRun))
  /\ WF_vars(Runs(ResetAdds)) /\ WF_vars(Runs(ResetClears))
  /\ \A q \in Queues : WF_vars(Runs(Starts(q))) /\ WF_vars(Runs(Process(q)))
  /\ WF_vars(Runs(BrokerReturns)) /\ WF_vars(Runs(Answers)) /\ WF_vars(Runs(Reports))
  /\ WF_vars(Runs(SendsUnwaited)) /\ WF_vars(Runs(Tidies))
  /\ SF_vars(Runs(Prepares("reporter", TRUE)))
  /\ SF_vars(Runs(\E performs \in BOOLEAN : Change(performs)))
  /\ WF_vars(Runs(\E performs \in BOOLEAN : Upgrade(performs)))
  /\ WF_vars(Runs(\E o \in Operations : Delivered(o)))

-----------------------------------------------------------------------------
\* Where an operation is that was sent to this machine.
Queued(o) == o \in Range(rows)
Told(o) == op[o].answered > 0 \/ o \in unsent

\* An operation stays in the table until it is answered, through kills and
\* absences of the broker (handle_task: "the failed task won't be removed from
\* the queue"), unless a resynchronisation clears it or overtakes a handler:
\* then the row that is removed may be that of another operation by now, and an
\* answer under a session id that was dropped is discarded.  The upgrader does
\* not wait until its answer is taken.
TasksKept ==
  history.overtaken \/
    \A o \in history.added :
      Queued(o) \/ Told(o) \/ o \in history.cleared \cup history.dropped

\* Nothing is done to the packages twice, or answered twice, more often than
\* handlers and the broker break, unless a resynchronisation overtakes them.
RepeatsExplained ==
  history.overtaken \/
    \A o \in Operations :
      /\ op[o].performed <= 1 + bounds.breaks
      /\ op[o].answered <= 1 + bounds.breaks + bounds.downs

\* No operation is lost, and none is done or answered more often than handlers
\* and the broker break (handle_task, handle_release_upgrade).
TasksRight == TasksKept /\ RepeatsExplained

\* Every operation leaves its queue, though a handler that is started for it
\* may find the lock of one that is about to leave.
TasksEnd == setting.fair => \A o \in Operations : Queued(o) ~> ~Queued(o)
=============================================================================
