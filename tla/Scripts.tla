------------------------------ MODULE Scripts ------------------------------
(***************************************************************************)
(* Scripts that the manager runs for the server                            *)
(* (landscape/client/manager/scriptexecution.py): the file, the umask of   *)
(* the whole process, attachments, the child process with its pipes, the   *)
(* time limit, and the answer.                                             *)
(*                                                                         *)
(* The system reports the end of a process in two parts: it is reaped, and *)
(* its pipes are closed, later if it left children that have them open.    *)
(* processEnded comes after both.                                          *)
(***************************************************************************)
EXTENDS Naturals, Sequences

CONSTANTS
    Script,         \* the scripts
    Limited,        \* those with a time limit
    Attached,       \* those with attachments
    MaxFaults       \* bound: calls of send_message that fail

VARIABLES
    script,         \* how far each one is
    process, pipes, timer,
    umask,
    spawned,        \* the umask its process was started with
    received,       \* the answers the broker has received
    overlapped,     \* two scripts had the umask at the same time
    swept,          \* scripts during the start of which another one ended
    faults

vars == <<script, process, pipes, timer, umask, spawned, received, overlapped, swept, faults>>

Daemon == "daemon"      \* the umask of the manager
Open == "022"

SUCCEEDED == "SUCCEEDED"
FAILED == "FAILED"
TIMEOUT == "TIMEOUT"            \* FAILED with TIMEOUT_RESULT
PROCESS_FAILED == "PROCESS_FAILED"

New == [at |-> "waiting", old_umask |-> Daemon, cancelled |-> FALSE, status |-> SUCCEEDED]

Init ==
    /\ script = [s \in Script |-> New]
    /\ process = [s \in Script |-> "none"]
    /\ pipes = [s \in Script |-> FALSE]
    /\ timer = [s \in Script |-> FALSE]
    /\ umask = Daemon
    /\ spawned = [s \in Script |-> "never"]
    /\ received = [s \in Script |-> <<>>]
    /\ overlapped = FALSE /\ swept = {} /\ faults = 0

\* Between os.umask(0o022) and _cleanup
Busy == {s \in Script : script[s].at \in {"fetching", "running"}}

Move(s, where, status) ==
    script' = [script EXCEPT ![s] =
                 [at |-> where, old_umask |-> script[s].old_umask,
                  cancelled |-> script[s].cancelled, status |-> status]]

-----------------------------------------------------------------------------
(* The start                                                               *)

\* A user who is not allowed or not known, an interpreter that is not there,
\* no room for the file
Refuse(s) ==
    /\ script[s].at = "waiting"
    /\ Move(s, "answering", FAILED)
    /\ UNCHANGED <<process, pipes, timer, umask, spawned, received, overlapped, swept, faults>>

\* Mutant: the umask is not put back
KeepUmask(s) == umask' = umask

\* _cleanup: the file, the attachments and the umask
_cleanup(s) == umask' = script[s].old_umask

Spawn(s) ==
    /\ process' = [process EXCEPT ![s] = "running"]
    /\ pipes' = [pipes EXCEPT ![s] = TRUE]
    /\ timer' = [timer EXCEPT ![s] = s \in Limited]

\* run_script up to _save_attachments or _run_script
RunScript(s) ==
    /\ script[s].at = "waiting"
    /\ umask' = Open
    /\ overlapped' = (overlapped \/ Busy # {})
    /\ script' = [script EXCEPT ![s] =
                    [New EXCEPT !.at = IF s \in Attached THEN "fetching" ELSE "running",
                                !.old_umask = umask]]
    /\ IF s \in Attached
       THEN UNCHANGED <<process, pipes, timer, spawned>>
       ELSE Spawn(s) /\ spawned' = [spawned EXCEPT ![s] = umask']
    /\ UNCHANGED <<received, swept, faults>>

\* prepare_script
Fetched(s) ==
    /\ script[s].at = "fetching"
    /\ Move(s, "running", script[s].status)
    /\ Spawn(s) /\ spawned' = [spawned EXCEPT ![s] = umask]
    /\ UNCHANGED <<umask, received, overlapped, swept, faults>>

End(s, status) ==
    /\ Move(s, "answering", status)
    /\ _cleanup(s)
    /\ swept' = swept \cup {t \in Busy \ {s} : script[t].at = "fetching"}

\* HTTPCodeError, any other error, or the process can not be started
FetchFails(s) ==
    /\ script[s].at = "fetching" /\ End(s, FAILED)
    /\ UNCHANGED <<process, pipes, timer, spawned, received, overlapped, faults>>

-----------------------------------------------------------------------------
(* The process                                                             *)

\* It ends by itself; its children may go on and hold the pipes.
Exits(s) ==
    /\ process[s] = "running"
    /\ \E how \in {"done", "failed"} : process' = [process EXCEPT ![s] = how]
    /\ UNCHANGED <<script, pipes, timer, umask, spawned, received, overlapped, swept, faults>>

ChildrenEnd(s) ==
    /\ process[s] \notin {"none", "running"} /\ pipes[s]
    /\ pipes' = [pipes EXCEPT ![s] = FALSE]
    /\ UNCHANGED <<script, process, timer, umask, spawned, received, overlapped, swept, faults>>

Reaped(how) == CASE how = "done" -> "reaped_done" [] OTHER -> "reaped_failed"
IsReaped(s) == process[s] \in {"reaped_done", "reaped_failed"}

Reap(s) ==
    /\ process[s] \in {"done", "failed", "killed"}
    /\ process' = [process EXCEPT ![s] = Reaped(@)]
    /\ UNCHANGED <<script, pipes, timer, umask, spawned, received, overlapped, swept, faults>>

\* Mutant: the pipes stay open
LetGo(s) == pipes

\* closeChildFD
CloseAll(s) == [pipes EXCEPT ![s] = FALSE]

\* _cancel: signalProcess raises if the process has been reaped, and then
\* _cancelled is not set.
_cancel(s) ==
    /\ timer[s] /\ script[s].at = "running"
    /\ timer' = [timer EXCEPT ![s] = FALSE]
    /\ pipes' = CloseAll(s)
    /\ process' = [process EXCEPT ![s] = IF @ = "running" THEN "killed" ELSE @]
    /\ script' = [script EXCEPT ![s].cancelled = ~IsReaped(s)]
    /\ UNCHANGED <<umask, spawned, received, overlapped, swept, faults>>

\* processEnded, then _respond_success or _respond_failure
Outcome(s) ==
    IF script[s].cancelled THEN TIMEOUT
    ELSE IF process[s] = "reaped_done" THEN SUCCEEDED ELSE PROCESS_FAILED

ProcessEnded(s) ==
    /\ script[s].at = "running" /\ IsReaped(s) /\ ~pipes[s]
    /\ timer' = [timer EXCEPT ![s] = FALSE]
    /\ End(s, Outcome(s))
    /\ UNCHANGED <<process, pipes, spawned, received, overlapped, faults>>

-----------------------------------------------------------------------------
(* The answer                                                              *)

Receive(s) == received' = [received EXCEPT ![s] = Append(@, script[s].status)]

Answered(s) ==
    /\ script[s].at = "answering"
    /\ Receive(s) /\ Move(s, "over", script[s].status)
    /\ UNCHANGED <<process, pipes, timer, umask, spawned, overlapped, swept, faults>>

\* The errback follows the callback: what it says of a script that has
\* succeeded is FAILED.
AnswerFails(s) ==
    /\ script[s].at = "answering" /\ faults < MaxFaults
    /\ faults' = faults + 1
    /\ Receive(s) \/ UNCHANGED received
    /\ IF script[s].status = SUCCEEDED THEN Move(s, "answering", FAILED)
                                       ELSE Move(s, "over", script[s].status)
    /\ UNCHANGED <<process, pipes, timer, umask, spawned, overlapped, swept>>

-----------------------------------------------------------------------------
Next ==
    \E s \in Script :
        \/ Refuse(s) \/ RunScript(s) \/ Fetched(s) \/ FetchFails(s)
        \/ Exits(s) \/ ChildrenEnd(s) \/ Reap(s) \/ _cancel(s) \/ ProcessEnded(s)
        \/ Answered(s) \/ AnswerFails(s)

\* The reactor does its part; a script need not end, nor its children.
Fairness ==
    \A s \in Script :
        /\ WF_vars(RunScript(s)) /\ WF_vars(Fetched(s)) /\ WF_vars(Reap(s))
        /\ WF_vars(_cancel(s)) /\ WF_vars(ProcessEnded(s)) /\ WF_vars(Answered(s))

Spec == Init /\ [][Next]_vars /\ Fairness

-----------------------------------------------------------------------------
(***************************************************************************)
(* A script runs with the umask 022, and the manager has its own one back  *)
(* afterwards.  Two scripts at a time may spoil that: one that ended while *)
(* the other fetched its attachments, or the order in which they put back  *)
(* what they had found.                                                    *)
(***************************************************************************)
UmaskKept ==
    /\ \A s \in Script : spawned[s] \in {"never", Open} \/ s \in swept
    /\ Busy = {} /\ ~overlapped => umask = Daemon
    /\ umask = Daemon => Busy = {} \/ overlapped

(***************************************************************************)
(* What the server hears of a script is how its process ended: SUCCEEDED   *)
(* only if it did so by itself and without an error, TIMEOUT only with a   *)
(* time limit, and no process is left running.  FAILED after SUCCEEDED     *)
(* comes from a call that failed.                                          *)
(***************************************************************************)
HowItEnded ==
    \A s \in Script :
        /\ \A i \in DOMAIN received[s] :
             /\ received[s][i] = SUCCEEDED => process[s] = "reaped_done"
             /\ received[s][i] = TIMEOUT => s \in Limited
             /\ received[s][i] = PROCESS_FAILED => process[s] = "reaped_failed"
        /\ Len(received[s]) > 1 => received[s] = <<SUCCEEDED, FAILED>> /\ faults > 0
        /\ script[s].at = "over" => process[s] # "running" /\ ~pipes[s] /\ ~timer[s]

(***************************************************************************)
(* A script with a time limit comes to its end, whether it stops, its      *)
(* children keep its pipes, or its limit is reached as it ends; and then   *)
(* it is answered.  So is one without a limit that does end.               *)
(***************************************************************************)
ScriptsEnd ==
    \A s \in Script :
        (script[s].at # "waiting" /\ s \in Limited) \/ (IsReaped(s) /\ ~pipes[s])
            ~> script[s].at = "over" /\ (received[s] # <<>> \/ faults > 0)
=============================================================================
