----------------------------- MODULE Operations -----------------------------
(***************************************************************************)
(* Operations of the manager under way at the same time, each with its     *)
(* steps and its answer (ManagerPlugin.call_with_operation_result and the  *)
(* plugins that have their own way).  A call of send_message may fail      *)
(* though the broker has received it.  The process may be killed.          *)
(***************************************************************************)
EXTENDS OperationKinds, Naturals

CONSTANTS
    Operation,      \* the operations
    KindsTogether,  \* functions from Operation to kinds
    MaxFaults       \* bound: failing calls of send_message, and crashes

NamesOf(s) == {s[i] : i \in DOMAIN s}

Kind ==
    [steps : Seq(STRING), unguarded : SUBSET STRING, collected : SUBSET STRING,
     ignored : SUBSET STRING, closing : Seq(STRING), again : BOOLEAN, anyway : BOOLEAN]

\* What follows the answer is not what is done before it.  An answer that may
\* be followed by another one is not followed by more work if it fails.
ASSUME KindsAssumption ==
    /\ KindsTogether \subseteq [Operation -> Kind]
    /\ \A k \in KindsTogether, o \in Operation :
         /\ NamesOf(k[o].steps) \cap (NamesOf(k[o].closing) \cup {"call", "crash", "shared"}) = {}
         /\ k[o].again => ~k[o].anyway /\ "send_changes" \notin NamesOf(k[o].closing)

VARIABLES
    kind,           \* the kind of each operation
    op,             \* how far each one is
    did,            \* the steps it has really done
    received,       \* the answers the broker has received
    user_monitor,   \* UserManager._user_monitor: whose connection that is
    excuses,        \* what happened that may spoil the answer
    faults

vars == <<kind, op, did, received, user_monitor, excuses, faults>>

Nobody == "nobody"
SUCCEEDED == "SUCCEEDED"
FAILED == "FAILED"

Init ==
    /\ kind \in KindsTogether
    /\ op = [o \in Operation |-> [at |-> "waiting", step |-> 1, status |-> SUCCEEDED]]
    /\ did = [o \in Operation |-> {}]
    /\ received = [o \in Operation |-> <<>>]
    /\ user_monitor = Nobody
    /\ excuses = [o \in Operation |-> {}]
    /\ faults = 0

Under(o, where) == op[o].at = where
steps(o) == IF Under(o, "closing") THEN kind[o].closing ELSE kind[o].steps
Current(o) == steps(o)[op[o].step]

\* All of the disconnect callbacks come at the end.
Connected(o) == op[o].at \notin {"waiting", "over"}

Move(o, where, step, status) ==
    op' = [op EXCEPT ![o] = [at |-> where, step |-> step, status |-> status]]
Go(o, where) == Move(o, where, 1, op[o].status)
GoOn(o, status) == Move(o, op[o].at, op[o].step + 1, status)
AnswerWith(o, status) == Move(o, "answering", 1, status)
Excuse(o, why) == excuses' = [excuses EXCEPT ![o] = @ \cup {why}]

\* BrokerClient.dispatch_message calls the handler.
Begin(o) ==
    /\ Under(o, "waiting") /\ Go(o, "working")
    /\ UNCHANGED <<kind, did, received, user_monitor, excuses, faults>>

Working(o) ==
    op[o].at \in {"working", "closing"} /\ op[o].step <= Len(steps(o))

\* _send_changes goes over the connection of whoever came last.
Possible(o) == Current(o) = "send_changes" => Connected(user_monitor)

StepDone(o) ==
    /\ Working(o) /\ Possible(o)
    /\ did' = [did EXCEPT ![o] = @ \cup {Current(o)}]
    /\ GoOn(o, op[o].status)
    /\ user_monitor' = IF Current(o) = "detect_changes" THEN o ELSE user_monitor
    /\ UNCHANGED <<kind, received, excuses, faults>>

\* Every step may fail, except that the connection is tried until it works.
StepFails(o) ==
    /\ Working(o) /\ Current(o) # "connect"
    /\ Excuse(o, IF Possible(o) THEN Current(o) ELSE "shared")
    /\ user_monitor' = IF Current(o) = "detect_changes" THEN o ELSE user_monitor
    /\ \/ Current(o) \in kind[o].ignored /\ GoOn(o, op[o].status)
       \/ Current(o) \in kind[o].collected /\ GoOn(o, FAILED)
       \/ /\ Current(o) \notin kind[o].collected
          /\ IF \/ Current(o) \in kind[o].unguarded
                \/ Under(o, "closing") /\ ~kind[o].again
             THEN Go(o, "over")
             ELSE AnswerWith(o, FAILED)
    /\ UNCHANGED <<kind, did, received, faults>>

StepsEnd(o) ==
    /\ op[o].at \in {"working", "closing"} /\ op[o].step > Len(steps(o))
    /\ Go(o, IF Under(o, "working") THEN "answering" ELSE "over")
    /\ UNCHANGED <<kind, did, received, user_monitor, excuses, faults>>

-----------------------------------------------------------------------------
(* The answer                                                              *)

Receive(o) == received' = [received EXCEPT ![o] = Append(@, op[o].status)]

\* Mutant: nothing follows the answer
NoClosing(o) == Go(o, "over")

\* call_with_operation_result sends either answer, and goes on to closing
\* after either: _send_changes follows a FAILED one too.
AfterAnswer(o) ==
    IF received[o] = <<>> /\ (op[o].status = SUCCEEDED \/ ~kind[o].again)
    THEN Go(o, "closing") ELSE Go(o, "over")

Answered(o) ==
    /\ Under(o, "answering") /\ Receive(o) /\ AfterAnswer(o)
    /\ UNCHANGED <<kind, did, user_monitor, excuses, faults>>

\* Mutant: FAILED is sent again as well
AgainAlways(o) == kind[o].again

AnswerAgain(o) == kind[o].again /\ op[o].status = SUCCEEDED

\* send_message fails, before or after the broker had it.
AnswerFails(o) ==
    /\ Under(o, "answering") /\ faults < MaxFaults
    /\ faults' = faults + 1 /\ Excuse(o, "call")
    /\ Receive(o) \/ UNCHANGED received
    /\ CASE AnswerAgain(o) -> AnswerWith(o, FAILED)
         [] ~AnswerAgain(o) /\ kind[o].anyway -> Go(o, "closing")
         [] OTHER -> Go(o, "over")
    /\ UNCHANGED <<kind, did, user_monitor>>

\* The manager is killed, and nobody remembers.
Crash ==
    /\ faults < MaxFaults /\ faults' = faults + 1
    /\ op' = [o \in Operation |->
                IF Under(o, "waiting") THEN op[o] ELSE [op[o] EXCEPT !.at = "over"]]
    /\ excuses' = [o \in Operation |->
                     IF op[o].at \in {"waiting", "over"} THEN excuses[o]
                     ELSE excuses[o] \cup {"crash"}]
    /\ user_monitor' = Nobody
    /\ UNCHANGED <<kind, did, received>>

Next ==
    \/ \E o \in Operation :
         Begin(o) \/ StepDone(o) \/ StepFails(o) \/ StepsEnd(o) \/ Answered(o) \/ AnswerFails(o)
    \/ Crash

\* Every step ends, one way or the other, and so does every call.
Progress(o) == Begin(o) \/ StepDone(o) \/ StepFails(o) \/ StepsEnd(o) \/ Answered(o)

Spec ==
    /\ Init /\ [][Next]_vars
    /\ \A o \in Operation : WF_vars(Progress(o))

-----------------------------------------------------------------------------
Noticed(o) ==
    excuses[o] \cap (NamesOf(kind[o].steps) \ kind[o].ignored)

(***************************************************************************)
(* The server gets one answer of an operation.  SUCCEEDED means that       *)
(* nothing failed but what is ignored.  A second answer is FAILED after    *)
(* SUCCEEDED, and only where the first could not be sent for sure, or the  *)
(* work after it failed.                                                   *)
(***************************************************************************)
OneTrueAnswer ==
    \A o \in Operation :
        /\ received[o] # <<>> /\ received[o][1] = SUCCEEDED => Noticed(o) = {}
        /\ received[o] = <<FAILED>> => excuses[o] # {}
        /\ Len(received[o]) > 1 =>
             /\ received[o] = <<SUCCEEDED, FAILED>> /\ kind[o].again
             /\ excuses[o] \cap ({"call"} \cup NamesOf(kind[o].closing)) # {}

(***************************************************************************)
(* Every operation comes to an end with an answer, and a change of users   *)
(* with a report, unless a failure that is only logged, a call, a crash or *)
(* another user operation at the same time prevented that.                 *)
(***************************************************************************)
AllAnswered ==
    <>(\A o \in Operation :
         /\ Under(o, "over")
         /\ received[o] = <<>> => excuses[o] \cap (kind[o].unguarded \cup {"call", "crash"}) # {}
         /\ \A i \in DOMAIN kind[o].closing :
              kind[o].closing[i] \in did[o] \/ excuses[o] # {})
=============================================================================
