------------------------------- MODULE MCParts -------------------------------
(***************************************************************************)
(* Four parts that keep time or files and have little to do with each      *)
(* other, one of them at a time: the schedule of the exchanges, the        *)
(* pinger, the file of a Persist, and the accumulator.                     *)
(*                                                                         *)
(* The broker of the schedule meets a server that may answer anything, at  *)
(* intervals that are just too short and just long enough, or one that is  *)
(* fair, at one interval.                                                  *)
(***************************************************************************)
EXTENDS Pinger, Integers

CONSTANTS
    Calls, Settings,                            \* ExchangeSchedule
    MaxChanges, MaxTorn,                        \* Persist
    StepSize, Values, FirstTime, MaxTime        \* Accumulator

ASSUME ScheduleAssumption ==
    \A s \in Settings : s.intervals \subseteq Nat /\ s.maxReply \in Nat

ASSUME AccumulatorAssumption ==
    /\ StepSize \in Nat \ {0} /\ Values \subseteq Int
    /\ FirstTime \in Nat /\ MaxTime \in Nat /\ FirstTime <= MaxTime

VARIABLES
    part,
    broker, setting,
    file, old, memory, phase, last, torn,
    persisted, saved, now, known, step_data

Unkind == [intervals |-> {9, 10}, maxReply |-> 2, raises |-> {"404", "overloaded"},
           fair |-> FALSE]
Fair == [intervals |-> {60}, maxReply |-> 1, raises |-> {}, fair |-> TRUE]
Both == {Unkind, Fair}

S == INSTANCE ExchangeSchedule
P == INSTANCE Persist
A == INSTANCE Accumulator

schedule_vars == <<broker, setting>>
persist_vars == <<file, old, memory, phase, last, torn>>
accumulator_vars == <<persisted, saved, now, known, step_data>>
all_vars == <<part, vars, schedule_vars, persist_vars, accumulator_vars>>

\* A part whose turn it is not stays in one of its initial states.
PartsInit ==
    /\ part \in {"schedule", "pinger", "persist", "accumulator"}
    /\ S!Init /\ Init /\ P!Init /\ A!Init
    /\ part # "schedule" =>
         setting = Fair /\ broker.secure_id /\ broker.accepts
    /\ part # "pinger" => insecure_id

PartsNext ==
    \/ /\ part = "schedule" /\ S!Next
       /\ UNCHANGED <<part, vars, persist_vars, accumulator_vars>>
    \/ /\ part = "pinger" /\ Next
       /\ UNCHANGED <<part, schedule_vars, persist_vars, accumulator_vars>>
    \/ /\ part = "persist" /\ P!Next
       /\ UNCHANGED <<part, vars, schedule_vars, accumulator_vars>>
    \/ /\ part = "accumulator" /\ A!Next
       /\ UNCHANGED <<part, vars, schedule_vars, persist_vars>>

\* The fairness of each module, where it has its part
PartsSpec ==
    /\ PartsInit /\ [][PartsNext]_all_vars
    /\ WF_schedule_vars(part = "schedule" /\ setting.fair /\ S!TimerRuns)
    /\ WF_schedule_vars(part = "schedule" /\ setting.fair /\ S!RequestEnds)
    /\ SF_schedule_vars(part = "schedule" /\ setting.fair /\ S!Answered)
    /\ SF_schedule_vars(part = "schedule" /\ setting.fair /\ S!Receiving)
    /\ SF_schedule_vars(part = "schedule" /\ setting.fair /\ S!Accepting)
    /\ SF_schedule_vars(part = "schedule" /\ setting.fair /\ S!Registering)
    /\ WF_vars(part = "pinger" /\ Start) /\ WF_vars(part = "pinger" /\ TimerRuns)
    /\ WF_vars(part = "pinger" /\ (PingFails \/ GotResult))
    /\ SF_vars(part = "pinger" /\ GotResult)

-----------------------------------------------------------------------------
(* There is one request at a time and always another one ahead, whatever   *)
(* fails, and the backoff counter stays where it means a delay             *)
(* (ExchangeSchedule).                                                     *)
ExchangesGoOn == S!TypeOK /\ S!OneRequest /\ S!NeverIdle

(* An urgent exchange that was asked for is not put off (ExchangeSchedule). *)
UrgentHonoured == S!UrgentHonoured

(* Registration does not ask without pause (ExchangeSchedule).             *)
NoSpin == S!NoSpin

(* Every register() call is answered, and a stopped exchanger comes to     *)
(* rest (ExchangeSchedule).                                                *)
RegisterAnswered == part = "schedule" => S!RegisterAnswered /\ S!StopsEventually

(* Mail is noticed (Pinger).                                               *)
PingerNotices == part = "pinger" => MailNoticed

(* What was saved is found after one save that was cut short (Persist).    *)
SavedIsFound == P!SavedIsFound

(* Data points are the sums of what was measured (Accumulator).            *)
PointsRight == A!PointsRight
=============================================================================
