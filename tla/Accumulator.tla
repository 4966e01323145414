----------------------------- MODULE Accumulator -----------------------------
(***************************************************************************)
(* The accumulator of the monitor's plugins (landscape/client/             *)
(* accumulate.py): values come at any time, and a data point is made for   *)
(* each step boundary that is crossed.  Between two calls the time and the *)
(* value so far are in the plugin's persist, which is saved now and then:  *)
(* a monitor that is killed goes on from the last save.                    *)
(*                                                                         *)
(* Values are numbers per unit of time.  A data point is kept as what it   *)
(* is before the division by the step size.                                *)
(***************************************************************************)
EXTENDS Integers

CONSTANTS
    StepSize,
    Values,
    FirstTime,      \* of the first call, which is long after time 0
    MaxTime         \* bound

VARIABLES
    persisted,  \* (previous_timestamp, accumulated_value) of the key
    saved,      \* the same in the file of the persist
    now,        \* the clock
    known,      \* history: the sum of the values of all units of time up to each
                \* moment, as far as persisted goes; and the same for saved
    step_data   \* the data points of the last call

accumulator_vars == <<persisted, saved, now, known, step_data>>

Times == 0 .. MaxTime
Boundary(time) == (time \div StepSize) * StepSize

\* Mutant: the time before the boundary is counted in the new step
NextValueFromPrevious(previous, accumulated, time, value) ==
    (time - previous) * value

\* What is accumulated for the step that time is in
NextValue(previous, accumulated, time, value) ==
    IF Boundary(time) = Boundary(previous)
    THEN accumulated + (time - previous) * value
    ELSE (time - Boundary(time)) * value

\* The data point of a call that crosses one boundary, and only one
StepData(previous, accumulated, time, value) ==
    IF Boundary(time) - Boundary(previous) = StepSize
    THEN {[at |-> Boundary(time),
           value |-> accumulated + (Boundary(time) - previous) * value]}
    ELSE {}

Init ==
    /\ persisted = [previous_timestamp |-> 0, accumulated_value |-> 0]
    /\ saved = persisted /\ now = FirstTime
    /\ known = [persisted |-> [t \in Times |-> 0], saved |-> [t \in Times |-> 0]]
    /\ step_data = {}

\* Accumulator.__call__
Call(value) ==
    LET previous == persisted.previous_timestamp
        accumulated == persisted.accumulated_value
    IN  /\ previous # now
        /\ persisted' = [previous_timestamp |-> now,
                         accumulated_value |-> NextValue(previous, accumulated, now, value)]
        /\ step_data' = StepData(previous, accumulated, now, value)
        /\ known' = [known EXCEPT !.persisted =
                       [t \in Times |-> IF t \in previous + 1 .. now
                                        THEN @[previous] + (t - previous) * value ELSE @[t]]]
        /\ UNCHANGED <<saved, now>>

TimePasses ==
    /\ now < MaxTime /\ now' = now + 1
    /\ step_data' = {}
    /\ UNCHANGED <<persisted, saved, known>>

\* Monitor.flush
Flush ==
    /\ saved # persisted
    /\ saved' = persisted /\ known' = [known EXCEPT !.saved = known.persisted]
    /\ step_data' = {}
    /\ UNCHANGED <<persisted, now>>

\* The monitor is killed and started again.
Restart ==
    /\ saved # persisted
    /\ persisted' = saved /\ known' = [known EXCEPT !.persisted = known.saved]
    /\ step_data' = {}
    /\ UNCHANGED <<saved, now>>

Next == (\E value \in Values : Call(value)) \/ TimePasses \/ Flush \/ Restart
-----------------------------------------------------------------------------
\* what held at each unit of time in between, summed up
Integral(from, to) == known.persisted[to] - known.persisted[from]

(***************************************************************************)
(* A data point is the sum over its step of the value that held at each    *)
(* moment, each value holding from the call before it to its own           *)
(* (accumulate.py: "This value is representative of the activity that      *)
(* actually occurred"); time before the first call, or before the boundary *)
(* after a step without a call, counts as nothing or as the next value.  A *)
(* restart changes which calls are known and nothing else.  What is        *)
(* accumulated is the same sum for the step that is not over.              *)
(***************************************************************************)
PointsRight ==
    /\ \A point \in step_data :
         point.value = Integral(point.at - StepSize, point.at)
    /\ persisted.accumulated_value =
         Integral(Boundary(persisted.previous_timestamp), persisted.previous_timestamp)
=============================================================================
