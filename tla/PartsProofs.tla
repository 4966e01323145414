---------------------------- MODULE PartsProofs ----------------------------
(***************************************************************************)
(* The four parts of MCParts, each for every value of its constants.  The  *)
(* pinger: its loop never ends by itself, and there are never more timers  *)
(* and pings than messages have had the chance to make.  The file of a     *)
(* Persist and the accumulator: any number of changes, values and saves    *)
(* cut short.  The schedule of the exchanges: any intervals, any number of *)
(* messages in an answer and any number of register() calls.               *)
(***************************************************************************)
EXTENDS MCParts, TLAPS

-----------------------------------------------------------------------------
(* Pinger *)

\* A timer that was set and has run leaves a ping or an orphan behind; before
\* the start there is neither.
PingerChain ==
    /\ call_id = "spent" => orphans + pings > 0
    /\ call_id = "none" /\ ~stopped => orphans = 0 /\ pings = 0

PingerTypes ==
    /\ call_id \in {"none", "pending", "spent"}
    /\ orphans \in Nat /\ pings \in Nat
    /\ insecure_id \in BOOLEAN /\ mail \in BOOLEAN /\ asked \in BOOLEAN
    /\ stopped \in BOOLEAN

PingerInv == PingerTypes /\ PingerChain /\ Timers + pings <= MaxTimers

\* Before the start there is no timer and no ping.
LEMMA PingerInit == Init => PingerInv
  <1>. SUFFICES ASSUME Init PROVE PingerInv
    OBVIOUS
  <1>1. PingerTypes
    BY DEF Init, PingerTypes
  <1>2. PingerChain
    BY DEF Init, PingerChain
  <1>3. Timers + pings <= MaxTimers
    BY PingerAssumption DEF Init, Timers
  <1>. QED  BY <1>1, <1>2, <1>3 DEF PingerInv

\* Every step of the pinger that ends a timer or a ping leaves another one.
LEMMA PingerNext == PingerInv /\ [Next]_vars => PingerInv'
  <1>. SUFFICES ASSUME PingerInv, [Next]_vars PROVE PingerInv'
    OBVIOUS
  <1>. USE PingerAssumption DEF PingerInv, PingerTypes, PingerChain, Timers
  <1>1. CASE Start
    BY <1>1 DEF Start, Schedule
  <1>2. CASE TimerRuns
    BY <1>2 DEF TimerRuns, PingNow
  <1>3. CASE OrphanRuns
    BY <1>3 DEF OrphanRuns
  <1>4. CASE PingFails
    BY <1>4 DEF PingFails, Schedule
  <1>5. CASE GotResult
    BY <1>5 DEF GotResult, Schedule
  <1>6. CASE MessageHandled
    BY <1>6 DEF MessageHandled
  <1>7. CASE Stop
    BY <1>7 DEF Stop
  <1>8. CASE IdentityChanges
    BY <1>8 DEF IdentityChanges
  <1>9. CASE MailArrives
    BY <1>9 DEF MailArrives
  <1>10. CASE Exchange
    BY <1>10 DEF Exchange
  <1>11. CASE UNCHANGED vars
    BY <1>11 DEF vars
  <1>. QED  BY <1>1, <1>2, <1>3, <1>4, <1>5, <1>6, <1>7, <1>8, <1>9, <1>10, <1>11 DEF Next

(***************************************************************************)
(* Once started a ping is out or a timer for one is set, whatever fails,   *)
(* whatever messages are handled and whether or not there is an id.        *)
(***************************************************************************)
THEOREM LoopGoesOnAlways == Spec => []LoopGoesOn
  <1>1. PingerInv => LoopGoesOn
    BY DEF PingerInv, PingerTypes, PingerChain, Timers, LoopGoesOn
  <1>. QED  BY PingerInit, PingerNext, <1>1, PTL DEF Spec

(***************************************************************************)
(* Pings and orphans stay within what messages made of them: no ping that  *)
(* ends leaves two timers.                                                 *)
(***************************************************************************)
THEOREM PingerTypeCorrect == Spec => []TypeOK
  <1>1. PingerInv => TypeOK
    BY PingerAssumption DEF PingerInv, PingerTypes, Timers, TypeOK
  <1>. QED  BY PingerInit, PingerNext, <1>1, PTL DEF Spec

-----------------------------------------------------------------------------
(* Persist *)

Contents == {P!Missing, P!Empty, P!Broken} \cup {P!Whole(data) : data \in Nat}

PersistTypes ==
    /\ torn \in Nat /\ memory \in Nat /\ last \in Nat
    /\ phase \in {"idle", "renamed", "opened", "part", "down", "refused"}
    /\ file \in Contents /\ old \in Contents

\* No save has been begun since the last one that was completed.
AllSaved ==
    torn = 0 =>
      /\ phase \in {"idle", "down"}
      /\ \/ file = P!Whole(last)
         \/ last = P!NOTHING /\ file = P!Missing /\ old = P!Missing

\* One has: the file that was whole is the old one, and the new one is not written.
OneCut ==
    torn = 1 /\ last # P!NOTHING =>
      old = P!Whole(last) /\ file \in {P!Missing, P!Empty, P!Broken}

PersistInv == PersistTypes /\ AllSaved /\ OneCut

\* load gives back what is in one of the files, or nothing.
LEMMA LoadIs ==
    ASSUME file \in Contents, old \in Contents
    PROVE  /\ P!Load.data \in Nat
           /\ \A data : file = P!Whole(data) => P!Load = P!Loaded(data)
           /\ \A data \in Nat : old = P!Whole(data) /\ file \in {P!Empty, P!Broken} =>
                P!Load = P!Loaded(data)
           /\ file = P!Missing => P!Load = P!Loaded(P!NOTHING)
  <1>. USE DEF P!NOTHING, P!Missing, P!Empty, P!Broken, P!Whole
  <1>1. /\ P!LoadOld.data \in Nat
        /\ \A data : old = P!Whole(data) => P!LoadOld = P!Loaded(data) /\ old.kind = "whole"
    <2>1. CASE old \in {P!Missing, P!Empty, P!Broken}
      <3>1. P!LoadOld = P!PersistError
        BY <2>1 DEF P!LoadOld
      <3>. QED  BY <2>1, <3>1 DEF P!PersistError
    <2>2. CASE \E data \in Nat : old = P!Whole(data)
      <3>1. PICK data \in Nat : old = P!Whole(data)
        BY <2>2
      <3>2. P!LoadOld = P!Loaded(data) /\ old.kind = "whole" /\ old.data = data
        BY <3>1 DEF P!LoadOld
      <3>. QED  BY <3>1, <3>2 DEF P!Loaded
    <2>. QED  BY <2>1, <2>2 DEF Contents
  <1>2. CASE file = P!Missing
    <2>1. P!Load = P!Loaded(P!NOTHING)
      BY <1>2 DEF P!Load
    <2>. QED  BY <1>2, <2>1 DEF P!Loaded
  <1>3. CASE file = P!Empty
    <2>1. P!Load = IF old.kind \in {"missing", "empty"} THEN P!Loaded(P!NOTHING) ELSE P!LoadOld
      BY <1>3 DEF P!Load
    <2>. QED  BY <1>1, <1>3, <2>1 DEF P!Loaded
  <1>4. CASE file = P!Broken
    <2>1. P!Load = P!LoadOld
      BY <1>4 DEF P!Load
    <2>. QED  BY <1>1, <1>4, <2>1
  <1>5. ASSUME NEW data \in Nat, file = P!Whole(data)
        PROVE  P!Load = P!Loaded(data) /\ P!Load.data \in Nat
    BY <1>5 DEF P!Load, P!Loaded
  <1>6. CASE \E data \in Nat : file = P!Whole(data)
    BY <1>5, <1>6
  <1>. QED  BY <1>2, <1>3, <1>4, <1>6 DEF Contents

LEMMA PersistInit == P!Init => PersistInv
  BY DEF P!Init, PersistInv, PersistTypes, AllSaved, OneCut, P!NOTHING, Contents

LEMMA PersistNext == PersistInv /\ [P!Next]_persist_vars => PersistInv'
  <1>. SUFFICES ASSUME PersistInv, [P!Next]_persist_vars PROVE PersistInv'
    OBVIOUS
  <1>. USE DEF PersistInv, PersistTypes, AllSaved, OneCut, P!NOTHING, P!Missing, P!Empty,
               P!Broken, P!Whole, Contents
  <1>1. CASE P!Set
    BY <1>1 DEF P!Set
  <1>2. CASE P!Rename
    BY <1>2 DEF P!Rename
  <1>3. CASE P!Open
    BY <1>3 DEF P!Open
  <1>4. CASE P!WriteAll
    BY <1>4 DEF P!WriteAll
  <1>5. CASE P!WritePart
    BY <1>5 DEF P!WritePart
  <1>6. CASE P!SaveRaises
    BY <1>6 DEF P!SaveRaises
  <1>7. CASE P!Kill
    BY <1>7 DEF P!Kill
  <1>8. CASE P!Start
    BY <1>8, LoadIs DEF P!Start, P!Loaded
  <1>9. CASE UNCHANGED persist_vars
    BY <1>9 DEF persist_vars
  <1>. QED  BY <1>1, <1>2, <1>3, <1>4, <1>5, <1>6, <1>7, <1>8, <1>9 DEF P!Next

(***************************************************************************)
(* One save that is cut short, by a kill or by a full disk, costs nothing  *)
(* but itself.                                                             *)
(***************************************************************************)
THEOREM SavedIsFoundAlways == PartsSpec => []SavedIsFound
  <1>1. PartsInit => PersistInv
    BY PersistInit DEF PartsInit
  <1>2. PersistInv /\ [PartsNext]_all_vars => PersistInv'
    BY PersistNext DEF PartsNext, all_vars, persist_vars
  <1>3. PersistInv => SavedIsFound
    BY LoadIs DEF PersistInv, PersistTypes, AllSaved, OneCut, SavedIsFound, P!SavedIsFound, P!NOTHING,
                  P!Missing, P!Whole
  <1>. QED  BY <1>1, <1>2, <1>3, PTL DEF PartsSpec

-----------------------------------------------------------------------------
(* Accumulator *)

\* Time is cut at multiples of the step size.
LEMMA BoundaryIs ==
    ASSUME NEW t \in Nat
    PROVE  /\ A!Boundary(t) \in Nat
           /\ A!Boundary(t) <= t /\ t < A!Boundary(t) + StepSize
  <1>1. t \div StepSize \in Nat
    BY AccumulatorAssumption
  <1>2. A!Boundary(t) <= t /\ t < A!Boundary(t) + StepSize
    BY AccumulatorAssumption DEF A!Boundary
  <1>3. A!Boundary(t) \in Nat
    BY AccumulatorAssumption, <1>1 DEF A!Boundary
  <1>. QED  BY <1>2, <1>3

LEMMA StepsApart ==
    ASSUME NEW p \in Nat, NEW q \in Nat, p < q
    PROVE  p * StepSize + StepSize <= q * StepSize
  BY AccumulatorAssumption

\* Two moments of different steps have a whole step between their boundaries.
LEMMA BoundariesApart ==
    ASSUME NEW s \in Nat, NEW t \in Nat, s <= t, A!Boundary(s) # A!Boundary(t)
    PROVE  A!Boundary(s) + StepSize <= A!Boundary(t)
  <1>1. s \div StepSize \in Nat /\ t \div StepSize \in Nat
    BY AccumulatorAssumption
  <1>2. CASE s \div StepSize < t \div StepSize
    BY <1>1, <1>2, StepsApart DEF A!Boundary
  <1>3. CASE s \div StepSize = t \div StepSize
    BY <1>3 DEF A!Boundary
  <1>4. CASE t \div StepSize < s \div StepSize
    <2>1. A!Boundary(t) + StepSize <= A!Boundary(s)
      BY <1>1, <1>4, StepsApart DEF A!Boundary
    <2>. QED  BY <2>1, BoundaryIs, AccumulatorAssumption
  <1>. QED  BY <1>1, <1>2, <1>3, <1>4

\* What is accumulated is the sum since the last boundary.
Accumulated(p, sums) ==
    /\ p \in [previous_timestamp : 0 .. now, accumulated_value : Int]
    /\ sums \in [A!Times -> Int]
    /\ p.accumulated_value =
         sums[p.previous_timestamp] - sums[A!Boundary(p.previous_timestamp)]

AccumulatorInv ==
    /\ now \in A!Times
    /\ known = [persisted |-> known.persisted, saved |-> known.saved]
    /\ Accumulated(persisted, known.persisted)
    /\ Accumulated(saved, known.saved)
    /\ \A point \in step_data :
         point.value = A!Integral(point.at - StepSize, point.at)

LEMMA AccumulatorInit == A!Init => AccumulatorInv
  <1>. SUFFICES ASSUME A!Init PROVE AccumulatorInv
    OBVIOUS
  <1>1. A!Boundary(0) = 0
    BY BoundaryIs
  <1>. QED  BY <1>1, AccumulatorAssumption
            DEF A!Init, AccumulatorInv, Accumulated, A!Times

\* The sums with a value that held from p to n
Extended(sums, p, n, value) ==
    [t \in A!Times |-> IF t \in p + 1 .. n THEN sums[p] + (t - p) * value ELSE sums[t]]

\* What a call adds to the sums, and what it leaves as it was
LEMMA SumsExtended ==
    ASSUME NEW p \in Nat, NEW n \in Nat, p < n, n <= MaxTime, NEW value \in Int,
           NEW sums \in [A!Times -> Int]
    PROVE  LET sums2 == Extended(sums, p, n, value)
           IN  /\ sums2 \in [A!Times -> Int]
               /\ \A t \in 0 .. p : sums2[t] = sums[t]
               /\ \A t \in p + 1 .. n : sums2[t] = sums[p] + (t - p) * value
  <1>. DEFINE sums2 == Extended(sums, p, n, value)
  <1>1. sums[p] \in Int /\ A!Times \subseteq Int
    BY AccumulatorAssumption DEF A!Times
  <1>2. ASSUME NEW t \in A!Times
        PROVE  (IF t \in p + 1 .. n THEN sums[p] + (t - p) * value ELSE sums[t]) \in Int
    <2>1. t - p \in Int
      BY <1>1
    <2>2. (t - p) * value \in Int
      BY <2>1
    <2>. QED  BY <1>1, <2>2
  <1>3. sums2 \in [A!Times -> Int]
    BY <1>2 DEF Extended
  <1>4. \A t \in A!Times : sums2[t] = IF t \in p + 1 .. n THEN sums[p] + (t - p) * value ELSE sums[t]
    BY DEF Extended
  <1>. QED  BY <1>3, <1>4, AccumulatorAssumption DEF A!Times

\* The value of a call, in terms of the sums before and after it
Adds(sums, sums2, p, n, value) ==
    /\ \A t \in 0 .. p : sums2[t] = sums[t]
    /\ \A t \in p + 1 .. n : sums2[t] = sums[p] + (t - p) * value

CallGives(p, acc, n, value, sums2) ==
    /\ A!NextValue(p, acc, n, value) = sums2[n] - sums2[A!Boundary(n)]
    /\ \A point \in A!StepData(p, acc, n, value) :
         point.value = sums2[point.at] - sums2[point.at - StepSize]

LEMMA CallIsSum ==
    ASSUME NEW p \in Nat, NEW n \in Nat, p < n, n <= MaxTime, NEW value \in Int,
           NEW acc \in Int, NEW sums \in [A!Times -> Int], NEW sums2 \in [A!Times -> Int],
           Adds(sums, sums2, p, n, value),
           acc = sums[p] - sums[A!Boundary(p)]
    PROVE  CallGives(p, acc, n, value, sums2)
  <1>. DEFINE b == A!Boundary(p)
              c == A!Boundary(n)
  <1>1. /\ b \in 0 .. p /\ c \in 0 .. n
        /\ b # c => c \in p + 1 .. n /\ b + StepSize <= c
    BY BoundaryIs, BoundariesApart, AccumulatorAssumption
  <1>. HIDE DEF b, c
  <1>1a. sums[p] \in Int /\ sums[b] \in Int
    BY <1>1, AccumulatorAssumption DEF A!Times
  <1>1b. n \in p + 1 .. n
    OBVIOUS
  <1>2. /\ sums2[b] = sums[b] /\ sums2[n] = sums[p] + (n - p) * value
        /\ b # c => sums2[c] = sums[p] + (c - p) * value
    BY <1>1, <1>1b DEF Adds
  <1>3. A!NextValue(p, acc, n, value) = IF c = b THEN acc + (n - p) * value ELSE (n - c) * value
    BY DEF A!NextValue, b, c
  <1>4. A!NextValue(p, acc, n, value) = sums2[n] - sums2[c]
    <2>1. CASE b = c
      BY <2>1, <1>1, <1>1a, <1>2, <1>3 DEF b
    <2>2. CASE b # c
      <3>1. (n - p) * value - (c - p) * value = (n - c) * value
        BY <1>1
      <3>2. (n - p) * value \in Int /\ (c - p) * value \in Int
        BY <1>1
      <3>. QED  BY <2>2, <1>1a, <1>2, <1>3, <3>1, <3>2
    <2>. QED  BY <2>1, <2>2
  <1>5. \A point \in A!StepData(p, acc, n, value) :
          point.value = sums2[point.at] - sums2[point.at - StepSize]
    <2>1. CASE c - b = StepSize
      <3>1. b # c /\ c - StepSize = b
        BY <2>1, <1>1, AccumulatorAssumption
      <3>2. A!StepData(p, acc, n, value) = {[at |-> c, value |-> acc + (c - p) * value]}
        BY <2>1 DEF A!StepData, b, c
      <3>3. acc + (c - p) * value = sums2[c] - sums2[b]
        <4>1. (c - p) * value \in Int
          BY <1>1
        <4>. QED  BY <3>1, <1>1a, <1>2, <4>1 DEF b
      <3>. QED  BY <3>1, <3>2, <3>3
    <2>2. CASE c - b # StepSize
      BY <2>2 DEF A!StepData, b, c
    <2>. QED  BY <2>1, <2>2
  <1>. QED  BY <1>4, <1>5 DEF c, CallGives

LEMMA CallAccumulates ==
    ASSUME AccumulatorInv, NEW value \in Values, A!Call(value)
    PROVE  AccumulatorInv'
  <1>. DEFINE p == persisted.previous_timestamp
              acc == persisted.accumulated_value
              sums == known.persisted
              sums2 == Extended(sums, p, now, value)
  <1>0. /\ now \in Nat /\ now <= MaxTime /\ value \in Int
        /\ Accumulated(persisted, known.persisted)
        /\ known = [persisted |-> known.persisted, saved |-> known.saved]
        /\ p # now
    BY AccumulatorAssumption DEF AccumulatorInv, A!Times, A!Call
  <1>0a. now \in Nat /\ now <= MaxTime /\ value \in Int
    BY <1>0
  <1>1. /\ p \in Nat /\ p < now /\ acc \in Int /\ sums \in [A!Times -> Int]
        /\ acc = sums[p] - sums[A!Boundary(p)]
    BY <1>0 DEF Accumulated
  <1>2. /\ persisted' = [previous_timestamp |-> now,
                         accumulated_value |-> A!NextValue(p, acc, now, value)]
        /\ step_data' = A!StepData(p, acc, now, value)
        /\ saved' = saved /\ now' = now
        /\ known' = [known EXCEPT !.persisted = sums2]
    BY DEF A!Call, Extended
  <1>. HIDE DEF sums2
  <1>2a. known' = [persisted |-> sums2, saved |-> known.saved]
    BY <1>0, <1>2
  <1>. HIDE DEF sums, p, acc
  <1>3. sums2 \in [A!Times -> Int] /\ Adds(sums, sums2, p, now, value)
    BY <1>0a, <1>1, SumsExtended DEF sums2, Adds
  <1>4. /\ A!NextValue(p, acc, now, value) = sums2[now] - sums2[A!Boundary(now)]
        /\ \A point \in A!StepData(p, acc, now, value) :
             point.value = sums2[point.at] - sums2[point.at - StepSize]
    <2>1. CallGives(p, acc, now, value, sums2)
      BY <1>0a, <1>1, <1>3, CallIsSum
    <2>. QED  BY <2>1 DEF CallGives
  <1>5. sums2[now] - sums2[A!Boundary(now)] \in Int
    <2>1. now \in A!Times /\ A!Boundary(now) \in A!Times
      BY <1>0a, BoundaryIs, AccumulatorAssumption DEF A!Times
    <2>. QED  BY <1>3, <2>1
  <1>6. Accumulated(persisted, known.persisted)'
    <2>1. persisted' \in [previous_timestamp : 0 .. now', accumulated_value : Int]
      BY <1>0, <1>1, <1>2, <1>4, <1>5
    <2>2. known.persisted' \in [A!Times' -> Int]
      BY <1>2a, <1>3 DEF A!Times
    <2>. QED  BY <1>2, <1>2a, <1>4, <2>1, <2>2 DEF Accumulated, A!Boundary
  <1>7. Accumulated(saved, known.saved)'
    BY <1>2, <1>2a DEF Accumulated, AccumulatorInv, A!Times, A!Boundary
  <1>. QED  BY <1>2, <1>2a, <1>4, <1>6, <1>7 DEF AccumulatorInv, A!Integral, A!Times

LEMMA AccumulatorNext == AccumulatorInv /\ [A!Next]_accumulator_vars => AccumulatorInv'
  <1>. SUFFICES ASSUME AccumulatorInv, [A!Next]_accumulator_vars PROVE AccumulatorInv'
    OBVIOUS
  <1>1. ASSUME NEW value \in Values, A!Call(value) PROVE AccumulatorInv'
    BY <1>1, CallAccumulates
  <1>2. CASE A!TimePasses
    BY <1>2, AccumulatorAssumption
    DEF A!TimePasses, AccumulatorInv, Accumulated, A!Times, A!Boundary
  <1>3. CASE A!Flush
    BY <1>3 DEF A!Flush, AccumulatorInv, Accumulated, A!Times, A!Boundary
  <1>4. CASE A!Restart
    BY <1>4 DEF A!Restart, AccumulatorInv, Accumulated, A!Times, A!Boundary
  <1>5. CASE UNCHANGED accumulator_vars
    BY <1>5 DEF accumulator_vars, AccumulatorInv, Accumulated, A!Times, A!Boundary, A!Integral
  <1>. QED  BY <1>1, <1>2, <1>3, <1>4, <1>5 DEF A!Next

(***************************************************************************)
(* A data point is the sum of what held at each moment of its step, and    *)
(* what is accumulated is that of the step that is not over, for any step  *)
(* size, values and times of the calls, and across restarts.               *)
(***************************************************************************)
THEOREM PointsRightAlways == PartsSpec => []PointsRight
  <1>1. PartsInit => AccumulatorInv
    BY AccumulatorInit DEF PartsInit
  <1>2. AccumulatorInv /\ [PartsNext]_all_vars => AccumulatorInv'
    BY AccumulatorNext DEF PartsNext, all_vars, accumulator_vars
  <1>3. AccumulatorInv => PointsRight
    BY DEF AccumulatorInv, Accumulated, PointsRight, A!PointsRight, A!Integral
  <1>. QED  BY <1>1, <1>2, <1>3, PTL DEF PartsSpec

-----------------------------------------------------------------------------
(* The schedule of the exchanges *)

\* The delays of the backoff counter
LEMMA Delays ==
    ASSUME NEW n \in 0 .. S!MAX_COUNT
    PROVE  S!get_delay(n) \in Nat /\ (n = S!MAX_COUNT => S!get_delay(n) = S!MAX_DELAY)
  <1>1. \A m \in Nat : S!Min({m, 7200}) = IF m <= 7200 THEN m ELSE 7200
    BY DEF S!Min
  <1>2. \A m \in Nat : S!Min({m, 7200}) \in Nat
    BY <1>1
  <1>3. CASE n = 0
    BY <1>3 DEF S!get_delay, S!MAX_COUNT
  <1>4. CASE n = 1
    <2>1. 2 ^ (1 - 1) * 300 = 300
      OBVIOUS
    <2>. QED  BY <1>2, <1>4, <2>1 DEF S!get_delay, S!MAX_COUNT, S!START_DELAY, S!MAX_DELAY
  <1>5. CASE n = 2
    <2>1. 2 ^ (2 - 1) * 300 = 600
      OBVIOUS
    <2>. QED  BY <1>2, <1>5, <2>1 DEF S!get_delay, S!MAX_COUNT, S!START_DELAY, S!MAX_DELAY
  <1>6. CASE n = 3
    <2>1. 2 ^ (3 - 1) * 300 = 1200
      OBVIOUS
    <2>. QED  BY <1>2, <1>6, <2>1 DEF S!get_delay, S!MAX_COUNT, S!START_DELAY, S!MAX_DELAY
  <1>7. CASE n = 4
    <2>1. 2 ^ (4 - 1) * 300 = 2400
      OBVIOUS
    <2>. QED  BY <1>2, <1>7, <2>1 DEF S!get_delay, S!MAX_COUNT, S!START_DELAY, S!MAX_DELAY
  <1>8. CASE n = 5
    <2>1. 2 ^ (5 - 1) * 300 = 4800
      OBVIOUS
    <2>. QED  BY <1>2, <1>8, <2>1 DEF S!get_delay, S!MAX_COUNT, S!START_DELAY, S!MAX_DELAY
  <1>9. CASE n = 6
    <2>1. 2 ^ (6 - 1) * 300 = 9600
      OBVIOUS
    <2>. QED  BY <1>1, <1>9, <2>1 DEF S!get_delay, S!MAX_COUNT, S!START_DELAY, S!MAX_DELAY
  <1>. QED  BY <1>3, <1>4, <1>5, <1>6, <1>7, <1>8, <1>9 DEF S!MAX_COUNT

LEMMA CountStays ==
    ASSUME NEW n \in 0 .. S!MAX_COUNT
    PROVE  S!increase(n) \in 0 .. S!MAX_COUNT /\ S!decrease(n) \in 0 .. S!MAX_COUNT
  <1>1. S!increase(n) \in 0 .. S!MAX_COUNT
    BY Delays DEF S!increase, S!MAX_COUNT
  <1>2. S!Max({n - 1, 0}) \in 0 .. S!MAX_COUNT
    BY DEF S!Max, S!MAX_COUNT
  <1>. QED  BY <1>1, <1>2 DEF S!decrease

\* A broker with one request at a time and, as far as it is not stopped and its
\* intervals are long enough for the notification, another exchange ahead
Short(b) == b.intervals.exchange < S!NOTICE \/ b.intervals.urgent < S!NOTICE
Spins(n) == IF "404" \in setting.raises THEN n ELSE 0

\* What there may still be of a chain of exchanges: one to register, and one
\* for each time that the API is downgraded
ChainBound(b) ==
    /\ b.chain <= 2 + Spins(2)
    /\ b.exchanging /\ b.should_register =>
         b.chain + (IF b.default_api THEN 0 ELSE Spins(1)) <= 2 + Spins(2)
    /\ b.exchanging /\ ~b.should_register =>
         b.chain + (IF b.default_api THEN 0 ELSE Spins(1)) <= 1 + Spins(1)
    /\ b.handling /\ ~b.should_register => b.chain <= 1 + Spins(1)

Sound(b) ==
    /\ b \in S!Broker /\ (b.raised => b.handling) /\ (b.handling => ~b.exchanging)
    /\ b.threads = IF b.exchanging THEN 1 ELSE 0
    /\ b.stopped \/ b.exchanging \/ b.handling \/ b.timer \in {"soon", "later"} \/ Short(b)
    /\ b.asked => b.stopped \/ b.urgent
    /\ b.urgent => b.stopped \/ b.exchanging \/ b.handling \/ b.timer = "soon" \/ Short(b)
    /\ b.exchanging /\ b.should_register => S!should_register(b)
    /\ ChainBound(b)

ScheduleInv == setting \in Settings /\ Sound(broker)

\* What a timer that is set does to a broker
TimerSet(b, u, t) ==
    /\ t \in S!Broker /\ t.urgent = u
    /\ \/ t.raised /\ Short(b)
       \/ t.raised = b.raised /\ t.timer = IF u THEN "soon" ELSE "later"
    /\ t.exchanging = b.exchanging /\ t.stopped = b.stopped /\ t.intervals = b.intervals
    /\ t.default_api = b.default_api /\ t.secure_id = b.secure_id /\ t.accepts = b.accepts
    /\ t.should_register = b.should_register /\ t.threads = b.threads
    /\ t.handling = b.handling /\ t.asked = b.asked /\ t.chain = b.chain

LEMMA SetTimerIs ==
    ASSUME setting \in Settings, NEW b \in S!Broker, NEW u \in BOOLEAN
    PROVE  TimerSet(b, u, S!SetTimer(b, u))
  <1>1. /\ b.intervals.exchange \in Nat /\ b.intervals.urgent \in Nat
        /\ b.errors \in 0 .. S!MAX_COUNT
    BY ScheduleAssumption DEF S!Broker, S!IntervalPairs
  <1>2. S!get_random_delay(b.errors) \in Nat
    BY <1>1, Delays DEF S!get_random_delay
  <1>3. S!Interval(b, u) < S!NOTICE => Short(b)
    BY <1>1, <1>2 DEF S!Interval, Short, S!NOTICE
  <1>4. CASE S!Interval(b, u) < S!NOTICE
    <2>. DEFINE t == [b EXCEPT !.urgent = u, !.raised = TRUE,
                               !.timer = IF @ = "none" THEN "none" ELSE "spent"]
    <2>1. t \in S!Broker
      BY DEF S!Broker
    <2>2. TimerSet(b, u, t)
      BY <1>3, <1>4, <2>1 DEF TimerSet, S!Broker
    <2>. QED  BY <1>4, <2>2 DEF S!SetTimer
  <1>5. CASE ~(S!Interval(b, u) < S!NOTICE)
    <2>. DEFINE t == [b EXCEPT !.urgent = u, !.timer = IF u THEN "soon" ELSE "later"]
    <2>1. t \in S!Broker
      BY DEF S!Broker
    <2>2. TimerSet(b, u, t)
      BY <1>5, <2>1 DEF TimerSet, S!Broker
    <2>. QED  BY <1>5, <2>2 DEF S!SetTimer
  <1>. QED  BY <1>4, <1>5

LEMMA ScheduleIs ==
    ASSUME setting \in Settings, NEW b \in S!Broker, NEW u \in BOOLEAN, NEW force \in BOOLEAN
    PROVE  LET t == S!schedule_exchange(b, u, force)
           IN  \/ /\ t = b
                  /\ b.stopped \/ b.exchanging
                       \/ (~force /\ b.timer # "none" /\ (u => b.urgent))
               \/ ~b.stopped /\ ~b.exchanging /\ TimerSet(b, b.urgent \/ u, t)
  <1>1. (b.urgent \/ u) \in BOOLEAN
    OBVIOUS
  <1>2. TimerSet(b, b.urgent \/ u, S!SetTimer(b, b.urgent \/ u))
    BY <1>1, SetTimerIs
  <1>. QED  BY <1>2 DEF S!schedule_exchange

\* exchange(), called where there is room for another one in the chain
Room(b) ==
    b.chain + 1 + (IF b.default_api THEN 0 ELSE Spins(1))
      <= IF S!should_register(b) THEN 2 + Spins(2) ELSE 1 + Spins(1)

LEMMA ExchangeSound ==
    ASSUME NEW b \in S!Broker, ~b.raised, ~b.handling, ~b.exchanging, b.threads = 0,
           b.asked => b.stopped \/ b.urgent, Room(b)
    PROVE  Sound(S!exchange(b))
  <1>. DEFINE reg == S!should_register(b)
              app == b.applied \/ reg
  <1>1. reg \in BOOLEAN /\ app \in BOOLEAN
    BY DEF S!should_register
  <1>. DEFINE p == [b EXCEPT !.should_register = reg, !.applied = app]
              k == p.threads + 1
              m == p.chain + 1
              v == [p EXCEPT !.exchanging = TRUE, !.threads = k, !.chain = m]
  <1>2. S!exchange(b) = v
    BY DEF S!exchange, S!PreExchange
  <1>. HIDE DEF reg, app
  <1>3. /\ p \in S!Broker /\ p.should_register = reg /\ p.threads = b.threads /\ p.chain = b.chain
        /\ p.raised = b.raised /\ p.handling = b.handling /\ p.default_api = b.default_api
        /\ p.secure_id = b.secure_id /\ p.accepts = b.accepts /\ p.asked = b.asked
        /\ p.stopped = b.stopped /\ p.urgent = b.urgent
    BY <1>1 DEF S!Broker
  <1>. HIDE DEF p
  <1>4. k = 1 /\ m = b.chain + 1 /\ m \in Nat /\ b.chain \in Nat
    BY <1>3 DEF S!Broker
  <1>. HIDE DEF k, m
  <1>5. v \in S!Broker
    BY <1>3, <1>4 DEF S!Broker
  <1>6. /\ v.should_register = p.should_register /\ v.exchanging /\ v.threads = k /\ v.chain = m
        /\ v.raised = p.raised /\ v.handling = p.handling /\ v.default_api = p.default_api
        /\ v.secure_id = p.secure_id /\ v.accepts = p.accepts /\ v.asked = p.asked
        /\ v.stopped = p.stopped /\ v.urgent = p.urgent
    BY <1>3 DEF S!Broker
  <1>. HIDE DEF v
  <1>7. S!should_register(v) = reg
    BY <1>3, <1>6 DEF S!should_register, reg
  <1>8. ChainBound(v)
    BY <1>1, <1>3, <1>4, <1>6 DEF ChainBound, Room, Spins, reg
  <1>9. Sound(v)
    BY <1>3, <1>4, <1>5, <1>6, <1>7, <1>8 DEF Sound
  <1>. QED  BY <1>2, <1>9

\* The end of an exchange, before schedule_exchange
Between(b) ==
    /\ b \in S!Broker /\ ~b.exchanging /\ ~b.handling /\ b.threads = 0
    /\ b.asked => b.stopped \/ b.urgent
    /\ b.chain <= IF b.should_register THEN 2 + Spins(2) ELSE 1 + Spins(1)

LEMMA DoneSound ==
    ASSUME NEW b, Between(b), ~b.raised,
           b.stopped \/ b.timer = (IF b.urgent THEN "soon" ELSE "later")
    PROVE  Sound(S!ExchangeDone(b))
  <1>1. b \in S!Broker /\ b.chain \in Nat
    BY DEF Between, S!Broker
  <1>2. CASE S!should_register(b) /\ ~b.should_register
    <2>1. Room(b)
      BY <1>1, <1>2 DEF Between, Room, Spins
    <2>. QED  BY <1>2, <2>1, ExchangeSound DEF S!ExchangeDone, Between
  <1>3. CASE ~(S!should_register(b) /\ ~b.should_register)
    <2>1. ChainBound(b)
      BY <1>1 DEF Between, ChainBound, Spins
    <2>2. Sound(b)
      BY <2>1 DEF Between, Sound
    <2>. QED  BY <1>3, <2>2 DEF S!ExchangeDone
  <1>. QED  BY <1>2, <1>3

LEMMA CompletedSound ==
    ASSUME setting \in Settings, NEW b, Between(b), ~b.raised
    PROVE  Sound(S!exchange_completed(b))
  <1>. DEFINE t == S!schedule_exchange(b, FALSE, TRUE)
  <1>1. b \in S!Broker /\ b.urgent \in BOOLEAN /\ b.chain \in Nat
    BY DEF Between, S!Broker
  <1>2. (t = b /\ b.stopped) \/ TimerSet(b, b.urgent, t)
    BY <1>1, ScheduleIs DEF Between
  <1>3. S!exchange_completed(b) = IF t.raised THEN [t EXCEPT !.raised = FALSE] ELSE S!ExchangeDone(t)
    BY DEF S!exchange_completed
  <1>. HIDE DEF t
  <1>4. CASE t = b /\ b.stopped
    BY <1>3, <1>4, DoneSound
  <1>5. CASE TimerSet(b, b.urgent, t)
    <2>1. Between(t)
      BY <1>5 DEF Between, TimerSet
    <2>2. CASE ~t.raised
      BY <1>3, <1>5, <2>1, <2>2, DoneSound DEF TimerSet
    <2>3. CASE t.raised
      <3>. DEFINE v == [t EXCEPT !.raised = FALSE]
      <3>1. v \in S!Broker /\ ~v.raised
        BY <1>5 DEF TimerSet, S!Broker
      <3>2. /\ v.exchanging = t.exchanging /\ v.handling = t.handling /\ v.chain = t.chain
            /\ v.threads = t.threads /\ v.intervals = t.intervals /\ v.stopped = t.stopped
            /\ v.asked = t.asked /\ v.urgent = t.urgent
        BY <1>5 DEF TimerSet, S!Broker
      <3>3. Short(v)
        BY <1>5, <2>3, <3>2 DEF TimerSet, Short, Between
      <3>. HIDE DEF v
      <3>4. ChainBound(v)
        BY <1>1, <1>5, <2>1, <3>2 DEF Between, ChainBound, Spins, TimerSet
      <3>5. Sound(v)
        BY <2>1, <3>1, <3>2, <3>3, <3>4 DEF Between, Sound
      <3>. QED  BY <1>3, <2>3, <3>5 DEF v
    <2>. QED  BY <2>2, <2>3
  <1>. QED  BY <1>2, <1>4, <1>5

LEMMA FailureSound ==
    ASSUME setting \in Settings, NEW b \in S!Broker, ~b.raised, ~b.handling, b.threads = 0,
           b.asked => b.stopped \/ b.urgent,
           b.chain <= IF b.should_register THEN 2 + Spins(2) ELSE 1 + Spins(1), NEW error,
           error = "404" /\ ~b.default_api =>
             b.chain + 1 <= IF S!should_register(b) THEN 2 + Spins(2) ELSE 1 + Spins(1)
    PROVE  Sound(S!handle_failure(b, error))
  <1>1. CASE error = "404" /\ ~b.default_api
    <2>. DEFINE c == [b EXCEPT !.exchanging = FALSE, !.default_api = TRUE]
    <2>1. c \in S!Broker
      BY DEF S!Broker
    <2>2. /\ ~c.exchanging /\ c.default_api /\ c.raised = b.raised /\ c.handling = b.handling
          /\ c.threads = b.threads /\ c.asked = b.asked /\ c.stopped = b.stopped
          /\ c.urgent = b.urgent /\ c.chain = b.chain /\ c.accepts = b.accepts
          /\ c.secure_id = b.secure_id
      BY DEF S!Broker
    <2>3. S!handle_failure(b, error) = S!exchange(c)
      BY <1>1 DEF S!handle_failure
    <2>. HIDE DEF c
    <2>4. c.chain \in Nat /\ S!should_register(c) = S!should_register(b)
      BY <2>1, <2>2 DEF S!Broker, S!should_register
    <2>5. Room(c)
      BY <1>1, <2>2, <2>4 DEF Room
    <2>. QED  BY <2>1, <2>2, <2>3, <2>5, ExchangeSound
  <1>2. CASE ~(error = "404" /\ ~b.default_api)
    <2>. DEFINE n == IF error = "overloaded" THEN S!increase(b.errors) ELSE b.errors
                c == [b EXCEPT !.exchanging = FALSE, !.errors = n]
    <2>1. S!handle_failure(b, error) = S!exchange_completed(c)
      BY <1>2 DEF S!handle_failure
    <2>2. n \in 0 .. S!MAX_COUNT
      BY CountStays DEF S!Broker
    <2>. HIDE DEF n
    <2>3. c \in S!Broker
      BY <2>2 DEF S!Broker
    <2>4. /\ ~c.exchanging /\ c.raised = b.raised /\ c.handling = b.handling
          /\ c.threads = b.threads /\ c.asked = b.asked /\ c.stopped = b.stopped
          /\ c.urgent = b.urgent /\ c.chain = b.chain /\ c.should_register = b.should_register
      BY DEF S!Broker
    <2>. HIDE DEF c
    <2>5. Between(c)
      BY <2>3, <2>4 DEF Between
    <2>. QED  BY <2>1, <2>4, <2>5, CompletedSound
  <1>. QED  BY <1>1, <1>2

LEMMA EndResultSound ==
    ASSUME setting \in Settings, NEW b, Sound(b), b.handling PROVE Sound(S!EndResult(b))
  <1>. DEFINE over == [b EXCEPT !.handling = FALSE, !.handled = 0, !.raised = FALSE]
  <1>1. b \in S!Broker /\ ~b.exchanging /\ b.threads = 0 /\ b.chain \in Nat
    BY DEF Sound, S!Broker
  <1>2. over \in S!Broker
    BY <1>1 DEF S!Broker
  <1>3. /\ ~over.raised /\ ~over.handling /\ over.exchanging = b.exchanging
        /\ over.threads = b.threads /\ over.asked = b.asked /\ over.stopped = b.stopped
        /\ over.urgent = b.urgent /\ over.chain = b.chain
        /\ over.should_register = b.should_register
    BY <1>1 DEF S!Broker
  <1>4. S!EndResult(b) = IF b.raised THEN S!handle_failure(over, "handler")
                         ELSE S!exchange_completed([over EXCEPT !.errors = S!decrease(over.errors)])
    BY DEF S!EndResult
  <1>. HIDE DEF over
  <1>5. over.chain <= IF over.should_register THEN 2 + Spins(2) ELSE 1 + Spins(1)
    BY <1>1, <1>3 DEF Sound, ChainBound
  <1>6. over.asked => over.stopped \/ over.urgent
    BY <1>3 DEF Sound
  <1>7. CASE b.raised
    BY <1>1, <1>2, <1>3, <1>4, <1>5, <1>6, <1>7, FailureSound
  <1>8. CASE ~b.raised
    <2>. DEFINE n == S!decrease(over.errors)
                c == [over EXCEPT !.errors = n]
    <2>1. n \in 0 .. S!MAX_COUNT
      BY <1>2, CountStays DEF S!Broker
    <2>. HIDE DEF n
    <2>2. c \in S!Broker
      BY <1>2, <2>1 DEF S!Broker
    <2>3. /\ c.exchanging = over.exchanging /\ c.raised = over.raised
          /\ c.handling = over.handling /\ c.threads = over.threads /\ c.asked = over.asked
          /\ c.stopped = over.stopped /\ c.urgent = over.urgent /\ c.chain = over.chain
          /\ c.should_register = over.should_register
      BY <1>2 DEF S!Broker
    <2>. HIDE DEF c
    <2>4. Between(c)
      BY <1>1, <1>3, <1>5, <1>6, <2>2, <2>3 DEF Between
    <2>5. Sound(S!exchange_completed(c))
      BY <1>3, <2>3, <2>4, CompletedSound
    <2>. QED  BY <1>4, <1>8, <2>5 DEF c, n
  <1>. QED  BY <1>7, <1>8

\* schedule_exchange(urgent=True)
LEMMA UrgentlySound ==
    ASSUME setting \in Settings, NEW b, Sound(b), ~b.raised
    PROVE  /\ Sound([S!Urgently(b) EXCEPT !.raised = FALSE])
           /\ b.handling => Sound(S!Urgently(b))
           /\ S!Urgently(b).handling = b.handling
  <1>. DEFINE s == S!schedule_exchange(b, TRUE, FALSE)
              a == s.asked \/ ~b.exchanging
              t == [s EXCEPT !.asked = a]
              v == [t EXCEPT !.raised = FALSE]
  <1>1. b \in S!Broker /\ b.chain \in Nat
    BY DEF Sound, S!Broker
  <1>2. \/ s = b /\ (b.stopped \/ b.exchanging \/ b.urgent)
        \/ ~b.stopped /\ ~b.exchanging /\ TimerSet(b, b.urgent \/ TRUE, s)
    BY <1>1, ScheduleIs
  <1>3. \/ s = b /\ (b.stopped \/ b.exchanging \/ b.urgent)
        \/ ~b.stopped /\ ~b.exchanging /\ TimerSet(b, TRUE, s)
    <2>1. (b.urgent \/ TRUE) = TRUE
      OBVIOUS
    <2>. QED  BY <1>2, <2>1
  <1>4. S!Urgently(b) = t
    BY DEF S!Urgently
  <1>5. a \in BOOLEAN
    OBVIOUS
  <1>. HIDE DEF s
  <1>6. s \in S!Broker
    BY <1>1, <1>3 DEF TimerSet
  <1>7. /\ s.exchanging = b.exchanging /\ s.stopped = b.stopped /\ s.intervals = b.intervals
        /\ s.default_api = b.default_api /\ s.secure_id = b.secure_id /\ s.accepts = b.accepts
        /\ s.should_register = b.should_register /\ s.threads = b.threads
        /\ s.handling = b.handling /\ s.asked = b.asked /\ s.chain = b.chain
    BY <1>3 DEF TimerSet
  <1>8. a => s.stopped \/ s.urgent
    BY <1>3, <1>7 DEF Sound, TimerSet
  <1>9. /\ s.stopped \/ s.exchanging \/ s.handling \/ s.timer \in {"soon", "later"} \/ Short(s)
        /\ s.urgent => s.stopped \/ s.exchanging \/ s.handling \/ s.timer = "soon" \/ Short(s)
    BY <1>3, <1>7 DEF Sound, TimerSet, Short
  <1>. HIDE DEF a
  <1>10. t \in S!Broker /\ v \in S!Broker
    <2>1. t \in S!Broker
      BY <1>5, <1>6 DEF S!Broker
    <2>. HIDE DEF t
    <2>. QED  BY <2>1 DEF S!Broker
  <1>11. /\ t.exchanging = s.exchanging /\ t.stopped = s.stopped /\ t.intervals = s.intervals
         /\ t.default_api = s.default_api /\ t.secure_id = s.secure_id /\ t.accepts = s.accepts
         /\ t.should_register = s.should_register /\ t.threads = s.threads
         /\ t.handling = s.handling /\ t.asked = a /\ t.chain = s.chain
         /\ t.urgent = s.urgent /\ t.timer = s.timer
    BY <1>6 DEF S!Broker
  <1>. HIDE DEF t
  <1>12. /\ v.exchanging = t.exchanging /\ v.stopped = t.stopped /\ v.intervals = t.intervals
         /\ v.default_api = t.default_api /\ v.secure_id = t.secure_id /\ v.accepts = t.accepts
         /\ v.should_register = t.should_register /\ v.threads = t.threads
         /\ v.handling = t.handling /\ v.asked = t.asked /\ v.chain = t.chain
         /\ v.urgent = t.urgent /\ v.timer = t.timer /\ ~v.raised
    BY <1>10 DEF S!Broker
  <1>. HIDE DEF v
  <1>13. ChainBound(t) /\ ChainBound(v)
    BY <1>7, <1>11, <1>12 DEF Sound, ChainBound
  <1>14. S!should_register(b) => S!should_register(t) /\ S!should_register(v)
    BY <1>7, <1>11, <1>12 DEF S!should_register
  <1>15. b.handling => Sound(t)
    BY <1>7, <1>8, <1>9, <1>10, <1>11, <1>13, <1>14 DEF Sound, Short
  <1>16. Sound(v)
    BY <1>7, <1>8, <1>9, <1>10, <1>11, <1>12, <1>13, <1>14 DEF Sound, Short
  <1>. QED  BY <1>4, <1>7, <1>11, <1>15, <1>16 DEF v

\* A broker that handles an answer and changes in other things than its requests
LEMMA HandlingSound ==
    ASSUME NEW b, Sound(b), b.handling, NEW c \in S!Broker, c.handling, ~c.exchanging,
           c.threads = b.threads, c.asked = b.asked, c.stopped = b.stopped, c.urgent = b.urgent,
           c.chain = b.chain, c.should_register = b.should_register
    PROVE  Sound(c)
  <1>1. b.chain \in Nat /\ ~b.exchanging
    BY DEF Sound, S!Broker
  <1>2. ChainBound(c)
    BY <1>1 DEF Sound, ChainBound
  <1>. QED  BY <1>1, <1>2 DEF Sound

LEMMA MessageSound ==
    ASSUME setting \in Settings, NEW b, Sound(b), b.handling, ~b.raised,
           NEW message \in S!Messages
    PROVE  LET c == S!HandleMessage(b, message) IN Sound(c) /\ c.handling
  <1>. DEFINE c == S!HandleMessage(b, message)
  <1>1. b \in S!Broker /\ ~b.exchanging
    BY DEF Sound
  <1>2. CASE message[1] = "accept-register"
    <2>1. c = [b EXCEPT !.accepts = TRUE]
      BY <1>2 DEF S!HandleMessage
    <2>. QED  BY <1>1, <2>1, HandlingSound DEF S!Broker
  <1>3. CASE message[1] = "accept-nothing"
    <2>1. c = [b EXCEPT !.accepts = FALSE]
      BY <1>3 DEF S!HandleMessage
    <2>. QED  BY <1>1, <2>1, HandlingSound DEF S!Broker
  <1>4. CASE message[1] = "set-id"
    <2>. DEFINE e == [b EXCEPT !.secure_id = TRUE, !.waiting = {}, !.applied = FALSE]
    <2>1. c = [S!Urgently(e) EXCEPT !.raised = FALSE]
      BY <1>4 DEF S!HandleMessage
    <2>2. Sound(e) /\ ~e.raised /\ e.handling
      BY <1>1, HandlingSound DEF S!Broker
    <2>. HIDE DEF e
    <2>3. Sound(c) /\ Sound(S!Urgently(e)) /\ S!Urgently(e).handling
      BY <2>1, <2>2, UrgentlySound
    <2>4. c.handling
      BY <2>1, <2>3 DEF Sound, S!Broker
    <2>. QED  BY <2>3, <2>4
  <1>5. CASE message[1] = "unknown-id"
    <2>1. c = [b EXCEPT !.secure_id = FALSE]
      BY <1>5 DEF S!HandleMessage
    <2>. QED  BY <1>1, <2>1, HandlingSound DEF S!Broker
  <1>6. CASE message[1] = "refused"
    <2>1. c = [b EXCEPT !.waiting = {}, !.applied = FALSE]
      BY <1>6 DEF S!HandleMessage
    <2>. QED  BY <1>1, <2>1, HandlingSound DEF S!Broker
  <1>7. CASE message[1] = "urgent"
    <2>1. c = S!Urgently(b)
      BY <1>7 DEF S!HandleMessage
    <2>. QED  BY <2>1, UrgentlySound
  <1>8. CASE message[1] = "newer-api"
    <2>1. c = [b EXCEPT !.default_api = FALSE]
      BY <1>8 DEF S!HandleMessage
    <2>. QED  BY <1>1, <2>1, HandlingSound DEF S!Broker
  <1>9. CASE message[1] = "poison"
    <2>1. c = [b EXCEPT !.raised = TRUE]
      BY <1>9 DEF S!HandleMessage
    <2>. QED  BY <1>1, <2>1, HandlingSound DEF S!Broker
  <1>10. CASE message[1] = "set-intervals"
    <2>1. c = [b EXCEPT !.intervals = message[2]]
      BY <1>10 DEF S!HandleMessage
    <2>2. message[2] \in S!IntervalPairs
      BY <1>10 DEF S!Messages
    <2>. QED  BY <1>1, <2>1, <2>2, HandlingSound DEF S!Broker
  <1>11. message[1] \in {"accept-register", "accept-nothing", "set-id", "unknown-id", "refused",
                         "urgent", "newer-api", "poison", "set-intervals"}
    BY DEF S!Messages
  <1>. QED  BY <1>2, <1>3, <1>4, <1>5, <1>6, <1>7, <1>8, <1>9, <1>10, <1>11

\* exchange(), called by a timer or by register()
LEMMA StartedSound ==
    ASSUME NEW b, Sound(b), ~b.handling, NEW e \in S!Broker, e.exchanging = b.exchanging,
           e.handling = b.handling, e.raised = b.raised, e.threads = b.threads,
           e.asked = b.asked, e.stopped = b.stopped, e.urgent = b.urgent,
           e.should_register = b.should_register, e.chain = 0,
           S!should_register(b) => S!should_register(e)
    PROVE  Sound(S!exchange(e))
  <1>1. ~e.raised
    BY DEF Sound
  <1>2. CASE e.exchanging
    <2>1. ChainBound(e)
      BY DEF ChainBound, Spins
    <2>2. Sound(e)
      BY <1>1, <1>2, <2>1 DEF Sound
    <2>. QED  BY <1>2, <2>2 DEF S!exchange
  <1>3. CASE ~e.exchanging
    <2>1. Room(e)
      BY DEF Room, Spins
    <2>. QED  BY <1>1, <1>3, <2>1, ExchangeSound DEF Sound
  <1>. QED  BY <1>2, <1>3

\* The thread of a request is done.
LEMMA EndedIs ==
    ASSUME ScheduleInv, ~broker.handling, broker.threads > 0,
           NEW outcome \in S!Errors \cup {"none", "answer"}
    PROVE  LET e == S!Ended(outcome)
           IN  /\ e \in S!Broker /\ e.exchanging /\ ~e.handling /\ ~e.raised /\ e.threads = 0
               /\ e.asked => e.stopped \/ e.urgent
               /\ e.should_register => S!should_register(e)
               /\ e.chain + (IF e.default_api THEN 0 ELSE Spins(1))
                    <= IF e.should_register THEN 2 + Spins(2) ELSE 1 + Spins(1)
  <1>. DEFINE e == S!Ended(outcome)
              k == broker.threads - 1
  <1>1. broker \in S!Broker /\ broker.exchanging /\ ~broker.raised /\ broker.threads = 1
    BY DEF ScheduleInv, Sound
  <1>2. e = [broker EXCEPT !.threads = k, !.outcome = outcome] /\ k = 0
    BY <1>1 DEF S!Ended
  <1>. HIDE DEF e, k
  <1>3. e \in S!Broker
    BY <1>1, <1>2 DEF S!Broker
  <1>4. /\ e.threads = 0 /\ e.exchanging = broker.exchanging /\ e.handling = broker.handling
        /\ e.raised = broker.raised /\ e.asked = broker.asked /\ e.stopped = broker.stopped
        /\ e.urgent = broker.urgent /\ e.should_register = broker.should_register
        /\ e.chain = broker.chain /\ e.default_api = broker.default_api
        /\ e.secure_id = broker.secure_id /\ e.accepts = broker.accepts
    BY <1>1, <1>2 DEF S!Broker
  <1>5. S!should_register(broker) => S!should_register(e)
    BY <1>4 DEF S!should_register
  <1>6. e.chain + (IF e.default_api THEN 0 ELSE Spins(1))
                    <= IF e.should_register THEN 2 + Spins(2) ELSE 1 + Spins(1)
    BY <1>1, <1>4 DEF ScheduleInv, Sound, ChainBound
  <1>. QED  BY <1>1, <1>3, <1>4, <1>5, <1>6 DEF ScheduleInv, Sound, e

LEMMA ScheduleInit == S!Init => ScheduleInv
  <1>. SUFFICES ASSUME S!Init PROVE ScheduleInv
    OBVIOUS
  <1>1. PICK secure_id \in BOOLEAN, accepts \in BOOLEAN,
             intervals \in [exchange: S!StartIntervals, urgent: S!StartIntervals] :
          broker = S!schedule_exchange(
           [exchanging |-> FALSE, urgent |-> FALSE, stopped |-> FALSE,
            timer |-> "none", intervals |-> intervals, errors |-> 0,
            default_api |-> TRUE, secure_id |-> secure_id, accepts |-> accepts,
            should_register |-> FALSE, waiting |-> {}, called |-> {},
            raised |-> FALSE, threads |-> 0, handling |-> FALSE, handled |-> 0, applied |-> FALSE,
            asked |-> TRUE, chain |-> 0, outcome |-> "none"],
           TRUE, FALSE)
    BY DEF S!Init
  <1>. DEFINE b == [exchanging |-> FALSE, urgent |-> FALSE, stopped |-> FALSE,
            timer |-> "none", intervals |-> intervals, errors |-> 0,
            default_api |-> TRUE, secure_id |-> secure_id, accepts |-> accepts,
            should_register |-> FALSE, waiting |-> {}, called |-> {},
            raised |-> FALSE, threads |-> 0, handling |-> FALSE, handled |-> 0, applied |-> FALSE,
            asked |-> TRUE, chain |-> 0, outcome |-> "none"]
              t == S!schedule_exchange(b, TRUE, FALSE)
  <1>2. setting \in Settings /\ intervals \in S!IntervalPairs
    BY DEF S!Init, S!StartIntervals, S!IntervalPairs
  <1>3. intervals.exchange \in Nat /\ intervals.urgent \in Nat
        /\ intervals.exchange >= S!NOTICE /\ intervals.urgent >= S!NOTICE
    BY <1>2, ScheduleAssumption DEF S!StartIntervals
  <1>4. b \in S!Broker
    BY <1>2 DEF S!Broker, S!MAX_COUNT
  <1>5. /\ ~b.exchanging /\ ~b.stopped /\ ~b.raised /\ ~b.handling /\ ~b.urgent
        /\ b.timer = "none" /\ b.threads = 0 /\ b.chain = 0 /\ b.intervals = intervals
    OBVIOUS
  <1>. HIDE DEF b
  <1>6. TimerSet(b, b.urgent \/ TRUE, t)
    BY <1>2, <1>4, <1>5, ScheduleIs
  <1>7. TimerSet(b, TRUE, t)
    <2>1. (b.urgent \/ TRUE) = TRUE
      OBVIOUS
    <2>. QED  BY <1>6, <2>1
  <1>. HIDE DEF t
  <1>8. ~Short(b)
    BY <1>3, <1>5 DEF Short, S!NOTICE
  <1>9. /\ t \in S!Broker /\ ~t.raised /\ t.timer = "soon" /\ t.urgent /\ ~t.exchanging
        /\ ~t.handling /\ t.threads = 0 /\ t.chain = 0
    BY <1>5, <1>7, <1>8 DEF TimerSet
  <1>10. ChainBound(t)
    BY <1>9 DEF ChainBound, Spins
  <1>11. Sound(t)
    BY <1>9, <1>10 DEF Sound
  <1>. QED  BY <1>1, <1>2, <1>11 DEF ScheduleInv, t, b

LEMMA ScheduleNext == ScheduleInv /\ [S!Next]_schedule_vars => ScheduleInv'
  <1>. SUFFICES ASSUME ScheduleInv, [S!Next]_schedule_vars PROVE ScheduleInv'
    OBVIOUS
  <1>0. ASSUME NEW c, Sound(c), broker' = c, setting' = setting PROVE ScheduleInv'
    <2>1. \A n : Spins(n)' = Spins(n)
      BY <1>0 DEF Spins
    <2>. QED  BY <1>0 DEF ScheduleInv, Sound, ChainBound, Spins, Short, S!Broker,
                         S!IntervalPairs, S!should_register
  <1>1. setting \in Settings /\ Sound(broker) /\ broker \in S!Broker /\ broker.chain \in Nat
    BY DEF ScheduleInv, Sound, S!Broker
  <1>2. CASE S!TimerRuns
    <2>. DEFINE e == [broker EXCEPT !.timer = "spent", !.chain = 0]
    <2>1. ~broker.handling /\ broker' = S!exchange(e) /\ setting' = setting
      BY <1>2 DEF S!TimerRuns, S!Free
    <2>2. e \in S!Broker
      BY <1>1 DEF S!Broker
    <2>3. /\ e.exchanging = broker.exchanging /\ e.handling = broker.handling
          /\ e.raised = broker.raised /\ e.threads = broker.threads /\ e.asked = broker.asked
          /\ e.stopped = broker.stopped /\ e.urgent = broker.urgent /\ e.chain = 0
          /\ e.should_register = broker.should_register /\ e.accepts = broker.accepts
          /\ e.secure_id = broker.secure_id
      BY <1>1 DEF S!Broker
    <2>. HIDE DEF e
    <2>4. S!should_register(broker) => S!should_register(e)
      BY <2>3 DEF S!should_register
    <2>5. Sound(S!exchange(e))
      BY <1>1, <2>1, <2>2, <2>3, <2>4, StartedSound
    <2>. QED  BY <1>0, <2>1, <2>5
  <1>3. CASE S!AskUrgently
    <2>1. ~broker.raised
      BY <1>1, <1>3 DEF S!AskUrgently, S!Free, Sound
    <2>2. Sound([S!Urgently(broker) EXCEPT !.raised = FALSE])
      BY <1>1, <2>1, UrgentlySound
    <2>. QED  BY <1>0, <1>3, <2>2 DEF S!AskUrgently
  <1>4. ASSUME NEW call \in Calls, S!Register(call) PROVE ScheduleInv'
    <2>. DEFINE called == broker.called \cup {call}
                waiting == broker.waiting \cup {call}
                e == [broker EXCEPT !.secure_id = FALSE, !.called = called, !.chain = 0,
                                    !.waiting = waiting]
    <2>1. ~broker.handling /\ broker' = S!exchange(e) /\ setting' = setting
      BY <1>4 DEF S!Register, S!Free
    <2>2. called \in SUBSET Calls /\ waiting \in SUBSET Calls
      BY <1>1 DEF S!Broker
    <2>. HIDE DEF called, waiting
    <2>3. e \in S!Broker
      BY <1>1, <2>2 DEF S!Broker
    <2>4. /\ e.exchanging = broker.exchanging /\ e.handling = broker.handling
          /\ e.raised = broker.raised /\ e.threads = broker.threads /\ e.asked = broker.asked
          /\ e.stopped = broker.stopped /\ e.urgent = broker.urgent /\ e.chain = 0
          /\ e.should_register = broker.should_register /\ e.accepts = broker.accepts
          /\ ~e.secure_id
      BY <1>1 DEF S!Broker
    <2>. HIDE DEF e
    <2>5. S!should_register(broker) => S!should_register(e)
      BY <2>4 DEF S!should_register
    <2>6. Sound(S!exchange(e))
      BY <1>1, <2>1, <2>3, <2>4, <2>5, StartedSound
    <2>. QED  BY <1>0, <2>1, <2>6
  <1>5. CASE S!Stop
    <2>. DEFINE e == [broker EXCEPT !.timer = "none", !.stopped = TRUE]
    <2>1. ~broker.handling /\ broker' = e /\ setting' = setting
      BY <1>5 DEF S!Stop, S!Free
    <2>2. e \in S!Broker
      BY <1>1 DEF S!Broker
    <2>3. /\ e.exchanging = broker.exchanging /\ e.handling = broker.handling
          /\ e.raised = broker.raised /\ e.threads = broker.threads /\ e.stopped
          /\ e.chain = broker.chain /\ e.default_api = broker.default_api
          /\ e.should_register = broker.should_register /\ e.accepts = broker.accepts
          /\ e.secure_id = broker.secure_id
      BY <1>1 DEF S!Broker
    <2>. HIDE DEF e
    <2>4. ChainBound(e) /\ (S!should_register(broker) => S!should_register(e))
      BY <1>1, <2>3 DEF Sound, ChainBound, S!should_register
    <2>5. Sound(e)
      BY <1>1, <2>2, <2>3, <2>4 DEF Sound
    <2>. QED  BY <1>0, <2>1, <2>5
  <1>6. CASE S!Answered
    <2>. DEFINE e == S!Ended("answer")
                c == [e EXCEPT !.exchanging = FALSE, !.urgent = FALSE, !.asked = FALSE,
                               !.handling = TRUE]
    <2>1. ~broker.handling /\ broker.threads > 0 /\ broker' = c /\ setting' = setting
      BY <1>6 DEF S!Answered, S!Free, S!BeginResult
    <2>2. /\ e \in S!Broker /\ ~e.raised /\ e.threads = 0
          /\ e.chain + (IF e.default_api THEN 0 ELSE Spins(1))
               <= IF e.should_register THEN 2 + Spins(2) ELSE 1 + Spins(1)
      BY <2>1, EndedIs
    <2>. HIDE DEF e
    <2>3. c \in S!Broker /\ e.chain \in Nat
      BY <2>2 DEF S!Broker
    <2>4. /\ ~c.exchanging /\ ~c.urgent /\ ~c.asked /\ c.handling /\ c.raised = e.raised
          /\ c.threads = e.threads /\ c.chain = e.chain /\ c.should_register = e.should_register
      BY <2>2 DEF S!Broker
    <2>. HIDE DEF c
    <2>5. ChainBound(c)
      BY <2>2, <2>3, <2>4 DEF ChainBound, Spins
    <2>6. Sound(c)
      BY <2>2, <2>3, <2>4, <2>5 DEF Sound
    <2>. QED  BY <1>0, <2>1, <2>6
  <1>7. ASSUME NEW message \in S!Messages, S!Handles(message) PROVE ScheduleInv'
    <2>. DEFINE c == S!HandleMessage(broker, message)
                k == c.handled + 1
                e == [c EXCEPT !.handled = k]
    <2>1. broker.handling /\ ~broker.raised /\ broker' = e /\ setting' = setting
      BY <1>7 DEF S!Handles
    <2>2. Sound(c) /\ c.handling
      BY <1>1, <2>1, MessageSound
    <2>. HIDE DEF c
    <2>3. c \in S!Broker /\ k \in Nat
      BY <2>2 DEF Sound, S!Broker
    <2>. HIDE DEF k
    <2>4. e \in S!Broker
      BY <2>3 DEF S!Broker
    <2>5. /\ e.exchanging = c.exchanging /\ e.handling = c.handling
          /\ e.threads = c.threads /\ e.asked = c.asked /\ e.stopped = c.stopped
          /\ e.urgent = c.urgent /\ e.chain = c.chain /\ e.should_register = c.should_register
      BY <2>3 DEF S!Broker
    <2>. HIDE DEF e
    <2>6. Sound(e)
      <3>1. ~c.exchanging
        BY <2>2 DEF Sound
      <3>. QED  BY <2>2, <2>4, <2>5, <3>1, HandlingSound
    <2>. QED  BY <1>0, <2>1, <2>6
  <1>8. CASE S!ResultHandled
    BY <1>0, <1>1, <1>8, EndResultSound DEF S!ResultHandled
  <1>9. ASSUME NEW error \in S!Errors, S!Failed(error) PROVE ScheduleInv'
    <2>. DEFINE e == S!Ended(error)
                c == [e EXCEPT !.exchanging = FALSE]
    <2>1. /\ ~broker.handling /\ broker.threads > 0 /\ setting' = setting
          /\ broker' = IF error \in setting.raises THEN S!handle_failure(e, error)
                       ELSE S!exchange_completed(c)
      BY <1>9 DEF S!Failed, S!Free, S!NoResult
    <2>2. /\ e \in S!Broker /\ e.exchanging /\ ~e.handling /\ ~e.raised /\ e.threads = 0
          /\ e.asked => e.stopped \/ e.urgent
          /\ e.should_register => S!should_register(e)
          /\ e.chain + (IF e.default_api THEN 0 ELSE Spins(1))
               <= IF e.should_register THEN 2 + Spins(2) ELSE 1 + Spins(1)
      BY <1>9, <2>1, EndedIs
    <2>. HIDE DEF e
    <2>3. e.chain \in Nat
      BY <2>2 DEF S!Broker
    <2>4. e.chain <= IF e.should_register THEN 2 + Spins(2) ELSE 1 + Spins(1)
      BY <2>2, <2>3 DEF Spins
    <2>5. CASE error \in setting.raises
      <3>1. error = "404" /\ ~e.default_api =>
              e.chain + 1 <= IF S!should_register(e) THEN 2 + Spins(2) ELSE 1 + Spins(1)
        BY <2>2, <2>3, <2>5 DEF Spins
      <3>2. Sound(S!handle_failure(e, error))
        BY <1>1, <2>2, <2>4, <3>1, FailureSound
      <3>. QED  BY <1>0, <2>1, <2>5, <3>2
    <2>6. CASE error \notin setting.raises
      <3>1. c \in S!Broker
        BY <2>2 DEF S!Broker
      <3>2. /\ ~c.exchanging /\ c.raised = e.raised /\ c.handling = e.handling
            /\ c.threads = e.threads /\ c.asked = e.asked /\ c.stopped = e.stopped
            /\ c.urgent = e.urgent /\ c.chain = e.chain /\ c.should_register = e.should_register
        BY <2>2 DEF S!Broker
      <3>. HIDE DEF c
      <3>3. Between(c)
        BY <2>2, <2>4, <3>1, <3>2 DEF Between
      <3>4. Sound(S!exchange_completed(c))
        BY <1>1, <2>2, <3>2, <3>3, CompletedSound
      <3>. QED  BY <1>0, <2>1, <2>6, <3>4
    <2>. QED  BY <2>5, <2>6
  <1>10. CASE UNCHANGED schedule_vars
    BY <1>0, <1>1, <1>10 DEF schedule_vars
  <1>. QED  BY <1>2, <1>3, <1>4, <1>5, <1>6, <1>7, <1>8, <1>9, <1>10 DEF S!Next, S!RequestEnds

LEMMA ScheduleAlways == PartsSpec => []ScheduleInv
  <1>1. PartsInit => ScheduleInv
    BY ScheduleInit DEF PartsInit
  <1>2. ScheduleInv /\ [PartsNext]_all_vars => ScheduleInv'
    BY ScheduleNext DEF PartsNext, all_vars, schedule_vars
  <1>. QED  BY <1>1, <1>2, PTL DEF PartsSpec

(***************************************************************************)
(* One request at a time, a backoff count whose delay is defined, and,     *)
(* unless the exchanger was stopped or an interval is too short for the    *)
(* notification, always another exchange ahead: for any number of          *)
(* register() calls and urgent requests at any moment, any messages in an  *)
(* answer, and any errors of the transport.                                *)
(***************************************************************************)
THEOREM ExchangesGoOnAlways == PartsSpec => []ExchangesGoOn
  <1>1. ScheduleInv => ExchangesGoOn
    BY DEF ScheduleInv, Sound, ExchangesGoOn, S!TypeOK, S!OneRequest, S!NeverIdle, S!TooShort, Short
  <1>. QED  BY <1>1, ScheduleAlways, PTL

(***************************************************************************)
(* An urgent exchange that was asked for is not put off to the normal      *)
(* interval, whatever fails meanwhile.                                     *)
(***************************************************************************)
THEOREM UrgentHonouredAlways == PartsSpec => []UrgentHonoured
  <1>1. ScheduleInv => UrgentHonoured
    BY DEF ScheduleInv, Sound, UrgentHonoured, S!UrgentHonoured, S!TooShort, Short
  <1>. QED  BY <1>1, ScheduleAlways, PTL

(***************************************************************************)
(* Exchanges that start each other are at most two, or four where a        *)
(* transport lets a 404 through: the flag of _handle_pre_exchange keeps a  *)
(* client that is not registered from spinning.                            *)
(***************************************************************************)
THEOREM NoSpinAlways == PartsSpec => []NoSpin
  <1>1. ScheduleInv => NoSpin
    BY DEF ScheduleInv, Sound, ChainBound, Spins, NoSpin, S!NoSpin
  <1>. QED  BY <1>1, ScheduleAlways, PTL
=============================================================================
