------------------------- MODULE PackageTasksProofs -------------------------
(***************************************************************************)
(* No package operation is lost, and none is done or answered more often   *)
(* than handlers and the broker break, for any operations and any number   *)
(* of resynchronisations, breaks and absences of the broker.               *)
(***************************************************************************)
EXTENDS PackageTasks, FiniteSetTheorems, WellFoundedInduction, TLAPS

-----------------------------------------------------------------------------
(* The invariant                                                           *)

\* A handler at one of these has a task, and at these has begun with it or sent
\* the answer.
Busy == {"handling", "answering", "aborting", "tidying", "handled"}
Begun == Busy \ {"handling"}
Sent == {"tidying", "handled"}

Stages == {"none", "starting", "running", "finishing"} \cup Busy
Whats == Operations \cup ReporterTasks

RowsType(t) ==
    /\ DOMAIN t \subseteq Nat \ {0} /\ IsFiniteSet(DOMAIN t)
    /\ t = [r \in DOMAIN t |-> t[r]]
    /\ \A r \in DOMAIN t : t[r] \in Whats
OpType == op \in [Operations -> [performed : Nat, answered : Nat]]
HandlerType ==
    handler \in [Queues -> [stage : Stages, row : Nat, what : Whats \cup {"nothing"},
                            count : BOOLEAN, session : BOOLEAN]]
HistoryType ==
    history \in [added : SUBSET Operations, cleared : SUBSET Operations,
                 dropped : SUBSET Operations, overtaken : BOOLEAN]
BoundsType == bounds \in [ids : Nat, resyncs : Nat, breaks : Nat, downs : Nat]

\* A handler works on tasks of its own queue.
OwnTasks == \A q \in Queues : handler[q].stage \in Busy => handler[q].what \in Whats /\ QueueOf(handler[q].what) = q

Types ==
    /\ RowsType(rows) /\ OpType /\ HandlerType /\ HistoryType /\ BoundsType
    /\ unsent \subseteq Upgrades /\ broker \in BOOLEAN
    /\ OwnTasks

\* An operation was added once.
AddedOnce ==
    /\ \A r \in DOMAIN rows : rows[r] \in Operations => rows[r] \in history.added
    /\ \A r, s \in DOMAIN rows : rows[r] \in Operations /\ rows[r] = rows[s] => r = s
    /\ \A o \in Operations \ history.added :
         op[o].performed = 0 /\ op[o].answered = 0 /\ o \notin unsent

\* The row of a handler is there, with its task, and the changer's session id
\* is valid.
RowsHeld ==
    /\ \A q \in Queues : handler[q].stage \in Busy =>
         handler[q].row \in DOMAIN rows /\ rows[handler[q].row] = handler[q].what
    /\ handler["changer"].stage \in Busy \cup {"running"} => handler["changer"].session

\* The handler of o's queue is at one of these stages with o.
With(o, stages) == handler[QueueOf(o)].stage \in stages /\ handler[QueueOf(o)].what = o

\* What was sent is on its way, arrived or dropped.
SentIsTold == \A o \in Operations : With(o, Sent) => Told(o) \/ o \in history.dropped

\* The answers to o, taken or on their way
AnswersTo(o) == op[o].answered + (IF o \in unsent THEN 1 ELSE 0)

\* Each attempt at an operation but the last has ended with a break.
Attempts ==
    \A o \in Operations :
      /\ op[o].performed <= 1 + bounds.breaks
      /\ Queued(o) /\ ~With(o, Begun) => op[o].performed <= bounds.breaks
      /\ AnswersTo(o) <= 1 + bounds.breaks + bounds.downs
      /\ Queued(o) /\ ~With(o, Sent) => AnswersTo(o) <= bounds.breaks + bounds.downs

Kept ==
    \A o \in history.added : Queued(o) \/ Told(o) \/ o \in history.cleared \cup history.dropped

TasksInv ==
    Types /\ (~history.overtaken => AddedOnce /\ RowsHeld /\ SentIsTold /\ Attempts /\ Kept)

-----------------------------------------------------------------------------
(* Queues and rows                                                         *)

LEMMA QueueOfFacts ==
    /\ \A o \in Changes : QueueOf(o) = "changer"
    /\ \A o \in Upgrades : QueueOf(o) = "release-upgrader"
    /\ \A w \in ReporterTasks : QueueOf(w) = "reporter"
<1>1. \A o \in Changes : QueueOf(o) = "changer"
  BY TasksAssumption DEF QueueOf
<1>2. \A o \in Upgrades : QueueOf(o) = "release-upgrader"
  BY TasksAssumption DEF QueueOf
<1>3. \A w \in ReporterTasks : QueueOf(w) = "reporter"
  BY TasksAssumption DEF QueueOf, Operations
<1> QED
  BY <1>1, <1>2, <1>3

LEMMA QueueFacts ==
    /\ \A w \in Whats : QueueOf(w) \in Queues
    /\ \A w \in Whats : QueueOf(w) = "changer" => w \in Changes
    /\ \A w \in Whats : QueueOf(w) = "release-upgrader" => w \in Upgrades
  BY QueueOfFacts DEF Whats, Operations, Queues

(***************************************************************************)
(* A set of naturals has a least element, so that get_next_task finds the  *)
(* first row of its queue.                                                 *)
(***************************************************************************)
LEMMA LeastRow ==
    ASSUME NEW T, T \subseteq Nat, T # {}
    PROVE  Min(T) \in T /\ \A k \in T : Min(T) <= k
<1> DEFINE R == OpToRel(<, Nat)
<1>1. R = {ss \in Nat \X Nat : ss[1] < ss[2]}
  BY DEF OpToRel
<1>2. \A x, y \in Nat : <<x, y>> \in R <=> x < y
  BY <1>1
<1>3. IsWellFoundedOn(R, Nat)
  BY NatLessThanWellFounded
<1> HIDE DEF R
<1>4. PICK x \in T : \A y \in T : ~ (<<y, x>> \in R)
  BY <1>3, WFMin
<1>5. \A y \in T : ~ (y < x)
  BY <1>2, <1>4
<1>6. \A y \in T : x =< y
  BY <1>5
<1> QED
  BY <1>6 DEF Min

(***************************************************************************)
(* A finite set of naturals has a greatest element, so that the row SQLite *)
(* gives a new task is one that no task has.                               *)
(***************************************************************************)
LEMMA GreatestRow ==
    ASSUME NEW S, S \subseteq Nat, IsFiniteSet(S), S # {}
    PROVE  Max(S) \in S /\ \A k \in S : Max(S) >= k
<1> DEFINE Has(V) == \E m \in V : \A k \in V : m >= k
           Bad == {V \in SUBSET S : V # {} /\ ~Has(V)}
           Sizes == {n \in Nat : \E V \in Bad : Cardinality(V) = n}
<1>0. ASSUME Has(S) PROVE Max(S) \in S /\ \A k \in S : Max(S) >= k
  BY <1>0 DEF Max
<1>1. SUFFICES ASSUME Bad # {} PROVE FALSE
  <2>1. S \notin Bad
    BY <1>1
  <2>2. Has(S)
    BY <2>1
  <2> QED
    BY <2>2, <1>0
<1>2. \A V \in Bad : IsFiniteSet(V) /\ Cardinality(V) \in Nat
  BY FS_Subset, FS_CardinalityType
<1>3. Sizes # {} /\ Sizes \subseteq Nat
  BY <1>1, <1>2
<1>4. PICK n \in Sizes : \A k \in Sizes : n <= k
  BY <1>3, LeastRow
<1>5. PICK V \in Bad : Cardinality(V) = n
  BY <1>4
<1>6. PICK x \in V : TRUE
  BY <1>5
<1> DEFINE W == V \ {x}
<1>7. IsFiniteSet(W) /\ Cardinality(W) = n - 1
  BY <1>2, <1>5, <1>6, FS_RemoveElement
<1>8. W \notin Bad
  <2>1. n \in Nat /\ n - 1 < n
    BY <1>4
  <2>2. SUFFICES ASSUME W \in Bad PROVE FALSE
    OBVIOUS
  <2>3. Cardinality(W) \in Sizes
    BY <2>2, <1>2
  <2>4. n <= Cardinality(W)
    BY <2>3, <1>4
  <2> QED
    BY <2>1, <2>4, <1>7
<1>9. CASE W = {}
  BY <1>5, <1>6, <1>9
<1>10. CASE Has(W)
  <2>1. PICK m \in W : \A k \in W : m >= k
    BY <1>10
  <2>2. m \in Nat /\ x \in Nat /\ V \subseteq Nat
    BY <2>1, <1>5, <1>6
  <2>3. CASE m >= x
    BY <2>1, <2>2, <2>3, <1>5
  <2>4. CASE x >= m
    BY <2>1, <2>2, <2>4, <1>5, <1>6
  <2> QED
    BY <2>2, <2>3, <2>4
<1> QED
  BY <1>5, <1>8, <1>9, <1>10

\* The new row is a row of its own.
Adds(what) ==
    /\ NewRow \in Nat \ {0} /\ NewRow \notin DOMAIN rows
    /\ RowsType(rows') /\ DOMAIN rows' = DOMAIN rows \cup {NewRow}
    /\ rows'[NewRow] = what /\ \A r \in DOMAIN rows : rows'[r] = rows[r]

LEMMA AddTaskFacts ==
    ASSUME RowsType(rows), NEW what \in Whats, rows' = AddTask(what)
    PROVE  Adds(what)
<1>1. NewRow \in Nat \ {0} /\ NewRow \notin DOMAIN rows
  <2>1. CASE DOMAIN rows = {}
    BY <2>1 DEF NewRow
  <2>2. CASE DOMAIN rows # {}
    <3>1. DOMAIN rows \subseteq Nat /\ IsFiniteSet(DOMAIN rows)
      BY DEF RowsType
    <3>2. Max(DOMAIN rows) \in DOMAIN rows /\ \A k \in DOMAIN rows : Max(DOMAIN rows) >= k
      BY <3>1, <2>2, GreatestRow
    <3>3. NewRow = Max(DOMAIN rows) + 1
      BY <2>2 DEF NewRow
    <3> QED
      BY <3>1, <3>2, <3>3
  <2> QED
    BY <2>1, <2>2
<1> HIDE DEF NewRow
<1>2. IsFiniteSet(DOMAIN rows \cup {NewRow})
  BY FS_AddElement DEF RowsType
<1>3. /\ DOMAIN rows' = DOMAIN rows \cup {NewRow}
      /\ rows'[NewRow] = what /\ \A r \in DOMAIN rows : rows'[r] = rows[r]
  BY <1>1 DEF AddTask
<1>4. rows' = [r \in DOMAIN rows' |-> rows'[r]]
  BY DEF AddTask
<1>5. RowsType(rows')
  BY <1>1, <1>2, <1>3, <1>4 DEF RowsType
<1> QED
  BY <1>1, <1>3, <1>5 DEF Adds

\* Some rows are left, as they were.
Keeps(left) ==
    /\ RowsType(rows') /\ DOMAIN rows' = left /\ left \subseteq DOMAIN rows
    /\ \A r \in left : rows'[r] = rows[r]

LEMMA RestrictFacts ==
    ASSUME RowsType(rows), NEW left, left \subseteq DOMAIN rows, rows' = Restrict(rows, left)
    PROVE  Keeps(left)
<1>1. DOMAIN rows' = left /\ \A r \in left : rows'[r] = rows[r]
  BY DEF Restrict
<1>2. IsFiniteSet(left)
  BY FS_Subset DEF RowsType
<1>3. rows' = [r \in DOMAIN rows' |-> rows'[r]]
  BY DEF Restrict
<1> QED
  BY <1>1, <1>2, <1>3 DEF RowsType, Keeps

-----------------------------------------------------------------------------
(* The handlers                                                            *)

\* The handler of q moves on, and keeps its task.
Moves(q, stage) ==
    /\ handler' \in [Queues -> [stage : Stages, row : Nat, what : Whats \cup {"nothing"},
                                count : BOOLEAN, session : BOOLEAN]]
    /\ \A p \in Queues : p # q => handler'[p] = handler[p]
    /\ handler'[q].stage = stage /\ handler'[q].row = handler[q].row
    /\ handler'[q].what = handler[q].what /\ handler'[q].session = handler[q].session

LEMMA ToFacts ==
    ASSUME HandlerType, NEW q \in Queues, NEW stage \in Stages, To(q, stage)
    PROVE  Moves(q, stage)
  BY DEF HandlerType, To, Moves

\* The handler of q goes, or has no task yet.
Rests(q) ==
    /\ handler' \in [Queues -> [stage : Stages, row : Nat, what : Whats \cup {"nothing"},
                                count : BOOLEAN, session : BOOLEAN]]
    /\ \A p \in Queues : p # q => handler'[p] = handler[p]
    /\ handler'[q].stage \notin Busy

-----------------------------------------------------------------------------
(* The steps                                                               *)

Inside == AddedOnce /\ RowsHeld /\ SentIsTold /\ Attempts /\ Kept

\* Nothing that the invariant is about is changed.
LEMMA SameStep ==
    ASSUME TasksInv, broker' \in BOOLEAN, UNCHANGED <<rows, handler, unsent, op, history, bounds>>
    PROVE  TasksInv'
<1>1. Types'
  BY DEF TasksInv, Types, OpType, HandlerType, HistoryType, BoundsType, OwnTasks, RowsType
<1>2. AddedOnce' = AddedOnce /\ RowsHeld' = RowsHeld
  BY DEF AddedOnce, RowsHeld
<1>3. SentIsTold' = SentIsTold /\ Kept' = Kept
  BY DEF SentIsTold, With, Told, Kept, Queued
<1>4. Attempts' = Attempts
  BY DEF Attempts, With, Queued, AnswersTo
<1> QED
  BY <1>1, <1>2, <1>3, <1>4 DEF TasksInv

\* A task of the reporter is added.
LEMMA ReporterTaskStep ==
    ASSUME TasksInv, NEW what \in ReporterTasks, rows' = AddTask(what), BoundsType',
           bounds'.breaks = bounds.breaks, bounds'.downs = bounds.downs,
           UNCHANGED <<handler, unsent, op, history, broker>>
    PROVE  TasksInv'
<1>1. Adds(what)
  BY AddTaskFacts DEF TasksInv, Types, Whats
<1>2. Types'
  BY <1>1 DEF TasksInv, Types, OpType, HandlerType, HistoryType, OwnTasks, Adds
<1>3. SUFFICES ASSUME ~history.overtaken, Inside PROVE Inside'
  BY <1>2 DEF TasksInv, Inside
<1>4. what \notin Operations
  BY TasksAssumption
<1>5. \A o \in Operations : Queued(o)' <=> Queued(o)
  BY <1>1, <1>4 DEF Adds, Queued, Range
<1>6. AddedOnce'
  BY <1>1, <1>3, <1>4 DEF Inside, AddedOnce, Adds
<1>7. RowsHeld'
  BY <1>1, <1>3 DEF Inside, RowsHeld, Adds
<1>8. SentIsTold' /\ Kept'
  BY <1>3, <1>5 DEF Inside, SentIsTold, Kept, With, Told, TasksInv, Types, HistoryType
<1>9. Attempts'
  BY <1>3, <1>5 DEF Inside, Attempts, With, AnswersTo
<1> QED
  BY <1>6, <1>7, <1>8, <1>9 DEF Inside

LEMMA MonitorMessageStep == ASSUME TasksInv, MonitorMessage PROVE TasksInv'
<1>1. BoundsType' /\ bounds'.breaks = bounds.breaks /\ bounds'.downs = bounds.downs
  BY DEF TasksInv, Types, BoundsType, MonitorMessage
<1> QED
  BY <1>1, ReporterTaskStep DEF MonitorMessage, ReporterTasks

LEMMA ResetAddsStep == ASSUME TasksInv, ResetAdds PROVE TasksInv'
<1>1. BoundsType' /\ bounds'.breaks = bounds.breaks /\ bounds'.downs = bounds.downs
  BY DEF TasksInv, Types, BoundsType, ResetAdds
<1> QED
  BY <1>1, ReporterTaskStep DEF ResetAdds, ReporterTasks

\* A message of the server: its operation was not there before.
LEMMA ManagerMessageStep ==
    ASSUME TasksInv, NEW o \in Operations, ManagerMessage(o)
    PROVE  TasksInv'
<1>1. Adds(o)
  BY AddTaskFacts DEF TasksInv, Types, Whats, ManagerMessage
<1>2. HistoryType' /\ history'.added = history.added \cup {o} /\ history'.cleared = history.cleared
      /\ history'.dropped = history.dropped /\ history'.overtaken = history.overtaken
  BY DEF TasksInv, Types, HistoryType, ManagerMessage
<1>3. Types'
  BY <1>1, <1>2 DEF TasksInv, Types, OpType, HandlerType, BoundsType, OwnTasks, Adds, ManagerMessage
<1>4. SUFFICES ASSUME ~history.overtaken, Inside PROVE Inside'
  BY <1>2, <1>3 DEF TasksInv, Inside
<1>5. UNCHANGED <<handler, unsent, op, bounds>> /\ o \notin history.added
  BY DEF ManagerMessage
<1>6. Queued(o)' /\ ~Queued(o) /\ \A p \in Operations : p # o => (Queued(p)' <=> Queued(p))
  BY <1>1, <1>4, <1>5 DEF Adds, Queued, Range, Inside, AddedOnce
<1>7. AddedOnce'
  BY <1>1, <1>2, <1>4, <1>5 DEF Inside, AddedOnce, Adds
<1>8. RowsHeld'
  BY <1>1, <1>4, <1>5 DEF Inside, RowsHeld, Adds
<1>9. SentIsTold'
  BY <1>2, <1>4, <1>5 DEF Inside, SentIsTold, With, Told
<1>10. Kept'
  BY <1>2, <1>4, <1>5, <1>6 DEF Inside, Kept, Told, TasksInv, Types, HistoryType
<1>11. Attempts'
  <2>1. op[o].performed = 0 /\ AnswersTo(o) = 0
    BY <1>4, <1>5 DEF Inside, AddedOnce, AnswersTo
  <2>2. \A p \in Operations : AnswersTo(p)' = AnswersTo(p)
    BY <1>5 DEF AnswersTo
  <2>3. bounds.breaks \in Nat /\ bounds.downs \in Nat
    BY DEF TasksInv, Types, BoundsType
  <2> QED
    BY <1>4, <1>5, <1>6, <2>1, <2>2, <2>3 DEF Inside, Attempts, With
<1> QED
  BY <1>7, <1>8, <1>9, <1>10, <1>11 DEF Inside

\* A resynchronisation of the broker that overtakes no handler drops at most
\* what is on its way.
LEMMA ResynchronizeStep == ASSUME TasksInv, Resynchronize PROVE TasksInv'
<1>1. PICK all \in BOOLEAN :
        /\ handler' = [q \in Queues |-> [handler[q] EXCEPT !.session = @ /\ ~all]]
        /\ unsent' = IF all THEN {} ELSE unsent
  BY DEF Resynchronize
<1> DEFINE session(q) == handler[q].session /\ ~all
<1>2. \A q \in Queues : session(q) \in BOOLEAN
  OBVIOUS
<1>3. \A q \in Queues : handler'[q] = [handler[q] EXCEPT !.session = session(q)]
  BY <1>1
<1>4. handler' = [q \in Queues |-> handler'[q]]
  BY <1>1
<1> HIDE DEF session
<1>5. HandlerType' /\ \A q \in Queues : /\ handler'[q].stage = handler[q].stage
                                        /\ handler'[q].what = handler[q].what
  BY <1>2, <1>3, <1>4 DEF TasksInv, Types, HandlerType
<1>6. OwnTasks'
  BY <1>5 DEF OwnTasks, TasksInv, Types
<1> DEFINE over == history.overtaken \/ handler' # handler
<1>7. over \in BOOLEAN
  OBVIOUS
<1>8. unsent' \subseteq unsent /\ unsent \subseteq Operations
  BY <1>1 DEF TasksInv, Types, Operations
<1>9. history' = [history EXCEPT !.overtaken = over, !.dropped = history.dropped \cup (unsent \ unsent')]
  BY DEF Resynchronize, TasksInv, Types, HistoryType
<1>10. over => history.overtaken \/ handler' # handler
  OBVIOUS
<1>11. ~over => ~history.overtaken /\ handler' = handler
  OBVIOUS
<1> HIDE DEF over
<1>12. HistoryType' /\ history'.overtaken = over /\ history'.added = history.added
       /\ history'.cleared = history.cleared /\ history'.dropped = history.dropped \cup (unsent \ unsent')
  BY <1>7, <1>8, <1>9 DEF TasksInv, Types, HistoryType
<1>13. BoundsType' /\ bounds'.breaks = bounds.breaks /\ bounds'.downs = bounds.downs
  BY DEF Resynchronize, TasksInv, Types, BoundsType
<1>14. UNCHANGED <<rows, op, broker>>
  BY DEF Resynchronize
<1>15. Types'
  BY <1>5, <1>6, <1>8, <1>12, <1>13, <1>14 DEF TasksInv, Types, OpType, RowsType
<1>16. SUFFICES ASSUME ~over, Inside PROVE Inside'
  BY <1>11, <1>12, <1>15 DEF TasksInv, Inside
<1>17. handler' = handler
  BY <1>11, <1>16
<1>18. AddedOnce'
  BY <1>8, <1>12, <1>14, <1>16 DEF Inside, AddedOnce
<1>19. RowsHeld'
  BY <1>14, <1>16, <1>17 DEF Inside, RowsHeld
<1>20. \A o \in Operations : Told(o) => Told(o)' \/ o \in history'.dropped
  BY <1>12, <1>14 DEF Told
<1>21. SentIsTold'
  BY <1>12, <1>16, <1>17, <1>20 DEF Inside, SentIsTold, With
<1>22. Kept'
  BY <1>12, <1>14, <1>16, <1>20 DEF Inside, Kept, Queued, TasksInv, Types, HistoryType
<1>23. Attempts'
  <2>1. \A o \in Operations : AnswersTo(o)' \in Nat /\ AnswersTo(o) \in Nat /\ AnswersTo(o)' <= AnswersTo(o)
    BY <1>8, <1>14 DEF AnswersTo, TasksInv, Types, OpType
  <2>2. bounds.breaks \in Nat /\ bounds.downs \in Nat
    BY DEF TasksInv, Types, BoundsType
  <2> QED
    BY <1>13, <1>14, <1>16, <1>17, <2>1, <2>2 DEF Inside, Attempts, With, Queued
<1> QED
  BY <1>18, <1>19, <1>21, <1>22, <1>23 DEF Inside

\* clear_tasks when no handler has a row
LEMMA ResetClearsStep == ASSUME TasksInv, ResetClears PROVE TasksInv'
<1> DEFINE left == DOMAIN rows \cap {reset.row}
           gone == Operations \cap (Range(rows) \ Range(rows'))
           over == history.overtaken \/ \E q \in Queues : handler[q].row # 0
<1>1. Keeps(left)
  BY RestrictFacts DEF TasksInv, Types, ResetClears
<1>2. over \in BOOLEAN
  OBVIOUS
<1>3. history' = [history EXCEPT !.overtaken = over, !.cleared = history.cleared \cup gone]
  BY DEF ResetClears, TasksInv, Types, HistoryType
<1>4. ~over => ~history.overtaken /\ \A q \in Queues : handler[q].row = 0
  OBVIOUS
<1>5. gone \subseteq Operations
  OBVIOUS
<1>6. \A o \in Operations : Queued(o) => Queued(o)' \/ o \in gone
  BY DEF Queued
<1> HIDE DEF left, gone, over
<1>7. HistoryType' /\ history'.overtaken = over /\ history'.added = history.added
      /\ history'.cleared = history.cleared \cup gone /\ history'.dropped = history.dropped
  BY <1>2, <1>3, <1>5 DEF TasksInv, Types, HistoryType
<1>8. UNCHANGED <<handler, unsent, op, bounds, broker>>
  BY DEF ResetClears
<1>9. Types'
  BY <1>1, <1>7, <1>8 DEF TasksInv, Types, OpType, HandlerType, BoundsType, OwnTasks, Keeps
<1>10. SUFFICES ASSUME ~over, Inside PROVE Inside'
  BY <1>4, <1>7, <1>9 DEF TasksInv, Inside
<1>11. \A q \in Queues : handler[q].stage \notin Busy
  BY <1>4, <1>10 DEF Inside, RowsHeld, TasksInv, Types, RowsType
<1>12. AddedOnce'
  BY <1>1, <1>7, <1>8, <1>10 DEF Inside, AddedOnce, Keeps
<1>13. RowsHeld'
  BY <1>8, <1>10, <1>11 DEF Inside, RowsHeld
<1>14. SentIsTold'
  BY <1>7, <1>8, <1>10 DEF Inside, SentIsTold, With, Told
<1>15. Kept'
  BY <1>6, <1>7, <1>8, <1>10 DEF Inside, Kept, Told, TasksInv, Types, HistoryType
<1>16. \A o \in Operations : Queued(o)' => Queued(o)
  BY <1>1 DEF Keeps, Queued, Range
<1>17. Attempts'
  BY <1>8, <1>10, <1>16 DEF Inside, Attempts, With, AnswersTo
<1> QED
  BY <1>12, <1>13, <1>14, <1>15, <1>17 DEF Inside

\* A handler without a task stays so, or gives up its task before it has begun.
LEMMA RestStep ==
    ASSUME TasksInv, NEW q \in Queues, Rests(q), handler[q].stage \notin Begun,
           q = "changer" /\ handler'[q].stage = "running" => handler'[q].session,
           UNCHANGED <<rows, unsent, op, history, bounds, broker>>
    PROVE  TasksInv'
<1>1. HandlerType' /\ OwnTasks'
  BY DEF Rests, TasksInv, Types, OwnTasks, HandlerType
<1>2. Types'
  BY <1>1 DEF TasksInv, Types, OpType, RowsType, HistoryType, BoundsType
<1>3. SUFFICES ASSUME ~history.overtaken, Inside PROVE Inside'
  BY <1>2 DEF TasksInv, Inside
<1>4. AddedOnce'
  BY <1>3 DEF Inside, AddedOnce
<1>5. RowsHeld'
  <2>1. "changer" \in Queues
    BY DEF Queues
  <2> QED
    BY <1>3, <2>1 DEF Inside, RowsHeld, Rests
<1>6. \A o \in Operations : QueueOf(o) \in Queues
  BY QueueFacts DEF Whats
<1>7. \A o \in Operations : (With(o, Sent)' <=> With(o, Sent)) /\ (With(o, Begun)' <=> With(o, Begun))
  BY <1>6 DEF With, Rests, Sent, Begun, Busy
<1>8. SentIsTold' /\ Kept'
  BY <1>3, <1>7 DEF Inside, SentIsTold, Told, Kept, Queued
<1>9. Attempts'
  BY <1>3, <1>7 DEF Inside, Attempts, AnswersTo, Queued
<1> QED
  BY <1>4, <1>5, <1>8, <1>9 DEF Inside

LEMMA StartsStep == ASSUME TasksInv, NEW q \in Queues, Starts(q) PROVE TasksInv'
<1>1. CASE UNCHANGED handler
  BY <1>1, SameStep DEF Starts, TasksInv, Types
<1>2. CASE /\ Stage(q) = "none"
           /\ To(q, IF q = "release-upgrader" THEN "running" ELSE "starting")
  <2>1. PICK stage \in {"running", "starting"} : To(q, stage) /\ (q = "changer" => stage = "starting")
    BY <1>2
  <2>2. Moves(q, stage)
    BY <2>1, ToFacts DEF TasksInv, Types, Stages
  <2>3. Rests(q)
    BY <2>1, <2>2 DEF Moves, Rests, Busy
  <2>4. handler[q].stage \notin Begun
    BY <1>2 DEF Stage, Begun, Busy
  <2>5. q = "changer" /\ handler'[q].stage = "running" => handler'[q].session
    BY <2>1, <2>2 DEF Moves
  <2> QED
    BY <2>3, <2>4, <2>5, RestStep DEF Starts
<1> QED
  BY <1>1, <1>2 DEF Starts

LEMMA PreparesStep ==
    ASSUME TasksInv, NEW q \in Queues, NEW updates \in BOOLEAN, Prepares(q, updates)
    PROVE  TasksInv'
<1>1. Rests(q) /\ handler'[q].session
  BY DEF Prepares, Rests, TasksInv, Types, HandlerType, Stages, Busy
<1>2. handler[q].stage \notin Begun
  BY DEF Prepares, Stage, Begun, Busy
<1> QED
  BY <1>1, <1>2, RestStep DEF Prepares

LEMMA GivesUpStep ==
    ASSUME TasksInv, NEW q \in Queues, handler[q].stage \in {"running", "handling"},
           To(q, "finishing"), UNCHANGED <<rows, unsent, op, history, bounds, broker>>
    PROVE  TasksInv'
<1>1. Moves(q, "finishing")
  BY ToFacts DEF TasksInv, Types, Stages
<1>2. Rests(q) /\ handler'[q].stage = "finishing"
  BY <1>1 DEF Moves, Rests, Busy
<1>3. handler[q].stage \notin Begun
  BY DEF Begun, Busy
<1> QED
  BY <1>2, <1>3, RestStep

\* _handle_next_task takes the first row of its queue.
LEMMA PicksStep == ASSUME TasksInv, NEW q \in Queues, Picks(q) PROVE TasksInv'
<1> DEFINE row == NextTask(q)
<1>1. row \in DOMAIN rows /\ row \in Nat /\ QueueOf(rows[row]) = q /\ rows[row] \in Whats
  <2>1. RowsOf(q) \subseteq Nat /\ RowsOf(q) # {}
    BY DEF Picks, RowsOf, TasksInv, Types, RowsType
  <2>2. row \in RowsOf(q)
    BY <2>1, LeastRow DEF NextTask
  <2> QED
    BY <2>2 DEF RowsOf, TasksInv, Types, RowsType
<1> DEFINE h == [handler[q] EXCEPT !.stage = "handling", !.row = row, !.what = rows[row]]
<1>2. handler' = [handler EXCEPT ![q] = h]
  BY DEF Picks, TasksInv, Types, HandlerType
<1> HIDE DEF row
<1>2a. /\ h \in [stage : Stages, row : Nat, what : Whats \cup {"nothing"},
                  count : BOOLEAN, session : BOOLEAN]
       /\ h.stage = "handling" /\ h.row = row /\ h.what = rows[row]
       /\ h.session = handler[q].session
  BY <1>1 DEF TasksInv, Types, HandlerType, Stages, Busy
<1> HIDE DEF h
<1>3. /\ HandlerType' /\ \A p \in Queues : p # q => handler'[p] = handler[p]
      /\ handler'[q].stage = "handling" /\ handler'[q].row = row
      /\ handler'[q].what = rows[row] /\ handler'[q].session = handler[q].session
  BY <1>2, <1>2a DEF TasksInv, Types, HandlerType
<1>4. UNCHANGED <<rows, unsent, op, history, bounds, broker>> /\ handler[q].stage = "running"
  BY DEF Picks, Stage
<1>5. OwnTasks'
  BY <1>1, <1>3 DEF OwnTasks, TasksInv, Types
<1>6. Types'
  BY <1>3, <1>4, <1>5 DEF TasksInv, Types, OpType, RowsType, HistoryType, BoundsType
<1>7. SUFFICES ASSUME ~history.overtaken, Inside PROVE Inside'
  BY <1>4, <1>6 DEF TasksInv, Inside
<1>8. AddedOnce'
  BY <1>4, <1>7 DEF Inside, AddedOnce
<1>9. RowsHeld'
  BY <1>1, <1>3, <1>4, <1>7 DEF Inside, RowsHeld, Queues, Busy
<1>10. \A o \in Operations : QueueOf(o) \in Queues
  BY QueueFacts DEF Whats
<1>11. \A o \in Operations : (With(o, Sent)' <=> With(o, Sent)) /\ (With(o, Begun)' <=> With(o, Begun))
  BY <1>3, <1>4, <1>10 DEF With, Sent, Begun, Busy
<1>12. SentIsTold' /\ Kept'
  BY <1>4, <1>7, <1>11 DEF Inside, SentIsTold, Told, Kept, Queued
<1>13. Attempts'
  BY <1>4, <1>7, <1>11 DEF Inside, Attempts, AnswersTo, Queued
<1> QED
  BY <1>8, <1>9, <1>12, <1>13 DEF Inside

\* The row that is removed is that of the handler's task, which is answered.
LEMMA RemovesStep == ASSUME TasksInv, NEW q \in Queues, Removes(q) PROVE TasksInv'
<1> DEFINE row == handler[q].row
           left == DOMAIN rows \ {row}
<1>1. Keeps(left)
  BY RestrictFacts DEF TasksInv, Types, Removes, Removed
<1>2. /\ HandlerType' /\ \A p \in Queues : p # q => handler'[p] = handler[p]
      /\ handler'[q].stage = "running" /\ handler'[q].session = handler[q].session
  <2> DEFINE h == [handler[q] EXCEPT !.stage = "running", !.row = 0, !.what = "nothing", !.count = TRUE]
  <2>1. handler' = [handler EXCEPT ![q] = h]
    BY DEF Removes, TasksInv, Types, HandlerType
  <2>2. /\ h \in [stage : Stages, row : Nat, what : Whats \cup {"nothing"},
                   count : BOOLEAN, session : BOOLEAN]
        /\ h.stage = "running" /\ h.session = handler[q].session
    BY DEF TasksInv, Types, HandlerType, Stages
  <2> HIDE DEF h
  <2> QED
    BY <2>1, <2>2 DEF TasksInv, Types, HandlerType
<1>3. UNCHANGED <<unsent, op, history, bounds, broker>> /\ handler[q].stage = "handled"
  BY DEF Removes, Stage
<1>4. OwnTasks'
  BY <1>2 DEF OwnTasks, TasksInv, Types, Busy
<1>5. Types'
  BY <1>1, <1>2, <1>3, <1>4 DEF TasksInv, Types, OpType, HistoryType, BoundsType, Keeps
<1>6. SUFFICES ASSUME ~history.overtaken, Inside PROVE Inside'
  BY <1>3, <1>5 DEF TasksInv, Inside
<1>0. PICK w : w = handler[q].what
  OBVIOUS
<1>7. row \in DOMAIN rows /\ rows[row] = w /\ QueueOf(w) = q /\ w \in Whats
  BY <1>0, <1>3, <1>6 DEF Inside, RowsHeld, TasksInv, Types, OwnTasks, Busy
<1>8. \A p \in Queues : p # q /\ handler[p].stage \in Busy => handler[p].row # row
  BY <1>6, <1>7 DEF Inside, RowsHeld, TasksInv, Types, OwnTasks
<1>9. AddedOnce'
  BY <1>1, <1>3, <1>6 DEF Inside, AddedOnce, Keeps
<1>10. \A p \in Queues : p # q /\ handler[p].stage \in Busy =>
         handler[p].row \in DOMAIN rows' /\ rows'[handler[p].row] = handler[p].what
  BY <1>1, <1>6, <1>8 DEF Inside, RowsHeld, Keeps
<1>11. RowsHeld'
  BY <1>2, <1>3, <1>6, <1>10 DEF Inside, RowsHeld, Queues, Busy
<1>12. \A o \in Operations : QueueOf(o) \in Queues
  BY QueueFacts DEF Whats
<1>13. w \in Operations => ~Queued(w)' /\ With(w, Sent)
  <2>1. w \in Operations => \A r \in left : rows[r] # w
    BY <1>6, <1>7 DEF Inside, AddedOnce
  <2> QED
    BY <1>0, <1>1, <1>3, <1>7, <2>1 DEF Queued, Range, Keeps, With, Sent
<1>14. \A o \in Operations : o # w => (Queued(o)' <=> Queued(o))
  BY <1>1, <1>7 DEF Queued, Range, Keeps
<1>15. \A o \in Operations : o # w => (With(o, Sent)' <=> With(o, Sent)) /\ (With(o, Begun)' <=> With(o, Begun))
  BY <1>0, <1>2, <1>3, <1>12 DEF With, Sent, Begun, Busy
<1>16. ~With(w, Sent)'
  BY <1>2, <1>7 DEF With, Sent
<1>17. SentIsTold'
  BY <1>3, <1>6, <1>15, <1>16 DEF Inside, SentIsTold, Told
<1>18. Kept'
  <2>1. w \in Operations => Told(w) \/ w \in history.dropped
    BY <1>6, <1>13 DEF Inside, SentIsTold
  <2> QED
    BY <1>3, <1>6, <1>14, <2>1 DEF Inside, Kept, Told, TasksInv, Types, HistoryType
<1>19. Attempts'
  BY <1>3, <1>6, <1>13, <1>14, <1>15 DEF Inside, Attempts, AnswersTo
<1> QED
  BY <1>9, <1>11, <1>17, <1>18, <1>19 DEF Inside

\* A process ends, or it breaks, which explains another attempt.
LEMMA LeavesStep ==
    ASSUME TasksInv, NEW q \in Queues, Leaves(q), BoundsType', bounds'.downs = bounds.downs,
           \/ handler[q].stage \notin Begun /\ bounds'.breaks = bounds.breaks
           \/ bounds'.breaks = bounds.breaks + 1,
           UNCHANGED <<rows, op, broker>>
    PROVE  TasksInv'
<1>1. HandlerType' /\ Rests(q) /\ handler'[q].stage = "none"
  <2>1. NoProcess \in [stage : Stages, row : Nat, what : Whats \cup {"nothing"},
                       count : BOOLEAN, session : BOOLEAN]
    BY DEF NoProcess, Stages
  <2>2. NoProcess.stage = "none"
    BY DEF NoProcess
  <2>3. handler' = [handler EXCEPT ![q] = NoProcess]
    BY DEF Leaves
  <2> QED
    BY <2>1, <2>2, <2>3 DEF TasksInv, Types, HandlerType, Rests, Busy
<1>2. unsent' \subseteq unsent
  BY DEF Leaves
<1>3. HistoryType' /\ history'.overtaken = history.overtaken /\ history'.added = history.added
      /\ history'.cleared = history.cleared /\ history'.dropped = history.dropped \cup (unsent \ unsent')
  BY DEF Leaves, TasksInv, Types, HistoryType, Operations
<1>4. OwnTasks'
  BY <1>1 DEF OwnTasks, TasksInv, Types, Rests
<1>5. Types'
  BY <1>1, <1>2, <1>3, <1>4 DEF TasksInv, Types, OpType, RowsType
<1>6. SUFFICES ASSUME ~history.overtaken, Inside PROVE Inside'
  BY <1>3, <1>5 DEF TasksInv, Inside
<1>7. AddedOnce'
  BY <1>2, <1>3, <1>6 DEF Inside, AddedOnce
<1>8. RowsHeld'
  <2>1. "changer" \in Queues
    BY DEF Queues
  <2> QED
    BY <1>1, <1>6, <2>1 DEF Inside, RowsHeld, Rests
<1>9. \A o \in Operations : QueueOf(o) \in Queues
  BY QueueFacts DEF Whats
<1>10. \A o \in Operations : (With(o, Sent)' => With(o, Sent)) /\ (With(o, Begun)' => With(o, Begun))
  BY <1>1, <1>9 DEF With, Rests, Sent, Begun, Busy
<1>11. \A o \in Operations : Told(o) => Told(o)' \/ o \in history'.dropped
  BY <1>3 DEF Told
<1>12. SentIsTold' /\ Kept'
  BY <1>3, <1>6, <1>10, <1>11 DEF Inside, SentIsTold, Kept, Queued, TasksInv, Types, HistoryType
<1>13. Attempts'
  <2>1. \A o \in Operations : AnswersTo(o)' \in Nat /\ AnswersTo(o) \in Nat /\ AnswersTo(o)' <= AnswersTo(o)
    BY <1>2 DEF AnswersTo, TasksInv, Types, OpType
  <2>2. bounds.breaks \in Nat /\ bounds.downs \in Nat
    BY DEF TasksInv, Types, BoundsType
  <2>3. \A o \in Operations : op[o].performed \in Nat
    BY DEF TasksInv, Types, OpType
  <2>4. CASE bounds'.breaks = bounds.breaks + 1
    BY <1>6, <2>1, <2>2, <2>3, <2>4 DEF Inside, Attempts
  <2>5. CASE handler[q].stage \notin Begun /\ bounds'.breaks = bounds.breaks
    <3>1. \A o \in Operations : (With(o, Sent)' <=> With(o, Sent)) /\ (With(o, Begun)' <=> With(o, Begun))
      BY <1>1, <1>9, <2>5 DEF With, Rests, Sent, Begun, Busy
    <3> QED
      BY <1>6, <2>1, <2>2, <2>3, <2>5, <3>1 DEF Inside, Attempts, Queued
  <2> QED
    BY <2>4, <2>5
<1> QED
  BY <1>7, <1>8, <1>12, <1>13 DEF Inside

LEMMA FinishesStep == ASSUME TasksInv, NEW q \in Queues, Finishes(q) PROVE TasksInv'
<1>1. BoundsType' /\ bounds' = bounds
  BY DEF Finishes, TasksInv, Types, BoundsType
<1>2. handler[q].stage \notin Begun
  BY DEF Finishes, Stage, Begun, Busy
<1> QED
  BY <1>1, <1>2, LeavesStep DEF Finishes

LEMMA BreaksStep == ASSUME TasksInv, NEW q \in Queues, Breaks(q) PROVE TasksInv'
<1>1. BoundsType' /\ bounds'.downs = bounds.downs /\ bounds'.breaks = bounds.breaks + 1
  BY DEF Breaks, TasksInv, Types, BoundsType
<1> QED
  BY <1>1, LeavesStep DEF Breaks

\* What holds of the handler's operation and the others when its handler moves
LEMMA MoveFacts ==
    ASSUME TasksInv, NEW q \in Queues, handler[q].stage \in Busy,
           NEW stage \in Busy, Moves(q, stage)
    PROVE  /\ HandlerType' /\ OwnTasks'
           /\ handler[q].what \in Whats /\ QueueOf(handler[q].what) = q
           /\ rows' = rows /\ RowsHeld => RowsHeld'
           /\ \A o \in Operations : o # handler[q].what =>
                /\ With(o, Sent)' <=> With(o, Sent)
                /\ With(o, Begun)' <=> With(o, Begun)
<1>1. HandlerType' /\ OwnTasks'
  BY DEF Moves, TasksInv, Types, HandlerType, OwnTasks
<1>2. handler[q].what \in Whats /\ QueueOf(handler[q].what) = q
  BY DEF TasksInv, Types, OwnTasks
<1>3. ASSUME rows' = rows, RowsHeld PROVE RowsHeld'
  <2>1. "changer" \in Queues
    BY DEF Queues
  <2> QED
    BY <1>3, <2>1 DEF RowsHeld, Moves
<1>4. \A o \in Operations : QueueOf(o) \in Queues
  BY QueueFacts DEF Whats
<1>5. \A o \in Operations : o # handler[q].what =>
        (With(o, Sent)' <=> With(o, Sent)) /\ (With(o, Begun)' <=> With(o, Begun))
  BY <1>4 DEF With, Moves
<1> QED
  BY <1>1, <1>2, <1>3, <1>5

LEMMA ReportsStep == ASSUME TasksInv, Reports PROVE TasksInv'
<1> DEFINE q == "reporter"
<1>1. q \in Queues /\ handler[q].stage = "handling" /\ handler[q].stage \in Busy
  BY DEF Reports, Stage, Queues, Busy
<1>2. Moves(q, "handled")
  BY <1>1, ToFacts DEF Reports, TasksInv, Types, Stages, Busy
<1>3. UNCHANGED <<rows, unsent, op, history, bounds, broker>>
  BY DEF Reports
<1>4. "handled" \in Busy
  BY DEF Busy
<1>5. /\ HandlerType' /\ OwnTasks' /\ (RowsHeld => RowsHeld')
      /\ handler[q].what \in Whats /\ QueueOf(handler[q].what) = q
      /\ \A o \in Operations : o # handler[q].what =>
           /\ With(o, Sent)' <=> With(o, Sent)
           /\ With(o, Begun)' <=> With(o, Begun)
  BY <1>1, <1>2, <1>3, <1>4, MoveFacts
<1>6. Types'
  BY <1>3, <1>5 DEF TasksInv, Types, OpType, RowsType, HistoryType, BoundsType
<1>7. SUFFICES ASSUME ~history.overtaken, Inside PROVE Inside'
  BY <1>3, <1>6 DEF TasksInv, Inside
<1>8. \A o \in Operations : o # handler[q].what
  BY <1>5, QueueOfFacts DEF Operations
<1>9. AddedOnce' /\ RowsHeld'
  BY <1>3, <1>5, <1>7 DEF Inside, AddedOnce
<1>10. SentIsTold' /\ Kept'
  BY <1>3, <1>5, <1>7, <1>8 DEF Inside, SentIsTold, Told, Kept, Queued
<1>11. Attempts'
  BY <1>3, <1>5, <1>7, <1>8 DEF Inside, Attempts, AnswersTo, Queued
<1> QED
  BY <1>9, <1>10, <1>11 DEF Inside

\* A handler begins with its operation, and performs it or not.
LEMMA BeginStep ==
    ASSUME TasksInv, NEW q \in {"changer", "release-upgrader"}, handler[q].stage = "handling",
           NEW stage \in {"answering", "aborting"}, To(q, stage),
           op' = op \/ op' = Performed(q),
           UNCHANGED <<rows, unsent, history, bounds, broker>>
    PROVE  TasksInv'
<1>1. q \in Queues /\ handler[q].stage \in Busy /\ stage \in Busy /\ stage \in Stages
  BY DEF Queues, Busy, Stages
<1>2. Moves(q, stage)
  BY <1>1, ToFacts DEF TasksInv, Types
<1>3. PICK w : w = handler[q].what
  OBVIOUS
<1>4. /\ HandlerType' /\ OwnTasks' /\ (RowsHeld => RowsHeld')
      /\ w \in Whats /\ QueueOf(w) = q
      /\ \A o \in Operations : o # w =>
           /\ With(o, Sent)' <=> With(o, Sent)
           /\ With(o, Begun)' <=> With(o, Begun)
  BY <1>1, <1>2, <1>3, MoveFacts
<1>5. w \in Operations
  BY <1>4, QueueFacts DEF Operations
<1>6. /\ OpType' /\ \A o \in Operations : op'[o].answered = op[o].answered
      /\ \A o \in Operations : o # w => op'[o] = op[o]
      /\ op'[w].performed <= op[w].performed + 1
  BY <1>3, <1>5 DEF Performed, TasksInv, Types, OpType
<1>7. Types'
  BY <1>4, <1>6 DEF TasksInv, Types, RowsType, HistoryType, BoundsType
<1>8. SUFFICES ASSUME ~history.overtaken, Inside PROVE Inside'
  BY <1>7 DEF TasksInv, Inside
<1>9. With(w, Begun)' /\ ~With(w, Sent)' /\ ~With(w, Begun) /\ ~With(w, Sent)
  BY <1>2, <1>3, <1>4 DEF With, Moves, Begun, Sent, Busy
<1>10. Queued(w) /\ w \in history.added
  BY <1>1, <1>3, <1>5, <1>8 DEF Inside, RowsHeld, AddedOnce, Queued, Range
<1>11. AddedOnce'
  BY <1>6, <1>8, <1>10 DEF Inside, AddedOnce
<1>12. RowsHeld'
  BY <1>4, <1>8 DEF Inside
<1>13. SentIsTold' /\ Kept'
  BY <1>4, <1>6, <1>8, <1>9 DEF Inside, SentIsTold, Told, Kept, Queued, TasksInv, Types, HistoryType
<1>14. Attempts'
  <2>1. \A o \in Operations : AnswersTo(o)' = AnswersTo(o) /\ op'[o].performed \in Nat /\ op[o].performed \in Nat
    BY <1>6 DEF AnswersTo, TasksInv, Types, OpType
  <2>2. bounds.breaks \in Nat /\ bounds.downs \in Nat
    BY DEF TasksInv, Types, BoundsType
  <2>3. op[w].performed <= bounds.breaks /\ AnswersTo(w) <= bounds.breaks + bounds.downs
        /\ AnswersTo(w) <= 1 + bounds.breaks + bounds.downs
    BY <1>5, <1>8, <1>9, <1>10 DEF Inside, Attempts
  <2>4. op'[w].performed <= 1 + bounds.breaks
    BY <1>5, <1>6, <2>1, <2>2, <2>3
  <2> QED
    BY <1>4, <1>6, <1>8, <1>9, <2>1, <2>3, <2>4 DEF Inside, Attempts, Queued
<1> QED
  BY <1>11, <1>12, <1>13, <1>14 DEF Inside

LEMMA ChangeStep == ASSUME TasksInv, NEW performs \in BOOLEAN, Change(performs) PROVE TasksInv'
<1>1. handler["changer"].stage = "handling" /\ To("changer", "answering")
      /\ (op' = op \/ op' = Performed("changer"))
  BY DEF Change, Stage
<1> QED
  BY <1>1, BeginStep DEF Change

LEMMA UpgradeStep == ASSUME TasksInv, NEW performs \in BOOLEAN, Upgrade(performs) PROVE TasksInv'
<1> DEFINE q == "release-upgrader"
           stage == IF performs THEN "answering" ELSE "aborting"
<1>1. handler[q].stage = "handling" /\ To(q, stage) /\ (op' = op \/ op' = Performed(q))
  BY DEF Upgrade, Stage
<1>2. stage \in {"answering", "aborting"}
  OBVIOUS
<1> HIDE DEF stage
<1> QED
  BY <1>1, <1>2, BeginStep DEF Upgrade

\* The changer waits until the broker has taken the answer.
LEMMA AnswersStep == ASSUME TasksInv, Answers PROVE TasksInv'
<1> DEFINE q == "changer"
<1>1. /\ q \in Queues /\ handler[q].stage \in Busy /\ "handled" \in Busy /\ "handled" \in Stages
      /\ handler[q].stage = "answering"
  BY DEF Queues, Busy, Stages, Answers, Stage
<1>2. Moves(q, "handled")
  BY <1>1, ToFacts DEF TasksInv, Types, Answers
<1>3. PICK w : w = handler[q].what
  OBVIOUS
<1>4. UNCHANGED <<rows, unsent, history, bounds, broker>>
  BY DEF Answers
<1>5. /\ HandlerType' /\ OwnTasks' /\ (RowsHeld => RowsHeld')
      /\ w \in Whats /\ QueueOf(w) = q
      /\ \A o \in Operations : o # w =>
           /\ With(o, Sent)' <=> With(o, Sent)
           /\ With(o, Begun)' <=> With(o, Begun)
  BY <1>1, <1>2, <1>3, <1>4, MoveFacts
<1>6. w \in Operations
  BY <1>5, QueueFacts DEF Operations
<1>7. /\ OpType' /\ \A o \in Operations : op'[o].performed = op[o].performed
      /\ \A o \in Operations : o # w => op'[o] = op[o]
      /\ handler[q].session => op'[w].answered = op[w].answered + 1
  BY <1>3, <1>6 DEF Answers, Answered, TasksInv, Types, OpType
<1>8. Types'
  BY <1>4, <1>5, <1>7 DEF TasksInv, Types, RowsType, HistoryType, BoundsType
<1>9. SUFFICES ASSUME ~history.overtaken, Inside PROVE Inside'
  BY <1>4, <1>8 DEF TasksInv, Inside
<1>10. op'[w].answered = op[w].answered + 1
  BY <1>1, <1>7, <1>9 DEF Inside, RowsHeld
<1>11. With(w, Begun)' /\ With(w, Sent)' /\ With(w, Begun) /\ ~With(w, Sent)
  BY <1>1, <1>2, <1>3, <1>5 DEF With, Moves, Begun, Sent, Busy
<1>12. Queued(w) /\ w \in history.added
  BY <1>1, <1>3, <1>6, <1>9 DEF Inside, RowsHeld, AddedOnce, Queued, Range
<1>13. AddedOnce'
  BY <1>4, <1>7, <1>9, <1>12 DEF Inside, AddedOnce
<1>14. RowsHeld'
  BY <1>5, <1>9 DEF Inside
<1>15. Told(w)' /\ \A o \in Operations : Told(o) => Told(o)'
  BY <1>4, <1>6, <1>7, <1>10 DEF Told, TasksInv, Types, OpType
<1>16. SentIsTold' /\ Kept'
  BY <1>4, <1>5, <1>9, <1>15 DEF Inside, SentIsTold, Kept, Queued, TasksInv, Types, HistoryType
<1>17. Attempts'
  <2>1. \A o \in Operations : AnswersTo(o) \in Nat /\ (o # w => AnswersTo(o)' = AnswersTo(o))
    BY <1>4, <1>7 DEF AnswersTo, TasksInv, Types, OpType
  <2>2. AnswersTo(w)' = AnswersTo(w) + 1
    BY <1>4, <1>6, <1>10 DEF AnswersTo, TasksInv, Types, OpType
  <2>3. bounds.breaks \in Nat /\ bounds.downs \in Nat
    BY DEF TasksInv, Types, BoundsType
  <2>4. op[w].performed <= 1 + bounds.breaks /\ AnswersTo(w) <= bounds.breaks + bounds.downs
    BY <1>6, <1>9, <1>11, <1>12 DEF Inside, Attempts
  <2>5. AnswersTo(w)' <= 1 + bounds.breaks + bounds.downs
    BY <1>6, <2>1, <2>2, <2>3, <2>4
  <2> QED
    BY <1>4, <1>5, <1>7, <1>9, <1>11, <2>1, <2>4, <2>5 DEF Inside, Attempts, Queued
<1> QED
  BY <1>13, <1>14, <1>16, <1>17 DEF Inside

\* The upgrader does not wait.
LEMMA SendsUnwaitedStep == ASSUME TasksInv, SendsUnwaited PROVE TasksInv'
<1> DEFINE q == "release-upgrader"
<1>1. PICK stage \in {"tidying", "handled"} : To(q, stage)
  BY DEF SendsUnwaited
<1>2. /\ q \in Queues /\ handler[q].stage \in Busy /\ stage \in Busy /\ stage \in Stages
      /\ handler[q].stage \in {"answering", "aborting"}
  BY <1>1 DEF Queues, Busy, Stages, SendsUnwaited, Stage
<1>3. Moves(q, stage)
  BY <1>1, <1>2, ToFacts DEF TasksInv, Types
<1>4. PICK w : w = handler[q].what
  OBVIOUS
<1>5. UNCHANGED <<rows, op, history, bounds, broker>> /\ unsent' = unsent \cup {w}
  BY <1>4 DEF SendsUnwaited
<1>6. /\ HandlerType' /\ OwnTasks' /\ (RowsHeld => RowsHeld')
      /\ w \in Whats /\ QueueOf(w) = q
      /\ \A o \in Operations : o # w =>
           /\ With(o, Sent)' <=> With(o, Sent)
           /\ With(o, Begun)' <=> With(o, Begun)
  BY <1>2, <1>3, <1>4, <1>5, MoveFacts
<1>7. w \in Operations /\ w \in Upgrades
  BY <1>6, QueueFacts DEF Operations
<1>8. Types'
  BY <1>5, <1>6, <1>7 DEF TasksInv, Types, RowsType, HistoryType, BoundsType, OpType
<1>9. SUFFICES ASSUME ~history.overtaken, Inside PROVE Inside'
  BY <1>5, <1>8 DEF TasksInv, Inside
<1>10. With(w, Begun)' /\ With(w, Sent)' /\ With(w, Begun) /\ ~With(w, Sent)
  BY <1>1, <1>2, <1>3, <1>4, <1>6 DEF With, Moves, Begun, Sent, Busy
<1>11. Queued(w) /\ w \in history.added
  BY <1>2, <1>4, <1>7, <1>9 DEF Inside, RowsHeld, AddedOnce, Queued, Range
<1>12. AddedOnce'
  BY <1>5, <1>9, <1>11 DEF Inside, AddedOnce
<1>13. RowsHeld'
  BY <1>6, <1>9 DEF Inside
<1>14. Told(w)' /\ \A o \in Operations : Told(o) => Told(o)'
  BY <1>5 DEF Told
<1>15. SentIsTold' /\ Kept'
  BY <1>5, <1>6, <1>9, <1>14 DEF Inside, SentIsTold, Kept, Queued, TasksInv, Types, HistoryType
<1>16. Attempts'
  <2>1. \A o \in Operations : AnswersTo(o) \in Nat /\ (o # w => AnswersTo(o)' = AnswersTo(o))
    BY <1>5 DEF AnswersTo, TasksInv, Types, OpType
  <2>2. AnswersTo(w)' \in Nat /\ AnswersTo(w)' <= AnswersTo(w) + 1
    BY <1>5, <1>7 DEF AnswersTo, TasksInv, Types, OpType
  <2>3. bounds.breaks \in Nat /\ bounds.downs \in Nat
    BY DEF TasksInv, Types, BoundsType
  <2>4. op[w].performed <= 1 + bounds.breaks /\ AnswersTo(w) <= bounds.breaks + bounds.downs
    BY <1>7, <1>9, <1>10, <1>11 DEF Inside, Attempts
  <2>5. AnswersTo(w)' <= 1 + bounds.breaks + bounds.downs
    BY <1>7, <2>1, <2>2, <2>3, <2>4
  <2> QED
    BY <1>5, <1>6, <1>9, <1>10, <2>1, <2>4, <2>5 DEF Inside, Attempts, Queued
<1> QED
  BY <1>12, <1>13, <1>15, <1>16 DEF Inside

\* finish succeeds, or its failure is a break that abort answers once more.
LEMMA TidiesStep == ASSUME TasksInv, Tidies PROVE TasksInv'
<1> DEFINE q == "release-upgrader"
<1>1. PICK stage \in {"aborting", "handled"} :
        /\ To(q, stage)
        /\ bounds' = IF stage = "handled" THEN bounds ELSE [bounds EXCEPT !.breaks = @ + 1]
  <2>1. CASE To(q, "handled") /\ UNCHANGED bounds
    BY <2>1
  <2>2. CASE To(q, "aborting") /\ bounds' = [bounds EXCEPT !.breaks = @ + 1]
    BY <2>2
  <2> QED
    BY <2>1, <2>2 DEF Tidies
<1>2. /\ q \in Queues /\ handler[q].stage \in Busy /\ stage \in Busy /\ stage \in Stages
      /\ handler[q].stage = "tidying"
  BY <1>1 DEF Queues, Busy, Stages, Tidies, Stage
<1>3. Moves(q, stage)
  BY <1>1, <1>2, ToFacts DEF TasksInv, Types
<1>4. PICK w : w = handler[q].what
  OBVIOUS
<1>5. UNCHANGED <<rows, op, unsent, history, broker>>
  BY DEF Tidies
<1>6. /\ HandlerType' /\ OwnTasks' /\ (RowsHeld => RowsHeld')
      /\ w \in Whats /\ QueueOf(w) = q
      /\ \A o \in Operations : o # w =>
           /\ With(o, Sent)' <=> With(o, Sent)
           /\ With(o, Begun)' <=> With(o, Begun)
  BY <1>2, <1>3, <1>4, <1>5, MoveFacts
<1>7. w \in Operations
  BY <1>6, QueueFacts DEF Operations
<1>8. BoundsType' /\ bounds'.downs = bounds.downs
      /\ bounds'.breaks = (IF stage = "handled" THEN bounds.breaks ELSE bounds.breaks + 1)
  BY <1>1 DEF TasksInv, Types, BoundsType
<1>9. Types'
  BY <1>5, <1>6, <1>8 DEF TasksInv, Types, RowsType, HistoryType, OpType
<1>10. SUFFICES ASSUME ~history.overtaken, Inside PROVE Inside'
  BY <1>5, <1>9 DEF TasksInv, Inside
<1>11. With(w, Begun)' /\ With(w, Sent) /\ (stage = "handled" => With(w, Sent)')
  BY <1>1, <1>2, <1>3, <1>4, <1>6 DEF With, Moves, Begun, Sent, Busy
<1>12. AddedOnce' /\ RowsHeld'
  BY <1>5, <1>6, <1>10 DEF Inside, AddedOnce
<1>13. SentIsTold' /\ Kept'
  BY <1>5, <1>6, <1>10, <1>11 DEF Inside, SentIsTold, Kept, Told, Queued, TasksInv, Types, HistoryType
<1>14. Attempts'
  <2>1. \A o \in Operations : AnswersTo(o) \in Nat /\ AnswersTo(o)' = AnswersTo(o) /\ op[o].performed \in Nat
    BY <1>5 DEF AnswersTo, TasksInv, Types, OpType
  <2>2. bounds.breaks \in Nat /\ bounds.downs \in Nat
    BY DEF TasksInv, Types, BoundsType
  <2>3. CASE stage = "handled"
    BY <1>5, <1>6, <1>8, <1>10, <1>11, <2>1, <2>3 DEF Inside, Attempts, Queued
  <2>4. CASE stage # "handled"
    BY <1>5, <1>8, <1>10, <2>1, <2>2, <2>4 DEF Inside, Attempts
  <2> QED
    BY <2>3, <2>4
<1> QED
  BY <1>12, <1>13, <1>14 DEF Inside

\* An answer that nobody waits for arrives.
LEMMA DeliveredStep == ASSUME TasksInv, NEW w \in Operations, Delivered(w) PROVE TasksInv'
<1>1. UNCHANGED <<rows, handler, history, bounds, broker>> /\ w \in unsent /\ unsent' = unsent \ {w}
  BY DEF Delivered
<1>2. /\ OpType' /\ \A o \in Operations : op'[o].performed = op[o].performed
      /\ \A o \in Operations : o # w => op'[o] = op[o]
      /\ op'[w].answered = op[w].answered + 1
  BY DEF Delivered, TasksInv, Types, OpType
<1>3. Types'
  BY <1>1, <1>2 DEF TasksInv, Types, HandlerType, OwnTasks, RowsType, HistoryType, BoundsType
<1>4. SUFFICES ASSUME ~history.overtaken, Inside PROVE Inside'
  BY <1>1, <1>3 DEF TasksInv, Inside
<1>5. AddedOnce'
  BY <1>1, <1>2, <1>4 DEF Inside, AddedOnce
<1>6. RowsHeld'
  BY <1>1, <1>4 DEF Inside, RowsHeld
<1>7. \A o \in Operations : Told(o) => Told(o)'
  BY <1>1, <1>2 DEF Told, TasksInv, Types, OpType
<1>8. SentIsTold' /\ Kept'
  BY <1>1, <1>4, <1>7 DEF Inside, SentIsTold, Kept, With, Queued, TasksInv, Types, HistoryType
<1>9. \A o \in Operations : AnswersTo(o)' = AnswersTo(o)
  BY <1>1, <1>2 DEF AnswersTo, TasksInv, Types, OpType
<1>10. Attempts'
  BY <1>1, <1>2, <1>4, <1>9 DEF Inside, Attempts, Queued, With
<1> QED
  BY <1>5, <1>6, <1>8, <1>10 DEF Inside

\* The broker goes away and has taken one answer that is sent again, or none.
LEMMA BrokerGoesStep == ASSUME TasksInv, BrokerGoes PROVE TasksInv'
<1>1. UNCHANGED <<rows, handler>> /\ unsent' \subseteq unsent /\ broker' \in BOOLEAN
  BY DEF BrokerGoes
<1>2. BoundsType' /\ bounds'.breaks = bounds.breaks /\ bounds'.downs = bounds.downs + 1
  BY DEF BrokerGoes, TasksInv, Types, BoundsType
<1>3. HistoryType' /\ history'.overtaken = history.overtaken /\ history'.added = history.added
      /\ history'.cleared = history.cleared /\ history'.dropped = history.dropped \cup (unsent \ unsent')
  BY DEF BrokerGoes, TasksInv, Types, HistoryType, Operations
<1>4. \/ op' = op
      \/ \E o \in unsent : op' = [op EXCEPT ![o].answered = @ + 1]
      \/ /\ handler["changer"].stage = "answering"
         /\ op' = Answered("changer")
  BY DEF BrokerGoes, Stage
<1> DEFINE Taken(o) == \/ o \in unsent
                       \/ handler["changer"].stage = "answering" /\ handler["changer"].what = o
<1>5. op' = op \/ \E w \in Operations : op' = [op EXCEPT ![w].answered = @ + 1] /\ Taken(w)
  <2>1. CASE \E o \in unsent : op' = [op EXCEPT ![o].answered = @ + 1]
    BY <2>1 DEF TasksInv, Types, Operations
  <2>2. CASE handler["changer"].stage = "answering" /\ op' = Answered("changer")
    <3>1. "changer" \in Queues /\ "answering" \in Busy
      BY DEF Queues, Busy
    <3>2. handler["changer"].what \in Operations
      BY <2>2, <3>1, QueueFacts DEF TasksInv, Types, OwnTasks, Operations
    <3> QED
      BY <2>2, <3>2 DEF Answered
  <2> QED
    BY <1>4, <2>1, <2>2
<1> HIDE DEF Taken
<1>6. /\ OpType' /\ \A o \in Operations : op'[o].performed = op[o].performed
      /\ \A o \in Operations : op'[o].answered = op[o].answered \/ op'[o].answered = op[o].answered + 1
      /\ \A o \in Operations : op'[o].answered # op[o].answered => Taken(o)
  <2>1. CASE op' = op
    BY <2>1 DEF TasksInv, Types, OpType
  <2>2. ASSUME NEW w \in Operations, op' = [op EXCEPT ![w].answered = @ + 1], Taken(w)
        PROVE  /\ OpType' /\ \A o \in Operations : op'[o].performed = op[o].performed
               /\ \A o \in Operations : op'[o].answered = op[o].answered \/ op'[o].answered = op[o].answered + 1
               /\ \A o \in Operations : op'[o].answered # op[o].answered => Taken(o)
    BY <2>2 DEF TasksInv, Types, OpType
  <2> QED
    BY <1>5, <2>1, <2>2
<1>7. Types'
  BY <1>1, <1>2, <1>3, <1>6 DEF TasksInv, Types, HandlerType, OwnTasks, RowsType
<1>8. SUFFICES ASSUME ~history.overtaken, Inside PROVE Inside'
  BY <1>3, <1>7 DEF TasksInv, Inside
<1>9. \A o \in Operations : Taken(o) => o \in history.added
  <2>1. ASSUME NEW o \in Operations, o \in unsent PROVE o \in history.added
    BY <1>8, <2>1 DEF Inside, AddedOnce
  <2>2. ASSUME NEW o \in Operations, handler["changer"].stage = "answering", handler["changer"].what = o
        PROVE  o \in history.added
    <3>1. "changer" \in Queues /\ "answering" \in Busy
      BY DEF Queues, Busy
    <3>2. \E r \in DOMAIN rows : rows[r] = o
      BY <1>8, <2>2, <3>1 DEF Inside, RowsHeld
    <3> QED
      BY <1>8, <3>2 DEF Inside, AddedOnce
  <2> QED
    BY <2>1, <2>2 DEF Taken
<1>10. AddedOnce'
  BY <1>1, <1>3, <1>6, <1>8, <1>9 DEF Inside, AddedOnce
<1>11. RowsHeld'
  BY <1>1, <1>8 DEF Inside, RowsHeld
<1>12. \A o \in Operations : Told(o) => Told(o)' \/ o \in history'.dropped
  BY <1>1, <1>3, <1>6 DEF Told, TasksInv, Types, OpType
<1>13. SentIsTold' /\ Kept'
  BY <1>1, <1>3, <1>8, <1>12 DEF Inside, SentIsTold, Kept, With, Queued, TasksInv, Types, HistoryType
<1>14. Attempts'
  <2>1. \A o \in Operations : AnswersTo(o) \in Nat /\ AnswersTo(o)' \in Nat /\ AnswersTo(o)' <= AnswersTo(o) + 1
    BY <1>1, <1>6 DEF AnswersTo, TasksInv, Types, OpType
  <2>2. bounds.breaks \in Nat /\ bounds.downs \in Nat
    BY DEF TasksInv, Types, BoundsType
  <2>3. SUFFICES ASSUME NEW o \in Operations
                 PROVE  /\ op'[o].performed <= 1 + bounds'.breaks
                        /\ Queued(o)' /\ ~With(o, Begun)' => op'[o].performed <= bounds'.breaks
                        /\ AnswersTo(o)' <= 1 + bounds'.breaks + bounds'.downs
                        /\ Queued(o)' /\ ~With(o, Sent)' => AnswersTo(o)' <= bounds'.breaks + bounds'.downs
    BY DEF Attempts
  <2>4. /\ op[o].performed <= 1 + bounds.breaks
        /\ Queued(o) /\ ~With(o, Begun) => op[o].performed <= bounds.breaks
        /\ AnswersTo(o) <= 1 + bounds.breaks + bounds.downs
        /\ Queued(o) /\ ~With(o, Sent) => AnswersTo(o) <= bounds.breaks + bounds.downs
    BY <1>8 DEF Inside, Attempts
  <2>5. (Queued(o)' <=> Queued(o)) /\ (With(o, Begun)' <=> With(o, Begun)) /\ (With(o, Sent)' <=> With(o, Sent))
    BY <1>1 DEF Queued, With
  <2>6. op'[o].performed = op[o].performed
    BY <1>6
  <2> QED
    BY <1>2, <2>1, <2>2, <2>4, <2>5, <2>6
<1> QED
  BY <1>10, <1>11, <1>13, <1>14 DEF Inside

-----------------------------------------------------------------------------
LEMMA TasksInvInit == Init => TasksInv
<1>1. SUFFICES ASSUME Init PROVE TasksInv
  OBVIOUS
<1>2. rows = <<>> /\ DOMAIN rows = {}
  BY <1>1 DEF Init
<1>3. RowsType(rows)
  BY <1>2, FS_EmptySet DEF RowsType
<1>4. \A q \in Queues : handler[q] = NoProcess
  BY <1>1 DEF Init
<1>5. NoProcess.stage = "none" /\ "none" \notin Busy \cup {"running"}
  BY DEF NoProcess, Busy
<1>6. HandlerType /\ OwnTasks
  <2>1. HandlerType
    BY <1>1 DEF Init, HandlerType, NoProcess, Stages
  <2> QED
    BY <1>4, <1>5, <2>1 DEF OwnTasks
<1>7. OpType /\ BoundsType /\ HistoryType
  BY <1>1 DEF Init, OpType, BoundsType, HistoryType
<1>8. Types
  BY <1>1, <1>3, <1>6, <1>7 DEF Init, Types
<1>9. history.added = {} /\ unsent = {} /\ \A o \in Operations : op[o].performed = 0 /\ op[o].answered = 0
  BY <1>1 DEF Init
<1>10. AddedOnce
  BY <1>2, <1>9 DEF AddedOnce
<1>11. RowsHeld
  BY <1>4, <1>5 DEF RowsHeld, Queues
<1>12. \A o \in Operations : ~With(o, Sent)
  <2>1. \A o \in Operations : QueueOf(o) \in Queues
    BY QueueFacts DEF Whats
  <2> QED
    BY <1>4, <1>5, <2>1 DEF With, Sent, Busy
<1>13. SentIsTold /\ Kept
  BY <1>9, <1>12 DEF SentIsTold, Kept
<1>14. Attempts
  BY <1>7, <1>9 DEF Attempts, AnswersTo, BoundsType
<1> QED
  BY <1>8, <1>10, <1>11, <1>13, <1>14 DEF TasksInv

LEMMA TasksInvStep == TasksInv /\ [Next]_vars => TasksInv'
<1>1. SUFFICES ASSUME TasksInv, [Next]_vars PROVE TasksInv'
  OBVIOUS
<1>2. broker \in BOOLEAN
  BY <1>1 DEF TasksInv, Types
<1>3. CASE UNCHANGED vars
  BY <1>1, <1>2, <1>3, SameStep DEF vars
<1>4. CASE Plugins
  <2>1. CASE ManagerRun
    BY <1>1, <1>2, <2>1, SameStep DEF ManagerRun
  <2>2. CASE MonitorRun
    BY <1>1, <1>2, <2>2, SameStep DEF MonitorRun
  <2> QED
    BY <1>1, <1>4, <2>1, <2>2, MonitorMessageStep, ResynchronizeStep, ResetAddsStep, ResetClearsStep,
       ManagerMessageStep DEF Plugins
<1>5. CASE Handling
  <2>1. CASE Postpones
    <3>1. "changer" \in Queues
      BY DEF Queues
    <3> QED
      BY <1>1, <2>1, <3>1, GivesUpStep DEF Postpones, Stage
  <2> QED
    BY <1>1, <1>5, <2>1, ChangeStep, UpgradeStep, AnswersStep, SendsUnwaitedStep, TidiesStep, ReportsStep,
       DeliveredStep DEF Handling
<1>6. CASE BrokerGoes
  BY <1>1, <1>6, BrokerGoesStep
<1>7. CASE BrokerReturns
  BY <1>1, <1>7, SameStep DEF BrokerReturns
<1>8. CASE \E q \in Queues : Starts(q) \/ Process(q) \/ Breaks(q)
  <2>1. PICK q \in Queues : Starts(q) \/ Process(q) \/ Breaks(q)
    BY <1>8
  <2>2. CASE PicksNone(q)
    BY <1>1, <2>2, GivesUpStep DEF PicksNone, Stage
  <2> QED
    BY <1>1, <2>1, <2>2, StartsStep, BreaksStep, PreparesStep, PicksStep, RemovesStep, FinishesStep
       DEF Process
<1> QED
  BY <1>1, <1>3, <1>4, <1>5, <1>6, <1>7, <1>8 DEF Next

LEMMA TasksInvRight == TasksInv => TasksRight
<1>1. SUFFICES ASSUME TasksInv, ~history.overtaken PROVE TasksRight
  BY DEF TasksRight, TasksKept, RepeatsExplained
<1>2. TasksKept
  BY <1>1 DEF TasksInv, Kept, TasksKept
<1>3. RepeatsExplained
  <2>1. \A o \in Operations : op[o].answered \in Nat /\ op[o].answered <= AnswersTo(o) /\ AnswersTo(o) \in Nat
    BY <1>1 DEF TasksInv, Types, OpType, AnswersTo
  <2>2. bounds.breaks \in Nat /\ bounds.downs \in Nat
    BY <1>1 DEF TasksInv, Types, BoundsType
  <2> QED
    BY <1>1, <2>1, <2>2 DEF TasksInv, Attempts, RepeatsExplained
<1> QED
  BY <1>2, <1>3 DEF TasksRight

(***************************************************************************)
(* No package operation is lost between its message and its answer, and    *)
(* none is performed or answered more often than handlers and the broker   *)
(* break (handle_task, _handle_next_task, handle_release_upgrade), for any *)
(* operations, rows, resynchronisations, kills and absences of the broker. *)
(***************************************************************************)
THEOREM TasksRightAlways == Spec => []TasksRight
<1>1. TasksInv => TasksRight
  BY TasksInvRight
<1> QED
  BY <1>1, TasksInvInit, TasksInvStep, PTL DEF Spec
=============================================================================
