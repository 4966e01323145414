------------------------ MODULE PackageReportsProofs ------------------------
(***************************************************************************)
(* A hash never has the id of another package, for any packages, database  *)
(* of the server, and number of changes, faults, resynchronisations and    *)
(* requests that get too old: as long as no request is given up while it   *)
(* may still be answered and no answer comes a second time, a row of       *)
(* hash_id_request means the same to everyone who holds its number.        *)
(***************************************************************************)
EXTENDS PackageReports, FiniteSetTheorems, SequenceTheorems, WellFoundedInduction, TLAPS

-----------------------------------------------------------------------------
(* The invariant                                                           *)

Clean(x) == "given_up" \notin x /\ "repeated" \notin x

IsSeq(s) == s \in Seq(Range(s))
IsRequest(m) == m.type \notin {"packages", "resynchronize"}

\* A row is the number of at most one message, answer or task.
Apart(s) ==
    \A i, j \in DOMAIN s : IsRequest(s[i]) /\ IsRequest(s[j]) /\ s[i].row = s[j].row => i = j
Free(s, row) == \A i \in DOMAIN s : IsRequest(s[i]) => s[i].row # row
Disjoint(s, t) == \A i \in DOMAIN s : IsRequest(s[i]) => Free(t, s[i].row)

\* The request is still there, and is about the hashes of the message; and an
\* answer has for each of its hashes the right id or none.
Asked(m, req) == m.row \in DOMAIN req /\ m.hashes = req[m.row].hashes
Fits(m, req) ==
    /\ m.row \in DOMAIN req
    /\ \A i \in DOMAIN m.ids \cap DOMAIN req[m.row].hashes : m.ids[i] \in {NoId, req[m.row].hashes[i]}

Bounded(rows) == \E n \in Nat : \A r \in rows : r <= n
RequestsType(req) ==
    /\ DOMAIN req \subseteq Nat /\ Bounded(DOMAIN req)
    /\ \A r \in DOMAIN req : DOMAIN req[r] = {"hashes", "message", "old"}

AllAsked(q, req) == IsSeq(q) /\ \A i \in DOMAIN q : IsRequest(q[i]) => Asked(q[i], req)
AllFit(s, req) == IsSeq(s) /\ \A i \in DOMAIN s : IsRequest(s[i]) => Fits(s[i], req)

\* What goes on between the reporter and the server
TrafficRight(q, a, t, req) ==
    /\ AllAsked(q, req) /\ AllFit(a, req) /\ AllFit(t, req)
    /\ Apart(q) /\ Apart(a) /\ Apart(t)
    /\ Disjoint(q, a) /\ Disjoint(q, t) /\ Disjoint(a, t)

Unused(row, q, a, t) == Free(q, row) /\ Free(a, row) /\ Free(t, row)

\* A message that is about to be sent, and the task that led to it
CallRight(run, q, a, t, req) ==
    run.at = "sending" =>
      \/ run.call.type = "packages" /\ DOMAIN run.call = {"type", "id", "new", "not"}
      \/ /\ run.call.type \in {"add-packages", "unknown-package-hashes"}
         /\ DOMAIN run.call = {"type", "id", "row", "hashes"}
         /\ Asked(run.call, req) /\ Unused(run.call.row, q, a, t)
OnlyFirst(task, t) ==
    \A i \in DOMAIN t : IsRequest(t[i]) /\ t[i].row = task.row => i = 1 /\ t[i] = task
TaskRight(run, q, a, t) ==
    run.at \in {"sending", "sent"} /\ run.call.type = "add-packages" =>
      /\ run.at = "sending" => run.call.row # run.task.row
      /\ Free(q, run.task.row) /\ Free(a, run.task.row) /\ OnlyFirst(run.task, t)

RunType(run) ==
    DOMAIN run = {"at", "loaded", "seen", "session", "attached", "got_task", "task", "call",
                  "message_id"}
RunRight(run, q, a, t, req) == RunType(run) /\ CallRight(run, q, a, t, req) /\ TaskRight(run, q, a, t)

IdsRightNow(ids) == \A h \in Hash : ids[h] \in {NoId, h}

\* Without the two excuses all of it holds.
Sound ==
    /\ IdsRightNow(hash_ids)
    /\ RequestsType(requests)
    /\ TrafficRight(queue, answers, tasks, requests)
    /\ RunRight(reporter, queue, answers, tasks, requests)
IdsInv == Clean(excuses) => Sound

-----------------------------------------------------------------------------
(* Sequences of messages                                                   *)

LEMMA EmptySeqRight == IsSeq(<<>>) /\ DOMAIN <<>> = {}
<1>1. <<>> \in Seq(Range(<<>>))
  BY EmptySeq
<1> QED
  BY <1>1 DEF IsSeq

AppendIs(s, e, t) ==
    /\ IsSeq(t) /\ Len(s) \in Nat
    /\ DOMAIN s = 1 .. Len(s) /\ DOMAIN t = 1 .. (Len(s) + 1)
    /\ \A i \in DOMAIN s : t[i] = s[i]
    /\ t[Len(s) + 1] = e

LEMMA AppendFacts ==
    ASSUME NEW s, NEW e, IsSeq(s)
    PROVE  AppendIs(s, e, Append(s, e))
<1> DEFINE S == Range(s) \cup {e}
           t == Append(s, e)
<1>1. s \in Seq(S)
  BY SeqMonotonic DEF IsSeq
<1>2. Len(s) \in Nat /\ DOMAIN s = 1 .. Len(s)
  BY <1>1, LenProperties
<1>3. /\ t \in Seq(S) /\ Len(t) = Len(s) + 1
      /\ \A i \in 1 .. Len(s) : t[i] = s[i]
      /\ t[Len(s) + 1] = e
  BY <1>1, AppendProperties
<1>4. DOMAIN t = 1 .. (Len(s) + 1)
  BY <1>3, LenProperties
<1>5. IsSeq(t)
  BY <1>3, SeqOfRange DEF IsSeq
<1> QED
  BY <1>2, <1>3, <1>4, <1>5 DEF AppendIs

TailIs(s, t) ==
    /\ IsSeq(t) /\ 1 \in DOMAIN s /\ Head(s) = s[1]
    /\ \A i \in DOMAIN t : i \in Nat /\ i >= 1 /\ i + 1 \in DOMAIN s /\ t[i] = s[i + 1]

LEMMA TailFacts ==
    ASSUME NEW s, IsSeq(s), s # <<>>
    PROVE  TailIs(s, Tail(s))
<1> DEFINE S == Range(s)
           t == Tail(s)
<1>1. s \in Seq(S)
  BY DEF IsSeq
<1>2. Len(s) \in Nat /\ DOMAIN s = 1 .. Len(s)
  BY <1>1, LenProperties
<1>3. t \in Seq(S) /\ Len(t) = Len(s) - 1 /\ \A i \in 1 .. Len(t) : t[i] = s[i + 1]
  BY <1>1, HeadTailProperties
<1>4. DOMAIN t = 1 .. Len(t) /\ Len(t) \in Nat
  BY <1>3, LenProperties
<1>5. IsSeq(t)
  BY <1>3, SeqOfRange DEF IsSeq
<1>6. Head(s) = s[1]
  BY <1>1
<1> HIDE DEF S, t
<1>7. 1 \in DOMAIN s /\ \A i \in DOMAIN t : i \in Nat /\ i >= 1 /\ i + 1 \in DOMAIN s
  BY <1>2, <1>3, <1>4
<1> QED
  BY <1>3, <1>4, <1>5, <1>6, <1>7 DEF TailIs, t

\* What a sequence without its first message keeps
TailKeeps(s, t) ==
    /\ IsSeq(t)
    /\ Apart(s) => Apart(t) /\ (IsRequest(Head(s)) => Free(t, Head(s).row))
    /\ \A row : Free(s, row) => Free(t, row)
    /\ \A u : Disjoint(s, u) => Disjoint(t, u)
    /\ \A u : Disjoint(u, s) => Disjoint(u, t)
    /\ \A req : AllAsked(s, req) => AllAsked(t, req) /\ (IsRequest(Head(s)) => Asked(Head(s), req))
    /\ \A req : AllFit(s, req) => AllFit(t, req) /\ (IsRequest(Head(s)) => Fits(Head(s), req))
    /\ \A row : Free(s, row) /\ IsRequest(Head(s)) => Head(s).row # row
    /\ \A u : Disjoint(s, u) /\ IsRequest(Head(s)) => Free(u, Head(s).row)
    /\ \A u : Disjoint(u, s) /\ IsRequest(Head(s)) => Free(u, Head(s).row)

LEMMA TailKept ==
    ASSUME NEW s, IsSeq(s), s # <<>>
    PROVE  TailKeeps(s, Tail(s))
<1>1. PICK t : t = Tail(s)
  OBVIOUS
<1>2. TailIs(s, t)
  BY <1>1, TailFacts
<1>3. PICK h : h = Head(s)
  OBVIOUS
<1>4. /\ IsSeq(t) /\ 1 \in DOMAIN s /\ h = s[1]
      /\ \A i \in DOMAIN t : i \in Nat /\ i >= 1 /\ i + 1 \in DOMAIN s /\ t[i] = s[i + 1]
  BY <1>2, <1>3 DEF TailIs
<1>5. Apart(s) => Apart(t) /\ (IsRequest(h) => Free(t, h.row))
  <2>1. SUFFICES ASSUME Apart(s) PROVE Apart(t) /\ (IsRequest(h) => Free(t, h.row))
    OBVIOUS
  <2>2. Apart(t)
    <3>1. SUFFICES ASSUME NEW i \in DOMAIN t, NEW j \in DOMAIN t, IsRequest(t[i]), IsRequest(t[j]),
                          t[i].row = t[j].row
                   PROVE  i = j
      BY DEF Apart
    <3>2. i + 1 = j + 1
      BY <1>4, <2>1, <3>1 DEF Apart
    <3> QED
      BY <1>4, <3>2
  <2>3. ASSUME IsRequest(h), NEW i \in DOMAIN t, IsRequest(t[i]), t[i].row = h.row PROVE FALSE
    <3>1. 1 = i + 1
      BY <1>4, <2>1, <2>3 DEF Apart
    <3> QED
      BY <1>4, <3>1
  <2> QED
    BY <2>2, <2>3 DEF Free
<1>6. \A row : Free(s, row) => Free(t, row)
  BY <1>4 DEF Free
<1>7. \A u : Disjoint(s, u) => Disjoint(t, u)
  BY <1>4 DEF Disjoint
<1>8. \A u : Disjoint(u, s) => Disjoint(u, t)
  BY <1>6 DEF Disjoint
<1>9. \A req : AllAsked(s, req) => AllAsked(t, req) /\ (IsRequest(h) => Asked(h, req))
  BY <1>4 DEF AllAsked
<1>10. \A req : AllFit(s, req) => AllFit(t, req) /\ (IsRequest(h) => Fits(h, req))
  BY <1>4 DEF AllFit
<1>11. \A row : Free(s, row) /\ IsRequest(h) => h.row # row
  BY <1>4 DEF Free
<1>12. \A u : Disjoint(s, u) /\ IsRequest(h) => Free(u, h.row)
  BY <1>4 DEF Disjoint
<1>13. \A u : Disjoint(u, s) /\ IsRequest(h) => Free(u, h.row)
  BY <1>4 DEF Disjoint, Free
<1> QED
  BY <1>1, <1>3, <1>4, <1>5, <1>6, <1>7, <1>8, <1>9, <1>10, <1>11, <1>12, <1>13 DEF TailKeeps

\* And with one more message
AppendKeeps(s, e, t) ==
    /\ IsSeq(t)
    /\ Apart(s) /\ (IsRequest(e) => Free(s, e.row)) => Apart(t)
    /\ \A row : Free(s, row) /\ (IsRequest(e) => e.row # row) => Free(t, row)
    /\ \A u : Disjoint(s, u) /\ (IsRequest(e) => Free(u, e.row)) => Disjoint(t, u)
    /\ \A u : Disjoint(u, s) /\ (IsRequest(e) => Free(u, e.row)) => Disjoint(u, t)
    /\ \A req : AllAsked(s, req) /\ (IsRequest(e) => Asked(e, req)) => AllAsked(t, req)
    /\ \A req : AllFit(s, req) /\ (IsRequest(e) => Fits(e, req)) => AllFit(t, req)
    /\ \A task : OnlyFirst(task, s) /\ (IsRequest(e) => e.row # task.row) => OnlyFirst(task, t)

LEMMA AppendKept ==
    ASSUME NEW s, NEW e, IsSeq(s)
    PROVE  AppendKeeps(s, e, Append(s, e))
<1>1. PICK t : t = Append(s, e)
  OBVIOUS
<1>2. AppendIs(s, e, t)
  BY <1>1, AppendFacts
<1>3. PICK n : n = Len(s) + 1
  OBVIOUS
<1>4. /\ IsSeq(t) /\ DOMAIN t = DOMAIN s \cup {n} /\ n \notin DOMAIN s
      /\ \A i \in DOMAIN s : t[i] = s[i]
      /\ t[n] = e
  BY <1>2, <1>3 DEF AppendIs
<1>5. Apart(s) /\ (IsRequest(e) => Free(s, e.row)) => Apart(t)
  BY <1>4 DEF Apart, Free
<1>6. \A row : Free(s, row) /\ (IsRequest(e) => e.row # row) => Free(t, row)
  BY <1>4 DEF Free
<1>7. \A u : Disjoint(s, u) /\ (IsRequest(e) => Free(u, e.row)) => Disjoint(t, u)
  BY <1>4 DEF Disjoint
<1>8. \A u : Disjoint(u, s) /\ (IsRequest(e) => Free(u, e.row)) => Disjoint(u, t)
  BY <1>4 DEF Disjoint, Free
<1>9. \A req : AllAsked(s, req) /\ (IsRequest(e) => Asked(e, req)) => AllAsked(t, req)
  BY <1>4 DEF AllAsked
<1>10. \A req : AllFit(s, req) /\ (IsRequest(e) => Fits(e, req)) => AllFit(t, req)
  BY <1>4 DEF AllFit
<1>11. \A task : OnlyFirst(task, s) /\ (IsRequest(e) => e.row # task.row) => OnlyFirst(task, t)
  BY <1>4 DEF OnlyFirst
<1> QED
  BY <1>1, <1>4, <1>5, <1>6, <1>7, <1>8, <1>9, <1>10, <1>11 DEF AppendKeeps

-----------------------------------------------------------------------------
(* The traffic                                                             *)

Right(run, q, a, t, req) == TrafficRight(q, a, t, req) /\ RunRight(run, q, a, t, req)

\* The server takes a message.
LEMMA Taken ==
    ASSUME NEW run, NEW q, NEW a, NEW t, NEW req, Right(run, q, a, t, req), q # <<>>
    PROVE  Right(run, Tail(q), a, t, req)
<1>1. PICK u : u = Tail(q)
  OBVIOUS
<1>2. TailKeeps(q, u)
  BY <1>1, TailKept DEF Right, TrafficRight, AllAsked
<1>3. TrafficRight(u, a, t, req)
  BY <1>2 DEF Right, TrafficRight, TailKeeps
<1>4. RunRight(run, u, a, t, req)
  BY <1>2 DEF Right, RunRight, CallRight, TaskRight, Unused, TailKeeps
<1> QED
  BY <1>1, <1>3, <1>4 DEF Right

\* The server answers it.
LEMMA Served ==
    ASSUME NEW run, NEW q, NEW a, NEW t, NEW req, Right(run, q, a, t, req), q # <<>>,
           IsRequest(Head(q)), NEW m, m.row = Head(q).row, IsRequest(m),
           \A i \in DOMAIN m.ids \cap DOMAIN Head(q).hashes : m.ids[i] \in {NoId, Head(q).hashes[i]}
    PROVE  Right(run, Tail(q), Append(a, m), t, req)
<1>1. PICK u : u = Tail(q)
  OBVIOUS
<1>2. PICK h : h = Head(q)
  OBVIOUS
<1>3. PICK b : b = Append(a, m)
  OBVIOUS
<1>4. TailKeeps(q, u)
  BY <1>1, TailKept DEF Right, TrafficRight, AllAsked
<1>5. AppendKeeps(a, m, b)
  BY <1>3, AppendKept DEF Right, TrafficRight, AllFit
<1>6. Right(run, u, a, t, req)
  BY <1>1, Taken
<1>7. Free(u, m.row) /\ Free(a, m.row) /\ Free(t, m.row)
  BY <1>2, <1>4 DEF Right, TrafficRight, TailKeeps
<1>8. Fits(m, req)
  <2>1. Asked(h, req)
    BY <1>2, <1>4 DEF Right, TrafficRight, TailKeeps
  <2> QED
    BY <1>2, <2>1 DEF Asked, Fits
<1>9. TrafficRight(u, b, t, req)
  BY <1>5, <1>6, <1>7, <1>8 DEF Right, TrafficRight, AppendKeeps
<1>10. \A row : Free(q, row) => m.row # row
  BY <1>2, <1>4 DEF TailKeeps
<1>11. \A row : Free(q, row) /\ Free(a, row) => Free(b, row)
  BY <1>5, <1>10 DEF AppendKeeps
<1>12. CallRight(run, u, b, t, req)
  BY <1>6, <1>11 DEF Right, RunRight, CallRight, Unused
<1>13. TaskRight(run, u, b, t)
  BY <1>6, <1>11 DEF Right, RunRight, TaskRight
<1> QED
  BY <1>1, <1>3, <1>6, <1>9, <1>12, <1>13 DEF Right, RunRight

\* The monitor makes a task of an answer.
LEMMA Enqueued ==
    ASSUME NEW run, NEW q, NEW a, NEW t, NEW req, Right(run, q, a, t, req), a # <<>>
    PROVE  Right(run, q, Tail(a), Append(t, Head(a)), req)
<1>1. PICK u : u = Tail(a)
  OBVIOUS
<1>2. PICK h : h = Head(a)
  OBVIOUS
<1>3. PICK b : b = Append(t, h)
  OBVIOUS
<1>4. TailKeeps(a, u)
  BY <1>1, TailKept DEF Right, TrafficRight, AllFit
<1>5. AppendKeeps(t, h, b)
  BY <1>3, AppendKept DEF Right, TrafficRight, AllFit
<1>6. IsRequest(h) => Free(q, h.row) /\ Free(u, h.row) /\ Free(t, h.row) /\ Fits(h, req)
  BY <1>2, <1>4 DEF Right, TrafficRight, TailKeeps
<1>7. AllFit(u, req) /\ Apart(u) /\ Disjoint(q, u) /\ Disjoint(u, t)
  BY <1>4 DEF Right, TrafficRight, TailKeeps
<1>8. AllFit(b, req) /\ Apart(b) /\ Disjoint(q, b) /\ Disjoint(u, b)
  BY <1>5, <1>6, <1>7 DEF Right, TrafficRight, AppendKeeps
<1>9. TrafficRight(q, u, b, req)
  BY <1>7, <1>8 DEF Right, TrafficRight
<1>10. \A row : Free(a, row) => Free(u, row) /\ (IsRequest(h) => h.row # row)
  BY <1>2, <1>4 DEF TailKeeps
<1>11. \A row : Free(a, row) /\ Free(t, row) => Free(b, row)
  BY <1>5, <1>10 DEF AppendKeeps
<1>12. \A task : Free(a, task.row) /\ OnlyFirst(task, t) => OnlyFirst(task, b)
  BY <1>5, <1>10 DEF AppendKeeps
<1>13. CallRight(run, q, u, b, req)
  BY <1>10, <1>11 DEF Right, RunRight, CallRight, Unused
<1>14. TaskRight(run, q, u, b)
  BY <1>10, <1>12 DEF Right, RunRight, TaskRight
<1> QED
  BY <1>1, <1>2, <1>3, <1>9, <1>13, <1>14 DEF Right, RunRight

\* A message that is no request goes into the queue.
LEMMA OtherQueued ==
    ASSUME NEW run, NEW q, NEW a, NEW t, NEW req, Right(run, q, a, t, req), NEW m, ~IsRequest(m)
    PROVE  Right(run, Append(q, m), a, t, req)
<1>1. PICK u : u = Append(q, m)
  OBVIOUS
<1>2. AppendKeeps(q, m, u)
  BY <1>1, AppendKept DEF Right, TrafficRight, AllAsked
<1>3. TrafficRight(u, a, t, req)
  BY <1>2 DEF Right, TrafficRight, AppendKeeps
<1>4. RunRight(run, u, a, t, req)
  BY <1>2 DEF Right, RunRight, CallRight, TaskRight, Unused, AppendKeeps
<1> QED
  BY <1>1, <1>3, <1>4 DEF Right

\* All tasks are replaced by one that is no answer.
LEMMA TasksReplaced ==
    ASSUME NEW run, NEW q, NEW a, NEW t, NEW req, Right(run, q, a, t, req), NEW m, ~IsRequest(m)
    PROVE  Right(run, q, a, <<m>>, req)
<1>1. PICK u : u = <<m>>
  OBVIOUS
<1>2. IsSeq(u) /\ \A i \in DOMAIN u : ~IsRequest(u[i])
  <2>1. u \in Seq({m}) /\ DOMAIN u = {1} /\ u[1] = m
    BY <1>1
  <2>2. IsSeq(u)
    BY <2>1, SeqOfRange DEF IsSeq
  <2> QED
    BY <2>1, <2>2
<1>3. /\ AllFit(u, req) /\ Apart(u) /\ Disjoint(q, u) /\ Disjoint(a, u)
      /\ \A row : Free(u, row)
      /\ \A task : OnlyFirst(task, u)
  BY <1>2 DEF AllFit, Apart, Disjoint, Free, OnlyFirst
<1>4. TrafficRight(q, a, u, req)
  BY <1>3 DEF Right, TrafficRight
<1>5. RunRight(run, q, a, u, req)
  BY <1>3 DEF Right, RunRight, CallRight, TaskRight, Unused
<1> QED
  BY <1>1, <1>4, <1>5 DEF Right

\* Requests come, go when nobody has their number, and stay about the same
\* hashes.
LEMMA RequestsChange ==
    ASSUME NEW q, NEW a, NEW t, NEW req, TrafficRight(q, a, t, req), NEW new,
           \A r \in DOMAIN req : \/ r \in DOMAIN new /\ new[r].hashes = req[r].hashes
                                 \/ Unused(r, q, a, t)
    PROVE  TrafficRight(q, a, t, new)
<1>1. AllAsked(q, new)
  BY DEF TrafficRight, AllAsked, Asked, Unused, Free
<1>2. ASSUME NEW s, s = a \/ s = t PROVE AllFit(s, new)
  <2>1. IsSeq(s) /\ \A i \in DOMAIN s : IsRequest(s[i]) => Fits(s[i], req)
    BY <1>2 DEF TrafficRight, AllFit
  <2>2. SUFFICES ASSUME NEW i \in DOMAIN s, IsRequest(s[i]) PROVE Fits(s[i], new)
    BY <2>1 DEF AllFit
  <2>3. Fits(s[i], req) /\ s[i].row \in DOMAIN req
    BY <2>1, <2>2 DEF Fits
  <2>4. ~Unused(s[i].row, q, a, t)
    BY <1>2, <2>2 DEF Unused, Free
  <2>5. s[i].row \in DOMAIN new /\ new[s[i].row].hashes = req[s[i].row].hashes
    BY <2>3, <2>4
  <2> QED
    BY <2>3, <2>5 DEF Fits
<1> QED
  BY <1>1, <1>2 DEF TrafficRight

\* The first task is done, and its request removed.
LEMMA TaskDone ==
    ASSUME NEW q, NEW a, NEW t, NEW req, TrafficRight(q, a, t, req), NEW task,
           Free(q, task.row), Free(a, task.row), OnlyFirst(task, t)
    PROVE  LET u == IF t # <<>> /\ Head(t) = task THEN Tail(t) ELSE t
           IN  Unused(task.row, q, a, u) /\ TrafficRight(q, a, u, req)
<1>1. CASE t # <<>> /\ Head(t) = task
  <2>1. PICK u : u = Tail(t)
    OBVIOUS
  <2>2. TailKeeps(t, u) /\ TailIs(t, u)
    BY <1>1, <2>1, TailKept, TailFacts DEF TrafficRight, AllFit
  <2>3. TrafficRight(q, a, u, req)
    BY <2>2 DEF TrafficRight, TailKeeps
  <2>4. Free(u, task.row)
    BY <2>2 DEF OnlyFirst, Free, TailIs
  <2> QED
    BY <1>1, <2>1, <2>3, <2>4 DEF Unused
<1>2. CASE ~(t # <<>> /\ Head(t) = task)
  <2>1. Free(t, task.row)
    <3>1. CASE t = <<>>
      BY <3>1 DEF Free
    <3>2. CASE t # <<>>
      <4>1. PICK u : u = Tail(t)
        OBVIOUS
      <4>2. TailIs(t, u)
        BY <3>2, <4>1, TailFacts DEF TrafficRight, AllFit
      <4>3. t[1] # task
        BY <1>2, <3>2, <4>2 DEF TailIs
      <4> QED
        BY <4>3 DEF OnlyFirst, Free
    <3> QED
      BY <3>1, <3>2
  <2> QED
    BY <1>2, <2>1 DEF Unused
<1> QED
  BY <1>1, <1>2

-----------------------------------------------------------------------------
(* The steps                                                               *)

\* A row that no request has: the largest there is, and one more.
LEMMA NewRowFacts ==
    ASSUME RequestsType(requests)
    PROVE  NewRow \in Nat /\ NewRow \notin DOMAIN requests /\ \A r \in DOMAIN requests : r <= NewRow
<1> DEFINE S == DOMAIN requests \cup {0}
           U == {n \in Nat : \A r \in S : r <= n}
           R == OpToRel(<, Nat)
<1>1. S \subseteq Nat /\ 0 \in S
  BY DEF RequestsType
<1>2. U # {}
  BY <1>1 DEF RequestsType, Bounded
<1>3. R = {ss \in Nat \X Nat : ss[1] < ss[2]}
  BY DEF OpToRel
<1>4. \A x, y \in Nat : <<x, y>> \in R <=> x < y
  BY <1>3
<1>5. IsWellFoundedOn(R, Nat)
  BY NatLessThanWellFounded
<1> HIDE DEF R
<1>6. PICK m \in U : \A y \in U : ~ (<<y, m>> \in R)
  BY <1>2, <1>5, WFMin
<1>7. \A y \in U : ~ (y < m)
  BY <1>4, <1>6
<1>8. m \in S
  <2>1. SUFFICES ASSUME m \notin S PROVE FALSE
    OBVIOUS
  <2>2. m \in Nat /\ \A r \in S : r <= m /\ r # m
    BY <1>6, <2>1
  <2>3. m - 1 \in Nat /\ \A r \in S : r <= m - 1
    BY <1>1, <2>2
  <2>4. m - 1 \in U
    BY <2>3
  <2> QED
    BY <1>7, <2>2, <2>4
<1>9. \A y \in S : m >= y
  BY <1>1, <1>6
<1>10. Max(S) \in S /\ \A y \in S : Max(S) >= y
  BY <1>8, <1>9 DEF Max
<1>11. NewRow = Max(S) + 1
  BY DEF NewRow
<1>12. NewRow \in Nat /\ \A y \in S : y < NewRow
  <2>1. PICK x : x = Max(S)
    OBVIOUS
  <2>2. x \in Nat /\ \A y \in S : x >= y /\ y \in Nat
    BY <1>1, <1>10, <2>1
  <2>3. NewRow = x + 1
    BY <1>11, <2>1
  <2> HIDE DEF S
  <2> QED
    BY <2>2, <2>3
<1> QED
  BY <1>1, <1>12 DEF S

\* The reporter does nothing, or nothing with a message.
LEMMA RunIdle ==
    ASSUME NEW run, RunType(run), run.at \notin {"sending", "sent"}
    PROVE  \A q, a, t, req : RunRight(run, q, a, t, req)
  BY DEF RunRight, CallRight, TaskRight

LEMMA AwayIdle == RunType(Away) /\ Away.at = "none"
  BY DEF Away, RunType

LEMMA RowFacts ==
    ASSUME TrafficRight(queue, answers, tasks, requests), NEW row
    PROVE  Outstanding(row) <=> ~Unused(row, queue, answers, tasks)
<1>1. Range(queue) = {queue[i] : i \in DOMAIN queue} /\ Range(answers) = {answers[i] : i \in DOMAIN answers}
      /\ Range(tasks) = {tasks[i] : i \in DOMAIN tasks}
  BY DEF Range
<1> QED
  BY <1>1 DEF Outstanding, Unused, Free, IsRequest

\* Requests are removed, and given up if that is not excused.
LEMMA RemovedRows ==
    ASSUME Sound, NEW rows, Clean(GivenUp(rows))
    PROVE  /\ RequestsType(Without(rows))
           /\ TrafficRight(queue, answers, tasks, Without(rows))
<1>1. \A r \in rows : ~Outstanding(r)
  BY DEF GivenUp, Clean
<1>2. \A r \in rows : Unused(r, queue, answers, tasks)
  BY <1>1, RowFacts DEF Sound
<1>3. PICK new : new = Without(rows)
  OBVIOUS
<1>4. DOMAIN new = DOMAIN requests \ rows /\ \A r \in DOMAIN requests \ rows : new[r] = requests[r]
  BY <1>3 DEF Without
<1>5. RequestsType(new)
  BY <1>4 DEF Sound, RequestsType, Bounded
<1>6. \A r \in DOMAIN requests : \/ r \in DOMAIN new /\ new[r].hashes = requests[r].hashes
                                 \/ Unused(r, queue, answers, tasks)
  BY <1>2, <1>4
<1>7. TrafficRight(queue, answers, tasks, new)
  BY <1>6, RequestsChange DEF Sound
<1> QED
  BY <1>3, <1>5, <1>7

LEMMA StartStep == ASSUME Sound, NEW fetched \in BOOLEAN, Start(fetched) PROVE Sound'
<1>1. RunType(reporter') /\ reporter'.at = "tasks"
  BY DEF Start, Away, RunType
<1>2. RunRight(reporter', queue, answers, tasks, requests)
  BY <1>1, RunIdle
<1> QED
  BY <1>2 DEF Start, Sound, server_vars

\* The new ids are those of their hashes.
LEMMA NewIdsRight ==
    ASSUME IdsRightNow(hash_ids), NEW new, \A h \in DOMAIN new : new[h] = h
    PROVE  IdsRightNow(set_hash_ids(new))
  BY DEF IdsRightNow, set_hash_ids, NoId

\* A request for ids is written down and is about to be sent.
LEMMA AskFacts ==
    ASSUME Sound, NEW type \in {"add-packages", "unknown-package-hashes"}, NEW hashes, NEW run,
           RunType(run), Ask(type, hashes, run),
           type = "add-packages" =>
             /\ run.task.row \in DOMAIN requests
             /\ Free(queue, run.task.row) /\ Free(answers, run.task.row) /\ OnlyFirst(run.task, tasks)
    PROVE  /\ RequestsType(requests') /\ TrafficRight(queue, answers, tasks, requests')
           /\ RunRight(reporter', queue, answers, tasks, requests')
<1>1. PICK row : row = NewRow
  OBVIOUS
<1>2. row \in Nat /\ row \notin DOMAIN requests /\ \A r \in DOMAIN requests : r <= row
  BY <1>1, NewRowFacts DEF Sound
<1>3. PICK rec : rec = [hashes |-> hashes, message |-> NotSent, old |-> FALSE]
  OBVIOUS
<1>4. rec.hashes = hashes /\ DOMAIN rec = {"hashes", "message", "old"}
  BY <1>3
<1>5. requests' = [r \in DOMAIN requests \cup {row} |-> IF r = row THEN rec ELSE requests[r]]
  BY <1>1, <1>3 DEF Ask
<1>6. /\ DOMAIN requests' = DOMAIN requests \cup {row} /\ requests'[row] = rec
      /\ \A r \in DOMAIN requests : requests'[r] = requests[r]
  BY <1>2, <1>5
<1>7. RequestsType(requests')
  BY <1>2, <1>4, <1>6 DEF Sound, RequestsType, Bounded
<1>8. TrafficRight(queue, answers, tasks, requests')
  BY <1>6, RequestsChange DEF Sound
<1>9. Unused(row, queue, answers, tasks)
  BY <1>2 DEF Sound, TrafficRight, AllAsked, AllFit, Asked, Fits, Unused, Free
<1>10. PICK call : call = [type |-> type, id |-> NotSent, row |-> row, hashes |-> hashes]
  OBVIOUS
<1>11. call.type = type /\ call.row = row /\ call.hashes = hashes /\ DOMAIN call = {"type", "id", "row", "hashes"}
  BY <1>10
<1>12. /\ RunType(reporter') /\ reporter'.at = "sending" /\ reporter'.call = call
       /\ reporter'.task = run.task
  BY <1>1, <1>10 DEF Ask, RunType
<1>13. CallRight(reporter', queue, answers, tasks, requests')
  BY <1>4, <1>6, <1>9, <1>11, <1>12 DEF CallRight, Asked
<1>14. TaskRight(reporter', queue, answers, tasks)
  BY <1>2, <1>11, <1>12 DEF TaskRight
<1> QED
  BY <1>7, <1>8, <1>12, <1>13, <1>14 DEF RunRight

\* An answer to a request, and what is left to ask for again
LEMMA HandlePackageIdsStep == ASSUME Sound, HandlePackageIds, Clean(excuses') PROVE Sound'
<1> DEFINE task == Head(tasks)
           row == task.row
<1>3. tasks # <<>> /\ IsRequest(task) /\ reporter.at = "tasks"
  BY DEF HandlePackageIds, IsRequest, At
<1>4. TailKeeps(tasks, Tail(tasks)) /\ TailIs(tasks, Tail(tasks))
  BY <1>3, TailKept, TailFacts DEF Sound, TrafficRight, AllFit
<1>5. Fits(task, requests) /\ Free(queue, row) /\ Free(answers, row)
  BY <1>3, <1>4 DEF Sound, TrafficRight, TailKeeps
<1>6. OnlyFirst(task, tasks)
  BY <1>3, <1>4 DEF Sound, TrafficRight, Apart, OnlyFirst, TailIs
<1>7. row \in DOMAIN requests
  BY <1>5 DEF Fits
<1> DEFINE hashes == requests[row].hashes
           both == DOMAIN hashes \cap DOMAIN task.ids
           found == {i \in both : task.ids[i] # NoId}
           new == [h \in {hashes[i] : i \in found} |-> task.ids[CHOOSE i \in found : hashes[i] = h]]
           unknown == {hashes[i] : i \in both \ found}
           run == [(IF unknown = {} THEN reporter ELSE Loaded) EXCEPT !.got_task = TRUE, !.task = task]
<1>8. \A h \in DOMAIN new : new[h] = h
  BY <1>5 DEF Fits
<1>9. /\ hash_ids' = set_hash_ids(new)
      /\ UNCHANGED <<queue, answers>>
      /\ \/ requests' = Without({row}) /\ reporter' = run /\ tasks' = Done(task)
         \/ Ask("add-packages", Sorted(unknown \cap Channel), run) /\ UNCHANGED tasks
  BY <1>7 DEF HandlePackageIds, server_vars
<1> HIDE DEF new
<1>10. IdsRightNow(hash_ids')
  BY <1>8, <1>9, NewIdsRight DEF Sound
<1>11. RunType(run) /\ run.at = "tasks" /\ run.task = task
  <2>1. RunType(reporter)
    BY DEF Sound, RunRight
  <2>2. RunType(Loaded) /\ Loaded.at = "tasks"
    BY <1>3, <2>1 DEF Loaded, RunType
  <2>3. PICK x : x = (IF unknown = {} THEN reporter ELSE Loaded)
    OBVIOUS
  <2>4. RunType(x) /\ x.at = "tasks"
    BY <1>3, <2>1, <2>2, <2>3
  <2>5. run = [x EXCEPT !.got_task = TRUE, !.task = task]
    BY <2>3
  <2> QED
    BY <2>4, <2>5 DEF RunType
<1> HIDE DEF run, unknown, task
<1>12. CASE requests' = Without({row}) /\ reporter' = run /\ tasks' = Done(task)
  <2>1. Unused(row, queue, answers, tasks') /\ TrafficRight(queue, answers, tasks', requests)
    <3>1. tasks' = IF tasks # <<>> /\ Head(tasks) = task THEN Tail(tasks) ELSE tasks
      BY <1>12 DEF Done
    <3> QED
      BY <1>5, <1>6, <3>1, TaskDone DEF Sound
  <2>2. /\ DOMAIN requests' = DOMAIN requests \ {row}
        /\ \A r \in DOMAIN requests \ {row} : requests'[r] = requests[r]
    BY <1>12 DEF Without
  <2>3. RequestsType(requests')
    BY <2>2 DEF Sound, RequestsType, Bounded
  <2>4. TrafficRight(queue, answers, tasks', requests')
    BY <2>1, <2>2, RequestsChange
  <2>5. RunRight(reporter', queue, answers, tasks', requests')
    BY <1>11, <1>12, RunIdle
  <2> QED
    BY <1>9, <1>10, <2>3, <2>4, <2>5 DEF Sound
<1>13. CASE Ask("add-packages", Sorted(unknown \cap Channel), run) /\ UNCHANGED tasks
  <2>1. PICK some : some = Sorted(unknown \cap Channel)
    OBVIOUS
  <2>2. Ask("add-packages", some, run)
    BY <1>13, <2>1
  <2>3. /\ run.task.row \in DOMAIN requests
        /\ Free(queue, run.task.row) /\ Free(answers, run.task.row) /\ OnlyFirst(run.task, tasks)
    BY <1>5, <1>6, <1>7, <1>11
  <2>4. /\ RequestsType(requests') /\ TrafficRight(queue, answers, tasks, requests')
        /\ RunRight(reporter', queue, answers, tasks, requests')
    BY <1>11, <2>2, <2>3, AskFacts
  <2> QED
    BY <1>9, <1>10, <1>13, <2>4 DEF Sound
<1> QED
  BY <1>9, <1>12, <1>13

LEMMA HandleResynchronizeStep == ASSUME Sound, HandleResynchronize, Clean(excuses') PROVE Sound'
<1>1. IdsRightNow(hash_ids')
  BY DEF HandleResynchronize, IdsRightNow
<1>2. UNCHANGED <<queue, answers>> /\ tasks # <<>> /\ reporter.at = "tasks"
  BY DEF HandleResynchronize, server_vars, At
<1>3. Clean(GivenUp(DOMAIN requests))
  BY DEF HandleResynchronize, Clean
<1>4. TrafficRight(queue, answers, tasks, Without(DOMAIN requests))
  BY <1>3, RemovedRows
<1>5. Without(DOMAIN requests) = requests' /\ RequestsType(requests')
  BY DEF HandleResynchronize, NoRequest, Without, RequestsType, Bounded
<1>6. tasks' = Tail(tasks)
  BY <1>2 DEF HandleResynchronize, Done
<1>7. TailKeeps(tasks, Tail(tasks))
  BY <1>2, TailKept DEF Sound, TrafficRight, AllFit
<1>8. TrafficRight(queue, answers, tasks', requests')
  BY <1>4, <1>5, <1>6, <1>7 DEF TrafficRight, TailKeeps
<1>9. RunType(reporter') /\ reporter'.at = "tasks"
  BY <1>2 DEF HandleResynchronize, Sound, RunRight, RunType
<1>10. RunRight(reporter', queue, answers, tasks', requests')
  BY <1>9, RunIdle
<1> QED
  BY <1>1, <1>2, <1>5, <1>8, <1>10 DEF Sound

LEMMA RemoveExpiredStep == ASSUME Sound, RemoveExpired, Clean(excuses') PROVE Sound'
<1>1. PICK expired : requests' = Without(expired) /\ excuses' = excuses \cup GivenUp(expired)
  BY DEF RemoveExpired
<1>2. Clean(GivenUp(expired))
  BY <1>1 DEF Clean
<1>3. RequestsType(requests') /\ TrafficRight(queue, answers, tasks, requests')
  BY <1>1, <1>2, RemovedRows
<1>4. RunType(reporter') /\ reporter'.at = "requesting"
  BY DEF RemoveExpired, Sound, RunRight, RunType
<1>5. RunRight(reporter', queue, answers, tasks, requests')
  BY <1>4, RunIdle
<1> QED
  BY <1>3, <1>5 DEF Sound, RemoveExpired, server_vars

LEMMA RequestUnknownStep == ASSUME Sound, RequestUnknown PROVE Sound'
<1>1. RunType(Loaded)
  BY DEF Loaded, Sound, RunRight, RunType
<1>2. UNCHANGED <<hash_ids, queue, answers, tasks>>
  BY DEF RequestUnknown, server_vars
<1>3. CASE reporter' = [Loaded EXCEPT !.at = "detecting"] /\ UNCHANGED requests
  <2>1. RunType(reporter') /\ reporter'.at = "detecting"
    BY <1>1, <1>3 DEF RunType
  <2>2. RunRight(reporter', queue, answers, tasks, requests)
    BY <2>1, RunIdle
  <2> QED
    BY <1>2, <1>3, <2>2 DEF Sound
<1>4. CASE \E some : Ask("unknown-package-hashes", some, Loaded)
  <2>1. PICK some : Ask("unknown-package-hashes", some, Loaded)
    BY <1>4
  <2>2. /\ RequestsType(requests') /\ TrafficRight(queue, answers, tasks, requests')
        /\ RunRight(reporter', queue, answers, tasks, requests')
    BY <1>1, <2>1, AskFacts
  <2> QED
    BY <1>2, <2>2 DEF Sound
<1> QED
  BY <1>3, <1>4 DEF RequestUnknown

LEMMA DetectChangesStep == ASSUME Sound, DetectChanges PROVE Sound'
<1>1. UNCHANGED <<hash_ids, requests, queue, answers, tasks>>
  BY DEF DetectChanges, store_vars, server_vars
<1>2. CASE reporter' = Away
  BY <1>1, <1>2, AwayIdle, RunIdle DEF Sound
<1>3. CASE \E new, not : reporter' = [reporter EXCEPT !.at = "sending",
                           !.call = [type |-> "packages", id |-> NotSent, new |-> new, not |-> not]]
  <2>0. PICK new, not : reporter' = [reporter EXCEPT !.at = "sending",
                           !.call = [type |-> "packages", id |-> NotSent, new |-> new, not |-> not]]
    BY <1>3
  <2> DEFINE call == [type |-> "packages", id |-> NotSent, new |-> new, not |-> not]
  <2>1. /\ reporter' = [reporter EXCEPT !.at = "sending", !.call = call]
        /\ call.type = "packages" /\ DOMAIN call = {"type", "id", "new", "not"}
    BY <2>0
  <2> HIDE DEF call
  <2>2. RunType(reporter') /\ reporter'.at = "sending" /\ reporter'.call = call
    BY <2>1 DEF Sound, RunRight, RunType
  <2>3. RunRight(reporter', queue, answers, tasks, requests)
    BY <2>1, <2>2 DEF RunRight, CallRight, TaskRight
  <2> QED
    BY <1>1, <2>3 DEF Sound
<1> QED
  BY <1>2, <1>3 DEF DetectChanges

\* The broker takes the message that is about to be sent, or discards it.
LEMMA BrokerTakesStep == ASSUME Sound, BrokerTakes PROVE Sound'
<1>1. UNCHANGED <<hash_ids, requests, answers, tasks>> /\ reporter.at = "sending"
  BY DEF BrokerTakes, store_vars, server_vars, At
<1>2. RunRight(reporter, queue, answers, tasks, requests) /\ RunType(reporter)
      /\ TrafficRight(queue, answers, tasks, requests)
  BY DEF Sound, RunRight
<1>3. /\ RunType(reporter') /\ reporter'.at = "sent" /\ reporter'.call = reporter.call
      /\ reporter'.task = reporter.task
  BY <1>2 DEF BrokerTakes, RunType
<1>4. TaskRight(reporter, queue, answers, tasks)
  BY <1>2 DEF RunRight
<1>5. CASE queue' = queue
  <2>1. TaskRight(reporter', queue, answers, tasks)
    BY <1>1, <1>3, <1>4 DEF TaskRight
  <2>2. RunRight(reporter', queue, answers, tasks, requests)
    BY <1>3, <2>1 DEF RunRight, CallRight
  <2> QED
    BY <1>1, <1>5, <2>2 DEF Sound
<1>6. CASE \E n : queue' = Append(queue, [reporter.call EXCEPT !.id = n])
  <2>1. PICK n : queue' = Append(queue, [reporter.call EXCEPT !.id = n])
    BY <1>6
  <2>2. PICK m : m = [reporter.call EXCEPT !.id = n]
    OBVIOUS
  <2>3. AppendKeeps(queue, m, queue')
    BY <2>1, <2>2, AppendKept DEF Sound, TrafficRight, AllAsked
  <2>4. CASE reporter.call.type = "packages" /\ DOMAIN reporter.call = {"type", "id", "new", "not"}
    <3>1. ~IsRequest(m)
      BY <2>2, <2>4 DEF IsRequest
    <3>2. TrafficRight(queue', answers, tasks, requests)
      BY <1>2, <2>3, <3>1 DEF TrafficRight, AppendKeeps
    <3>3. RunRight(reporter', queue', answers, tasks, requests)
      BY <1>3, <2>4 DEF RunRight, CallRight, TaskRight
    <3> QED
      BY <1>1, <3>2, <3>3 DEF Sound
  <2>5. CASE /\ reporter.call.type \in {"add-packages", "unknown-package-hashes"}
             /\ DOMAIN reporter.call = {"type", "id", "row", "hashes"}
             /\ Asked(reporter.call, requests) /\ Unused(reporter.call.row, queue, answers, tasks)
    <3>1. m.row = reporter.call.row /\ m.hashes = reporter.call.hashes
      BY <2>2, <2>5
    <3>2. Asked(m, requests) /\ Free(queue, m.row) /\ Free(answers, m.row) /\ Free(tasks, m.row)
      BY <2>5, <3>1 DEF Asked, Unused
    <3>3. TrafficRight(queue', answers, tasks, requests)
      BY <1>2, <2>3, <3>2 DEF TrafficRight, AppendKeeps
    <3>4. TaskRight(reporter', queue', answers, tasks)
      <4>1. SUFFICES ASSUME reporter.call.type = "add-packages"
                     PROVE  Free(queue', reporter.task.row) /\ Free(answers, reporter.task.row)
                            /\ OnlyFirst(reporter.task, tasks)
        BY <1>3 DEF TaskRight
      <4>2. /\ m.row # reporter.task.row /\ Free(queue, reporter.task.row)
            /\ Free(answers, reporter.task.row) /\ OnlyFirst(reporter.task, tasks)
        BY <1>1, <1>4, <3>1, <4>1 DEF TaskRight
      <4> QED
        BY <2>3, <4>2 DEF AppendKeeps
    <3>5. RunRight(reporter', queue', answers, tasks, requests)
      BY <1>3, <3>4 DEF RunRight, CallRight
    <3> QED
      BY <1>1, <3>3, <3>5 DEF Sound
  <2> QED
    BY <1>1, <1>2, <2>4, <2>5 DEF RunRight, CallRight
<1> QED
  BY <1>5, <1>6 DEF BrokerTakes

\* set_message_id, and the end of the task that led to the request
LEMMA RequestSentStep == ASSUME Sound, RequestSent PROVE Sound'
<1> DEFINE given == [requests EXCEPT ![reporter.call.row].message = reporter.message_id]
<1>1. UNCHANGED <<hash_ids, queue, answers>> /\ reporter.at = "sent"
  BY DEF RequestSent, server_vars, At
<1>2. DOMAIN given = DOMAIN requests
      /\ \A r \in DOMAIN requests : /\ DOMAIN given[r] = {"hashes", "message", "old"}
                                    /\ given[r].hashes = requests[r].hashes
  BY DEF Sound, RequestsType
<1>3. \/ /\ reporter.call.type = "add-packages"
         /\ requests' = [r \in DOMAIN given \ {reporter.task.row} |-> given[r]]
         /\ tasks' = Done(reporter.task)
         /\ reporter' = [reporter EXCEPT !.at = "tasks", !.call = NoCall, !.task = NoTask]
      \/ /\ requests' = given /\ UNCHANGED tasks
         /\ reporter' = [reporter EXCEPT !.at = "detecting", !.call = NoCall]
  BY DEF RequestSent
<1> HIDE DEF given
<1>4. RunType(reporter') /\ reporter'.at \in {"tasks", "detecting"}
  BY <1>3 DEF Sound, RunRight, RunType
<1>5. RunRight(reporter', queue, answers, tasks', requests')
  BY <1>4, RunIdle
<1>6. CASE requests' = given /\ UNCHANGED tasks
  <2>1. RequestsType(requests')
    BY <1>2, <1>6 DEF Sound, RequestsType
  <2>2. TrafficRight(queue, answers, tasks, requests')
    BY <1>2, <1>6, RequestsChange DEF Sound
  <2> QED
    BY <1>1, <1>5, <1>6, <2>1, <2>2 DEF Sound
<1>7. CASE /\ reporter.call.type = "add-packages"
           /\ requests' = [r \in DOMAIN given \ {reporter.task.row} |-> given[r]]
           /\ tasks' = Done(reporter.task)
  <2>1. PICK task : task = reporter.task
    OBVIOUS
  <2>2. Free(queue, task.row) /\ Free(answers, task.row) /\ OnlyFirst(task, tasks)
    BY <1>1, <1>7, <2>1 DEF Sound, RunRight, TaskRight
  <2>3. tasks' = IF tasks # <<>> /\ Head(tasks) = task THEN Tail(tasks) ELSE tasks
    BY <1>7, <2>1 DEF Done
  <2>4. Unused(task.row, queue, answers, tasks') /\ TrafficRight(queue, answers, tasks', requests)
    BY <2>2, <2>3, TaskDone DEF Sound
  <2>5. /\ DOMAIN requests' = DOMAIN requests \ {task.row}
        /\ \A r \in DOMAIN requests \ {task.row} : requests'[r] = given[r]
    BY <1>2, <1>7, <2>1
  <2>6. RequestsType(requests')
    BY <1>2, <2>5 DEF Sound, RequestsType, Bounded
  <2>7. \A r \in DOMAIN requests : \/ r \in DOMAIN requests' /\ requests'[r].hashes = requests[r].hashes
                                   \/ Unused(r, queue, answers, tasks')
    BY <1>2, <2>4, <2>5
  <2>8. TrafficRight(queue, answers, tasks', requests')
    BY <2>4, <2>7, RequestsChange
  <2> QED
    BY <1>1, <1>5, <2>6, <2>8 DEF Sound
<1> QED
  BY <1>3, <1>6, <1>7

LEMMA PackagesSentStep == ASSUME Sound, PackagesSent PROVE Sound'
  BY AwayIdle, RunIdle DEF PackagesSent, Sound, server_vars

LEMMA KilledStep == ASSUME Sound, Killed PROVE Sound'
  BY AwayIdle, RunIdle DEF Killed, Sound, server_vars, store_vars

LEMMA CallFailsStep == ASSUME Sound, CallFails, Clean(excuses') PROVE Sound'
<1>1. PICK rows : requests' = Without(rows) /\ excuses' = excuses \cup Broken \cup GivenUp(rows)
  BY DEF CallFails
<1>2. Clean(GivenUp(rows))
  BY <1>1 DEF Clean
<1>3. RequestsType(requests') /\ TrafficRight(queue, answers, tasks, requests')
  BY <1>1, <1>2, RemovedRows
<1>4. RunRight(Away, queue, answers, tasks, requests')
  BY AwayIdle, RunIdle
<1> QED
  BY <1>3, <1>4 DEF CallFails, Sound, server_vars

LEMMA ServerTakesStep == ASSUME Sound, ServerTakes PROVE Sound'
<1>1. UNCHANGED <<hash_ids, requests, tasks, reporter>> /\ queue # <<>> /\ queue' = Tail(queue)
  BY DEF ServerTakes, store_vars
<1>2. Right(reporter, queue, answers, tasks, requests)
  BY DEF Sound, Right
<1>3. CASE UNCHANGED answers
  <2>1. Right(reporter, queue', answers, tasks, requests)
    BY <1>1, <1>2, Taken
  <2> QED
    BY <1>1, <1>3, <2>1 DEF Right, Sound
<1>4. CASE ~UNCHANGED answers
  <2>1. PICK h : h = Head(queue)
    OBVIOUS
  <2>2. h.type \notin {"packages", "resynchronize"}
    BY <1>4, <2>1 DEF ServerTakes
  <2>3. PICK knows :
          answers' = Append(answers,
            [type |-> "package-ids", row |-> h.row,
             ids |-> [i \in DOMAIN h.hashes |-> IF h.hashes[i] \in knows THEN h.hashes[i] ELSE NoId]])
    <3>1. h.type # "packages" /\ h.type # "resynchronize"
      BY <2>2
    <3> QED
      BY <2>1, <3>1 DEF ServerTakes
  <2> DEFINE m == [type |-> "package-ids", row |-> h.row,
                   ids |-> [i \in DOMAIN h.hashes |-> IF h.hashes[i] \in knows THEN h.hashes[i] ELSE NoId]]
  <2>4. m.row = h.row /\ IsRequest(m)
    BY DEF IsRequest
  <2>5. \A i \in DOMAIN m.ids \cap DOMAIN h.hashes : m.ids[i] \in {NoId, h.hashes[i]}
    OBVIOUS
  <2>6. answers' = Append(answers, m)
    BY <2>3
  <2> HIDE DEF m
  <2>7. IsRequest(h)
    BY <2>2 DEF IsRequest
  <2>8. Right(reporter, Tail(queue), Append(answers, m), tasks, requests)
    BY <1>1, <1>2, <2>1, <2>4, <2>5, <2>7, Served
  <2> QED
    BY <1>1, <2>6, <2>8 DEF Right, Sound
<1> QED
  BY <1>3, <1>4

LEMMA EnqueueStep ==
    ASSUME Sound, NEW repeats \in BOOLEAN, Enqueue(repeats), Clean(excuses')
    PROVE  Sound'
<1>1. ~repeats
  BY DEF Enqueue, With, Clean
<1>2. /\ UNCHANGED <<hash_ids, requests, queue, reporter>> /\ answers # <<>>
      /\ tasks' = Append(tasks, Head(answers)) /\ answers' = Tail(answers)
  BY <1>1 DEF Enqueue, store_vars
<1>3. Right(reporter, queue, answers, tasks, requests)
  BY DEF Sound, Right
<1>4. Right(reporter, queue, answers', tasks', requests)
  BY <1>2, <1>3, Enqueued
<1> QED
  BY <1>2, <1>4 DEF Right, Sound

LEMMA GetsOldStep == ASSUME Sound, NEW row \in DOMAIN requests, GetsOld(row) PROVE Sound'
<1>1. UNCHANGED <<hash_ids, queue, answers, tasks, reporter>>
      /\ requests' = [requests EXCEPT ![row].old = TRUE]
  BY DEF GetsOld, server_vars
<1>2. DOMAIN requests' = DOMAIN requests
      /\ \A r \in DOMAIN requests : /\ DOMAIN requests'[r] = {"hashes", "message", "old"}
                                    /\ requests'[r].hashes = requests[r].hashes
  BY <1>1 DEF Sound, RequestsType
<1>3. RequestsType(requests')
  BY <1>2 DEF Sound, RequestsType
<1>4. TrafficRight(queue, answers, tasks, requests')
  BY <1>2, RequestsChange DEF Sound
<1>5. RunRight(reporter, queue, answers, tasks, requests')
  BY <1>2 DEF Sound, RunRight, CallRight, Asked
<1> QED
  BY <1>1, <1>3, <1>4, <1>5 DEF Sound

LEMMA ResynchronizeStep == ASSUME Sound, Resynchronize PROVE Sound'
<1>1. UNCHANGED <<hash_ids, requests, answers, tasks>>
      /\ queue' = Append(queue, [type |-> "resynchronize"])
      /\ \E scopes \in BOOLEAN : reporter' = [reporter EXCEPT !.session = @ /\ scopes]
  BY DEF Resynchronize, store_vars, server_vars
<1>2. PICK m : m = [type |-> "resynchronize"]
  OBVIOUS
<1>3. ~IsRequest(m)
  BY <1>2 DEF IsRequest
<1>4. /\ RunType(reporter') /\ reporter'.at = reporter.at /\ reporter'.call = reporter.call
      /\ reporter'.task = reporter.task
  BY <1>1 DEF Sound, RunRight, RunType
<1>5. Right(reporter, queue, answers, tasks, requests)
  BY DEF Sound, Right
<1>6. Right(reporter, queue', answers, tasks, requests)
  BY <1>1, <1>2, <1>3, <1>5, OtherQueued
<1>7. RunRight(reporter', queue', answers, tasks, requests)
  BY <1>4, <1>6 DEF Right, RunRight, CallRight, TaskRight
<1> QED
  BY <1>1, <1>6, <1>7 DEF Sound, Right

LEMMA ResetStep == ASSUME Sound, Reset PROVE Sound'
<1>1. UNCHANGED <<hash_ids, requests, queue, answers, reporter>>
      /\ tasks' = <<[type |-> "resynchronize"]>>
  BY DEF Reset, store_vars, server_vars
<1>2. PICK m : m = [type |-> "resynchronize"]
  OBVIOUS
<1>3. ~IsRequest(m)
  BY <1>2 DEF IsRequest
<1>4. Right(reporter, queue, answers, tasks, requests)
  BY DEF Sound, Right
<1>5. Right(reporter, queue, answers, tasks', requests)
  BY <1>1, <1>2, <1>3, <1>4, TasksReplaced
<1> QED
  BY <1>1, <1>5 DEF Sound, Right

\* Nothing that the invariant is about is changed.
LEMMA SameStep ==
    ASSUME Sound, UNCHANGED <<hash_ids, requests, queue, answers, tasks, reporter>>
    PROVE  Sound'
  BY DEF Sound

-----------------------------------------------------------------------------
LEMMA IdsInvInit == Init => IdsInv
<1>1. SUFFICES ASSUME Init PROVE Sound
  BY DEF IdsInv
<1>2. IdsRightNow(hash_ids)
  BY <1>1 DEF Init, IdsRightNow
<1>3. RequestsType(requests)
  BY <1>1 DEF Init, NoRequest, RequestsType, Bounded
<1>4. TrafficRight(queue, answers, tasks, requests)
  BY <1>1, EmptySeqRight DEF Init, TrafficRight, AllAsked, AllFit, Apart, Disjoint
<1>5. RunRight(reporter, queue, answers, tasks, requests)
  BY <1>1, AwayIdle, RunIdle DEF Init
<1> QED
  BY <1>2, <1>3, <1>4, <1>5 DEF Sound

\* An excuse of these two stays one.
LEMMA CleanBefore == ASSUME Next, Clean(excuses') PROVE Clean(excuses)
<1>1. CASE Starts
  BY <1>1 DEF Starts, Start, With, Clean
<1>2. CASE HandlePackageIds
  BY <1>2 DEF HandlePackageIds, With, Clean
<1>3. CASE HandleResynchronize \/ RemoveExpired
  BY <1>3 DEF HandleResynchronize, RemoveExpired, Clean
<1>4. CASE RequestUnknown \/ DetectChanges
  BY <1>4 DEF RequestUnknown, DetectChanges, Clean
<1>5. CASE BrokerTakes
  BY <1>5 DEF BrokerTakes, With, Clean
<1>6. CASE RequestSent \/ PackagesSent
  BY <1>6 DEF RequestSent, PackagesSent, Clean
<1>7. CASE CallFails \/ Killed
  BY <1>7 DEF CallFails, Killed, Clean
<1>8. CASE ServerTakes \/ \E row \in DOMAIN requests : GetsOld(row)
  BY <1>8 DEF ServerTakes, GetsOld
<1>9. CASE \E repeats \in BOOLEAN : Enqueue(repeats)
  BY <1>9 DEF Enqueue, With, Clean
<1>10. CASE Resynchronize \/ Reset
  BY <1>10 DEF Resynchronize, Reset
<1>11. CASE \E k \in Cleared, h \in Hash : Change(k, h)
  BY <1>11 DEF Change, Clean
<1> QED
  BY <1>1, <1>2, <1>3, <1>4, <1>5, <1>6, <1>7, <1>8, <1>9, <1>10, <1>11 DEF Next, Run

LEMMA IdsInvStep == IdsInv /\ [Next]_vars => IdsInv'
<1>1. SUFFICES ASSUME IdsInv, [Next]_vars, Clean(excuses') PROVE Sound'
  BY DEF IdsInv
<1>2. CASE UNCHANGED vars
  <2>1. UNCHANGED <<excuses, hash_ids, requests, queue, answers, tasks, reporter>>
    BY <1>2 DEF vars, store_vars, server_vars
  <2>2. Sound
    BY <1>1, <2>1 DEF IdsInv
  <2> QED
    BY <2>1, <2>2, SameStep
<1>3. CASE Next
  <2>1. Sound
    BY <1>1, <1>3, CleanBefore DEF IdsInv
  <2>2. CASE \E k \in Cleared, h \in Hash : Change(k, h)
    <3>1. UNCHANGED <<hash_ids, requests, queue, answers, tasks, reporter>>
      BY <2>2 DEF Change, store_vars, server_vars
    <3> QED
      BY <2>1, <3>1, SameStep
  <2>3. CASE Starts
    BY <2>1, <2>3, StartStep DEF Starts
  <2>4. CASE Run
    BY <1>1, <2>1, <2>4, HandlePackageIdsStep, HandleResynchronizeStep, RemoveExpiredStep,
       RequestUnknownStep, DetectChangesStep, BrokerTakesStep, RequestSentStep, PackagesSentStep DEF Run
  <2>5. CASE CallFails \/ Killed
    BY <1>1, <2>1, <2>5, CallFailsStep, KilledStep
  <2>6. CASE ServerTakes \/ \E repeats \in BOOLEAN : Enqueue(repeats)
    BY <1>1, <2>1, <2>6, ServerTakesStep, EnqueueStep
  <2>7. CASE (\E row \in DOMAIN requests : GetsOld(row)) \/ Resynchronize \/ Reset
    BY <2>1, <2>7, GetsOldStep, ResynchronizeStep, ResetStep
  <2> QED
    BY <1>3, <2>2, <2>3, <2>4, <2>5, <2>6, <2>7 DEF Next
<1> QED
  BY <1>1, <1>2, <1>3

(***************************************************************************)
(* A hash has the id that the server gave it, or none (set_hash_ids in     *)
(* _handle_package_ids), for any packages and database of the server and   *)
(* any number of changes, faults, resynchronisations and old requests,     *)
(* unless a request was given up while it was still to be answered or an   *)
(* answer came a second time.                                              *)
(***************************************************************************)
THEOREM IdsRightAlways == Spec => []IdsRight
<1>1. IdsInv => IdsRight
  BY DEF IdsInv, Sound, IdsRightNow, IdsRight, Clean
<1> QED
  BY <1>1, IdsInvInit, IdsInvStep, PTL DEF Spec
=============================================================================
