--------------------------- MODULE ReportsProofs ---------------------------
(***************************************************************************)
(* The reports of the client implement the mirror of the server: whatever  *)
(* plugin it is, an item that the server shows is as the machine once was, *)
(* and is only replaced by something later, for any number of items,       *)
(* changes, resynchronisations, failing calls and crashes.                 *)
(***************************************************************************)
EXTENDS Reports, SequenceTheorems, FiniteSetTheorems, TLAPS

-----------------------------------------------------------------------------
(* The invariant                                                           *)

IsSeq(s) == s \in Seq({s[i] : i \in DOMAIN s})

\* What a message says of an item that it touches
Said(m, i) == IF i \in DOMAIN m.sets THEN m.sets[i] ELSE Absent

\* It was so, at a time that is not before that of what the server shows.
MessageRight(m, sh, a) ==
    \A i \in Items :
        Touches(m, i) => m.at[i] \in 1 .. Len(sh) /\ a[i] <= m.at[i] /\ Said(m, i) = sh[m.at[i]][i]

Fresher(m, si) == \A i \in Items : Touches(m, i) => si <= m.at[i]

Later(m, n) == \A i \in Items : Touches(m, i) /\ Touches(n, i) => m.at[i] <= n.at[i]

IsSend(c) == c.method = "send_message"

\* A message with the id of now was made since the last resynchronisation.
CallRight(c, sh, a, si, v) ==
    /\ c.method \in {"get_session_id", "get_accepted_message_types", "send_message"}
    /\ IsSend(c) => /\ c.id \in 0 .. v.given /\ MessageRight(c.message, sh, a)
                    /\ c.id = v.id /\ c.id # NoId => Fresher(c.message, si)

EntryRight(e, sh, a) ==
    /\ e.item \in Items /\ e.seen \in 1 .. Len(sh) /\ a[e.item] <= e.seen
    /\ e.value = sh[e.seen][e.item]

\* Messages are in order, and what MountInfo has queued comes after them.
Ordered(cs) ==
    \A k, l \in DOMAIN cs :
        k < l /\ IsSend(cs[k]) /\ IsSend(cs[l]) => Later(cs[k].message, cs[l].message)
QueuedAfter(c, e) == IsSend(c) /\ Touches(c.message, e.item) => c.message.at[e.item] <= e.seen

CallsRight(cs, q, sh, a, si, v) ==
    /\ IsSeq(cs) /\ \A k \in DOMAIN cs : CallRight(cs[k], sh, a, si, v)
    /\ Ordered(cs)
    /\ IsSeq(q) /\ \A k \in DOMAIN q : EntryRight(q[k], sh, a)
    /\ \A k \in DOMAIN cs, l \in DOMAIN q : QueuedAfter(cs[k], q[l])

ResultsRight(rs, v) ==
    /\ IsSeq(rs)
    /\ \A k \in DOMAIN rs :
         /\ rs[k].method \in {"get_session_id", "get_accepted_message_types", "send_message", "failure"}
         /\ rs[k].method = "get_session_id" => rs[k].id \in 0 .. v.given

StateRight(sh, a, si, v) ==
    /\ IsSeq(sh) /\ Len(sh) >= 1 /\ a \in [Items -> 0 .. Len(sh)] /\ si \in 0 .. Len(sh)
    /\ v \in [id : Nat, given : Nat] /\ v.id <= v.given

Fields == {"id", "loop", "first", "started", "resets", "reported", "previous", "queue", "to_persist"}

MemoryRight(x, v, p) ==
    /\ DOMAIN x = Fields /\ x.id \in 0 .. v.given
    /\ p.rule = "processes" /\ x.first => x.reported = Blank
    /\ p.rule # "mounts" => x.queue = <<>>

ReportsInv ==
    /\ plugin \in Plugins /\ astray \in BOOLEAN
    /\ StateRight(shown, at, since, valid)
    /\ plugin.rule = "processes" => saved = Blank
    /\ plugin.rule = "mounts" => since = 0
    /\ MemoryRight(memory, valid, plugin)
    /\ ResultsRight(results, valid)
    /\ CallsRight(calls, memory.queue, shown, at, since, valid)

-----------------------------------------------------------------------------
(* Sequences, of whatever                                                  *)

LEMMA IsSeqOf ==
    ASSUME NEW T, NEW s \in Seq(T) PROVE IsSeq(s)
  BY DEF IsSeq

LEMMA SeqFacts ==
    ASSUME NEW s, IsSeq(s) PROVE Len(s) \in Nat /\ DOMAIN s = 1 .. Len(s)
  BY DEF IsSeq

LEMMA AppendFacts ==
    ASSUME NEW s, IsSeq(s), NEW e
    PROVE  LET t == Append(s, e)
           IN  /\ IsSeq(t) /\ Len(t) = Len(s) + 1 /\ DOMAIN t = 1 .. Len(s) + 1 /\ t[Len(s) + 1] = e
               /\ \A i \in 1 .. Len(s) : t[i] = s[i]
  <1>. DEFINE T == {s[i] : i \in DOMAIN s} \cup {e}
  <1>1. s \in Seq(T) /\ e \in T
    BY DEF IsSeq
  <1>. HIDE DEF T
  <1>2. /\ Append(s, e) \in Seq(T) /\ Len(Append(s, e)) = Len(s) + 1 /\ Append(s, e)[Len(s) + 1] = e
        /\ \A i \in 1 .. Len(s) : Append(s, e)[i] = s[i]
    BY <1>1, AppendProperties
  <1>3. IsSeq(Append(s, e))
    BY <1>2, IsSeqOf
  <1>4. DOMAIN Append(s, e) = 1 .. Len(s) + 1
    BY <1>2
  <1>. QED  BY <1>2, <1>3, <1>4

LEMMA TailFacts ==
    ASSUME NEW s, IsSeq(s), s # <<>>
    PROVE  LET t == Tail(s)
           IN  /\ IsSeq(t) /\ Len(s) >= 1 /\ Len(t) = Len(s) - 1 /\ DOMAIN t = 1 .. Len(s) - 1
               /\ Head(s) = s[1] /\ \A i \in 1 .. Len(s) - 1 : t[i] = s[i + 1]
  <1>. DEFINE T == {s[i] : i \in DOMAIN s}
  <1>1. s \in Seq(T)
    BY DEF IsSeq
  <1>. HIDE DEF T
  <1>2. /\ Tail(s) \in Seq(T) /\ Len(s) >= 1 /\ Len(Tail(s)) = Len(s) - 1 /\ Head(s) = s[1]
        /\ \A i \in 1 .. Len(s) - 1 : Tail(s)[i] = s[i + 1]
    BY <1>1
  <1>3. IsSeq(Tail(s))
    BY <1>2, IsSeqOf
  <1>4. DOMAIN Tail(s) = 1 .. Len(s) - 1
    BY <1>2
  <1>. QED  BY <1>2, <1>3, <1>4

LEMMA OneFacts ==
    ASSUME NEW e PROVE IsSeq(<<e>>) /\ Len(<<e>>) = 1 /\ DOMAIN <<e>> = {1} /\ <<e>>[1] = e
  <1>1. <<e>> \in Seq({e}) /\ Len(<<e>>) = 1 /\ DOMAIN <<e>> = {1} /\ <<e>>[1] = e
    OBVIOUS
  <1>2. IsSeq(<<e>>)
    BY <1>1, IsSeqOf
  <1>. QED  BY <1>1, <1>2

LEMMA EmptyFacts == IsSeq(<<>>) /\ Len(<<>>) = 0 /\ DOMAIN <<>> = {}
  <1>1. <<>> \in Seq({}) /\ Len(<<>>) = 0 /\ DOMAIN <<>> = {}
    OBVIOUS
  <1>2. IsSeq(<<>>)
    BY <1>1, IsSeqOf
  <1>. QED  BY <1>1, <1>2

LEMMA ConcatFacts ==
    ASSUME NEW s, IsSeq(s), NEW t, IsSeq(t)
    PROVE  LET u == s \o t
           IN  /\ IsSeq(u) /\ \A i \in DOMAIN u : \/ i \in DOMAIN s /\ u[i] = s[i]
                                               \/ \E j \in DOMAIN t : u[i] = t[j]
  <1>. DEFINE T == {s[i] : i \in DOMAIN s} \cup {t[i] : i \in DOMAIN t}
  <1>1. s \in Seq(T) /\ t \in Seq(T)
    BY DEF IsSeq
  <1>. HIDE DEF T
  <1>2. /\ s \o t \in Seq(T) /\ Len(s \o t) = Len(s) + Len(t)
        /\ \A i \in 1 .. Len(s) + Len(t) : (s \o t)[i] = IF i <= Len(s) THEN s[i] ELSE t[i - Len(s)]
    BY <1>1, ConcatProperties
  <1>3. Len(s) \in Nat /\ Len(t) \in Nat /\ DOMAIN s = 1 .. Len(s) /\ DOMAIN t = 1 .. Len(t)
        /\ DOMAIN (s \o t) = 1 .. Len(s) + Len(t)
    BY <1>1, <1>2
  <1>4. ASSUME NEW i \in 1 .. Len(s) + Len(t)
        PROVE  \/ i \in DOMAIN s /\ (s \o t)[i] = s[i]
               \/ \E j \in DOMAIN t : (s \o t)[i] = t[j]
    <2>1. CASE i <= Len(s)
      BY <1>2, <1>3, <2>1
    <2>2. CASE ~(i <= Len(s))
      <3>1. i - Len(s) \in 1 .. Len(t) /\ (s \o t)[i] = t[i - Len(s)]
        BY <1>2, <1>3, <2>2
      <3>. QED  BY <1>3, <3>1
    <2>. QED  BY <2>1, <2>2
  <1>. QED  BY <1>2, <1>3, <1>4, IsSeqOf

\* What SetToSeq makes of a finite set
LEMMA SetToSeqFacts ==
    ASSUME NEW S, IsFiniteSet(S)
    PROVE  IsSeq(SetToSeq(S)) /\ SetToSeq(S) \in Seq(S)
  <1>. DEFINE n == Cardinality(S)
  <1>1. n \in Nat /\ ExistsBijection(1 .. n, S)
    BY FS_CardinalityType
  <1>2. PICK f \in [1 .. n -> S] : IsInjective(f)
    BY <1>1 DEF ExistsBijection, Bijection, Injection
  <1>3. SetToSeq(S) \in [1 .. n -> S]
    BY <1>2 DEF SetToSeq
  <1>. HIDE DEF n
  <1>4. SetToSeq(S) \in Seq(S)
    BY <1>1, <1>3
  <1>. QED  BY <1>4, IsSeqOf

LEMMA SetToSeqNone == SetToSeq({}) = <<>>
  <1>1. Cardinality({}) = 0
    BY FS_EmptySet
  <1>2. \E f \in [1 .. 0 -> {}] : IsInjective(f)
    <2>1. [i \in 1 .. 0 |-> i] \in [1 .. 0 -> {}] /\ IsInjective([i \in 1 .. 0 |-> i])
      BY DEF IsInjective
    <2>. QED  BY <2>1
  <1>3. SetToSeq({}) \in [1 .. 0 -> {}]
    BY <1>1, <1>2 DEF SetToSeq
  <1>. QED  BY <1>3

LEMMA SetToSeqOne ==
    ASSUME NEW e PROVE SetToSeq({e}) = <<e>>
  <1>1. Cardinality({e}) = 1
    BY FS_Singleton
  <1>2. \E f \in [1 .. 1 -> {e}] : IsInjective(f)
    <2>1. [i \in 1 .. 1 |-> e] \in [1 .. 1 -> {e}] /\ IsInjective([i \in 1 .. 1 |-> e])
      BY DEF IsInjective
    <2>. QED  BY <2>1
  <1>3. SetToSeq({e}) \in [1 .. 1 -> {e}]
    BY <1>1, <1>2 DEF SetToSeq
  <1>. QED  BY <1>3

-----------------------------------------------------------------------------
(* What is under way, after a call is answered or another one is made      *)

LEMMA CallsTail ==
    ASSUME NEW cs, NEW q, NEW sh, NEW a, NEW si, NEW v, CallsRight(cs, q, sh, a, si, v), cs # <<>>
    PROVE  CallsRight(Tail(cs), q, sh, a, si, v)
  <1>. DEFINE t == Tail(cs)
              n == Len(cs)
  <1>1. /\ IsSeq(t) /\ DOMAIN t = 1 .. n - 1 /\ n \in Nat /\ DOMAIN cs = 1 .. n
        /\ \A i \in 1 .. n - 1 : t[i] = cs[i + 1] /\ i + 1 \in 1 .. n
    BY TailFacts, SeqFacts DEF CallsRight
  <1>. HIDE DEF t, n
  <1>2. \A k \in DOMAIN t : CallRight(t[k], sh, a, si, v)
    BY <1>1 DEF CallsRight
  <1>3. Ordered(t)
    <2>1. ASSUME NEW k \in 1 .. n - 1, NEW l \in 1 .. n - 1, k < l, IsSend(t[k]), IsSend(t[l])
          PROVE  Later(t[k].message, t[l].message)
      <3>1. k + 1 < l + 1 /\ t[k] = cs[k + 1] /\ t[l] = cs[l + 1] /\ k + 1 \in 1 .. n /\ l + 1 \in 1 .. n
        BY <1>1, <2>1
      <3>. QED  BY <1>1, <2>1, <3>1 DEF CallsRight, Ordered
    <2>. QED  BY <1>1, <2>1 DEF Ordered
  <1>4. \A k \in DOMAIN t, l \in DOMAIN q : QueuedAfter(t[k], q[l])
    BY <1>1 DEF CallsRight
  <1>5. CallsRight(t, q, sh, a, si, v)
    BY <1>1, <1>2, <1>3, <1>4 DEF CallsRight
  <1>. QED  BY <1>5 DEF t

LEMMA CallsAppend ==
    ASSUME NEW cs, NEW q, NEW sh, NEW a, NEW si, NEW v, CallsRight(cs, q, sh, a, si, v),
           NEW e, CallRight(e, sh, a, si, v),
           \A k \in DOMAIN cs : IsSend(cs[k]) /\ IsSend(e) => Later(cs[k].message, e.message),
           NEW r, IsSeq(r), \A l \in DOMAIN r : EntryRight(r[l], sh, a) /\ QueuedAfter(e, r[l]),
           \A k \in DOMAIN cs, l \in DOMAIN r : QueuedAfter(cs[k], r[l])
    PROVE  CallsRight(Append(cs, e), r, sh, a, si, v)
  <1>. DEFINE t == Append(cs, e)
              n == Len(cs)
  <1>1. /\ IsSeq(t) /\ DOMAIN t = 1 .. n + 1 /\ n \in Nat /\ DOMAIN cs = 1 .. n /\ t[n + 1] = e
        /\ \A i \in 1 .. n : t[i] = cs[i]
    BY AppendFacts, SeqFacts DEF CallsRight
  <1>. HIDE DEF t, n
  <1>2. \A k \in DOMAIN t : (k \in DOMAIN cs /\ t[k] = cs[k]) \/ (k = n + 1 /\ t[k] = e)
    BY <1>1
  <1>3. \A k \in DOMAIN t : CallRight(t[k], sh, a, si, v)
    BY <1>2 DEF CallsRight
  <1>4. Ordered(t)
    <2>1. ASSUME NEW k \in 1 .. n + 1, NEW l \in 1 .. n + 1, k < l, IsSend(t[k]), IsSend(t[l])
          PROVE  Later(t[k].message, t[l].message)
      <3>1. k \in DOMAIN cs /\ t[k] = cs[k]
        BY <1>1, <2>1
      <3>. QED  BY <1>1, <1>2, <2>1, <3>1 DEF CallsRight, Ordered
    <2>. QED  BY <1>1, <2>1 DEF Ordered
  <1>5. \A k \in DOMAIN t, l \in DOMAIN r : QueuedAfter(t[k], r[l])
    BY <1>2
  <1>6. CallsRight(t, r, sh, a, si, v)
    BY <1>1, <1>3, <1>4, <1>5 DEF CallsRight
  <1>. QED  BY <1>6 DEF t

\* A call that is no message
LEMMA CallsAsk ==
    ASSUME NEW cs, NEW q, NEW sh, NEW a, NEW si, NEW v, CallsRight(cs, q, sh, a, si, v),
           NEW e, e.method \in {"get_session_id", "get_accepted_message_types"}
    PROVE  CallsRight(Append(cs, e), q, sh, a, si, v)
  <1>1. /\ IsSeq(q) /\ \A l \in DOMAIN q : EntryRight(q[l], sh, a)
        /\ \A k \in DOMAIN cs, l \in DOMAIN q : QueuedAfter(cs[k], q[l])
    BY DEF CallsRight
  <1>2. ~IsSend(e)
    BY DEF IsSend
  <1>3. CallRight(e, sh, a, si, v) /\ \A l \in DOMAIN q : QueuedAfter(e, q[l])
    BY <1>2 DEF CallRight, QueuedAfter
  <1>. QED  BY <1>1, <1>2, <1>3, CallsAppend

\* A message
LEMMA CallsSend ==
    ASSUME NEW cs, NEW q, NEW sh, NEW a, NEW si, NEW v, CallsRight(cs, q, sh, a, si, v),
           NEW e, CallRight(e, sh, a, si, v),
           \A k \in DOMAIN cs : IsSend(cs[k]) => Later(cs[k].message, e.message)
    PROVE  CallsRight(Append(cs, e), <<>>, sh, a, si, v)
  BY CallsAppend, EmptyFacts

\* Nothing under way
LEMMA CallsNone ==
    ASSUME NEW e, e.method = "get_session_id", NEW sh, NEW a, NEW si, NEW v
    PROVE  CallsRight(<<e>>, <<>>, sh, a, si, v)
  <1>1. IsSeq(<<e>>) /\ DOMAIN <<e>> = {1} /\ <<e>>[1] = e
    BY OneFacts
  <1>2. Ordered(<<e>>)
    BY <1>1 DEF Ordered
  <1>3. CallRight(e, sh, a, si, v)
    BY DEF CallRight, IsSend
  <1>. QED  BY <1>1, <1>2, <1>3, EmptyFacts DEF CallsRight

-----------------------------------------------------------------------------
(* What is under way, after something else has changed                     *)

\* For the parts of CallsRight that may be disturbed
LEMMA CallsKept ==
    ASSUME NEW cs, NEW q, NEW sh, NEW a, NEW si, NEW v, CallsRight(cs, q, sh, a, si, v),
           NEW sh2, NEW a2, NEW si2, NEW v2,
           \A k \in DOMAIN cs : CallRight(cs[k], sh, a, si, v) => CallRight(cs[k], sh2, a2, si2, v2),
           \A k \in DOMAIN q : EntryRight(q[k], sh, a) => EntryRight(q[k], sh2, a2)
    PROVE  CallsRight(cs, q, sh2, a2, si2, v2)
  BY DEF CallsRight

\* The machine changes.
LEMMA MachineChanges ==
    ASSUME NEW cs, NEW q, NEW sh, NEW a, NEW si, NEW v, CallsRight(cs, q, sh, a, si, v),
           StateRight(sh, a, si, v), NEW new
    PROVE  /\ StateRight(Append(sh, new), a, si, v)
           /\ CallsRight(cs, q, Append(sh, new), a, si, v)
  <1>. DEFINE t == Append(sh, new)
              n == Len(sh)
  <1>1. /\ IsSeq(t) /\ Len(t) = n + 1 /\ n \in Nat /\ n >= 1
        /\ \A k \in 1 .. n : t[k] = sh[k] /\ k \in 1 .. Len(t)
    BY AppendFacts, SeqFacts DEF StateRight
  <1>2. StateRight(t, a, si, v)
    <2>1. a \in [Items -> 0 .. n + 1]
      BY <1>1 DEF StateRight
    <2>2. si \in 0 .. n + 1
      BY <1>1 DEF StateRight
    <2>. HIDE DEF t, n
    <2>. QED  BY <1>1, <2>1, <2>2 DEF StateRight
  <1>3. \A k \in 1 .. Len(sh) : t[k] = sh[k] /\ k \in 1 .. Len(t)
    BY <1>1
  <1>. HIDE DEF t, n
  <1>4. \A m : MessageRight(m, sh, a) => MessageRight(m, t, a)
    BY <1>3 DEF MessageRight
  <1>5. \A c : CallRight(c, sh, a, si, v) => CallRight(c, t, a, si, v)
    BY <1>4 DEF CallRight
  <1>6. \A e : EntryRight(e, sh, a) => EntryRight(e, t, a)
    BY <1>3 DEF EntryRight
  <1>7. CallsRight(cs, q, t, a, si, v)
    BY <1>5, <1>6, CallsKept
  <1>. QED  BY <1>2, <1>7 DEF t

\* The server asks for everything.
LEMMA ServerAsks ==
    ASSUME NEW cs, NEW q, NEW sh, NEW a, NEW si, NEW v, CallsRight(cs, q, sh, a, si, v),
           StateRight(sh, a, si, v), NEW si2 \in {0, Len(sh)}, NEW v2, v2 = [v EXCEPT !.id = NoId]
    PROVE  StateRight(sh, Never, si2, v2) /\ CallsRight(cs, q, sh, Never, si2, v2)
  <1>0. Len(sh) \in Nat /\ v \in [id : Nat, given : Nat]
    BY SeqFacts DEF StateRight
  <1>1. v2 \in [id : Nat, given : Nat] /\ v2.id = NoId /\ v2.given = v.given
    BY <1>0 DEF NoId
  <1>2. Never \in [Items -> 0 .. Len(sh)] /\ \A i \in Items : Never[i] = 0
    BY <1>0 DEF Never
  <1>3. StateRight(sh, Never, si2, v2)
    BY <1>0, <1>1, <1>2 DEF StateRight, NoId
  <1>4. \A m : MessageRight(m, sh, a) => MessageRight(m, sh, Never)
    BY <1>0, <1>2 DEF MessageRight
  <1>5. \A c : CallRight(c, sh, a, si, v) => CallRight(c, sh, Never, si2, v2)
    BY <1>1, <1>4 DEF CallRight
  <1>6. \A e : EntryRight(e, sh, a) => EntryRight(e, sh, Never)
    BY <1>0, <1>2 DEF EntryRight
  <1>7. CallsRight(cs, q, sh, Never, si2, v2)
    BY <1>5, <1>6, CallsKept
  <1>. QED  BY <1>3, <1>7

\* A new session id is given out: no message has it.
LEMMA IdGiven ==
    ASSUME NEW cs, NEW q, NEW sh, NEW a, NEW si, NEW v, CallsRight(cs, q, sh, a, si, v),
           StateRight(sh, a, si, v), NEW v2, v2 = [id |-> v.given + 1, given |-> v.given + 1]
    PROVE  StateRight(sh, a, si, v2) /\ CallsRight(cs, q, sh, a, si, v2)
  <1>1. v.given \in Nat /\ v2 \in [id : Nat, given : Nat] /\ v2.id = v.given + 1 /\ v2.given = v.given + 1
    BY DEF StateRight
  <1>2. StateRight(sh, a, si, v2)
    BY <1>1 DEF StateRight
  <1>3. \A c : CallRight(c, sh, a, si, v) => CallRight(c, sh, a, si, v2)
    <2>1. \A k \in 0 .. v.given : k \in 0 .. v2.given /\ k # v2.id
      BY <1>1
    <2>. QED  BY <2>1 DEF CallRight
  <1>4. CallsRight(cs, q, sh, a, si, v2)
    BY <1>3, CallsKept
  <1>. QED  BY <1>2, <1>4

\* A message reaches the server.
LEMMA MessageDelivered ==
    ASSUME NEW cs, NEW q, NEW sh, NEW a, NEW si, NEW v, CallsRight(cs, q, sh, a, si, v),
           StateRight(sh, a, si, v), cs # <<>>, IsSend(Head(cs)),
           NEW a2, a2 = [i \in Items |-> IF Touches(Head(cs).message, i) THEN Head(cs).message.at[i]
                                                                      ELSE a[i]]
    PROVE  StateRight(sh, a2, si, v) /\ CallsRight(Tail(cs), q, sh, a2, si, v)
  <1>. DEFINE m == Head(cs).message
              n == Len(cs)
              t == Tail(cs)
  <1>1. /\ Len(sh) \in Nat /\ n \in Nat /\ DOMAIN cs = 1 .. n /\ Head(cs) = cs[1] /\ n >= 1
        /\ DOMAIN t = 1 .. n - 1 /\ \A k \in 1 .. n - 1 : t[k] = cs[k + 1] /\ k + 1 \in 1 .. n /\ 1 < k + 1
    BY SeqFacts, TailFacts DEF StateRight, CallsRight
  <1>2. MessageRight(m, sh, a)
    BY <1>1 DEF CallsRight, CallRight
  <1>3. ASSUME NEW k \in DOMAIN t, IsSend(t[k]) PROVE Later(m, t[k].message)
    BY <1>1, <1>3 DEF CallsRight, Ordered
  <1>4. ASSUME NEW l \in DOMAIN q PROVE Touches(m, q[l].item) => m.at[q[l].item] <= q[l].seen
    BY <1>1 DEF CallsRight, QueuedAfter
  <1>5. CallsRight(t, q, sh, a, si, v)
    BY CallsTail
  <1>. HIDE DEF m, n, t
  <1>6. a2 = [i \in Items |-> IF Touches(m, i) THEN m.at[i] ELSE a[i]]
    BY DEF m
  <1>7. StateRight(sh, a2, si, v)
    <2>1. \A i \in Items : a2[i] \in 0 .. Len(sh)
      BY <1>1, <1>2, <1>6 DEF MessageRight, StateRight
    <2>2. a2 \in [Items -> 0 .. Len(sh)]
      BY <1>6, <2>1
    <2>. QED  BY <2>2 DEF StateRight
  <1>8. ASSUME NEW k \in DOMAIN t, CallRight(t[k], sh, a, si, v) PROVE CallRight(t[k], sh, a2, si, v)
    <2>1. CASE ~IsSend(t[k])
      BY <1>8, <2>1 DEF CallRight
    <2>2. CASE IsSend(t[k])
      <3>1. Later(m, t[k].message) /\ MessageRight(t[k].message, sh, a)
        BY <1>3, <1>8, <2>2 DEF CallRight
      <3>2. MessageRight(t[k].message, sh, a2)
        BY <1>6, <3>1 DEF MessageRight, Later
      <3>. QED  BY <1>8, <2>2, <3>2 DEF CallRight
    <2>. QED  BY <2>1, <2>2
  <1>9. ASSUME NEW l \in DOMAIN q, EntryRight(q[l], sh, a) PROVE EntryRight(q[l], sh, a2)
    <2>1. a2[q[l].item] <= q[l].seen
      BY <1>4, <1>6, <1>9 DEF EntryRight
    <2>. QED  BY <1>9, <2>1 DEF EntryRight
  <1>10. CallsRight(t, q, sh, a2, si, v)
    BY <1>5, <1>8, <1>9, CallsKept
  <1>. QED  BY <1>7, <1>10 DEF t

-----------------------------------------------------------------------------
(* The messages                                                            *)

\* There is a last one among the positions of a sequence.
LEMMA LastPosition ==
    ASSUME NEW n \in Nat, NEW S, S \subseteq 1 .. n, S # {} PROVE Max(S) \in S
  <1>. DEFINE T == {k \in Nat : n - k \in S}
              R == OpToRel(<, Nat)
  <1>1. T \subseteq Nat /\ T # {}
    <2>1. PICK k \in S : TRUE
      OBVIOUS
    <2>2. n - k \in Nat /\ n - (n - k) = k
      BY <2>1
    <2>. QED  BY <2>1, <2>2
  <1>2. \A x, y \in Nat : y < x => <<y, x>> \in R
    BY DEF OpToRel
  <1>3. IsWellFoundedOn(R, Nat)
    BY NatLessThanWellFounded
  <1>. HIDE DEF R
  <1>4. PICK x \in T : \A y \in T : ~(<<y, x>> \in R)
    BY <1>1, <1>3, WFMin
  <1>5. n - x \in S /\ \A y \in S : n - x >= y
    <2>1. ASSUME NEW y \in S PROVE n - x >= y
      <3>1. n - y \in Nat /\ n - (n - y) = y
        OBVIOUS
      <3>2. n - y \in T
        BY <3>1
      <3>3. ~(n - y < x)
        BY <1>2, <1>4, <3>1, <3>2
      <3>. QED  BY <1>4, <3>1, <3>3
    <2>. QED  BY <1>4, <2>1
  <1>. QED  BY <1>5 DEF Max

\* A message that may be appended
Sendable(m) ==
    /\ MessageRight(m, shown, at) /\ Fresher(m, since)
    /\ \A k \in DOMAIN calls : IsSend(calls[k]) => Later(calls[k].message, m)

LEMMA NowFacts ==
    ASSUME ReportsInv
    PROVE  /\ Len(shown) \in Nat /\ Len(shown) \in 1 .. Len(shown) /\ machine = shown[Len(shown)]
           /\ since \in 0 .. Len(shown) /\ \A i \in Items : at[i] \in 0 .. Len(shown)
           /\ \A k \in DOMAIN calls : IsSend(calls[k]) => MessageRight(calls[k].message, shown, at)
  BY SeqFacts DEF ReportsInv, StateRight, CallsRight, CallRight, machine, Last

\* What is so now can be told.
LEMMA MessageOfNow ==
    ASSUME ReportsInv, NEW S, S \subseteq Present, NEW D, D \subseteq Items \ Present,
           NEW replaces, replaces => S = Present
    PROVE  Sendable(Message(replaces, Only(machine, S), D))
  <1>. DEFINE m == Message(replaces, Only(machine, S), D)
  <1>1. /\ m.at = [i \in Items |-> Len(shown)] /\ m.sets = [i \in S |-> machine[i]] /\ m.deletes = D
        /\ (m.replaces <=> replaces)
    BY DEF Message, Only
  <1>. HIDE DEF m
  <1>2. ASSUME NEW i \in Items, Touches(m, i) PROVE Said(m, i) = machine[i]
    BY <1>1, <1>2 DEF Touches, Said, Present
  <1>3. \A i \in Items : m.at[i] = Len(shown)
    BY <1>1
  <1>4. MessageRight(m, shown, at)
    BY <1>2, <1>3, NowFacts DEF MessageRight
  <1>5. Fresher(m, since)
    BY <1>3, NowFacts DEF Fresher
  <1>6. \A k \in DOMAIN calls : IsSend(calls[k]) => Later(calls[k].message, m)
    BY <1>3, NowFacts DEF Later, MessageRight
  <1>. QED  BY <1>4, <1>5, <1>6 DEF Sendable, m

\* And what MountInfo has queued
LEMMA MessageOfMounts ==
    ASSUME ReportsInv, plugin.rule = "mounts", NEW m \in MountsMessage PROVE Sendable(m)
  <1>. DEFINE q == memory.queue
              Latest(i) == Max({k \in DOMAIN q : q[k].item = i})
              told == {q[k].item : k \in DOMAIN q}
              sets == [i \in told |-> q[Latest(i)].value]
              times == [i \in Items |-> IF i \in told THEN q[Latest(i)].seen ELSE 0]
  <1>1. m = [Message(FALSE, sets, {}) EXCEPT !.at = times]
    BY DEF MountsMessage
  <1>2. m.at = times /\ m.sets = sets /\ m.deletes = {} /\ ~m.replaces
    <2>. HIDE DEF times, sets
    <2>. QED  BY <1>1 DEF Message
  <1>3. ASSUME NEW i \in told PROVE Latest(i) \in DOMAIN q /\ q[Latest(i)].item = i
    <2>1. Len(q) \in Nat /\ DOMAIN q = 1 .. Len(q)
      BY SeqFacts DEF ReportsInv, CallsRight
    <2>2. {k \in DOMAIN q : q[k].item = i} # {} /\ {k \in DOMAIN q : q[k].item = i} \subseteq 1 .. Len(q)
      BY <2>1
    <2>3. Latest(i) \in {k \in DOMAIN q : q[k].item = i}
      BY <2>1, <2>2, LastPosition
    <2>. HIDE DEF Latest
    <2>. QED  BY <2>3
  <1>4. ASSUME NEW i \in Items, Touches(m, i)
        PROVE  \E e \in {q[k] : k \in DOMAIN q} : e.item = i /\ m.at[i] = e.seen /\ Said(m, i) = e.value
    <2>1. i \in told
      BY <1>2, <1>4 DEF Touches
    <2>2. m.at[i] = q[Latest(i)].seen /\ Said(m, i) = q[Latest(i)].value
      <3>. HIDE DEF Latest, told
      <3>. QED  BY <1>2, <2>1 DEF Said
    <2>. HIDE DEF Latest, told
    <2>. QED  BY <1>3, <2>1, <2>2
  <1>. HIDE DEF q
  <1>5. ASSUME NEW k \in DOMAIN q
        PROVE  EntryRight(q[k], shown, at) /\ \A l \in DOMAIN calls : QueuedAfter(calls[l], q[k])
    BY DEF q, ReportsInv, CallsRight
  <1>6. MessageRight(m, shown, at)
    BY <1>4, <1>5 DEF MessageRight, EntryRight
  <1>7. Fresher(m, since)
    <2>1. since = 0 /\ Len(shown) \in Nat
      BY NowFacts DEF ReportsInv
    <2>. QED  BY <1>6, <2>1 DEF Fresher, MessageRight
  <1>8. ASSUME NEW l \in DOMAIN calls, IsSend(calls[l]) PROVE Later(calls[l].message, m)
    BY <1>4, <1>5, <1>8 DEF Later, QueuedAfter
  <1>. QED  BY <1>6, <1>7, <1>8 DEF Sendable

Rules == {"data", "always", "items", "processors", "processes", "users", "mounts"}

LEMMA PluginFacts ==
    ASSUME ReportsInv
    PROVE  /\ plugin.rule \in Rules
           /\ plugin.rule = "processes" => plugin.resets = TRUE /\ plugin.disk = FALSE
  <1>1. plugin \in ReportPlugins
    BY PluginsAssumption DEF ReportsInv
  <1>2. /\ AptPreferences.rule = "data" /\ CloudInit.rule = "data" /\ SnapServicesMonitor.rule = "data"
        /\ ComputerTags.rule = "data" /\ KeystoneToken.rule = "data"
        /\ NetworkDevice.rule = "data" /\ UpdateManager.rule = "data"
    BY DEF AptPreferences, CloudInit, SnapServicesMonitor, ComputerTags, KeystoneToken,
           NetworkDevice, UpdateManager, DataWatcher
  <1>3. /\ LivePatch.rule = "data" /\ UbuntuProInfo.rule = "data"
        /\ UbuntuProRebootRequired.rule = "data" /\ SnapManager.rule = "data"
    BY DEF LivePatch, UbuntuProInfo, UbuntuProRebootRequired, SnapManager, DataWatcherManager
  <1>4. /\ RebootRequired.rule = "items" /\ ComputerInfo.rule = "items"
        /\ ProcessorInfo.rule = "processors" /\ MountInfo.rule = "mounts"
        /\ UserMonitor.rule = "users" /\ HardwareInfo.rule = "always"
    BY DEF RebootRequired, ComputerInfo, ProcessorInfo, MountInfo, UserMonitor, HardwareInfo
  <1>5. /\ ActiveProcessInfo.rule = "processes" /\ ActiveProcessInfo.resets = TRUE
        /\ ActiveProcessInfo.disk = FALSE
    BY DEF ActiveProcessInfo
  <1>. QED  BY <1>1, <1>2, <1>3, <1>4, <1>5 DEF ReportPlugins, Rules

LEMMA MessagesRight ==
    ASSUME ReportsInv
    PROVE  /\ Messages = {} \/ \E m : Messages = {m} /\ Sendable(m)
           /\ plugin.rule = "mounts" /\ memory.queue = <<>> => Messages = {}
  <1>1. \A old : Created(old) \subseteq Present /\ Deleted(old) \subseteq Items \ Present
    BY DEF Created, Deleted
  <1>2. Sendable(Message(TRUE, Only(machine, Present), {}))
    BY MessageOfNow
  <1>3. CASE plugin.rule \in {"data", "always", "processors"}
    BY <1>2, <1>3 DEF Messages, DataMessage, AlwaysMessage, ProcessorsMessage
  <1>4. CASE plugin.rule = "items"
    <2>1. Sendable(Message(FALSE, Only(machine, Created(memory.reported)), {}))
      BY <1>1, MessageOfNow
    <2>. QED  BY <1>4, <2>1 DEF Messages, ItemsMessage
  <1>5. CASE plugin.rule = "users"
    <2>1. Sendable(Message(FALSE, Only(machine, Created(memory.reported)), Deleted(memory.reported)))
      BY <1>1, MessageOfNow
    <2>. QED  BY <1>5, <2>1 DEF Messages, UsersMessage
  <1>6. CASE plugin.rule = "processes"
    <2>1. memory.first => Created(memory.reported) = Present
      <3>1. memory.first => memory.reported = Blank
        BY <1>6 DEF ReportsInv, MemoryRight
      <3>2. Created(Blank) = Present
        BY DEF Created, Present, Blank
      <3>. QED  BY <3>1, <3>2
    <2>2. Sendable(Message(memory.first, Only(machine, Created(memory.reported)),
                           Deleted(memory.reported)))
      BY <1>1, <2>1, MessageOfNow
    <2>. QED  BY <1>6, <2>2 DEF Messages, ProcessesMessage
  <1>7. CASE plugin.rule = "mounts"
    <2>1. Messages = MountsMessage
      BY <1>7 DEF Messages
    <2>2. memory.queue = <<>> => MountsMessage = {}
      BY DEF MountsMessage
    <2>3. MountsMessage = {} \/ \E m : MountsMessage = {m}
      BY DEF MountsMessage
    <2>4. \A m \in MountsMessage : Sendable(m)
      BY <1>7, MessageOfMounts
    <2>. QED  BY <1>7, <2>1, <2>2, <2>3, <2>4
  <1>. QED  BY <1>3, <1>4, <1>5, <1>6, <1>7, PluginFacts DEF Rules

\* What is left behind by a message: the queue of MountInfo is empty.
LEMMA AfterMessageRight ==
    ASSUME ReportsInv
    PROVE  /\ MemoryRight(AfterMessage, valid, plugin)
           /\ AfterMessage.queue = <<>>
  <1>0. MemoryRight(memory, valid, plugin)
    BY DEF ReportsInv
  <1>1. CASE Eager
    <2>1. plugin.rule \notin {"processes", "mounts"} /\ AfterMessage = [memory EXCEPT !.reported = Told]
      BY <1>1 DEF Eager, AfterMessage
    <2>. QED  BY <1>0, <2>1 DEF MemoryRight, Fields
  <1>2. CASE plugin.rule = "processes"
    <2>1. AfterMessage = [memory EXCEPT !.previous = machine]
      BY <1>2 DEF Eager, AfterMessage
    <2>. QED  BY <1>0, <1>2, <2>1 DEF MemoryRight, Fields
  <1>3. CASE plugin.rule = "users"
    <2>1. AfterMessage = memory
      BY <1>3 DEF Eager, AfterMessage
    <2>. QED  BY <1>0, <1>3, <2>1 DEF MemoryRight
  <1>4. CASE plugin.rule = "mounts"
    <2>1. AfterMessage = IF memory.queue = <<>> THEN memory
                         ELSE [memory EXCEPT !.to_persist = memory.queue, !.queue = <<>>]
      BY <1>4 DEF Eager, AfterMessage
    <2>. QED  BY <1>0, <1>4, <2>1 DEF MemoryRight, Fields
  <1>. QED  BY <1>1, <1>2, <1>3, <1>4, PluginFacts DEF Rules, Eager

LEMMA SendRight ==
    ASSUME ReportsInv, Send
    PROVE  /\ MemoryRight(memory', valid, plugin) /\ memory'.queue = <<>>
           /\ CallsRight(calls', memory'.queue, shown, at, since, valid)
  <1>1. memory' = AfterMessage
    BY DEF Send
  <1>2. MemoryRight(memory', valid, plugin) /\ memory'.queue = <<>>
    BY <1>1, AfterMessageRight
  <1>. DEFINE call(m) == [method |-> "send_message", message |-> m, id |-> memory.id,
                          resets |-> memory.resets, snapshot |-> machine]
  <1>3. calls' = calls \o SetToSeq({call(m) : m \in Messages})
    BY DEF Send
  <1>4. CallsRight(calls, memory.queue, shown, at, since, valid)
    BY DEF ReportsInv
  <1>5. CASE Messages = {}
    <2>1. {call(m) : m \in Messages} = {}
      BY <1>5
    <2>2. calls' = calls
      <3>1. calls \in Seq({calls[i] : i \in DOMAIN calls})
        BY <1>4 DEF CallsRight, IsSeq
      <3>2. calls' = calls \o <<>>
        BY <1>3, <2>1, SetToSeqNone
      <3>. QED  BY <3>1, <3>2
    <2>3. CallsRight(calls, <<>>, shown, at, since, valid)
      BY <1>4, EmptyFacts DEF CallsRight
    <2>. QED  BY <1>2, <2>2, <2>3
  <1>6. ASSUME NEW m, Messages = {m}, Sendable(m)
        PROVE  CallsRight(calls', <<>>, shown, at, since, valid)
    <2>. DEFINE e == call(m)
    <2>1. {call(n) : n \in Messages} = {e}
      BY <1>6
    <2>2. e.method = "send_message" /\ e.message = m /\ e.id = memory.id
      OBVIOUS
    <2>. HIDE DEF e, call
    <2>3. calls' = Append(calls, e)
      <3>1. calls \in Seq({calls[i] : i \in DOMAIN calls} \cup {e})
        BY <1>4 DEF CallsRight, IsSeq
      <3>2. calls' = calls \o <<e>>
        BY <1>3, <2>1, SetToSeqOne
      <3>. QED  BY <3>1, <3>2, AppendIsConcat
    <2>4. CallRight(e, shown, at, since, valid)
      BY <1>6, <2>2 DEF CallRight, IsSend, Sendable, ReportsInv, MemoryRight
    <2>5. \A k \in DOMAIN calls : IsSend(calls[k]) => Later(calls[k].message, e.message)
      BY <1>6, <2>2 DEF Sendable
    <2>6. CallsRight(Append(calls, e), <<>>, shown, at, since, valid)
      BY <1>4, <2>4, <2>5, CallsSend
    <2>. QED  BY <2>3, <2>6
  <1>. HIDE DEF call
  <1>. QED  BY <1>2, <1>5, <1>6, MessagesRight

-----------------------------------------------------------------------------
(* The steps: each keeps the invariant, and is a step of the mirror        *)

Mirrored == [M!Next]_(M!vars)

\* Nothing the server shows has changed.
LEMMA Quiet ==
    ASSUME UNCHANGED <<shown, copy, at, since>>, astray' \/ astray' = astray PROVE Mirrored
  BY DEF Mirrored, M!vars, M!Next, M!GoAstray

LEMMA InvIs ==
    ASSUME ReportsInv
    PROVE  /\ plugin \in Plugins /\ astray \in BOOLEAN
           /\ StateRight(shown, at, since, valid)
           /\ plugin.rule = "processes" => saved = Blank
           /\ plugin.rule = "mounts" => since = 0
           /\ MemoryRight(memory, valid, plugin)
           /\ ResultsRight(results, valid)
           /\ CallsRight(calls, memory.queue, shown, at, since, valid)
  BY DEF ReportsInv

LEMMA LooksStep == ASSUME ReportsInv, Looks PROVE ReportsInv' /\ Mirrored
  <1>1. /\ calls' = Append(calls, [method |-> "get_accepted_message_types"])
        /\ memory' = memory \/ memory' = [memory EXCEPT !.started = TRUE]
        /\ UNCHANGED <<plugin, since, shown, saved, valid, results, copy, at, astray>>
    BY DEF Looks, Ask
  <1>2. MemoryRight(memory', valid, plugin) /\ memory'.queue = memory.queue
    BY <1>1, InvIs DEF MemoryRight, Fields
  <1>3. CallsRight(calls', memory'.queue, shown, at, since, valid)
    BY <1>1, <1>2, InvIs, CallsAsk
  <1>. QED  BY <1>1, <1>2, <1>3, InvIs, Quiet DEF ReportsInv

LEMMA AcceptedStep == ASSUME ReportsInv, Accepted PROVE ReportsInv' /\ Mirrored
  <1>1. /\ Send /\ UNCHANGED <<plugin, since, shown, saved, valid, results, copy, at>>
    BY DEF Accepted
  <1>2. astray' \in BOOLEAN /\ (astray' \/ astray' = astray)
    BY <1>1, InvIs DEF Send
  <1>. QED  BY <1>1, <1>2, InvIs, SendRight, Quiet DEF ReportsInv

LEMMA RunMountsStep == ASSUME ReportsInv, RunMounts PROVE ReportsInv' /\ Mirrored
  <1>. DEFINE entry(i) == [item |-> i, value |-> machine[i], seen |-> Len(shown)]
  <1>1. PICK new \in SUBSET Items :
           /\ plugin.rule = "mounts"
           /\ memory' = [memory EXCEPT !.queue = memory.queue \o SetToSeq({entry(i) : i \in new})]
           /\ UNCHANGED <<plugin, since, shown, saved, valid, calls, results, copy, at, astray>>
    BY DEF RunMounts, Present
  <1>. DEFINE S == {entry(i) : i \in new}
              q == memory.queue
              u == q \o SetToSeq(S)
  <1>2. IsFiniteSet(S)
    <2>1. IsFiniteSet(new)
      BY PluginsAssumption, FS_Subset
    <2>2. [i \in new |-> entry(i)] \in Surjection(new, S)
      BY DEF Surjection
    <2>. HIDE DEF S, entry
    <2>. QED  BY <2>1, <2>2, FS_Surjection
  <1>3. IsSeq(SetToSeq(S)) /\ SetToSeq(S) \in Seq(S)
    BY <1>2, SetToSeqFacts
  <1>4. \A e \in S : e.item \in Items /\ e.seen = Len(shown) /\ e.value = machine[e.item]
    OBVIOUS
  <1>5. memory' = [memory EXCEPT !.queue = u]
    BY <1>1
  <1>. HIDE DEF S, entry
  <1>6. IsSeq(u) /\ \A k \in DOMAIN u : (k \in DOMAIN q /\ u[k] = q[k]) \/ u[k] \in S
    <2>1. IsSeq(q)
      BY InvIs DEF CallsRight
    <2>2. \A k \in DOMAIN SetToSeq(S) : SetToSeq(S)[k] \in S
      BY <1>3
    <2>. QED  BY <1>3, <2>1, <2>2, ConcatFacts
  <1>. HIDE DEF u, q
  <1>7. MemoryRight(memory', valid, plugin) /\ memory'.queue = u
    BY <1>1, <1>5, InvIs DEF MemoryRight, Fields
  <1>8. CallsRight(calls, u, shown, at, since, valid)
    <2>0. CallsRight(calls, q, shown, at, since, valid)
      BY InvIs DEF q
    <2>1. ASSUME NEW e \in S PROVE EntryRight(e, shown, at) /\ \A k \in DOMAIN calls : QueuedAfter(calls[k], e)
      BY <1>4, NowFacts DEF EntryRight, QueuedAfter, MessageRight
    <2>2. \A k \in DOMAIN u : EntryRight(u[k], shown, at)
      BY <1>6, <2>0, <2>1 DEF CallsRight
    <2>3. \A k \in DOMAIN calls, l \in DOMAIN u : QueuedAfter(calls[k], u[l])
      BY <1>6, <2>0, <2>1 DEF CallsRight
    <2>. QED  BY <1>6, <2>0, <2>2, <2>3 DEF CallsRight
  <1>. QED  BY <1>1, <1>7, <1>8, InvIs, Quiet DEF ReportsInv

LEMMA FirstCall ==
    ASSUME ReportsInv, calls # <<>> PROVE CallRight(Head(calls), shown, at, since, valid)
  <1>1. IsSeq(calls)
    BY InvIs DEF CallsRight
  <1>2. Head(calls) = calls[1] /\ Len(calls) \in Nat /\ Len(calls) >= 1 /\ DOMAIN calls = 1 .. Len(calls)
    BY <1>1, SeqFacts, TailFacts
  <1>3. 1 \in DOMAIN calls
    BY <1>2
  <1>. QED  BY <1>2, <1>3, InvIs DEF CallsRight

\* What the server is told
LEMMA DeliverStep ==
    ASSUME ReportsInv, calls # <<>>, IsSend(Head(calls)), Head(calls).id = valid.id,
           Head(calls).id # NoId, Deliver(Head(calls).message), UNCHANGED <<shown, since>>,
           astray' \/ astray' = astray
    PROVE  /\ Mirrored
           /\ StateRight(shown, at', since, valid)
           /\ CallsRight(Tail(calls), memory.queue, shown, at', since, valid)
  <1>. DEFINE m == Head(calls).message
  <1>1. /\ at' = [i \in Items |-> IF Touches(m, i) THEN m.at[i] ELSE at[i]]
        /\ \A i \in Items : copy'[i] = IF Touches(m, i) THEN Said(m, i) ELSE copy[i]
    <2>1. /\ copy' = Apply(m)
          /\ at' = [i \in Items |-> IF Touches(m, i) THEN m.at[i] ELSE at[i]]
      BY DEF Deliver
    <2>. HIDE DEF m
    <2>2. \A i \in Items : Apply(m)[i] = IF Touches(m, i) THEN Said(m, i) ELSE copy[i]
      BY DEF Apply, Touches, Said
    <2>. QED  BY <2>1, <2>2
  <1>2. StateRight(shown, at', since, valid)
        /\ CallsRight(Tail(calls), memory.queue, shown, at', since, valid)
    BY <1>1, InvIs, MessageDelivered
  <1>3. MessageRight(m, shown, at) /\ Fresher(m, since)
    <2>1. CallRight(Head(calls), shown, at, since, valid)
      BY FirstCall
    <2>. QED  BY <2>1 DEF CallRight
  <1>. HIDE DEF m
  <1>4. CASE astray'
    <2>1. M!GoAstray
      BY <1>4 DEF M!GoAstray
    <2>2. M!Next
      BY <2>1 DEF M!Next
    <2>. QED  BY <1>2, <2>2 DEF Mirrored
  <1>5. CASE ~astray'
    <2>. DEFINE mirror == [i \in Items |-> IF at[i] = 0 THEN Absent ELSE copy[i]]
    <2>1. astray' = astray /\ ~astray
      BY <1>5
    <2>2. ASSUME NEW i \in Items
          PROVE  \/ at'[i] = at[i] /\ mirror'[i] = mirror[i]
                 \/ /\ at'[i] \in (at[i] .. Len(shown)) \ {0} /\ at'[i] >= since
                    /\ mirror'[i] = shown[at'[i]][i]
      <3>1. CASE ~Touches(m, i)
        BY <1>1, <3>1
      <3>2. CASE Touches(m, i)
        <4>1. /\ at'[i] = m.at[i] /\ copy'[i] = Said(m, i) /\ m.at[i] \in 1 .. Len(shown)
              /\ at[i] <= m.at[i] /\ since <= m.at[i] /\ Said(m, i) = shown[m.at[i]][i]
          BY <1>1, <1>3, <3>2 DEF MessageRight, Fresher
        <4>2. mirror'[i] = shown[at'[i]][i]
          BY <4>1, NowFacts
        <4>3. at'[i] \in (at[i] .. Len(shown)) \ {0} /\ at'[i] >= since
          BY <4>1, NowFacts
        <4>. QED  BY <4>2, <4>3
      <3>. QED  BY <3>1, <3>2
    <2>3. M!Tell
      BY <2>1, <2>2 DEF M!Tell
    <2>4. M!Next
      BY <2>3 DEF M!Next
    <2>. QED  BY <1>2, <2>4 DEF Mirrored
  <1>. QED  BY <1>4, <1>5

LEMMA ResultsAppend ==
    ASSUME NEW v, ResultsRight(results, v), NEW e,
           e.method \in {"get_session_id", "get_accepted_message_types", "send_message", "failure"},
           e.method = "get_session_id" => e.id \in 0 .. v.given
    PROVE  ResultsRight(Append(results, e), v)
  <1>. DEFINE t == Append(results, e)
  <1>1. /\ IsSeq(t) /\ DOMAIN t = 1 .. Len(results) + 1 /\ t[Len(results) + 1] = e
        /\ \A i \in 1 .. Len(results) : t[i] = results[i]
        /\ Len(results) \in Nat /\ DOMAIN results = 1 .. Len(results)
    BY AppendFacts, SeqFacts DEF ResultsRight
  <1>. HIDE DEF t
  <1>2. \A k \in DOMAIN t : (k \in DOMAIN results /\ t[k] = results[k]) \/ t[k] = e
    BY <1>1
  <1>3. ResultsRight(t, v)
    BY <1>1, <1>2 DEF ResultsRight
  <1>. QED  BY <1>3 DEF t

LEMMA AnswerStep == ASSUME ReportsInv, Answer PROVE ReportsInv' /\ Mirrored
  <1>. DEFINE c == Head(calls)
  <1>0. /\ calls # <<>> /\ calls' = Tail(calls)
        /\ UNCHANGED <<plugin, since, shown, memory, saved>>
    BY DEF Answer
  <1>1. CallsRight(calls', memory.queue, shown, at, since, valid)
    BY <1>0, InvIs, CallsTail
  <1>2. CASE c.method = "get_session_id"
    <2>. DEFINE e == [method |-> c.method, again |-> c.again, id |-> valid'.id]
    <2>1. /\ valid' = IF valid.id = NoId THEN [id |-> valid.given + 1, given |-> valid.given + 1]
                      ELSE valid
          /\ results' = Append(results, e) /\ UNCHANGED <<copy, at, astray>>
      BY <1>2 DEF Answer
    <2>2. StateRight(shown, at, since, valid') /\ CallsRight(calls', memory.queue, shown, at, since, valid')
      BY <1>1, <2>1, InvIs, IdGiven
    <2>3. valid.given \in Nat /\ valid'.given \in Nat /\ valid'.given >= valid.given /\ valid'.id \in 0 .. valid'.given
      BY <2>1, <2>2, InvIs DEF StateRight
    <2>4. ResultsRight(results, valid') /\ MemoryRight(memory, valid', plugin)
      <3>1. \A k \in 0 .. valid.given : k \in 0 .. valid'.given
        BY <2>3
      <3>. QED  BY <3>1, InvIs DEF ResultsRight, MemoryRight
    <2>5. ResultsRight(results', valid')
      <3>1. e.id = valid'.id /\ e.method = "get_session_id"
        BY <1>2
      <3>. HIDE DEF e
      <3>. QED  BY <2>1, <2>3, <2>4, <3>1, ResultsAppend
    <2>. QED  BY <1>0, <2>1, <2>2, <2>4, <2>5, InvIs, Quiet DEF ReportsInv
  <1>3. CASE c.method = "get_accepted_message_types"
    <2>1. results' = Append(results, c) /\ UNCHANGED <<valid, copy, at, astray>>
      BY <1>3 DEF Answer
    <2>2. ResultsRight(results', valid)
      BY <1>3, <2>1, InvIs, ResultsAppend
    <2>. QED  BY <1>0, <1>1, <2>1, <2>2, InvIs, Quiet DEF ReportsInv
  <1>4. CASE c.method = "send_message" /\ c.id = NoId
    <2>1. /\ results' = Append(results, [method |-> "failure"]) /\ UNCHANGED <<valid, copy, at>>
          /\ astray' = (astray \/ Eager)
      BY <1>4 DEF Answer
    <2>2. ResultsRight(results', valid)
      BY <2>1, InvIs, ResultsAppend
    <2>3. astray' \in BOOLEAN /\ (astray' \/ astray' = astray)
      BY <2>1, InvIs
    <2>. QED  BY <1>0, <1>1, <2>1, <2>2, <2>3, InvIs, Quiet DEF ReportsInv
  <1>5. CASE c.method = "send_message" /\ c.id # NoId
    <2>1. /\ results' = Append(results, c) /\ UNCHANGED valid
          /\ IF c.id = valid.id
             THEN Deliver(c.message) /\ astray' = (astray \/ Forgotten(c))
             ELSE astray' = (astray \/ events = 0) /\ UNCHANGED <<copy, at>>
      BY <1>5 DEF Answer, is_valid_session_id
    <2>2. ResultsRight(results', valid)
      BY <1>5, <2>1, InvIs, ResultsAppend
    <2>3. astray' \in BOOLEAN /\ (astray' \/ astray' = astray)
      BY <2>1, InvIs
    <2>4. CASE c.id = valid.id
      <3>1. /\ Mirrored /\ StateRight(shown, at', since, valid)
            /\ CallsRight(calls', memory.queue, shown, at', since, valid)
        BY <1>0, <1>5, <2>1, <2>3, <2>4, DeliverStep DEF IsSend
      <3>. QED  BY <1>0, <2>1, <2>2, <2>3, <3>1, InvIs DEF ReportsInv
    <2>5. CASE c.id # valid.id
      BY <1>0, <1>1, <2>1, <2>2, <2>3, <2>5, InvIs, Quiet DEF ReportsInv
    <2>. QED  BY <2>4, <2>5
  <1>6. c.method \in {"get_session_id", "get_accepted_message_types", "send_message"}
    <2>1. CallRight(Head(calls), shown, at, since, valid)
      BY <1>0, FirstCall
    <2>. QED  BY <2>1 DEF CallRight
  <1>. QED  BY <1>2, <1>3, <1>4, <1>5, <1>6

LEMMA CallFailsStep == ASSUME ReportsInv, CallFails PROVE ReportsInv' /\ Mirrored
  <1>. DEFINE c == Head(calls)
  <1>0. /\ calls # <<>> /\ IsSend(c) /\ calls' = Tail(calls)
        /\ results' = Append(results, [method |-> "failure"])
        /\ UNCHANGED <<plugin, since, shown, memory, saved, valid>>
    BY DEF CallFails, IsSend
  <1>1. CallsRight(calls', memory.queue, shown, at, since, valid)
    BY <1>0, InvIs, CallsTail
  <1>2. ResultsRight(results', valid)
    BY <1>0, InvIs, ResultsAppend
  <1>3. \/ /\ c.id = valid.id /\ c.id # NoId /\ Deliver(c.message)
           /\ astray' = (astray \/ ~Eager \/ Forgotten(c))
        \/ astray' = (astray \/ Eager) /\ UNCHANGED <<copy, at>>
    BY DEF CallFails, is_valid_session_id
  <1>4. astray' \in BOOLEAN /\ (astray' \/ astray' = astray)
    BY <1>3, InvIs
  <1>5. CASE c.id = valid.id /\ c.id # NoId /\ Deliver(c.message)
    <2>1. /\ Mirrored /\ StateRight(shown, at', since, valid)
          /\ CallsRight(calls', memory.queue, shown, at', since, valid)
      BY <1>0, <1>4, <1>5, DeliverStep
    <2>. QED  BY <1>0, <1>2, <1>4, <2>1, InvIs DEF ReportsInv
  <1>6. CASE UNCHANGED <<copy, at>>
    BY <1>0, <1>1, <1>2, <1>4, <1>6, InvIs, Quiet DEF ReportsInv
  <1>. QED  BY <1>3, <1>5, <1>6

LEMMA ResynchronizeStep == ASSUME ReportsInv, Resynchronize PROVE ReportsInv' /\ Mirrored
  <1>1. /\ valid' = [valid EXCEPT !.id = NoId]
        /\ at' = Never /\ since' = IF plugin.rule = "mounts" THEN 0 ELSE Len(shown)
        /\ astray' = (~registered \/ ~plugin.resets)
        /\ UNCHANGED <<plugin, shown, memory, saved, calls, results>>
    BY DEF Resynchronize
  <1>2. Len(shown) \in Nat
    BY InvIs, SeqFacts DEF StateRight
  <1>3. /\ StateRight(shown, at', since', valid')
        /\ CallsRight(calls, memory.queue, shown, at', since', valid')
    BY <1>1, <1>2, InvIs, ServerAsks
  <1>4. valid'.given = valid.given
    BY <1>1, InvIs DEF StateRight
  <1>5. ResultsRight(results, valid') /\ MemoryRight(memory, valid', plugin)
    BY <1>4, InvIs DEF ResultsRight, MemoryRight
  <1>6. ReportsInv'
    BY <1>1, <1>3, <1>5, InvIs DEF ReportsInv
  <1>7. M!Resynchronize
    BY <1>1 DEF M!Resynchronize, M!Blank, Never
  <1>8. M!Next
    BY <1>7 DEF M!Next
  <1>. QED  BY <1>6, <1>8 DEF Mirrored

LEMMA ResynchronizeEventStep == ASSUME ReportsInv, ResynchronizeEvent PROVE ReportsInv' /\ Mirrored
  <1>1. /\ memory' = _reset
        /\ calls' = Append(calls, [method |-> "get_session_id", again |-> TRUE])
        /\ astray' = (~plugin.resets \/ (at # Never /\ (astray \/ Forgets)))
        /\ UNCHANGED <<plugin, since, shown, saved, valid, results, copy, at>>
    BY DEF ResynchronizeEvent
  <1>2. MemoryRight(memory', valid, plugin) /\ memory'.queue = memory.queue
    <2>1. MemoryRight(memory, valid, plugin) /\ (plugin.rule = "processes" => plugin.resets)
      BY InvIs, PluginFacts
    <2>. QED  BY <1>1, <2>1 DEF MemoryRight, Fields, _reset
  <1>3. CallsRight(calls', memory'.queue, shown, at, since, valid)
    BY <1>1, <1>2, InvIs, CallsAsk
  <1>4. astray' \in BOOLEAN
    BY <1>1
  <1>5. ReportsInv'
    BY <1>1, <1>2, <1>3, <1>4, InvIs DEF ReportsInv
  <1>6. CASE at = Never
    <2>1. M!ComeBack
      BY <1>1, <1>6 DEF M!ComeBack, Never
    <2>2. M!Next
      BY <2>1 DEF M!Next
    <2>. QED  BY <1>5, <2>2 DEF Mirrored
  <1>7. CASE at # Never
    <2>1. astray' \/ astray' = astray
      BY <1>1, <1>7, InvIs
    <2>. QED  BY <1>1, <1>5, <2>1, Quiet
  <1>. QED  BY <1>6, <1>7

\* The first of the results is gone, and was right.
LEMMA ResultsTail ==
    ASSUME ResultsRight(results, valid), results # <<>>
    PROVE  /\ ResultsRight(Tail(results), valid)
           /\ Head(results).method \in {"get_session_id", "get_accepted_message_types",
                                        "send_message", "failure"}
           /\ Head(results).method = "get_session_id" => Head(results).id \in 0 .. valid.given
  <1>. DEFINE t == Tail(results)
  <1>1. /\ IsSeq(t) /\ DOMAIN t = 1 .. Len(results) - 1 /\ Head(results) = results[1]
        /\ \A i \in 1 .. Len(results) - 1 : t[i] = results[i + 1]
        /\ Len(results) \in Nat /\ Len(results) >= 1 /\ DOMAIN results = 1 .. Len(results)
    BY TailFacts, SeqFacts DEF ResultsRight
  <1>. HIDE DEF t
  <1>2. 1 \in DOMAIN results /\ \A k \in DOMAIN t : k + 1 \in DOMAIN results /\ t[k] = results[k + 1]
    BY <1>1
  <1>3. ResultsRight(t, valid)
    BY <1>1, <1>2 DEF ResultsRight
  <1>. QED  BY <1>1, <1>2, <1>3 DEF t, ResultsRight

LEMMA ResultStep == ASSUME ReportsInv, Result PROVE ReportsInv' /\ Mirrored
  <1>. DEFINE r == Head(results)
  <1>0. /\ results # <<>> /\ results' = Tail(results)
        /\ UNCHANGED <<plugin, since, shown, valid, copy, at>>
    BY DEF Result
  <1>1. /\ ResultsRight(results', valid)
        /\ r.method \in {"get_session_id", "get_accepted_message_types", "send_message", "failure"}
        /\ r.method = "get_session_id" => r.id \in 0 .. valid.given
    BY <1>0, InvIs, ResultsTail
  <1>2. CASE r.method = "get_session_id"
    <2>1. /\ memory' = [memory EXCEPT !.id = r.id, !.loop = TRUE]
          /\ calls' = calls \/ calls' = Append(calls, [method |-> "get_accepted_message_types"])
          /\ UNCHANGED <<saved, astray>>
      BY <1>2 DEF Result, Ask
    <2>2. MemoryRight(memory', valid, plugin) /\ memory'.queue = memory.queue
      <3>1. MemoryRight(memory, valid, plugin) /\ r.id \in 0 .. valid.given
        BY <1>1, <1>2, InvIs
      <3>. DEFINE id == r.id
      <3>2. memory' = [memory EXCEPT !.id = id, !.loop = TRUE] /\ id \in 0 .. valid.given
        BY <2>1, <3>1
      <3>. HIDE DEF id
      <3>. QED  BY <3>1, <3>2 DEF MemoryRight, Fields
    <2>3. CallsRight(calls', memory'.queue, shown, at, since, valid)
      <3>1. CallsRight(calls, memory.queue, shown, at, since, valid)
        BY InvIs
      <3>2. CASE calls' = calls
        BY <2>2, <3>1, <3>2
      <3>3. CASE calls' = Append(calls, [method |-> "get_accepted_message_types"])
        BY <2>2, <3>1, <3>3, CallsAsk
      <3>. QED  BY <2>1, <3>2, <3>3
    <2>. QED  BY <1>0, <1>1, <2>1, <2>2, <2>3, InvIs, Quiet DEF ReportsInv
  <1>3. CASE r.method = "get_accepted_message_types"
    <2>1. Send /\ UNCHANGED saved
      BY <1>3 DEF Result
    <2>2. astray' \in BOOLEAN /\ (astray' \/ astray' = astray)
      BY <2>1, InvIs DEF Send
    <2>. QED  BY <1>0, <1>1, <2>1, <2>2, InvIs, SendRight, Quiet DEF ReportsInv
  <1>4. CASE r.method = "failure"
    <2>1. UNCHANGED <<memory, calls, saved, astray>>
      BY <1>4 DEF Result
    <2>. QED  BY <1>0, <1>1, <2>1, InvIs, Quiet DEF ReportsInv
  <1>5. CASE r.method = "send_message"
    <2>1. /\ memory' = Counted(r)
          /\ saved' = IF plugin.rule = "mounts" THEN memory'.reported ELSE saved
          /\ astray' = (astray \/ (~Eager /\ r.resets # memory.resets))
          /\ UNCHANGED calls
      BY <1>5 DEF Result
    <2>2. astray' \in BOOLEAN /\ (astray' \/ astray' = astray)
      BY <2>1, InvIs
    <2>3. MemoryRight(memory', valid, plugin) /\ memory'.queue = memory.queue
      <3>0. MemoryRight(memory, valid, plugin)
        BY InvIs
      <3>. HIDE DEF r
      <3>1. CASE Eager
        <4>1. memory' = memory
          BY <2>1, <3>1 DEF Counted, Eager
        <4>. QED  BY <3>0, <4>1
      <3>2. CASE plugin.rule = "processes"
        <4>1. memory' = ProcessesSent
          BY <2>1, <3>2 DEF Counted, Eager
        <4>. QED  BY <3>0, <3>2, <4>1 DEF ProcessesSent, MemoryRight, Fields
      <3>3. CASE plugin.rule = "mounts"
        <4>1. memory' = MountsSent
          BY <2>1, <3>3 DEF Counted, Eager
        <4>2. PICK told : memory' = [memory EXCEPT !.to_persist = <<>>, !.reported = told]
          BY <4>1 DEF MountsSent
        <4>. QED  BY <3>0, <3>3, <4>2 DEF MemoryRight, Fields
      <3>4. CASE plugin.rule = "users"
        <4>1. memory' = [memory EXCEPT !.reported = r.snapshot]
          BY <2>1, <3>4 DEF Counted, Eager, UsersSent
        <4>. QED  BY <3>0, <3>4, <4>1 DEF MemoryRight, Fields
      <3>. QED  BY <3>1, <3>2, <3>3, <3>4, InvIs, PluginFacts DEF Rules, Eager
    <2>. QED  BY <1>0, <1>1, <2>1, <2>2, <2>3, InvIs, Quiet DEF ReportsInv
  <1>. QED  BY <1>1, <1>2, <1>3, <1>4, <1>5

LEMMA ChangeStep == ASSUME ReportsInv, Change PROVE ReportsInv' /\ Mirrored
  <1>1. PICK new : shown' = Append(shown, new)
    BY DEF Change
  <1>2. UNCHANGED <<plugin, since, memory, saved, valid, calls, results, copy, at, astray>>
    BY DEF Change
  <1>3. ReportsInv'
    <2>1. StateRight(shown', at, since, valid) /\ CallsRight(calls, memory.queue, shown', at, since, valid)
      BY <1>1, InvIs, MachineChanges
    <2>. QED  BY <1>2, <2>1, InvIs DEF ReportsInv
  <1>4. Len(shown') = Len(shown) + 1 /\ SubSeq(shown', 1, Len(shown)) = shown
    <2>. DEFINE T == {shown[i] : i \in DOMAIN shown} \cup {new}
    <2>1. shown \in Seq(T) /\ new \in T
      BY InvIs DEF StateRight, IsSeq
    <2>. HIDE DEF T
    <2>. QED  BY <1>1, <2>1, AppendProperties, SubSeqProperties
  <1>5. M!Change
    BY <1>2, <1>4 DEF M!Change
  <1>6. M!Next
    BY <1>5 DEF M!Next
  <1>. QED  BY <1>3, <1>6 DEF Mirrored

LEMMA FlushStep == ASSUME ReportsInv, Flush PROVE ReportsInv' /\ Mirrored
  <1>1. /\ plugin.disk /\ saved' = memory.reported
        /\ UNCHANGED <<plugin, since, shown, memory, valid, calls, results, copy, at, astray>>
    BY DEF Flush
  <1>2. plugin.rule # "processes"
    BY <1>1, PluginFacts
  <1>. QED  BY <1>1, <1>2, InvIs, Quiet DEF ReportsInv

LEMMA CrashStep == ASSUME ReportsInv, Crash PROVE ReportsInv' /\ Mirrored
  <1>1. /\ memory' = Fresh(saved)
        /\ calls' = <<[method |-> "get_session_id", again |-> FALSE]>> /\ results' = <<>>
        /\ UNCHANGED <<plugin, since, shown, saved, valid, copy, at>>
    BY DEF Crash
  <1>2. astray' \in BOOLEAN /\ (astray' \/ astray' = astray)
    BY InvIs DEF Crash
  <1>3. valid.given \in Nat
    BY InvIs DEF StateRight
  <1>4. MemoryRight(memory', valid, plugin) /\ memory'.queue = <<>>
    BY <1>1, <1>3, InvIs DEF MemoryRight, Fields, Fresh, NoId
  <1>5. ResultsRight(results', valid)
    BY <1>1, EmptyFacts DEF ResultsRight
  <1>6. CallsRight(calls', memory'.queue, shown, at, since, valid)
    BY <1>1, <1>4, InvIs, CallsNone
  <1>. QED  BY <1>1, <1>2, <1>4, <1>5, <1>6, InvIs, Quiet DEF ReportsInv

LEMMA ReportsInit == ASSUME Init PROVE ReportsInv /\ M!Init
  <1>1. PICK m : shown = <<m>>
    BY DEF Init
  <1>2. /\ plugin \in Plugins /\ memory = Fresh(Blank) /\ saved = Blank
        /\ valid = [id |-> NoId, given |-> 0] /\ results = <<>>
        /\ calls = <<[method |-> "get_session_id", again |-> FALSE]>>
        /\ at = Never /\ since = 0 /\ astray = FALSE
    BY DEF Init
  <1>3. Len(shown) = 1 /\ IsSeq(shown)
    BY <1>1, OneFacts
  <1>4. StateRight(shown, at, since, valid)
    BY <1>2, <1>3 DEF StateRight, Never, NoId
  <1>5. MemoryRight(memory, valid, plugin) /\ memory.queue = <<>>
    BY <1>2 DEF MemoryRight, Fields, Fresh, NoId
  <1>6. ResultsRight(results, valid)
    BY <1>2, EmptyFacts DEF ResultsRight
  <1>7. CallsRight(calls, memory.queue, shown, at, since, valid)
    BY <1>2, <1>4, <1>5, CallsNone
  <1>8. M!Init
    BY <1>2, <1>3 DEF M!Init, M!Blank, Never
  <1>. QED  BY <1>2, <1>4, <1>5, <1>6, <1>7, <1>8 DEF ReportsInv

LEMMA ReportsStep == ReportsInv /\ [Next]_vars => ReportsInv' /\ Mirrored
  <1>. SUFFICES ASSUME ReportsInv, [Next]_vars PROVE ReportsInv' /\ Mirrored
    OBVIOUS
  <1>1. CASE RegisterClient
    <2>1. UNCHANGED <<plugin, since, shown, memory, saved, valid, calls, results, copy, at, astray>>
      BY <1>1 DEF RegisterClient
    <2>. QED  BY <2>1, InvIs, Quiet DEF ReportsInv
  <1>2. CASE UNCHANGED vars
    <2>1. UNCHANGED <<plugin, since, shown, memory, saved, valid, calls, results, copy, at, astray>>
      BY <1>2 DEF vars
    <2>. QED  BY <2>1, InvIs, Quiet DEF ReportsInv
  <1>. QED
    BY <1>1, <1>2, LooksStep, AcceptedStep, RunMountsStep, AnswerStep, CallFailsStep,
       ResynchronizeStep, ResynchronizeEventStep, ResultStep, ChangeStep, FlushStep, CrashStep
    DEF Next

(***************************************************************************)
(* Every behaviour of a plugin that reports, with its calls, results,      *)
(* resynchronisations, failing calls and crashes, is one of the mirror:    *)
(* while nothing led astray, an item that the server shows is as the       *)
(* machine was at some time, and the next thing it shows of it is from a   *)
(* later time, and not from before the last resynchronisation.             *)
(***************************************************************************)
THEOREM MirrorsTheMachine == Spec => TellsTheTruth
  <1>1. Init => ReportsInv /\ M!Init
    BY ReportsInit
  <1>2. ReportsInv /\ [Next]_vars => ReportsInv' /\ [M!Next]_(M!vars)
    BY ReportsStep DEF Mirrored
  <1>. QED  BY <1>1, <1>2, PTL DEF Spec, TellsTheTruth, M!Spec

=============================================================================
