---------------------------- MODULE MessageProofs ----------------------------
(***************************************************************************)
(* The message store and the exchange.                                     *)
(*                                                                         *)
(* First what the operators of MessageStore preserve, for every store and  *)
(* every value of the constants, and with it the store as a component: it  *)
(* keeps its type, its pending offset in the queue and the numbers of what *)
(* was sent, for any types, API versions, limits, answers of the peer and  *)
(* faults.                                                                 *)
(*                                                                         *)
(* Then the exchange, for any types, limits, messages of the server and    *)
(* mix of faults: its store stays consistent through all of handle_result  *)
(* and whatever interrupts it, the token of a request is one that the      *)
(* server takes, no message of the server is handled again that was        *)
(* recorded, and no message of the client is lost without a reason.        *)
(***************************************************************************)
EXTENDS MessageExchange, MessageQueue, FiniteSetTheorems, WellFoundedInduction, TLAPS

-----------------------------------------------------------------------------
(* Counting in finite sets of naturals *)

(***************************************************************************)
(* A set of naturals has a least element: induction over numbers, the walk *)
(* index of _walk_pending_messages among them, is by least counterexample. *)
(***************************************************************************)
LEMMA LeastElement ==
    ASSUME NEW T, T \subseteq Nat, T # {}
    PROVE  \E m \in T : \A k \in T : m <= k
<1> DEFINE R == OpToRel(<, Nat)
<1>1. R = {ss \in Nat \X Nat : ss[1] < ss[2]}
  BY DEF OpToRel
<1>2. \A x, y \in Nat : <<x, y>> \in R <=> x < y
  BY <1>1
<1>3. IsWellFoundedOn(R, Nat)
  BY NatLessThanWellFounded
<1> HIDE DEF R
<1>4. PICK x \in T : \A y \in T : ~ (<<y, x>> \in R)
  BY <1>3, WFMin
<1>5. \A y \in T : ~ (y < x)
  BY <1>2, <1>4
<1> QED
  BY <1>5

(***************************************************************************)
(* A finite, nonempty set of naturals has a greatest element, so that      *)
(* _get_next_message_filename finds a newest directory.                    *)
(***************************************************************************)
LEMMA GreatestElement ==
    ASSUME NEW S, S \subseteq Nat, IsFiniteSet(S), S # {}
    PROVE  \E m \in S : \A k \in S : m >= k
<1> DEFINE HasMax(V) == \E m \in V : \A k \in V : m >= k
           Bad == {V \in SUBSET S : V # {} /\ ~HasMax(V)}
           Sizes == {n \in Nat : \E V \in Bad : Cardinality(V) = n}
<1>1. SUFFICES ASSUME Bad # {} PROVE FALSE
  <2>1. S \notin Bad
    BY <1>1
  <2>2. HasMax(S)
    BY <2>1
  <2> QED
    BY <2>2
<1>2. \A V \in Bad : IsFiniteSet(V) /\ Cardinality(V) \in Nat
  BY FS_Subset, FS_CardinalityType
<1>3. Sizes # {}
  BY <1>1, <1>2
<1>4. PICK n \in Sizes : \A k \in Sizes : n <= k
  BY <1>3, LeastElement
<1>5. PICK V \in Bad : Cardinality(V) = n
  BY <1>4
<1>6. PICK x \in V : TRUE
  BY <1>5
<1> DEFINE W == V \ {x}
<1>7. IsFiniteSet(W) /\ Cardinality(W) = n - 1
  BY <1>2, <1>5, <1>6, FS_RemoveElement
<1>8. W \notin Bad
  <2>1. n \in Nat /\ n - 1 < n
    BY <1>4
  <2>2. SUFFICES ASSUME W \in Bad PROVE FALSE
    OBVIOUS
  <2>3. Cardinality(W) \in Sizes
    BY <2>2, <1>2
  <2>4. n <= Cardinality(W)
    BY <2>3, <1>4
  <2> QED
    BY <2>1, <2>4, <1>7
<1>9. CASE W = {}
  BY <1>5, <1>6, <1>9
<1>10. CASE HasMax(W)
  <2>1. PICK m \in W : \A k \in W : m >= k
    BY <1>10
  <2>2. m \in Nat /\ x \in Nat /\ V \subseteq Nat
    BY <2>1, <1>5, <1>6
  <2>3. CASE m >= x
    BY <2>1, <2>2, <2>3, <1>5
  <2>4. CASE x >= m
    BY <2>1, <2>2, <2>4, <1>5, <1>6
  <2> QED
    BY <2>2, <2>3, <2>4
<1> QED
  BY <1>5, <1>8, <1>9, <1>10

(***************************************************************************)
(* Fewer files are counted when fewer are walked.                          *)
(***************************************************************************)
LEMMA SubsetCount ==
    ASSUME NEW C, IsFiniteSet(C), NEW B, B \subseteq C
    PROVE  /\ IsFiniteSet(B)
           /\ Cardinality(B) \in Nat /\ Cardinality(C) \in Nat
           /\ Cardinality(B) <= Cardinality(C)
           /\ B # C => Cardinality(B) < Cardinality(C)
<1>1. IsFiniteSet(B) /\ Cardinality(B) <= Cardinality(C)
  BY FS_Subset
<1>2. Cardinality(B) \in Nat /\ Cardinality(C) \in Nat
  BY <1>1, FS_CardinalityType
<1>3. B # C => Cardinality(B) # Cardinality(C)
  BY FS_Subset
<1> QED
  BY <1>1, <1>2, <1>3

(***************************************************************************)
(* The index that a walk gives a file is a natural, below the number of    *)
(* files if the file is one of them, and grows along the walk.             *)
(***************************************************************************)
LEMMA RankFacts ==
    ASSUME NEW U, U \subseteq Nat, IsFiniteSet(U)
    PROVE  /\ \A p \in Nat : Rank(U, p) \in Nat /\ Rank(U, p) <= Cardinality(U)
           /\ \A p \in U : Rank(U, p) < Cardinality(U)
           /\ \A p \in U, q \in Nat : p < q => Rank(U, p) < Rank(U, q)
<1> DEFINE Before(p) == {q \in U : q < p}
<1>1. \A p : Before(p) \subseteq U /\ Rank(U, p) = Cardinality(Before(p))
  BY DEF Rank
<1>2. \A p \in U : p \notin Before(p)
  BY DEF Before
<1>3. \A p \in U, q \in Nat : p < q => Before(p) \subseteq Before(q) /\ p \in Before(q)
  <2>1. TAKE p \in U, q \in Nat
  <2>2. HAVE p < q
  <2>3. \A r \in Before(p) : r \in Nat /\ r \in U /\ r < q
    BY <2>2, p \in Nat DEF Before
  <2> QED
    BY <2>2, <2>3 DEF Before
<1> HIDE DEF Before
<1>4. \A p : IsFiniteSet(Before(p))
  BY <1>1, SubsetCount
<1>5. \A p \in Nat : Rank(U, p) \in Nat /\ Rank(U, p) <= Cardinality(U)
  BY <1>1, SubsetCount
<1>6. \A p \in U : Rank(U, p) < Cardinality(U)
  BY <1>1, <1>2, SubsetCount
<1>7. \A p \in U, q \in Nat : p < q => Rank(U, p) < Rank(U, q)
  <2>1. TAKE p \in U, q \in Nat
  <2>2. HAVE p < q
  <2>3. Before(p) \subseteq Before(q) /\ Before(p) # Before(q)
    BY <2>2, <1>2, <1>3
  <2>4. Cardinality(Before(p)) < Cardinality(Before(q))
    BY <2>3, <1>4, SubsetCount
  <2> QED
    BY <2>4, <1>1
<1> QED
  BY <1>5, <1>6, <1>7

(***************************************************************************)
(* As many files have an index below k as k says, as long as there are k:  *)
(* islice(walk, pending_offset) yields pending_offset files.               *)
(***************************************************************************)
LEMMA RankCount ==
    ASSUME NEW U, U \subseteq Nat, IsFiniteSet(U),
           NEW k \in Nat, k <= Cardinality(U)
    PROVE  Cardinality({p \in U : Rank(U, p) < k}) = k
<1> DEFINE A(j) == {p \in U : Rank(U, p) < j}
           T == {j \in Nat : j <= Cardinality(U) /\ Cardinality(A(j)) # j}
<1>1. SUFFICES ASSUME T # {} PROVE FALSE
  <2>1. k \notin T
    BY <1>1
  <2> QED
    BY <2>1
<1>2. PICK n \in T : \A j \in T : n <= j
  BY <1>1, LeastElement
<1>3. Cardinality(U) \in Nat
  BY FS_CardinalityType
<1>4. \A p \in U : Rank(U, p) \in Nat
  BY RankFacts
<1>5. n \in Nat /\ n <= Cardinality(U) /\ Cardinality(A(n)) # n
  BY <1>2
<1>6. n # 0
  <2>1. \A p \in U : ~ (Rank(U, p) < 0)
    BY <1>4
  <2>. A(0) = {}
    BY <2>1
  <2>2. Cardinality(A(0)) = 0
    BY FS_EmptySet
  <2> QED
    BY <2>2, <1>5
<1>7. PICK i \in Nat : i = n - 1
  BY <1>5, <1>6
<1>8. i < n /\ i + 1 = n /\ i < Cardinality(U)
  BY <1>3, <1>5, <1>7
<1>9. Cardinality(A(i)) = i
  <2>1. i \notin T
    BY <1>2, <1>5, <1>8
  <2> QED
    BY <2>1, <1>3, <1>8
<1>10. \A j, p : p \in A(j) <=> p \in U /\ Rank(U, p) < j
  OBVIOUS
<1> HIDE DEF A, T
<1>11. A(i) \subseteq U /\ IsFiniteSet(A(i))
  BY <1>10, SubsetCount
<1>12. U \ A(i) # {}
  <2>1. A(i) # U
    BY <1>3, <1>8, <1>9
  <2> QED
    BY <2>1, <1>11
<1>13. PICK m \in U \ A(i) : \A q \in U \ A(i) : m <= q
  BY <1>12, LeastElement
<1>14. Rank(U, m) = i
  <2> DEFINE B == {q \in U : q < m}
  <2>1. \A q \in B : q \in A(i)
    <3>1. TAKE q \in B
    <3>2. q \in U /\ q < m /\ q \in Nat /\ m \in Nat
      BY <3>1, <1>13
    <3> QED
      BY <3>2, <1>13
  <2>2. Cardinality(B) <= Cardinality(A(i))
    BY <2>1, <1>11, SubsetCount
  <2>3. Rank(U, m) = Cardinality(B)
    BY DEF Rank
  <2>4. ~ (Rank(U, m) < i)
    BY <1>10, <1>13
  <2> QED
    BY <2>2, <2>3, <2>4, <1>4, <1>9, <1>13
<1>15. A(n) = A(i) \cup {m}
  <2>1. m \in A(n)
    BY <1>8, <1>10, <1>13, <1>14
  <2>2. \A p \in A(i) : p \in A(n)
    <3>1. TAKE p \in A(i)
    <3>2. p \in U /\ Rank(U, p) < i /\ Rank(U, p) \in Nat
      BY <3>1, <1>4, <1>10
    <3>3. Rank(U, p) < n
      BY <3>2, <1>5, <1>8
    <3> QED
      BY <3>2, <3>3, <1>10
  <2>3. \A p \in A(n) : p \notin A(i) => p = m
    <3>1. SUFFICES ASSUME NEW p \in A(n), p \notin A(i), p # m PROVE FALSE
      OBVIOUS
    <3>2. p \in U /\ Rank(U, p) < n
      BY <3>1, <1>10
    <3>3. m < p
      BY <3>1, <3>2, <1>13
    <3>4. Rank(U, m) < Rank(U, p)
      BY <3>2, <3>3, <1>13, RankFacts
    <3> QED
      BY <3>2, <3>4, <1>4, <1>8, <1>14
  <2> QED
    BY <2>1, <2>2, <2>3
<1>16. Cardinality(A(n)) = i + 1
  <2>1. Cardinality(A(i) \cup {m}) = Cardinality(A(i)) + 1
    BY <1>11, <1>13, FS_AddElement
  <2> QED
    BY <2>1, <1>9, <1>15
<1> QED
  BY <1>5, <1>8, <1>16

-----------------------------------------------------------------------------
(* The operations on a store *)

(***************************************************************************)
(* A well-typed store has finitely many files, each at a natural number.   *)
(***************************************************************************)
LEMMA FilesFinite ==
    ASSUME NEW s, StoreType(s)
    PROVE  /\ Positions(s) \subseteq Nat /\ IsFiniteSet(Positions(s))
           /\ Unflagged(s) \subseteq Positions(s)
           /\ IsFiniteSet(Unflagged(s)) /\ Cardinality(Unflagged(s)) \in Nat
           /\ Pending(s) \subseteq Unflagged(s) /\ CountPending(s) \in Nat
           /\ \A p \in Unflagged(s) : Rank(Unflagged(s), p) \in Nat
           /\ s.meta.offset \in Nat /\ s.meta.sequence \in Int
<1>1. Positions(s) \subseteq Nat /\ IsFiniteSet(Positions(s))
  <2>1. s.nextPos - 1 \in Int
    BY DEF StoreType
  <2>2. IsFiniteSet(0 .. s.nextPos - 1)
    BY <2>1, FS_Interval
  <2> QED
    BY <2>1, <2>2, FS_Subset DEF StoreType
<1>2. Unflagged(s) \subseteq Positions(s)
  BY DEF Unflagged
<1>3. IsFiniteSet(Unflagged(s)) /\ Cardinality(Unflagged(s)) \in Nat
  BY <1>1, <1>2, SubsetCount
<1>4. \A p \in Unflagged(s) : Rank(Unflagged(s), p) \in Nat
  BY <1>1, <1>2, <1>3, RankFacts
<1>5. Pending(s) \subseteq Unflagged(s)
  BY DEF Pending
<1>6. CountPending(s) \in Nat
  BY <1>3, <1>5, SubsetCount DEF CountPending
<1>7. s.meta.offset \in Nat /\ s.meta.sequence \in Int
  BY DEF StoreType, Meta
<1> QED
  BY <1>1, <1>2, <1>3, <1>4, <1>5, <1>6, <1>7

(***************************************************************************)
(* Files kept unflagged up to the pending offset are enough for it: so     *)
(* holding or flagging pending messages never leaves the offset beyond the *)
(* queue.                                                                  *)
(***************************************************************************)
LEMMA SentSuffices ==
    ASSUME NEW s, StoreType(s), OffsetInQueue(s), s.damage = {},
           NEW V, IsFiniteSet(V), Sent(s) \subseteq V
    PROVE  s.meta.offset <= Cardinality(V)
<1>1. s.meta.offset \in Nat /\ s.meta.offset <= Cardinality(Unflagged(s))
  BY FilesFinite DEF OffsetInQueue
<1>2. Cardinality(Sent(s)) = s.meta.offset
  BY <1>1, FilesFinite, RankCount DEF Sent
<1>3. Cardinality(Sent(s)) <= Cardinality(V)
  BY SubsetCount
<1> QED
  BY <1>2, <1>3

\* What every operation below preserves
StoreOK(s) == StoreType(s) /\ OffsetInQueue(s) /\ BrokenRecorded(s)

(***************************************************************************)
(* Taking files away keeps the type.                                       *)
(***************************************************************************)
LEMMA KeepType ==
    ASSUME NEW s, StoreType(s), NEW P, P \subseteq Positions(s)
    PROVE  Keep(s, P) \in [P -> File] /\ DOMAIN Keep(s, P) = P
  BY DEF Keep, StoreType, Positions

(***************************************************************************)
(* delete_all_messages                                                     *)
(***************************************************************************)
LEMMA DeleteAllOK ==
    ASSUME NEW s, StoreType(s)
    PROVE  StoreOK(DeleteAllMessages(s)) /\ DeleteAllMessages(s).nextPos = s.nextPos
<1> DEFINE t == DeleteAllMessages(s)
<1>1. /\ IsStore(t)
      /\ t.files = Keep(s, {}) /\ t.dirs = s.dirs /\ t.nextPos = s.nextPos
      /\ t.meta = [s.meta EXCEPT !.offset = 0] /\ t.damage = {}
  BY DEF DeleteAllMessages, StoreType, IsStore
<1> HIDE DEF t
<1>2. DOMAIN t.files = {} /\ t.files \in [{} -> File]
  BY <1>1, KeepType
<1>3. t.meta \in Meta /\ t.meta.offset = 0
  BY <1>1 DEF StoreType, Meta
<1>4. StoreType(t)
  BY <1>1, <1>2, <1>3 DEF StoreType, Positions
<1>5. OffsetInQueue(t)
  BY <1>3, <1>4, FilesFinite DEF OffsetInQueue
<1>6. BrokenRecorded(t)
  BY <1>2 DEF BrokenRecorded, Positions
<1> QED
  BY <1>1, <1>4, <1>5, <1>6 DEF StoreOK, t

(***************************************************************************)
(* get_pending_messages flags only files at or after the pending offset.   *)
(***************************************************************************)
LEMMA FlagOK ==
    ASSUME NEW s, StoreOK(s), NEW max \in Nat
    PROVE  StoreOK(FlagUnsendable(s, max))
<1> DEFINE t == FlagUnsendable(s, max)
           bad == {p \in Scanned(s, max) : ~Sendable(s, p)}
           broken == {p \in bad : s.files[p].corrupt}
           Flag(p) == [s.files[p] EXCEPT !.broken = @ \/ p \in broken,
                                         !.held = @ \/ p \in bad \ broken]
<1>1. /\ IsStore(t)
      /\ t.files = [p \in Positions(s) |-> Flag(p)]
      /\ t.dirs = s.dirs /\ t.nextPos = s.nextPos /\ t.meta = s.meta
      /\ t.damage = s.damage \cup (IF broken = {} THEN {} ELSE {"broken"})
  BY DEF FlagUnsendable, StoreOK, StoreType, IsStore
<1>2. bad \subseteq Pending(s)
  BY DEF Scanned
<1> HIDE DEF t, bad
<1>3. \A p \in Positions(s) :
         /\ Flag(p) \in File
         /\ Flag(p).broken <=> s.files[p].broken \/ p \in broken
         /\ p \notin bad => Flag(p).held = s.files[p].held
  BY DEF StoreOK, StoreType, File
<1> HIDE DEF broken, Flag
<1>4. Positions(t) = Positions(s) /\ t.files \in [Positions(s) -> File]
  BY <1>1, <1>3 DEF Positions
<1>5. StoreType(t)
  BY <1>1, <1>4 DEF StoreOK, StoreType, Damages
<1>6. OffsetInQueue(t)
  <2>1. SUFFICES ASSUME t.damage = {}
                 PROVE  t.meta.offset <= Cardinality(Unflagged(t))
    BY DEF OffsetInQueue
  <2>2. \A p \in Sent(s) : p \in Unflagged(t)
    <3>1. TAKE p \in Sent(s)
    <3>2. p \in Unflagged(s) /\ p \notin Pending(s)
      BY FilesFinite DEF Sent, Pending, StoreOK
    <3>3. p \notin bad /\ p \notin broken
      BY <3>2, <1>2 DEF broken
    <3>4. p \in Positions(s) /\ ~s.files[p].held /\ ~s.files[p].broken
      BY <3>2 DEF Unflagged
    <3>5. ~Flag(p).held /\ ~Flag(p).broken
      BY <3>3, <3>4, <1>3
    <3> QED
      BY <3>4, <3>5, <1>1, <1>4 DEF Unflagged
  <2>3. s.damage = {}
    BY <2>1, <1>1
  <2>4. s.meta.offset <= Cardinality(Unflagged(t))
    BY <2>2, <2>3, <1>5, FilesFinite, SentSuffices DEF StoreOK
  <2> QED
    BY <2>4, <1>1
<1>7. BrokenRecorded(t)
  <2>1. SUFFICES ASSUME NEW p \in Positions(s), Flag(p).broken
                 PROVE  "broken" \in t.damage
    BY <1>1, <1>4 DEF BrokenRecorded
  <2>2. CASE s.files[p].broken
    BY <2>2, <1>1 DEF StoreOK, BrokenRecorded
  <2>3. CASE p \in broken
    BY <2>3, <1>1
  <2> QED
    BY <2>1, <2>2, <2>3, <1>3
<1> QED
  BY <1>5, <1>6, <1>7 DEF StoreOK, t

(***************************************************************************)
(* delete_old_messages leaves the pending messages, and only them, in the  *)
(* walk.                                                                   *)
(***************************************************************************)
LEMMA DeleteOldOK ==
    ASSUME NEW s, StoreType(s), BrokenRecorded(s)
    PROVE  LET t == DeleteOldMessages(s)
           IN  /\ StoreType(t) /\ BrokenRecorded(t)
               /\ t.meta = s.meta /\ t.damage = s.damage
               /\ Unflagged(t) = Pending(s)
<1> DEFINE t == DeleteOldMessages(s)
           rest == Positions(s) \ Sent(s)
<1>1. /\ IsStore(t)
      /\ t.files = Keep(s, rest) /\ t.nextPos = s.nextPos /\ t.meta = s.meta
      /\ t.damage = s.damage /\ t.dirs \subseteq s.dirs
  BY DEF DeleteOldMessages, StoreType, IsStore
<1> HIDE DEF t
<1>2. Positions(t) = rest /\ t.files \in [rest -> File]
  BY <1>1, KeepType DEF Positions
<1>3. IsFiniteSet(t.dirs)
  BY <1>1, FS_Subset DEF StoreType
<1>4. StoreType(t)
  BY <1>1, <1>2, <1>3 DEF StoreType
<1>5. \A p \in rest : t.files[p] = s.files[p]
  BY <1>1 DEF Keep
<1>6. BrokenRecorded(t)
  BY <1>1, <1>2, <1>5 DEF BrokenRecorded
<1>7. Unflagged(t) = Unflagged(s) \ Sent(s)
  BY <1>2, <1>5 DEF Unflagged
<1>8. Unflagged(s) \ Sent(s) = Pending(s)
  BY FilesFinite DEF Sent, Pending
<1> QED
  BY <1>1, <1>4, <1>6, <1>7, <1>8 DEF t

(***************************************************************************)
(* got_next_expected, whatever the peer expects: the new offset is neither *)
(* negative nor past the queue.                                            *)
(***************************************************************************)
LEMMA GotNextExpectedOK ==
    ASSUME NEW s, StoreOK(s), NEW n \in Int
    PROVE  StoreOK(GotNextExpected(s, n))
<1> DEFINE kept == IF n > s.meta.sequence THEN DeleteOldMessages(s) ELSE s
           t == GotNextExpected(s, n)
<1>1. /\ StoreType(kept) /\ BrokenRecorded(kept)
      /\ kept.meta = s.meta /\ kept.damage = s.damage
      /\ n > s.meta.sequence => Unflagged(kept) = Pending(s)
      /\ ~(n > s.meta.sequence) => kept = s
  BY DeleteOldOK DEF StoreOK
<1> HIDE DEF kept
<1>2. /\ IsStore(t)
      /\ t.files = kept.files /\ t.dirs = kept.dirs /\ t.nextPos = kept.nextPos
      /\ t.meta = [kept.meta EXCEPT !.offset = NextOffset(s, n), !.sequence = n]
      /\ t.damage = IF NeedsResync(s, n) THEN kept.damage \cap {"broken"}
                                         ELSE kept.damage
  BY <1>1 DEF GotNextExpected, StoreType, IsStore, kept
<1> HIDE DEF t
<1>3. s.meta.offset \in Nat /\ s.meta.sequence \in Int /\ CountPending(s) \in Nat
  BY FilesFinite DEF StoreOK
<1>4. NextOffset(s, n) \in Nat
  BY <1>3 DEF NextOffset, NeedsResync, TooHigh, Ancient
<1>5. t.meta \in Meta /\ t.meta.offset = NextOffset(s, n)
  BY <1>1, <1>2, <1>4 DEF StoreType, Meta
<1>6. StoreType(t)
  BY <1>1, <1>2, <1>5 DEF StoreType, Positions
<1>7. BrokenRecorded(t)
  BY <1>1, <1>2 DEF BrokenRecorded, Positions
<1>8. Unflagged(t) = Unflagged(kept)
  BY <1>2 DEF Unflagged, Positions
<1>9. OffsetInQueue(t)
  <2>1. SUFFICES ASSUME t.damage = {}
                 PROVE  NextOffset(s, n) <= Cardinality(Unflagged(kept))
    BY <1>5, <1>8 DEF OffsetInQueue
  <2>2. Cardinality(Unflagged(kept)) \in Nat
    BY <1>1, FilesFinite
  <2>3. CASE NeedsResync(s, n)
    BY <2>2, <2>3 DEF NextOffset
  <2>4. CASE ~NeedsResync(s, n) /\ n > s.meta.sequence
    <3>1. NextOffset(s, n) = n - s.meta.sequence /\ ~TooHigh(s, n)
      BY <2>4 DEF NextOffset, NeedsResync
    <3>2. Cardinality(Unflagged(kept)) = CountPending(s)
      BY <2>4, <1>1 DEF CountPending
    <3> QED
      BY <3>1, <3>2, <1>3 DEF TooHigh
  <2>5. CASE ~NeedsResync(s, n) /\ ~(n > s.meta.sequence)
    <3>1. NextOffset(s, n) = s.meta.offset + n - s.meta.sequence
      BY <2>5 DEF NextOffset
    <3>2. kept = s /\ s.damage = {}
      BY <2>1, <2>5, <1>1, <1>2
    <3>3. s.meta.offset <= Cardinality(Unflagged(s))
      BY <3>2 DEF StoreOK, OffsetInQueue
    <3> QED
      BY <3>1, <3>2, <3>3, <2>2, <2>5, <1>3
  <2> QED
    BY <2>3, <2>4, <2>5
<1> QED
  BY <1>6, <1>7, <1>9 DEF StoreOK, t

(***************************************************************************)
(* delete_messages_over_limit: whichever directories go, and even if the   *)
(* size limit then empties the store.                                      *)
(***************************************************************************)
LEMMA TrimOK ==
    ASSUME NEW s, StoreOK(s), NEW gone
    PROVE  LET t == DeleteMessagesOverLimit(s, gone)
           IN  StoreOK(t) /\ t.nextPos = s.nextPos
<1> DEFINE lost == {p \in Positions(s) : s.files[p].dir \in gone}
           rest == Positions(s) \ lost
           t == [s EXCEPT !.files = Keep(s, rest), !.dirs = @ \ gone,
                          !.damage = @ \cup (IF lost \cap Unflagged(s) = {}
                                             THEN {} ELSE {"trimmed"})]
<1>1. DeleteMessagesOverLimit(s, gone) =
         IF Cardinality(Positions(t)) > MaxSize THEN DeleteAllMessages(t) ELSE t
  BY DEF DeleteMessagesOverLimit
<1> HIDE DEF lost
<1>2. /\ IsStore(t)
      /\ t.files = Keep(s, rest) /\ t.nextPos = s.nextPos /\ t.meta = s.meta
      /\ t.dirs = s.dirs \ gone
      /\ t.damage = s.damage \cup (IF lost \cap Unflagged(s) = {}
                                   THEN {} ELSE {"trimmed"})
  BY DEF StoreOK, StoreType, IsStore
<1> HIDE DEF t
<1>3. Positions(t) = rest /\ t.files \in [rest -> File]
  BY <1>2, KeepType DEF Positions, StoreOK
<1>4. IsFiniteSet(t.dirs)
  BY <1>2, FS_Subset DEF StoreOK, StoreType
<1>5. StoreType(t)
  BY <1>2, <1>3, <1>4 DEF StoreOK, StoreType, Damages
<1>6. \A p \in rest : t.files[p] = s.files[p]
  BY <1>2 DEF Keep
<1>7. BrokenRecorded(t)
  BY <1>2, <1>3, <1>6 DEF StoreOK, BrokenRecorded
<1>8. OffsetInQueue(t)
  <2>1. SUFFICES ASSUME t.damage = {}
                 PROVE  s.meta.offset <= Cardinality(Unflagged(t))
    BY <1>2 DEF OffsetInQueue
  <2>2. lost \cap Unflagged(s) = {} /\ s.damage = {}
    BY <2>1, <1>2
  <2>3. Unflagged(t) = Unflagged(s)
    BY <2>2, <1>3, <1>6 DEF Unflagged
  <2> QED
    BY <2>2, <2>3 DEF StoreOK, OffsetInQueue
<1>9. StoreOK(t)
  BY <1>5, <1>7, <1>8 DEF StoreOK
<1> QED
  BY <1>1, <1>2, <1>5, <1>9, DeleteAllOK

(***************************************************************************)
(* _get_next_message_filename names a directory.                           *)
(***************************************************************************)
LEMMA NewestDirType ==
    ASSUME NEW s, StoreType(s)
    PROVE  NewestDir(s) \in Nat
<1>1. CASE s.dirs = {}
  BY <1>1 DEF NewestDir
<1>2. CASE s.dirs # {}
  <2>1. PICK m \in s.dirs : \A k \in s.dirs : m >= k
    BY <1>2, GreatestElement DEF StoreType
  <2>2. Max(s.dirs) \in s.dirs
    BY <2>1 DEF Max
  <2> QED
    BY <1>2, <2>2 DEF NewestDir, StoreType
<1> QED
  BY <1>1, <1>2

(***************************************************************************)
(* Writing a file at the end of the walk, which is what add ends with.     *)
(***************************************************************************)
LEMMA WriteOK ==
    ASSUME NEW s, StoreOK(s), NEW type \in Types
    PROVE  StoreOK(Write(s, type))
<1> DEFINE t == Write(s, type)
           f == NewFile(s, type)
           n == s.nextPos
<1>1. /\ IsStore(t)
      /\ t.files = [p \in Positions(s) \cup {n} |-> IF p = n THEN f ELSE s.files[p]]
      /\ t.dirs = s.dirs \cup {NextDir(s)} /\ t.nextPos = n + 1
      /\ t.meta = s.meta /\ t.damage = s.damage
  BY DEF Write, StoreOK, StoreType, IsStore
<1> HIDE DEF t
<1>2. NextDir(s) \in Nat
  BY NewestDirType DEF NextDir, StoreOK
<1>3. f \in File /\ f.broken = FALSE
  BY <1>2 DEF NewFile, File, StoreOK, StoreType, Meta
<1> HIDE DEF f
<1>4. n \in Nat /\ n \notin Positions(s) /\ Positions(s) \subseteq 0 .. n - 1
  BY DEF StoreOK, StoreType
<1>5. Positions(t) = Positions(s) \cup {n} /\ t.files \in [Positions(t) -> File]
  BY <1>1, <1>3 DEF Positions, StoreOK, StoreType
<1>6. IsFiniteSet(t.dirs) /\ t.dirs \subseteq Nat
  BY <1>1, <1>2, FS_AddElement DEF StoreOK, StoreType
<1>7. Positions(t) \subseteq 0 .. t.nextPos - 1 /\ t.nextPos \in Nat
  BY <1>1, <1>4, <1>5
<1>8. StoreType(t)
  BY <1>1, <1>5, <1>6, <1>7 DEF StoreOK, StoreType
<1>9. \A p \in Positions(s) : t.files[p] = s.files[p] /\ p \in Positions(t)
  BY <1>1, <1>4, <1>5
<1>10. BrokenRecorded(t)
  BY <1>1, <1>3, <1>5, <1>9 DEF StoreOK, BrokenRecorded
<1>11. OffsetInQueue(t)
  <2>1. SUFFICES ASSUME s.damage = {}
                 PROVE  s.meta.offset <= Cardinality(Unflagged(t))
    BY <1>1 DEF OffsetInQueue
  <2>2. \A p \in Sent(s) : p \in Unflagged(t)
    BY <1>9 DEF Sent, Unflagged
  <2> QED
    BY <2>1, <2>2, <1>8, FilesFinite, SentSuffices DEF StoreOK
<1> QED
  BY <1>8, <1>10, <1>11 DEF StoreOK, t

(***************************************************************************)
(* add                                                                     *)
(***************************************************************************)
LEMMA AddOK ==
    ASSUME NEW s, StoreOK(s), NEW type \in Types, NEW gone
    PROVE  StoreOK(Add(s, type, gone))
  BY TrimOK, WriteOK DEF Add

(***************************************************************************)
(* A change of the metadata that leaves the offset alone.                  *)
(***************************************************************************)
LEMMA MetaOK ==
    ASSUME NEW s, StoreOK(s), NEW m \in Meta, m.offset = s.meta.offset
    PROVE  LET t == [s EXCEPT !.meta = m]
           IN  StoreOK(t) /\ t.files = s.files /\ t.meta = m
<1> DEFINE t == [s EXCEPT !.meta = m]
<1>1. /\ IsStore(t)
      /\ t.files = s.files /\ t.dirs = s.dirs /\ t.nextPos = s.nextPos
      /\ t.meta = m /\ t.damage = s.damage
  BY DEF StoreOK, StoreType, IsStore
<1> HIDE DEF t
<1>2. Unflagged(t) = Unflagged(s) /\ Positions(t) = Positions(s)
  BY <1>1 DEF Unflagged, Positions
<1>3. StoreType(t)
  BY <1>1, <1>2 DEF StoreOK, StoreType
<1>4. OffsetInQueue(t)
  BY <1>1, <1>2 DEF StoreOK, OffsetInQueue
<1>5. BrokenRecorded(t)
  BY <1>1, <1>2 DEF StoreOK, BrokenRecorded
<1> QED
  BY <1>1, <1>3, <1>4, <1>5 DEF StoreOK, t

(***************************************************************************)
(* _reprocess_holding: what it unholds goes to the end of the walk, and    *)
(* while no file is broken its count agrees with the walk's, so that it    *)
(* holds nothing before the pending offset.                                *)
(***************************************************************************)
LEMMA ReprocessOK ==
    ASSUME NEW s, StoreOK(s), NEW accepted
    PROVE  StoreOK(ReprocessHolding(s, accepted))
<1> DEFINE H == ToHold(s, accepted)
           M == ToUnhold(s, accepted)
           n == s.nextPos
           moved == {Moved(s, M, p) : p \in M}
           from(x) == CHOOSE p \in M : Moved(s, M, p) = x
           dir(p) == MovedDir(s, M, p)
           Unheld(x) == [s.files[from(x)] EXCEPT !.held = FALSE, !.dir = dir(from(x))]
           Other(x) == [s.files[x] EXCEPT !.held = @ \/ x \in H]
           t == ReprocessHolding(s, accepted)
<1>1. /\ IsStore(t)
      /\ t.files = [x \in (Positions(s) \ M) \cup moved |->
                      IF x \in moved THEN Unheld(x) ELSE Other(x)]
      /\ t.dirs = s.dirs \cup {dir(p) : p \in M}
      /\ t.nextPos = n + Cardinality(M)
      /\ t.meta = s.meta /\ t.damage = s.damage
  BY DEF ReprocessHolding, StoreOK, StoreType, IsStore
<1> HIDE DEF t
<1>2. M \subseteq Positions(s) /\ IsFiniteSet(M) /\ M \subseteq Nat
      /\ Cardinality(M) \in Nat
  BY FilesFinite, SubsetCount DEF ToUnhold, StoreOK
<1>3. \A p \in M : s.files[p].held
  BY DEF ToUnhold
<1> HIDE DEF H, M
<1>4. n \in Nat /\ Positions(s) \subseteq 0 .. n - 1
  BY DEF StoreOK, StoreType
<1>5. \A x \in moved : from(x) \in M /\ x \in n .. n + Cardinality(M) - 1
  <2>1. TAKE x \in moved
  <2>2. PICK p \in M : Moved(s, M, p) = x
    OBVIOUS
  <2>3. from(x) \in M
    BY <2>2
  <2>4. Rank(M, p) \in Nat /\ Rank(M, p) < Cardinality(M)
    BY <2>2, <1>2, RankFacts
  <2>5. x = n + Rank(M, p)
    BY <2>2 DEF Moved
  <2> QED
    BY <2>3, <2>4, <2>5, <1>2, <1>4
<1>6. \A p \in M : dir(p) \in Nat
  <2>1. TAKE p \in M
  <2> DEFINE new == NewestDir(s)
             inNew == Cardinality(FilesIn(s, new))
             older == Cardinality({q \in M : s.files[q].dir # new})
             k == inNew + Rank(M, p)
  <2>2. new \in Nat
    BY NewestDirType DEF StoreOK
  <2>3. inNew \in Nat
    BY FilesFinite, SubsetCount DEF FilesIn, StoreOK
  <2>4. Rank(M, p) \in Nat
    BY <1>2, <2>1, RankFacts
  <2>5. k \in Nat /\ DirectorySize \in Nat /\ DirectorySize > 0
    BY <2>3, <2>4, StoreAssumption
  <2>6. k \div DirectorySize \in Nat
    <3> HIDE DEF k
    <3> QED
      BY <2>5
  <2>7. dir(p) \in {new, new + (k \div DirectorySize)}
    BY DEF MovedDir
  <2> HIDE DEF new, k
  <2> QED
    BY <2>2, <2>6, <2>7
<1> HIDE DEF moved, from, dir
<1>7. \A p \in Positions(s) : /\ s.files[p] \in File
                              /\ s.files[p].broken => "broken" \in s.damage
  BY DEF StoreOK, StoreType, BrokenRecorded
<1>8. \A x \in moved : /\ Unheld(x) \in File
                       /\ Unheld(x).broken => "broken" \in s.damage
  <2>1. TAKE x \in moved
  <2>2. PICK q \in M : q = from(x)
    BY <1>5
  <2>3. q \in Positions(s) /\ dir(q) \in Nat
    BY <1>2, <1>6
  <2> QED
    BY <2>2, <2>3, <1>7 DEF File
<1>9. \A x \in Positions(s) : /\ Other(x) \in File
                              /\ Other(x).broken = s.files[x].broken
                              /\ x \notin H => Other(x).held = s.files[x].held
  BY <1>7 DEF File
<1> HIDE DEF Unheld, Other
<1>10. Positions(t) = (Positions(s) \ M) \cup moved
       /\ t.files \in [Positions(t) -> File]
  BY <1>1, <1>8, <1>9 DEF Positions
<1>11. IsFiniteSet(t.dirs) /\ t.dirs \subseteq Nat
  <2> DEFINE D == {dir(p) : p \in M}
             g == [p \in M |-> dir(p)]
  <2>1. g \in Surjection(M, D)
    BY DEF Surjection
  <2>2. IsFiniteSet(D)
    BY <2>1, <1>2, FS_Surjection
  <2>3. D \subseteq Nat
    BY <1>6
  <2>4. t.dirs = s.dirs \cup D
    BY <1>1
  <2> HIDE DEF D
  <2>5. IsFiniteSet(s.dirs) /\ s.dirs \subseteq Nat
    BY DEF StoreOK, StoreType
  <2>6. IsFiniteSet(s.dirs \cup D)
    BY <2>2, <2>5, FS_Union
  <2> QED
    BY <2>3, <2>4, <2>5, <2>6
<1>12. t.nextPos \in Nat /\ Positions(t) \subseteq 0 .. t.nextPos - 1
  BY <1>1, <1>2, <1>4, <1>5, <1>10
<1>13. StoreType(t)
  BY <1>1, <1>10, <1>11, <1>12 DEF StoreOK, StoreType
<1>14. BrokenRecorded(t)
  BY <1>1, <1>7, <1>8, <1>9, <1>10 DEF BrokenRecorded
<1>15. OffsetInQueue(t)
  <2>1. SUFFICES ASSUME s.damage = {}
                 PROVE  s.meta.offset <= Cardinality(Unflagged(t))
    BY <1>1 DEF OffsetInQueue
  <2>2. \A q \in Positions(s) : ~s.files[q].broken
    BY <2>1, <1>7
  <2>3. \A p \in Sent(s) : p \in Unflagged(t)
    <3>1. TAKE p \in Sent(s)
    <3>2. /\ p \in Positions(s) /\ ~s.files[p].held /\ ~s.files[p].broken
          /\ Rank(Unflagged(s), p) < s.meta.offset
          /\ Rank(Unflagged(s), p) \in Nat /\ s.meta.offset \in Nat
      BY <3>1, FilesFinite DEF Sent, Unflagged, StoreOK
    <3>3. {q \in Positions(s) : q < p /\ ~s.files[q].held}
            = {q \in Unflagged(s) : q < p}
      BY <2>2 DEF Unflagged
    <3>4. CountedBefore(s, p) = Rank(Unflagged(s), p)
      BY <3>3 DEF CountedBefore, Rank
    <3>5. p \notin H
      BY <3>2, <3>4 DEF H, ToHold
    <3>6. p \notin M /\ p \notin moved
      BY <3>2, <1>2, <1>3, <1>4, <1>5
    <3>7. p \in Positions(t) /\ t.files[p] = Other(p)
      BY <3>2, <3>6, <1>1, <1>10
    <3> QED
      BY <3>2, <3>5, <3>7, <1>9 DEF Unflagged
  <2> QED
    BY <2>1, <2>3, <1>13, FilesFinite, SentSuffices DEF StoreOK
<1> QED
  BY <1>13, <1>14, <1>15 DEF StoreOK, t

(***************************************************************************)
(* set_accepted_types                                                      *)
(***************************************************************************)
LEMMA SetAcceptedTypesOK ==
    ASSUME NEW s, StoreOK(s), NEW accepted \in SUBSET Types
    PROVE  StoreOK(SetAcceptedTypes(s, accepted))
<1> DEFINE m == [s.meta EXCEPT !.accepted = accepted]
<1>1. m \in Meta /\ m.offset = s.meta.offset
  BY DEF StoreOK, StoreType, Meta
<1>2. [s EXCEPT !.meta.accepted = accepted] = [s EXCEPT !.meta = m]
  BY DEF StoreOK, StoreType, IsStore
<1> HIDE DEF m
<1> QED
  BY <1>1, <1>2, MetaOK, ReprocessOK DEF SetAcceptedTypes

(***************************************************************************)
(* set_server_api                                                          *)
(***************************************************************************)
LEMMA SetServerApiOK ==
    ASSUME NEW s, StoreOK(s), NEW api \in Apis
    PROVE  StoreOK(SetServerApi(s, api))
<1> DEFINE m == [s.meta EXCEPT !.api = api]
<1>1. m \in Meta /\ m.offset = s.meta.offset
  BY DEF StoreOK, StoreType, Meta
<1>2. SetServerApi(s, api) = [s EXCEPT !.meta = m]
  BY DEF SetServerApi, StoreOK, StoreType, IsStore
<1> HIDE DEF m
<1> QED
  BY <1>1, <1>2, MetaOK

(***************************************************************************)
(* record_success                                                          *)
(***************************************************************************)
LEMMA RecordSuccessOK ==
    ASSUME NEW s, StoreOK(s)
    PROVE  StoreOK(RecordSuccess(s))
<1> DEFINE m == [s.meta EXCEPT !.failing = FALSE, !.blackhole = FALSE]
<1>1. m \in Meta /\ m.offset = s.meta.offset
  BY DEF StoreOK, StoreType, Meta
<1>2. RecordSuccess(s) = [s EXCEPT !.meta = m]
  BY DEF RecordSuccess, StoreOK, StoreType, IsStore
<1> HIDE DEF m
<1> QED
  BY <1>1, <1>2, MetaOK

(***************************************************************************)
(* record_failure, which may add a resynchronize message and close the     *)
(* store behind it.                                                        *)
(***************************************************************************)
LEMMA RecordFailureOK ==
    ASSUME NEW s, StoreOK(s), NEW week \in BOOLEAN, NEW gone
    PROVE  StoreOK(RecordFailure(s, week, gone))
<1> DEFINE failing == [s EXCEPT !.meta.failing = TRUE]
           m == [s.meta EXCEPT !.failing = TRUE]
<1>1. StoreOK(failing)
  <2>1. m \in Meta /\ m.offset = s.meta.offset
    BY DEF StoreOK, StoreType, Meta
  <2>2. failing = [s EXCEPT !.meta = m]
    BY DEF StoreOK, StoreType, IsStore
  <2> HIDE DEF m, failing
  <2> QED
    BY <2>1, <2>2, MetaOK
<1> DEFINE a == Add(failing, Resync, gone)
           k == [a.meta EXCEPT !.blackhole = TRUE]
<1> HIDE DEF failing
<1>2. StoreOK(a)
  BY <1>1, AddOK, StoreAssumption
<1>3. StoreOK([a EXCEPT !.meta.blackhole = TRUE])
  <2> HIDE DEF a
  <2>1. k \in Meta /\ k.offset = a.meta.offset
    BY <1>2 DEF StoreOK, StoreType, Meta
  <2>2. [a EXCEPT !.meta.blackhole = TRUE] = [a EXCEPT !.meta = k]
    BY <1>2 DEF StoreOK, StoreType, IsStore
  <2> HIDE DEF k
  <2> QED
    BY <1>2, <2>1, <2>2, MetaOK
<1> QED
  BY <1>1, <1>3 DEF RecordFailure, failing

(***************************************************************************)
(* A restart with metadata older than the files.                           *)
(***************************************************************************)
LEMMA ReloadOK ==
    ASSUME NEW s, StoreOK(s), NEW disk \in Meta
    PROVE  StoreOK(Reload(s, disk))
<1> DEFINE same == disk.offset = s.meta.offset /\ disk.sequence = s.meta.sequence
           t == Reload(s, disk)
<1>1. /\ IsStore(t)
      /\ t.files = s.files /\ t.dirs = s.dirs /\ t.nextPos = s.nextPos
      /\ t.meta = disk
      /\ t.damage = s.damage \cup (IF same THEN {} ELSE {"crashed"})
  BY DEF Reload, StoreOK, StoreType, IsStore
<1> HIDE DEF t
<1>2. Unflagged(t) = Unflagged(s) /\ Positions(t) = Positions(s)
  BY <1>1 DEF Unflagged, Positions
<1>3. StoreType(t)
  BY <1>1, <1>2 DEF StoreOK, StoreType, Damages
<1>4. OffsetInQueue(t)
  BY <1>1, <1>2 DEF StoreOK, OffsetInQueue
<1>5. BrokenRecorded(t)
  BY <1>1, <1>2 DEF StoreOK, BrokenRecorded
<1> QED
  BY <1>3, <1>4, <1>5 DEF StoreOK, t

(***************************************************************************)
(* A file that no longer decodes is still walked until it is read.         *)
(***************************************************************************)
LEMMA CorruptOK ==
    ASSUME NEW s, StoreOK(s), NEW p \in Positions(s)
    PROVE  StoreOK(Corrupt(s, p))
<1> DEFINE t == Corrupt(s, p)
           f == [s.files[p] EXCEPT !.corrupt = TRUE]
<1>1. /\ IsStore(t)
      /\ t.files = [s.files EXCEPT ![p] = f]
      /\ t.dirs = s.dirs /\ t.nextPos = s.nextPos
      /\ t.meta = s.meta /\ t.damage = s.damage
  BY DEF Corrupt, StoreOK, StoreType, IsStore
<1> HIDE DEF t
<1>2. f \in File /\ f.held = s.files[p].held /\ f.broken = s.files[p].broken
  BY DEF StoreOK, StoreType, File
<1> HIDE DEF f
<1>3. Positions(t) = Positions(s) /\ t.files \in [Positions(s) -> File]
  BY <1>1, <1>2 DEF Positions, StoreOK, StoreType
<1>4. \A q \in Positions(s) : /\ t.files[q].held = s.files[q].held
                              /\ t.files[q].broken = s.files[q].broken
  BY <1>1, <1>2 DEF Positions
<1>5. Unflagged(t) = Unflagged(s)
  BY <1>3, <1>4 DEF Unflagged
<1>6. StoreType(t)
  BY <1>1, <1>3 DEF StoreOK, StoreType
<1>7. OffsetInQueue(t)
  BY <1>1, <1>5 DEF StoreOK, OffsetInQueue
<1>8. BrokenRecorded(t)
  BY <1>1, <1>3, <1>4 DEF StoreOK, BrokenRecorded
<1> QED
  BY <1>6, <1>7, <1>8 DEF StoreOK, t

(***************************************************************************)
(* A store directory that did not exist.                                   *)
(***************************************************************************)
LEMMA NewStoreOK == StoreOK(NewStore) /\ NewMeta \in Meta
<1> DEFINE t == NewStore
<1>1. NewMeta \in Meta /\ NewMeta.offset = 0
  BY StoreAssumption DEF NewMeta, Meta, NoToken
<1>2. /\ IsStore(t) /\ t.files = [p \in {} |-> 0] /\ t.dirs = {} /\ t.nextPos = 0
      /\ t.meta = NewMeta /\ t.damage = {}
  BY DEF NewStore, IsStore
<1> HIDE DEF t
<1>3. Positions(t) = {} /\ t.files \in [{} -> File] /\ IsFiniteSet(t.dirs)
  BY <1>2, FS_EmptySet DEF Positions
<1>4. StoreType(t)
  BY <1>1, <1>2, <1>3 DEF StoreType
<1>5. OffsetInQueue(t)
  BY <1>1, <1>2, <1>4, FilesFinite DEF OffsetInQueue
<1>6. BrokenRecorded(t)
  BY <1>3 DEF BrokenRecorded
<1> QED
  BY <1>1, <1>4, <1>5, <1>6 DEF StoreOK, t

-----------------------------------------------------------------------------
(* What has been sent, and where *)

\* What was sent is still there, and before it the walk meets the same files
SameStart(s, t) ==
    /\ t.meta.offset = s.meta.offset /\ t.meta.sequence = s.meta.sequence
    /\ \A q \in Sent(s) :
          /\ q \in Unflagged(t)
          /\ \A p \in Nat : p < q => (p \in Unflagged(s) <=> p \in Unflagged(t))

\* Everything that was sent is gone, and nothing counts as sent
StartsAfresh(s, t) == t.meta.offset = 0 /\ Sent(s) \cap Unflagged(t) = {}

KeepsStart(s, t) == t.damage = {} => SameStart(s, t) \/ StartsAfresh(s, t)

(***************************************************************************)
(* Losing pending messages from the walk, and gaining new names past its   *)
(* end, leaves what was sent where it is.                                  *)
(***************************************************************************)
LEMMA StartUndisturbed ==
    ASSUME NEW s, StoreType(s), NEW t,
           t.meta.offset = s.meta.offset, t.meta.sequence = s.meta.sequence,
           Sent(s) \subseteq Unflagged(t),
           \A p \in Unflagged(t) \ Unflagged(s) : p >= s.nextPos
    PROVE  SameStart(s, t)
<1>1. /\ Unflagged(s) \subseteq Nat /\ IsFiniteSet(Unflagged(s))
      /\ s.meta.offset \in Nat /\ s.nextPos \in Nat
      /\ Sent(s) \subseteq Unflagged(s)
      /\ \A q \in Unflagged(s) : q < s.nextPos
  BY FilesFinite DEF StoreType, Unflagged, Sent
<1>2. SUFFICES ASSUME NEW q \in Sent(s), NEW p \in Nat, p < q
               PROVE  p \in Unflagged(s) <=> p \in Unflagged(t)
  BY DEF SameStart
<1>3. q \in Nat /\ q < s.nextPos /\ Rank(Unflagged(s), q) < s.meta.offset
      /\ Rank(Unflagged(s), q) \in Nat
  BY <1>1, <1>2, RankFacts DEF Sent
<1>4. ASSUME p \in Unflagged(s) PROVE p \in Unflagged(t)
  <2>1. Rank(Unflagged(s), p) < Rank(Unflagged(s), q)
        /\ Rank(Unflagged(s), p) \in Nat
    BY <1>1, <1>2, <1>3, <1>4, RankFacts
  <2>2. p \in Sent(s)
    BY <1>1, <1>3, <1>4, <2>1 DEF Sent
  <2> QED
    BY <2>2
<1>5. ASSUME p \in Unflagged(t) PROVE p \in Unflagged(s)
  BY <1>1, <1>2, <1>3, <1>5
<1> QED
  BY <1>4, <1>5

(***************************************************************************)
(* get_pending_messages flags nothing before the pending offset.           *)
(***************************************************************************)
LEMMA FlagKeepsStart ==
    ASSUME NEW s, StoreOK(s), NEW max \in Nat
    PROVE  KeepsStart(s, FlagUnsendable(s, max))
<1> DEFINE t == FlagUnsendable(s, max)
           bad == {p \in Scanned(s, max) : ~Sendable(s, p)}
           broken == {p \in bad : s.files[p].corrupt}
           Flag(p) == [s.files[p] EXCEPT !.broken = @ \/ p \in broken,
                                         !.held = @ \/ p \in bad \ broken]
<1>1. /\ t.files = [p \in Positions(s) |-> Flag(p)]
      /\ t.meta = s.meta
  BY DEF FlagUnsendable, StoreOK, StoreType, IsStore
<1>2. bad \subseteq Pending(s)
  BY DEF Scanned
<1> HIDE DEF t, bad
<1>3. \A p \in Positions(s) :
         /\ Flag(p).broken <=> s.files[p].broken \/ p \in broken
         /\ Flag(p).held <=> s.files[p].held \/ p \in bad \ broken
  BY DEF StoreOK, StoreType, File
<1> HIDE DEF Flag
<1>4. Positions(t) = Positions(s)
  BY <1>1 DEF Positions
<1>5. Unflagged(t) \subseteq Unflagged(s)
  BY <1>1, <1>3, <1>4 DEF Unflagged
<1>6. Sent(s) \subseteq Unflagged(t)
  <2>1. SUFFICES ASSUME NEW p \in Sent(s) PROVE p \in Unflagged(t)
    OBVIOUS
  <2>2. p \in Unflagged(s) /\ p \notin Pending(s)
    BY FilesFinite DEF Sent, Pending, StoreOK
  <2>3. p \notin bad
    BY <2>2, <1>2
  <2>4. p \in Positions(s) /\ ~s.files[p].held /\ ~s.files[p].broken
    BY <2>2 DEF Unflagged
  <2>5. ~Flag(p).held /\ ~Flag(p).broken
    BY <2>3, <2>4, <1>3 DEF broken
  <2> QED
    BY <2>4, <2>5, <1>1, <1>4 DEF Unflagged
<1>7. SameStart(s, t)
  BY <1>1, <1>5, <1>6, StartUndisturbed DEF StoreOK
<1> QED
  BY <1>7 DEF KeepsStart, t

(***************************************************************************)
(* add: trimming that loses an unflagged file is damage, the size limit    *)
(* empties the store, and the new file comes last.                         *)
(***************************************************************************)
LEMMA AddKeepsStart ==
    ASSUME NEW s, StoreOK(s), NEW type \in Types, NEW gone
    PROVE  KeepsStart(s, Add(s, type, gone))
<1> DEFINE lost == {p \in Positions(s) : s.files[p].dir \in gone}
           rest == Positions(s) \ lost
           r == [s EXCEPT !.files = Keep(s, rest), !.dirs = @ \ gone,
                          !.damage = @ \cup (IF lost \cap Unflagged(s) = {}
                                             THEN {} ELSE {"trimmed"})]
           d == DeleteMessagesOverLimit(s, gone)
           t == Write(d, type)
<1>1. CASE s.meta.blackhole
  <2>1. Add(s, type, gone) = s
    BY <1>1 DEF Add
  <2>2. SameStart(s, s)
    BY DEF SameStart, Sent
  <2> QED
    BY <2>1, <2>2 DEF KeepsStart
<1>2. CASE ~s.meta.blackhole
  <2>1. Add(s, type, gone) = t
    BY <1>2 DEF Add
  <2>2. d = IF Cardinality(Positions(r)) > MaxSize THEN DeleteAllMessages(r) ELSE r
    BY DEF DeleteMessagesOverLimit
  <2>3. StoreOK(d) /\ d.nextPos = s.nextPos
    BY TrimOK
  <2> HIDE DEF lost
  <2>4. /\ IsStore(r) /\ r.files = Keep(s, rest) /\ r.nextPos = s.nextPos
        /\ r.meta = s.meta
        /\ r.damage = s.damage \cup (IF lost \cap Unflagged(s) = {}
                                     THEN {} ELSE {"trimmed"})
    BY DEF StoreOK, StoreType, IsStore
  <2> HIDE DEF r, d
  <2>5. /\ t.files = [p \in Positions(d) \cup {d.nextPos} |->
                        IF p = d.nextPos THEN NewFile(d, type) ELSE d.files[p]]
        /\ t.meta = d.meta /\ t.damage = d.damage
    BY <2>3 DEF Write, StoreOK, StoreType, IsStore
  <2> HIDE DEF t
  <2>6. /\ Positions(t) = Positions(d) \cup {d.nextPos}
        /\ \A p \in Positions(d) : t.files[p] = d.files[p]
        /\ d.nextPos \in Nat /\ \A p \in Positions(d) : p < d.nextPos
    BY <2>3, <2>5 DEF Positions, StoreOK, StoreType
  <2>7. /\ Unflagged(d) \subseteq Unflagged(t)
        /\ Unflagged(t) \subseteq Unflagged(d) \cup {s.nextPos}
    BY <2>3, <2>6 DEF Unflagged
  <2>8. Unflagged(s) \subseteq Positions(s) /\ s.nextPos \notin Unflagged(s)
        /\ Sent(s) \subseteq Unflagged(s) /\ s.nextPos \in Nat
    BY DEF Unflagged, StoreOK, StoreType, Sent
  <2>9. CASE d = r
    <3>1. SUFFICES ASSUME t.damage = {} PROVE SameStart(s, t)
      BY <2>1 DEF KeepsStart
    <3>2. lost \cap Unflagged(s) = {}
      BY <3>1, <2>4, <2>5, <2>9
    <3>3. /\ Positions(r) = rest
          /\ \A p \in rest : r.files[p] = s.files[p]
      BY <2>4 DEF Positions, Keep
    <3>4. Unflagged(r) = Unflagged(s)
      BY <3>2, <3>3 DEF Unflagged
    <3>5. Sent(s) \subseteq Unflagged(t)
      BY <3>4, <2>7, <2>8, <2>9
    <3>6. \A p \in Unflagged(t) \ Unflagged(s) : p >= s.nextPos
      BY <3>4, <2>7, <2>8, <2>9
    <3> QED
      BY <3>5, <3>6, <2>4, <2>5, <2>9, StartUndisturbed DEF StoreOK
  <2>10. CASE d = DeleteAllMessages(r)
    <3>1. d.files = Keep(r, {}) /\ d.meta.offset = 0
      BY <2>4, <2>10 DEF DeleteAllMessages, IsStore, StoreOK, StoreType, Meta
    <3>2. Unflagged(d) = {}
      BY <3>1 DEF Keep, Unflagged, Positions
    <3>3. StartsAfresh(s, t)
      BY <3>1, <3>2, <2>5, <2>7, <2>8 DEF StartsAfresh
    <3> QED
      BY <2>1, <3>3 DEF KeepsStart
  <2> QED
    BY <2>2, <2>9, <2>10
<1> QED
  BY <1>1, <1>2

(***************************************************************************)
(* _reprocess_holding: while no file is broken it counts as the walk does, *)
(* so it holds pending messages only; what it unholds comes last.          *)
(***************************************************************************)
LEMMA ReprocessKeepsStart ==
    ASSUME NEW s, StoreOK(s), NEW accepted
    PROVE  KeepsStart(s, ReprocessHolding(s, accepted))
<1> DEFINE H == ToHold(s, accepted)
           M == ToUnhold(s, accepted)
           moved == {Moved(s, M, p) : p \in M}
           from(x) == CHOOSE p \in M : Moved(s, M, p) = x
           Unheld(x) == [s.files[from(x)] EXCEPT
                           !.held = FALSE, !.dir = MovedDir(s, M, from(x))]
           Other(x) == [s.files[x] EXCEPT !.held = @ \/ x \in H]
           t == ReprocessHolding(s, accepted)
<1>1. /\ t.files = [x \in (Positions(s) \ M) \cup moved |->
                      IF x \in moved THEN Unheld(x) ELSE Other(x)]
      /\ t.meta = s.meta /\ t.damage = s.damage
  BY DEF ReprocessHolding, StoreOK, StoreType, IsStore
<1> HIDE DEF t
<1>2. /\ M \subseteq Positions(s) /\ IsFiniteSet(M) /\ M \subseteq Nat
      /\ \A p \in M : s.files[p].held
  BY FilesFinite, SubsetCount DEF ToUnhold, StoreOK
<1> HIDE DEF H, M
<1>3. s.nextPos \in Nat /\ \A p \in Positions(s) : p \in Nat /\ p < s.nextPos
  BY DEF StoreOK, StoreType
<1>4. \A x \in moved : x >= s.nextPos
  <2>1. SUFFICES ASSUME NEW p \in M PROVE Moved(s, M, p) >= s.nextPos
    OBVIOUS
  <2>2. Rank(M, p) \in Nat
    BY <1>2, RankFacts
  <2> QED
    BY <2>2, <1>3 DEF Moved
<1>5. \A x \in Positions(s) : /\ Other(x).broken = s.files[x].broken
                              /\ Other(x).held <=> s.files[x].held \/ x \in H
  BY DEF StoreOK, StoreType, File
<1> HIDE DEF moved, Unheld, Other
<1>6. /\ Positions(t) = (Positions(s) \ M) \cup moved
      /\ \A x \in Positions(s) \ M : t.files[x] = Other(x)
  BY <1>1, <1>3, <1>4 DEF Positions
<1>7. SUFFICES ASSUME t.damage = {} PROVE SameStart(s, t)
  BY DEF KeepsStart, t
<1>8. \A q \in Positions(s) : ~s.files[q].broken
  BY <1>1, <1>7 DEF StoreOK, BrokenRecorded
<1>9. Sent(s) \subseteq Unflagged(t)
  <2>1. SUFFICES ASSUME NEW p \in Sent(s) PROVE p \in Unflagged(t)
    OBVIOUS
  <2>2. /\ p \in Positions(s) /\ ~s.files[p].held /\ ~s.files[p].broken
        /\ Rank(Unflagged(s), p) < s.meta.offset
        /\ Rank(Unflagged(s), p) \in Nat /\ s.meta.offset \in Nat
    BY <2>1, FilesFinite DEF Sent, Unflagged, StoreOK
  <2>3. {q \in Positions(s) : q < p /\ ~s.files[q].held}
          = {q \in Unflagged(s) : q < p}
    BY <1>8 DEF Unflagged
  <2>4. CountedBefore(s, p) = Rank(Unflagged(s), p)
    BY <2>3 DEF CountedBefore, Rank
  <2>5. p \notin H
    BY <2>2, <2>4 DEF H, ToHold
  <2>6. p \notin M
    BY <2>2, <1>2
  <2>7. t.files[p] = Other(p) /\ p \in Positions(t)
    BY <2>2, <2>6, <1>6
  <2>8. ~Other(p).held /\ ~Other(p).broken
    BY <2>2, <2>5, <1>5
  <2> QED
    BY <2>7, <2>8 DEF Unflagged
<1>10. \A p \in Unflagged(t) \ Unflagged(s) : p >= s.nextPos
  <2>1. SUFFICES ASSUME NEW p \in Unflagged(t), p \notin moved
                 PROVE  p \in Unflagged(s)
    BY <1>4
  <2> QED
    BY <2>1, <1>5, <1>6 DEF Unflagged
<1> QED
  BY <1>1, <1>9, <1>10, StartUndisturbed DEF StoreOK

\* A change of metadata that concerns neither the offset nor the sequence
SameQueue(s, t) ==
    /\ t.files = s.files /\ t.damage = s.damage
    /\ t.meta.offset = s.meta.offset /\ t.meta.sequence = s.meta.sequence

(***************************************************************************)
(* Such a change before or after a method does not matter to what was      *)
(* sent: set_accepted_types and record_failure make one around theirs.     *)
(***************************************************************************)
LEMMA AroundKeeps ==
    ASSUME NEW s, NEW a, NEW b, NEW t,
           SameQueue(s, a), KeepsStart(a, b), SameQueue(b, t)
    PROVE  KeepsStart(s, t)
<1>1. Unflagged(s) = Unflagged(a) /\ Unflagged(b) = Unflagged(t)
  BY DEF SameQueue, Unflagged, Positions
<1>2. Sent(s) = Sent(a)
  BY <1>1 DEF Sent, SameQueue
<1> QED
  BY <1>1, <1>2 DEF KeepsStart, SameStart, StartsAfresh, SameQueue

(***************************************************************************)
(* set_server_api, record_success and a file system error leave the queue  *)
(* as it is.                                                               *)
(***************************************************************************)
LEMMA SameKeeps ==
    ASSUME NEW s, NEW t, SameQueue(s, t)
    PROVE  KeepsStart(s, t)
<1>1. SameStart(s, s) /\ SameQueue(s, s)
  BY DEF SameStart, Sent, SameQueue
<1> QED
  BY <1>1, AroundKeeps DEF KeepsStart

(***************************************************************************)
(* set_accepted_types                                                      *)
(***************************************************************************)
LEMMA SetAcceptedTypesKeepsStart ==
    ASSUME NEW s, StoreOK(s), NEW accepted \in SUBSET Types
    PROVE  KeepsStart(s, SetAcceptedTypes(s, accepted))
<1> DEFINE m == [s.meta EXCEPT !.accepted = accepted]
           a == [s EXCEPT !.meta = m]
           b == ReprocessHolding(a, accepted)
<1>1. m \in Meta /\ m.offset = s.meta.offset /\ m.sequence = s.meta.sequence
  BY DEF StoreOK, StoreType, Meta
<1>2. SetAcceptedTypes(s, accepted) = b
  <2>1. [s EXCEPT !.meta.accepted = accepted] = a
    BY DEF StoreOK, StoreType, IsStore
  <2> QED
    BY <2>1 DEF SetAcceptedTypes
<1> HIDE DEF m
<1>3. StoreOK(a) /\ SameQueue(s, a)
  BY <1>1, MetaOK DEF SameQueue, StoreOK, StoreType, IsStore
<1>4. KeepsStart(a, b) /\ SameQueue(b, b)
  BY <1>3, ReprocessKeepsStart DEF SameQueue
<1> HIDE DEF a, b
<1> QED
  BY <1>2, <1>3, <1>4, AroundKeeps

(***************************************************************************)
(* record_failure                                                          *)
(***************************************************************************)
LEMMA RecordFailureKeepsStart ==
    ASSUME NEW s, StoreOK(s), NEW week \in BOOLEAN, NEW gone
    PROVE  KeepsStart(s, RecordFailure(s, week, gone))
<1> DEFINE a == [s EXCEPT !.meta.failing = TRUE]
           m == [s.meta EXCEPT !.failing = TRUE]
           b == Add(a, Resync, gone)
           t == [b EXCEPT !.meta.blackhole = TRUE]
<1>1. StoreOK(a) /\ SameQueue(s, a)
  <2>1. /\ m \in Meta /\ m.offset = s.meta.offset
        /\ m.sequence = s.meta.sequence
    BY DEF StoreOK, StoreType, Meta
  <2>2. a = [s EXCEPT !.meta = m]
    BY DEF StoreOK, StoreType, IsStore
  <2> HIDE DEF m, a
  <2> QED
    BY <2>1, <2>2, MetaOK DEF SameQueue, StoreOK, StoreType, IsStore
<1> HIDE DEF a
<1>2. StoreOK(b) /\ KeepsStart(a, b)
  BY <1>1, AddOK, AddKeepsStart, StoreAssumption
<1> HIDE DEF b
<1>3. SameQueue(b, t)
  BY <1>2 DEF SameQueue, StoreOK, StoreType, IsStore, Meta
<1> HIDE DEF t
<1>4. KeepsStart(s, t) /\ KeepsStart(s, a)
  BY <1>1, <1>2, <1>3, AroundKeeps, SameKeeps
<1>5. RecordFailure(s, week, gone) \in {a, t}
  BY DEF RecordFailure, a, b, t
<1> QED
  BY <1>4, <1>5

-----------------------------------------------------------------------------
(* The walk and its numbers                                                *)

\* The files that a walk of U yields first
First(U, k) == {p \in U : Rank(U, p) < k}

(***************************************************************************)
(* The walk gives every index below its length to one file.                *)
(***************************************************************************)
LEMMA RankOnto ==
    ASSUME NEW U, U \subseteq Nat, IsFiniteSet(U), NEW k \in Nat, k < Cardinality(U)
    PROVE  \E p \in U : Rank(U, p) = k
<1> DEFINE A == First(U, k)
           B == First(U, k + 1)
<1>1. Cardinality(U) \in Nat /\ k + 1 \in Nat /\ k + 1 <= Cardinality(U) /\ k <= Cardinality(U)
  BY FS_CardinalityType
<1>2. Cardinality(A) = k /\ Cardinality(B) = k + 1
  BY <1>1, RankCount DEF First
<1>3. A # B
  BY <1>2
<1>4. \A p \in U : Rank(U, p) \in Nat
  BY RankFacts
<1>5. \E p \in B : p \notin A
  <2>1. A \subseteq B
    <3>1. SUFFICES ASSUME NEW p \in A PROVE p \in B
      OBVIOUS
    <3>2. p \in U /\ Rank(U, p) < k /\ Rank(U, p) \in Nat
      BY <1>4 DEF First
    <3>3. Rank(U, p) < k + 1
      BY <3>2
    <3> QED
      BY <3>2, <3>3 DEF First
  <2> QED
    BY <1>3, <2>1
<1> QED
  BY <1>4, <1>5 DEF First

LEMMA RankInjective ==
    ASSUME NEW U, U \subseteq Nat, IsFiniteSet(U), NEW p \in U, NEW q \in U, Rank(U, p) = Rank(U, q)
    PROVE  p = q
<1>1. p \in Nat /\ q \in Nat /\ Rank(U, p) \in Nat
  BY RankFacts
<1>2. \A x \in U, y \in Nat : x < y => Rank(U, x) < Rank(U, y)
  BY RankFacts
<1>3. ~(p < q)
  BY <1>1, <1>2
<1>4. ~(q < p)
  BY <1>1, <1>2
<1> QED
  BY <1>1, <1>3, <1>4

(***************************************************************************)
(* What comes first in the walk of U keeps its index in a walk that still  *)
(* meets it, and anything else only after U.                               *)
(***************************************************************************)
LEMMA FirstKept ==
    ASSUME NEW U, U \subseteq Nat, IsFiniteSet(U), NEW V, V \subseteq Nat, IsFiniteSet(V),
           NEW k \in Nat, k <= Cardinality(U), First(U, k) \subseteq V,
           NEW n \in Nat, \A p \in U : p < n, \A p \in V \ U : p >= n
    PROVE  /\ \A p \in First(U, k) : Rank(V, p) = Rank(U, p)
           /\ First(V, k) = First(U, k) /\ k <= Cardinality(V)
<1>1. \A p \in First(U, k) : Rank(V, p) = Rank(U, p)
  <2>1. SUFFICES ASSUME NEW p \in First(U, k) PROVE Rank(V, p) = Rank(U, p)
    OBVIOUS
  <2>2. p \in U /\ p \in Nat /\ p < n /\ Rank(U, p) < k /\ Rank(U, p) \in Nat
    BY <2>1, RankFacts DEF First
  <2>3. \A q \in U : q < p => q \in V
    <3>1. SUFFICES ASSUME NEW q \in U, q < p PROVE q \in First(U, k)
      OBVIOUS
    <3>2. Rank(U, q) < Rank(U, p) /\ Rank(U, q) \in Nat
      BY <2>2, <3>1, RankFacts
    <3> QED
      BY <2>2, <3>2 DEF First
  <2>4. \A q \in V : q < p => q \in U
    BY <2>2
  <2>5. {q \in V : q < p} = {q \in U : q < p}
    BY <2>3, <2>4
  <2> QED
    BY <2>5 DEF Rank
<1>2. Cardinality(First(U, k)) = k
  BY RankCount DEF First
<1>3. k <= Cardinality(V)
  BY <1>2, SubsetCount
<1>4. Cardinality(First(V, k)) = k
  BY <1>3, RankCount DEF First
<1>5. First(U, k) \subseteq First(V, k)
  BY <1>1 DEF First
<1>6. IsFiniteSet(First(V, k))
  BY SubsetCount DEF First
<1>7. First(V, k) = First(U, k)
  BY <1>2, <1>4, <1>5, <1>6, FS_Subset
<1> QED
  BY <1>1, <1>3, <1>7

(***************************************************************************)
(* Without its first k files a walk gives the others an index lower by k.  *)
(***************************************************************************)
LEMMA RankAfterFirst ==
    ASSUME NEW U, U \subseteq Nat, IsFiniteSet(U), NEW k \in Nat, k <= Cardinality(U)
    PROVE  LET W == U \ First(U, k)
           IN  /\ Cardinality(W) = Cardinality(U) - k
               /\ \A p \in W : Rank(W, p) = Rank(U, p) - k
<1> DEFINE F == First(U, k)
           W == U \ F
<1>1. F \subseteq U /\ IsFiniteSet(F) /\ IsFiniteSet(W) /\ Cardinality(F) = k /\ Cardinality(W) \in Nat
  BY RankCount, SubsetCount DEF First
<1>2. Cardinality(W) = Cardinality(U) - k
  <2>1. F \cup W = U /\ F \cap W = {}
    BY <1>1
  <2> HIDE DEF W
  <2>2. Cardinality(F \cup W) = Cardinality(F) + Cardinality(W) - 0
    BY <1>1, <2>1, FS_Union, FS_EmptySet
  <2> QED
    BY <1>1, <2>1, <2>2
<1>3. ASSUME NEW p \in W PROVE Rank(W, p) = Rank(U, p) - k
  <2> DEFINE B == {q \in W : q < p}
  <2>1. p \in U /\ p \in Nat /\ ~(Rank(U, p) < k) /\ Rank(U, p) \in Nat
    BY <1>3, RankFacts DEF First
  <2>2. \A q \in F : q < p
    <3>1. SUFFICES ASSUME NEW q \in F, ~(q < p) PROVE FALSE
      OBVIOUS
    <3>2. q \in U /\ q \in Nat /\ Rank(U, q) < k /\ Rank(U, q) \in Nat
      BY <3>1, RankFacts DEF First
    <3>3. CASE q = p
      BY <2>1, <3>2, <3>3
    <3>4. CASE p < q
      <4>1. \A x \in U, y \in Nat : x < y => Rank(U, x) < Rank(U, y)
        BY RankFacts
      <4>2. Rank(U, p) < Rank(U, q)
        BY <2>1, <3>2, <3>4, <4>1
      <4> QED
        BY <2>1, <3>2, <4>2
    <3> QED
      BY <2>1, <3>1, <3>2, <3>3, <3>4
  <2>3. {q \in U : q < p} = F \cup B
    BY <1>1, <2>2
  <2>4. F \cap B = {} /\ IsFiniteSet(B) /\ Cardinality(B) \in Nat
    BY <1>1, SubsetCount
  <2> HIDE DEF B, F
  <2>5. Cardinality(F \cup B) = k + Cardinality(B)
    BY <1>1, <2>4, FS_Union, FS_EmptySet
  <2>6. Rank(U, p) = k + Cardinality(B)
    BY <2>3, <2>5 DEF Rank
  <2>7. Rank(W, p) = Cardinality(B)
    BY DEF Rank, B
  <2> QED
    BY <2>4, <2>6, <2>7
<1> QED
  BY <1>2, <1>3

-----------------------------------------------------------------------------
(* The sequence numbers of the queue                                       *)

\* The number of the first file in the walk, and of the next one to come
Base(s) == s.meta.sequence - s.meta.offset
Top(s) == Base(s) + Cardinality(Unflagged(s))

\* No file is unreadable, and none holds the message of another one.
Plain(s) ==
    /\ \A p \in Positions(s) : s.files[p].id < s.nextPos /\ ~s.files[p].corrupt
    /\ \A p, q \in Positions(s) : s.files[p].id = s.files[q].id => p = q

\* Every message of store t was in store s or is newer than all of those.
IdsFrom(s, t) ==
    /\ s.nextPos <= t.nextPos
    /\ \A p \in Positions(t) :
         s.nextPos <= t.files[p].id \/ \E q \in Positions(s) : t.files[p].id = s.files[q].id

LEMMA NumberFacts ==
    ASSUME NEW s, StoreType(s), s.damage = {}, OffsetInQueue(s)
    PROVE  /\ Base(s) \in Int /\ Top(s) \in Int /\ s.meta.sequence \in Int
           /\ Base(s) <= s.meta.sequence /\ s.meta.sequence <= Top(s)
           /\ \A p \in Unflagged(s) : /\ Number(s, p) \in Int /\ Base(s) <= Number(s, p)
                                      /\ Number(s, p) < Top(s)
                                      /\ p \in Sent(s) <=> Number(s, p) < s.meta.sequence
                                      /\ p \in Pending(s) <=> s.meta.sequence <= Number(s, p)
           /\ \A p, q \in Unflagged(s) : Number(s, p) = Number(s, q) => p = q
<1> DEFINE U == Unflagged(s)
<1>1. /\ U \subseteq Nat /\ IsFiniteSet(U) /\ Cardinality(U) \in Nat
      /\ s.meta.offset \in Nat /\ s.meta.sequence \in Int /\ s.meta.offset <= Cardinality(U)
  BY FilesFinite DEF OffsetInQueue
<1>2. \A p \in U : Rank(U, p) \in Nat /\ Rank(U, p) < Cardinality(U)
  BY <1>1, RankFacts
<1>3. Base(s) \in Int /\ Top(s) \in Int /\ Base(s) <= s.meta.sequence /\ s.meta.sequence <= Top(s)
  BY <1>1 DEF Base, Top
<1>4. \A p \in U : /\ Number(s, p) \in Int /\ Base(s) <= Number(s, p) /\ Number(s, p) < Top(s)
                   /\ p \in Sent(s) <=> Number(s, p) < s.meta.sequence
                   /\ p \in Pending(s) <=> s.meta.sequence <= Number(s, p)
  BY <1>1, <1>2 DEF Number, Base, Top, Sent, Pending
<1>5. \A p, q \in U : Number(s, p) = Number(s, q) => p = q
  <2>1. SUFFICES ASSUME NEW p \in U, NEW q \in U, Number(s, p) = Number(s, q) PROVE p = q
    OBVIOUS
  <2>2. Rank(U, p) = Rank(U, q)
    BY <1>1, <1>2, <2>1 DEF Number
  <2> QED
    BY <1>1, <2>2, RankInjective
<1> QED
  BY <1>1, <1>3, <1>4, <1>5

(***************************************************************************)
(* What was sent keeps its numbers, and nothing joins it.                  *)
(***************************************************************************)
LEMMA SameStartSent ==
    ASSUME NEW s, StoreOK(s), s.damage = {}, NEW t, StoreOK(t), t.damage = {}, SameStart(s, t)
    PROVE  Sent(t) = Sent(s) /\ \A q \in Sent(s) : Number(t, q) = Number(s, q)
<1> DEFINE k == s.meta.offset
<1>1. /\ Unflagged(s) \subseteq Nat /\ Unflagged(t) \subseteq Nat
      /\ IsFiniteSet(Unflagged(s)) /\ IsFiniteSet(Unflagged(t)) /\ k \in Nat
  BY FilesFinite DEF StoreOK
<1>2. t.meta.offset = k /\ t.meta.sequence = s.meta.sequence
  BY DEF SameStart
<1>3. k <= Cardinality(Unflagged(s)) /\ k <= Cardinality(Unflagged(t))
  BY <1>2 DEF StoreOK, OffsetInQueue
<1>4. Sent(s) = First(Unflagged(s), k) /\ Sent(t) = First(Unflagged(t), k)
  BY <1>2 DEF Sent, First
<1>5. \A q \in Sent(s) : q \in Unflagged(t) /\ Rank(Unflagged(t), q) = Rank(Unflagged(s), q)
  <2>1. SUFFICES ASSUME NEW q \in Sent(s)
                 PROVE  q \in Unflagged(t) /\ Rank(Unflagged(t), q) = Rank(Unflagged(s), q)
    OBVIOUS
  <2>2. {p \in Unflagged(s) : p < q} = {p \in Unflagged(t) : p < q}
    BY <1>1, <2>1 DEF SameStart
  <2> QED
    BY <2>1, <2>2 DEF SameStart, Rank
<1>6. Sent(s) \subseteq Sent(t)
  BY <1>2, <1>5 DEF Sent
<1>7. Cardinality(Sent(s)) = k /\ Cardinality(Sent(t)) = k
  BY <1>1, <1>3, <1>4, RankCount DEF First
<1>8. IsFiniteSet(Sent(t))
  BY <1>1, <1>4, SubsetCount DEF First
<1>9. Sent(t) = Sent(s)
  BY <1>6, <1>7, <1>8, FS_Subset
<1> QED
  BY <1>2, <1>5, <1>9 DEF Number

-----------------------------------------------------------------------------
(* What add does to the numbers                                            *)

\* The limits took files of store s away and left store d.
Trims(s, d) ==
    /\ StoreOK(d) /\ d.nextPos = s.nextPos
    /\ Positions(d) \subseteq Positions(s) /\ \A p \in Positions(d) : d.files[p] = s.files[p]
    /\ d.meta.sequence = s.meta.sequence
    /\ d.meta.accepted = s.meta.accepted /\ d.meta.api = s.meta.api
    /\ \/ d.meta.offset = s.meta.offset /\ (d.damage = {} => Unflagged(d) = Unflagged(s))
       \/ d.meta.offset = 0 /\ Positions(d) = {}

\* A new message was written at the end of store d, which gave store t.
Writes(d, t) ==
    /\ Positions(t) = Positions(d) \cup {d.nextPos}
    /\ \A p \in Positions(d) : t.files[p] = d.files[p]
    /\ t.files[d.nextPos].id = d.nextPos /\ ~t.files[d.nextPos].corrupt
    /\ t.nextPos = d.nextPos + 1 /\ t.meta = d.meta /\ t.damage = d.damage

LEMMA TrimIs ==
    ASSUME NEW s, StoreOK(s), NEW gone PROVE Trims(s, DeleteMessagesOverLimit(s, gone))
<1> DEFINE lost == {p \in Positions(s) : s.files[p].dir \in gone}
           rest == Positions(s) \ lost
           r == [s EXCEPT !.files = Keep(s, rest), !.dirs = @ \ gone,
                          !.damage = @ \cup (IF lost \cap Unflagged(s) = {}
                                             THEN {} ELSE {"trimmed"})]
           d == DeleteMessagesOverLimit(s, gone)
<1>1. d = IF Cardinality(Positions(r)) > MaxSize THEN DeleteAllMessages(r) ELSE r
  BY DEF DeleteMessagesOverLimit
<1>2. StoreOK(d) /\ d.nextPos = s.nextPos
  BY TrimOK
<1> HIDE DEF lost
<1>3. /\ IsStore(r) /\ r.files = Keep(s, rest) /\ r.meta = s.meta
      /\ r.damage = s.damage \cup (IF lost \cap Unflagged(s) = {} THEN {} ELSE {"trimmed"})
  BY DEF StoreOK, StoreType, IsStore
<1> HIDE DEF r, d
<1>4. CASE d = r
  <2>1. Positions(r) = rest /\ \A p \in rest : r.files[p] = s.files[p]
    BY <1>3 DEF Positions, Keep
  <2>2. ASSUME r.damage = {} PROVE Unflagged(r) = Unflagged(s)
    <3>1. lost \cap Unflagged(s) = {}
      BY <1>3, <2>2
    <3> QED
      BY <2>1, <3>1 DEF Unflagged
  <2> QED
    BY <1>2, <1>3, <1>4, <2>1, <2>2 DEF Trims, d
<1>5. CASE d = DeleteAllMessages(r)
  <2>1. d.files = Keep(r, {}) /\ d.meta = [s.meta EXCEPT !.offset = 0]
    BY <1>3, <1>5 DEF DeleteAllMessages, IsStore
  <2>2. Positions(d) = {}
    BY <2>1 DEF Keep, Positions
  <2>3. /\ d.meta.offset = 0 /\ d.meta.sequence = s.meta.sequence
        /\ d.meta.accepted = s.meta.accepted /\ d.meta.api = s.meta.api
    BY <2>1 DEF StoreOK, StoreType, Meta
  <2> QED
    BY <1>2, <2>2, <2>3 DEF Trims, d
<1> QED
  BY <1>1, <1>4, <1>5

LEMMA WriteIs ==
    ASSUME NEW d, StoreOK(d), NEW type PROVE Writes(d, Write(d, type))
<1> DEFINE t == Write(d, type)
<1>1. /\ t.files = [p \in Positions(d) \cup {d.nextPos} |->
                      IF p = d.nextPos THEN NewFile(d, type) ELSE d.files[p]]
      /\ t.nextPos = d.nextPos + 1 /\ t.meta = d.meta /\ t.damage = d.damage
  BY DEF Write, StoreOK, StoreType, IsStore
<1>2. d.nextPos \notin Positions(d)
  BY DEF StoreOK, StoreType
<1>3. NewFile(d, type).id = d.nextPos /\ NewFile(d, type).corrupt = FALSE
  BY DEF NewFile
<1> HIDE DEF t
<1>4. /\ Positions(t) = Positions(d) \cup {d.nextPos}
      /\ \A p \in Positions(d) : t.files[p] = d.files[p]
      /\ t.files[d.nextPos] = NewFile(d, type)
  BY <1>1, <1>2 DEF Positions
<1> QED
  BY <1>1, <1>3, <1>4 DEF Writes, t

\* Whatever was added, the messages stay apart.
SamePlain(s, t) ==
    /\ Plain(t) /\ IdsFrom(s, t) /\ t.meta.sequence = s.meta.sequence
    /\ \A p \in Positions(s) \cap Positions(t) : t.files[p].id = s.files[p].id

SameSending(s, t) == t.meta.accepted = s.meta.accepted /\ t.meta.api = s.meta.api

LEMMA AddPlain ==
    ASSUME NEW s, StoreOK(s), Plain(s), NEW type, NEW gone
    PROVE  SamePlain(s, Add(s, type, gone)) /\ SameSending(s, Add(s, type, gone))
<1> DEFINE d == DeleteMessagesOverLimit(s, gone)
           t == Write(d, type)
           n == s.nextPos
<1>1. n \in Nat
  BY DEF StoreOK, StoreType
<1>2. CASE s.meta.blackhole
  <2>1. Add(s, type, gone) = s
    BY <1>2 DEF Add
  <2> QED
    BY <1>1, <2>1 DEF SamePlain, SameSending, IdsFrom
<1>3. CASE ~s.meta.blackhole
  <2>1. Add(s, type, gone) = t
    BY <1>3 DEF Add
  <2>2. Trims(s, d)
    BY TrimIs
  <2> HIDE DEF d
  <2>3. Writes(d, t)
    BY <2>2, WriteIs DEF Trims
  <2> HIDE DEF t
  <2>4. /\ Positions(t) \subseteq Positions(s) \cup {n}
        /\ \A p \in Positions(t) : p # n => p \in Positions(s) /\ t.files[p] = s.files[p]
        /\ t.files[n].id = n /\ ~t.files[n].corrupt /\ t.nextPos = n + 1
        /\ t.meta.sequence = s.meta.sequence /\ SameSending(s, t)
    BY <2>2, <2>3 DEF Trims, Writes, SameSending
  <2>5. \A p \in Positions(s) : s.files[p].id < n /\ ~s.files[p].corrupt /\ s.files[p].id \in Nat
    BY DEF Plain, StoreOK, StoreType, File
  <2>6. \A p \in Positions(t) : t.files[p].id < n + 1 /\ ~t.files[p].corrupt
    BY <1>1, <2>4, <2>5
  <2>7. ASSUME NEW p \in Positions(t), NEW q \in Positions(t), t.files[p].id = t.files[q].id
        PROVE  p = q
    <3>1. CASE p = n /\ q = n
      BY <3>1
    <3>2. CASE p = n /\ q # n
      BY <1>1, <2>4, <2>5, <2>7, <3>2
    <3>3. CASE p # n /\ q = n
      BY <1>1, <2>4, <2>5, <2>7, <3>3
    <3>4. CASE p # n /\ q # n
      BY <2>4, <2>7, <3>4 DEF Plain
    <3> QED
      BY <3>1, <3>2, <3>3, <3>4
  <2>8. Plain(t)
    BY <2>4, <2>6, <2>7 DEF Plain
  <2>9. IdsFrom(s, t)
    BY <1>1, <2>4 DEF IdsFrom
  <2>10. n \notin Positions(s)
    BY DEF StoreOK, StoreType
  <2> QED
    BY <2>1, <2>4, <2>8, <2>9, <2>10 DEF SamePlain
<1> QED
  BY <1>2, <1>3

\* Store s grew to store t and lost nothing that is to be sent.
Grows(s, t) ==
    /\ Top(s) <= Top(t) /\ Base(s) <= Base(t) /\ t.meta.sequence = s.meta.sequence
    /\ \A p \in Unflagged(t) :
         \/ Top(s) <= Number(t, p)
         \/ p \in Unflagged(s) /\ Number(t, p) = Number(s, p) /\ t.files[p] = s.files[p]
    /\ \A p \in Pending(s) :
         p \in Unflagged(t) /\ Number(t, p) = Number(s, p) /\ t.files[p] = s.files[p]
    /\ Sent(t) \subseteq Sent(s)
    /\ \A p \in Positions(t) :
         \/ t.files[p].id = s.nextPos
         \/ /\ p \in Positions(s) /\ t.files[p].id = s.files[p].id
            /\ p \in Unflagged(s) => p \in Unflagged(t) /\ Number(t, p) = Number(s, p)

LEMMA SameGrows == ASSUME NEW s, StoreType(s), OffsetInQueue(s), s.damage = {} PROVE Grows(s, s)
<1>1. \A p \in Pending(s) : p \in Unflagged(s)
  BY DEF Pending
<1>2. Top(s) <= Top(s) /\ Base(s) <= Base(s)
  BY NumberFacts
<1> QED
  BY <1>1, <1>2 DEF Grows

(***************************************************************************)
(* add, when the limits take no pending message away: the new message gets *)
(* a number that no message had.                                           *)
(***************************************************************************)
LEMMA AddGrows ==
    ASSUME NEW s, StoreOK(s), s.damage = {}, NEW type \in Types, NEW gone,
           Add(s, type, gone).damage = {}, Pending(s) \subseteq Positions(Add(s, type, gone))
    PROVE  Grows(s, Add(s, type, gone))
<1> DEFINE d == DeleteMessagesOverLimit(s, gone)
           t == Write(d, type)
           n == s.nextPos
           U == Unflagged(s)
           V == Unflagged(t)
           k == Cardinality(U)
<1>1. CASE s.meta.blackhole
  <2>1. Add(s, type, gone) = s
    BY <1>1 DEF Add
  <2> QED
    BY <2>1, SameGrows DEF StoreOK
<1>2. CASE ~s.meta.blackhole
  <2>1. Add(s, type, gone) = t
    BY <1>2 DEF Add
  <2>2. t.damage = {} /\ Pending(s) \subseteq Positions(t)
    BY <2>1
  <2>3. Trims(s, d) /\ StoreOK(t)
    BY <2>1, TrimIs, AddOK
  <2> HIDE DEF d
  <2>4. Writes(d, t)
    BY <2>3, WriteIs DEF Trims
  <2> HIDE DEF t
  <2>5. /\ n \in Nat /\ U \subseteq Positions(s) /\ \A p \in Positions(s) : p \in Nat /\ p < n
        /\ n \notin Positions(s)
    BY DEF StoreOK, StoreType, Unflagged
  <2>6. /\ Positions(t) = Positions(d) \cup {n} /\ d.damage = {} /\ t.files[n].id = n
        /\ \A p \in Positions(d) : p \in Positions(s) /\ t.files[p] = s.files[p] /\ d.files[p] = s.files[p]
        /\ t.meta.sequence = s.meta.sequence /\ t.meta.offset = d.meta.offset
    BY <2>2, <2>3, <2>4 DEF Trims, Writes
  <2>7. /\ IsFiniteSet(U) /\ U \subseteq Nat /\ k \in Nat /\ s.meta.offset \in Nat
        /\ s.meta.offset <= k /\ s.meta.sequence \in Int
    BY FilesFinite DEF StoreOK, OffsetInQueue
  <2>8. IsFiniteSet(V) /\ V \subseteq Nat /\ Cardinality(V) \in Nat /\ \A p \in V : Rank(V, p) \in Nat
    BY <2>3, FilesFinite, RankFacts DEF StoreOK
  <2>9. CASE d.meta.offset = s.meta.offset /\ Unflagged(d) = U
    <3>1. U \subseteq V /\ V \subseteq U \cup {n} /\ \A p \in U : p \in Positions(d)
      BY <2>6, <2>9 DEF Unflagged
    <3>2. First(U, k) = U
      BY <2>7, RankFacts DEF First
    <3>3. \A p \in V \ U : p >= n
      BY <2>5, <3>1
    <3>4. \A p \in U : p < n
      BY <2>5
    <3>5. /\ \A p \in U : Rank(V, p) = Rank(U, p)
          /\ First(V, k) = U /\ k <= Cardinality(V)
      <4>1. k <= Cardinality(U)
        BY <2>7
      <4>2. n \in Nat /\ First(U, k) \subseteq V
        BY <2>5, <3>1, <3>2
      <4> HIDE DEF U, V, k, n
      <4>3. /\ \A p \in First(U, k) : Rank(V, p) = Rank(U, p)
            /\ First(V, k) = First(U, k) /\ k <= Cardinality(V)
        BY <2>7, <2>8, <3>3, <3>4, <4>1, <4>2, FirstKept
      <4> QED
        BY <3>2, <4>3
    <3>6. \A p \in U : Number(t, p) = Number(s, p) /\ t.files[p] = s.files[p]
      BY <2>6, <2>9, <3>1, <3>5 DEF Number
    <3>7. \A p \in V : p \notin U => Top(s) <= Number(t, p)
      <4>1. SUFFICES ASSUME NEW p \in V, p \notin U PROVE Top(s) <= Number(t, p)
        OBVIOUS
      <4>2. ~(Rank(V, p) < k) /\ Rank(V, p) \in Nat
        BY <2>8, <3>5, <4>1 DEF First
      <4> HIDE DEF k, V, U
      <4> QED
        BY <2>6, <2>7, <2>9, <4>2 DEF Number, Top, Base, k, V, U
    <3>8. Top(s) <= Top(t) /\ Base(s) <= Base(t)
      BY <2>6, <2>7, <2>8, <2>9, <3>5 DEF Top, Base
    <3>9. Sent(t) \subseteq Sent(s)
      <4>1. SUFFICES ASSUME NEW p \in Sent(t) PROVE p \in Sent(s)
        OBVIOUS
      <4>2. p \in V /\ Rank(V, p) < s.meta.offset /\ Rank(V, p) \in Nat
        BY <2>6, <2>8, <2>9 DEF Sent
      <4>3. p \in First(V, k)
        BY <2>7, <4>2 DEF First
      <4>4. p \in U /\ Rank(U, p) = Rank(V, p)
        BY <3>5, <4>3
      <4> QED
        BY <4>2, <4>4 DEF Sent
    <3>10. \A p \in Positions(t) :
             \/ t.files[p].id = s.nextPos
             \/ /\ p \in Positions(s) /\ t.files[p].id = s.files[p].id
                /\ p \in U => p \in V /\ Number(t, p) = Number(s, p)
      BY <2>6, <3>1, <3>6
    <3>11. \A p \in Pending(s) : p \in U
      BY DEF Pending
    <3> HIDE DEF U, V
    <3> QED
      BY <2>1, <2>6, <3>1, <3>6, <3>7, <3>8, <3>9, <3>10, <3>11 DEF Grows, U, V
  <2>10. CASE d.meta.offset = 0 /\ Positions(d) = {}
    <3>1. Pending(s) = {}
      BY <2>2, <2>5, <2>6, <2>10 DEF Pending
    <3>2. U = First(U, s.meta.offset)
      <4>1. \A p \in U : Rank(U, p) \in Nat
        BY <2>7, RankFacts
      <4> QED
        BY <2>7, <3>1, <4>1 DEF Pending, First
    <3>3. k = s.meta.offset
      BY <2>7, <3>2, RankCount DEF First
    <3>4. Top(s) = s.meta.sequence /\ Base(t) = s.meta.sequence
      BY <2>6, <2>7, <2>10, <3>3 DEF Top, Base
    <3>5. \A p \in V : Top(s) <= Number(t, p)
      BY <2>6, <2>7, <2>8, <2>10, <3>4 DEF Number
    <3>6. Top(s) <= Top(t) /\ Base(s) <= Base(t)
      BY <2>7, <2>8, <3>4 DEF Top, Base
    <3>7. Sent(t) = {}
      BY <2>6, <2>8, <2>10 DEF Sent
    <3> QED
      BY <2>1, <2>6, <2>10, <3>1, <3>5, <3>6, <3>7 DEF Grows
  <2> QED
    BY <2>3, <2>6, <2>9, <2>10 DEF Trims
<1> QED
  BY <1>1, <1>2

-----------------------------------------------------------------------------
(* What get_pending_messages does to the numbers                           *)

\* From store s to store t the files in `bad' were held.
Flags(s, t, bad) ==
    /\ Positions(t) = Positions(s) /\ t.meta = s.meta /\ t.nextPos = s.nextPos
    /\ t.damage = s.damage /\ Unflagged(t) = Unflagged(s) \ bad
    /\ \A p \in Positions(s) :
         /\ t.files[p].id = s.files[p].id /\ t.files[p].type = s.files[p].type
         /\ t.files[p].api = s.files[p].api /\ t.files[p].corrupt = s.files[p].corrupt

LEMMA FlagIs ==
    ASSUME NEW s, StoreOK(s), Plain(s), NEW max \in Nat
    PROVE  Flags(s, FlagUnsendable(s, max), {p \in Scanned(s, max) : ~Sendable(s, p)})
<1> DEFINE t == FlagUnsendable(s, max)
           bad == {p \in Scanned(s, max) : ~Sendable(s, p)}
           broken == {p \in bad : s.files[p].corrupt}
           Flag(p) == [s.files[p] EXCEPT !.broken = @ \/ p \in broken,
                                         !.held = @ \/ p \in bad \ broken]
<1>1. /\ t.files = [p \in Positions(s) |-> Flag(p)]
      /\ t.nextPos = s.nextPos /\ t.meta = s.meta
      /\ t.damage = s.damage \cup (IF broken = {} THEN {} ELSE {"broken"})
  BY DEF FlagUnsendable, StoreOK, StoreType, IsStore
<1>2. bad \subseteq Positions(s)
  BY DEF Scanned, Pending, Unflagged
<1>3. broken = {}
  BY <1>2 DEF Plain
<1> HIDE DEF t, bad
<1>4. \A p \in Positions(s) :
         /\ Flag(p).broken <=> s.files[p].broken \/ p \in broken
         /\ Flag(p).held <=> s.files[p].held \/ p \in bad \ broken
  BY DEF StoreOK, StoreType, File
<1>5. \A p \in Positions(s) :
         /\ Flag(p).id = s.files[p].id /\ Flag(p).type = s.files[p].type
         /\ Flag(p).api = s.files[p].api /\ Flag(p).corrupt = s.files[p].corrupt
  BY DEF StoreOK, StoreType, File
<1> HIDE DEF Flag, broken
<1>6. Positions(t) = Positions(s) /\ \A p \in Positions(s) : t.files[p] = Flag(p)
  BY <1>1 DEF Positions
<1>7. Unflagged(t) = Unflagged(s) \ bad
  BY <1>3, <1>4, <1>6 DEF Unflagged
<1>8. \A p \in Positions(s) :
         /\ t.files[p].id = s.files[p].id /\ t.files[p].type = s.files[p].type
         /\ t.files[p].api = s.files[p].api /\ t.files[p].corrupt = s.files[p].corrupt
  BY <1>5, <1>6
<1> QED
  BY <1>1, <1>3, <1>6, <1>7, <1>8 DEF Flags, t, bad

LEMMA FlagPlain ==
    ASSUME NEW s, StoreOK(s), Plain(s), NEW max \in Nat
    PROVE  SamePlain(s, FlagUnsendable(s, max)) /\ SameSending(s, FlagUnsendable(s, max))
<1> DEFINE t == FlagUnsendable(s, max)
           bad == {p \in Scanned(s, max) : ~Sendable(s, p)}
<1>1. Flags(s, t, bad)
  BY FlagIs
<1> HIDE DEF t, bad
<1>2. s.nextPos \in Nat
  BY DEF StoreOK, StoreType
<1>3. Plain(t)
  BY <1>1 DEF Flags, Plain
<1>4. IdsFrom(s, t)
  BY <1>1, <1>2 DEF Flags, IdsFrom
<1> QED
  BY <1>1, <1>3, <1>4 DEF Flags, SamePlain, SameSending, t

\* Stores s and t have the same messages under the numbers below n.
SameBelow(s, t, n) ==
    /\ t.meta.offset = s.meta.offset /\ t.meta.sequence = s.meta.sequence
    /\ n <= Top(t) /\ Sent(t) = Sent(s)
    /\ \A p \in Unflagged(t) : Number(t, p) < n => p \in Unflagged(s) /\ Number(s, p) = Number(t, p)
    /\ \A p \in Unflagged(s) : Number(s, p) < n => p \in Unflagged(t) /\ Number(t, p) = Number(s, p)

(***************************************************************************)
(* get_pending_messages renumbers nothing below a number up to which all   *)
(* messages can be sent.                                                   *)
(***************************************************************************)
LEMMA FlagSameBelow ==
    ASSUME NEW s, StoreOK(s), s.damage = {}, NEW t, StoreOK(t), NEW bad, Flags(s, t, bad),
           bad \subseteq Pending(s), \A p \in bad : ~Sendable(s, p),
           NEW n \in Int, s.meta.sequence <= n, n <= Top(s),
           \A p \in Pending(s) : Number(s, p) < n => Sendable(s, p)
    PROVE  SameBelow(s, t, n)
<1> DEFINE U == Unflagged(s)
           V == Unflagged(t)
           k == n - Base(s)
<1>1. /\ U \subseteq Nat /\ IsFiniteSet(U) /\ Cardinality(U) \in Nat
      /\ s.meta.offset \in Nat /\ s.meta.sequence \in Int /\ s.meta.offset <= Cardinality(U)
  BY FilesFinite DEF StoreOK, OffsetInQueue
<1>2. V = U \ bad /\ t.meta = s.meta /\ t.damage = {} /\ t.nextPos = s.nextPos
  BY DEF Flags
<1>3. V \subseteq Nat /\ IsFiniteSet(V) /\ Cardinality(V) \in Nat
  BY <1>1, <1>2, SubsetCount
<1>4. k \in Nat /\ s.meta.offset <= k /\ k <= Cardinality(U)
  BY <1>1 DEF Base, Top
<1>5. \A p \in U : Rank(U, p) \in Nat /\ (Rank(U, p) < k <=> Number(s, p) < n)
  <2>1. \A p \in U : Rank(U, p) \in Nat
    BY <1>1, RankFacts
  <2> QED
    BY <1>1, <2>1 DEF Number, Base
<1>6. First(U, k) \subseteq V
  <2>1. SUFFICES ASSUME NEW p \in U, Rank(U, p) < k, p \in bad PROVE FALSE
    BY <1>2 DEF First
  <2> QED
    BY <1>5, <2>1
<1>7. s.nextPos \in Nat /\ (\A p \in U : p < s.nextPos) /\ (\A p \in V \ U : p >= s.nextPos)
  BY <1>2 DEF StoreOK, StoreType, Unflagged
<1>8. /\ \A p \in First(U, k) : Rank(V, p) = Rank(U, p)
      /\ First(V, k) = First(U, k) /\ k <= Cardinality(V)
  <2> HIDE DEF U, V, k
  <2> QED
    BY <1>1, <1>3, <1>4, <1>6, <1>7, FirstKept
<1>9. \A p \in V : Rank(V, p) \in Nat /\ (Rank(V, p) < k <=> Number(t, p) < n)
  <2>1. \A p \in V : Rank(V, p) \in Nat
    BY <1>3, RankFacts
  <2>2. \A p : Number(t, p) = Base(s) + Rank(V, p)
    BY <1>2 DEF Number, Base
  <2>3. Base(s) \in Int
    BY <1>1 DEF Base
  <2> HIDE DEF V
  <2> QED
    BY <2>1, <2>2, <2>3
<1>10. \A p \in First(U, k) : p \in V /\ p \in U /\ Number(t, p) = Number(s, p)
  BY <1>2, <1>6, <1>8 DEF Number, First
<1>11. \A p \in U : Number(s, p) < n => p \in First(U, k)
  BY <1>5 DEF First
<1>12. \A p \in V : Number(t, p) < n => p \in First(U, k)
  BY <1>8, <1>9 DEF First
<1>13. n <= Top(t)
  BY <1>1, <1>2, <1>3, <1>8 DEF Top, Base
<1>14. Sent(t) = Sent(s)
  <2>1. \A p : p \in Sent(s) <=> p \in U /\ Rank(U, p) < s.meta.offset
    BY DEF Sent
  <2>2. \A p : p \in Sent(t) <=> p \in V /\ Rank(V, p) < s.meta.offset
    BY <1>2 DEF Sent
  <2>3. ASSUME NEW p \in Sent(s) PROVE p \in Sent(t)
    <3>1. p \in First(U, k)
      BY <1>1, <1>4, <1>5, <2>1, <2>3 DEF First
    <3> QED
      BY <1>6, <1>8, <2>1, <2>2, <2>3, <3>1
  <2>4. ASSUME NEW p \in Sent(t) PROVE p \in Sent(s)
    <3>1. p \in First(V, k)
      BY <1>1, <1>4, <1>9, <2>2, <2>4 DEF First
    <3>2. p \in U
      BY <1>8, <3>1 DEF First
    <3> QED
      BY <1>8, <2>1, <2>2, <2>4, <3>1, <3>2
  <2> QED
    BY <2>3, <2>4
<1> HIDE DEF U, V, k
<1> QED
  BY <1>2, <1>10, <1>11, <1>12, <1>13, <1>14 DEF SameBelow, U, V

-----------------------------------------------------------------------------
(* What set_accepted_types does to the messages                            *)

LEMMA ReprocessPlain ==
    ASSUME NEW s, StoreOK(s), Plain(s), NEW accepted
    PROVE  SamePlain(s, ReprocessHolding(s, accepted))
<1> DEFINE H == ToHold(s, accepted)
           M == ToUnhold(s, accepted)
           n == s.nextPos
           moved == {Moved(s, M, p) : p \in M}
           from(x) == CHOOSE p \in M : Moved(s, M, p) = x
           Unheld(x) == [s.files[from(x)] EXCEPT
                           !.held = FALSE, !.dir = MovedDir(s, M, from(x))]
           Other(x) == [s.files[x] EXCEPT !.held = @ \/ x \in H]
           t == ReprocessHolding(s, accepted)
           origin(x) == IF x \in moved THEN from(x) ELSE x
<1>1. /\ t.files = [x \in (Positions(s) \ M) \cup moved |->
                      IF x \in moved THEN Unheld(x) ELSE Other(x)]
      /\ t.meta = s.meta /\ t.nextPos = n + Cardinality(M)
  BY DEF ReprocessHolding, StoreOK, StoreType, IsStore
<1> HIDE DEF t
<1>2. M \subseteq Positions(s) /\ IsFiniteSet(M) /\ M \subseteq Nat /\ Cardinality(M) \in Nat
  BY FilesFinite, SubsetCount DEF ToUnhold, StoreOK
<1> HIDE DEF H, M
<1>3. n \in Nat /\ \A p \in Positions(s) : p \in Nat /\ p < n
  BY DEF StoreOK, StoreType
<1>4. \A x \in moved : x >= n /\ from(x) \in M /\ Moved(s, M, from(x)) = x
  <2>1. SUFFICES ASSUME NEW p \in M
                 PROVE  LET x == Moved(s, M, p)
                        IN  x >= n /\ from(x) \in M /\ Moved(s, M, from(x)) = x
    OBVIOUS
  <2>2. Rank(M, p) \in Nat
    BY <1>2, RankFacts
  <2>3. Moved(s, M, p) >= n
    BY <1>3, <2>2 DEF Moved
  <2> QED
    BY <2>3
<1>5. \A p \in Positions(s) : s.files[p] \in File
  BY DEF StoreOK, StoreType
<1>6. \A x \in moved : Unheld(x).id = s.files[from(x)].id /\ Unheld(x).corrupt = s.files[from(x)].corrupt
  BY <1>2, <1>4, <1>5 DEF File
<1>7. \A x \in Positions(s) : Other(x).id = s.files[x].id /\ Other(x).corrupt = s.files[x].corrupt
  BY <1>5 DEF File
<1> HIDE DEF moved, Unheld, Other, from
<1>8. /\ Positions(t) = (Positions(s) \ M) \cup moved
      /\ \A x \in moved : t.files[x] = Unheld(x)
      /\ \A x \in Positions(s) \ M : t.files[x] = Other(x) /\ x \notin moved
  BY <1>1, <1>3, <1>4 DEF Positions
<1>9. \A x \in Positions(t) : /\ origin(x) \in Positions(s) /\ t.files[x].id = s.files[origin(x)].id
                              /\ t.files[x].corrupt = s.files[origin(x)].corrupt
  BY <1>2, <1>4, <1>6, <1>7, <1>8
<1>10. \A x, y \in Positions(t) : origin(x) = origin(y) => x = y
  <2>1. SUFFICES ASSUME NEW x \in Positions(t), NEW y \in Positions(t), origin(x) = origin(y)
                 PROVE  x = y
    OBVIOUS
  <2>2. CASE x \in moved /\ y \in moved
    BY <1>4, <2>1, <2>2
  <2>3. CASE x \in moved /\ y \notin moved
    BY <1>4, <1>8, <2>1, <2>3
  <2>4. CASE x \notin moved /\ y \in moved
    BY <1>4, <1>8, <2>1, <2>4
  <2>5. CASE x \notin moved /\ y \notin moved
    BY <2>1, <2>5
  <2> QED
    BY <2>2, <2>3, <2>4, <2>5
<1>11. \A p \in Positions(s) : s.files[p].id < n /\ ~s.files[p].corrupt /\ s.files[p].id \in Nat
  BY <1>5 DEF Plain, File
<1>12. \A p, q \in Positions(s) : s.files[p].id = s.files[q].id => p = q
  BY DEF Plain
<1>13. \A x \in Positions(s) \cap Positions(t) : t.files[x].id = s.files[x].id
  BY <1>3, <1>4, <1>7, <1>8
<1> HIDE DEF origin
<1>14. \A x \in Positions(t) : t.files[x].id < t.nextPos /\ ~t.files[x].corrupt
  <2>1. SUFFICES ASSUME NEW x \in Positions(t) PROVE t.files[x].id < t.nextPos /\ ~t.files[x].corrupt
    OBVIOUS
  <2>2. /\ origin(x) \in Positions(s) /\ t.files[x].id = s.files[origin(x)].id
        /\ t.files[x].corrupt = s.files[origin(x)].corrupt
    BY <1>9
  <2>3. t.nextPos \in Nat /\ n <= t.nextPos /\ n \in Nat
    <3>1. t.nextPos = n + Cardinality(M)
      BY <1>1
    <3> QED
      BY <1>2, <1>3, <3>1
  <2>4. s.files[origin(x)].id \in Nat /\ s.files[origin(x)].id < n /\ ~s.files[origin(x)].corrupt
    BY <1>11, <2>2
  <2> HIDE DEF n
  <2> QED
    BY <2>2, <2>3, <2>4
<1>15. \A x, y \in Positions(t) : t.files[x].id = t.files[y].id => x = y
  BY <1>9, <1>10, <1>12
<1>16. Plain(t)
  BY <1>14, <1>15 DEF Plain
<1>17. IdsFrom(s, t)
  <2>1. n <= t.nextPos
    BY <1>1, <1>2, <1>3
  <2>2. \A x \in Positions(t) : \E q \in Positions(s) : t.files[x].id = s.files[q].id
    BY <1>9
  <2> QED
    BY <2>1, <2>2 DEF IdsFrom
<1> QED
  BY <1>1, <1>13, <1>16, <1>17 DEF SamePlain, t

LEMMA SetAcceptedTypesPlain ==
    ASSUME NEW s, StoreOK(s), Plain(s), NEW accepted \in SUBSET Types
    PROVE  SamePlain(s, SetAcceptedTypes(s, accepted))
<1> DEFINE m == [s.meta EXCEPT !.accepted = accepted]
           a == [s EXCEPT !.meta = m]
           t == ReprocessHolding(a, accepted)
<1>1. m \in Meta /\ m.offset = s.meta.offset /\ m.sequence = s.meta.sequence
  BY DEF StoreOK, StoreType, Meta
<1>2. SetAcceptedTypes(s, accepted) = t
  <2>1. [s EXCEPT !.meta.accepted = accepted] = a
    BY DEF StoreOK, StoreType, IsStore
  <2> QED
    BY <2>1 DEF SetAcceptedTypes
<1> HIDE DEF m
<1>3. StoreOK(a) /\ a.files = s.files /\ a.meta = m
  BY <1>1, MetaOK
<1>4. a.nextPos = s.nextPos
  BY DEF StoreOK, StoreType, IsStore
<1> HIDE DEF a
<1>5. Plain(a)
  BY <1>3, <1>4 DEF Plain, Positions
<1>6. SamePlain(a, t)
  BY <1>3, <1>5, ReprocessPlain
<1> HIDE DEF t
<1> QED
  BY <1>1, <1>2, <1>3, <1>4, <1>6 DEF SamePlain, IdsFrom, Positions

-----------------------------------------------------------------------------
(* What got_next_expected does to the numbers                              *)

\* From store s to store t files were deleted, and n is the new sequence.
Answers(s, t, n) ==
    /\ t.nextPos = s.nextPos /\ t.meta.sequence = n /\ SameSending(s, t)
    /\ Positions(t) \subseteq Positions(s) /\ \A p \in Positions(t) : t.files[p] = s.files[p]

\* The messages that are left keep their numbers.
Acknowledges(s, t) ==
    /\ t.damage = s.damage /\ Base(t) \in {Base(s), s.meta.sequence} /\ Top(t) = Top(s)
    /\ Unflagged(t) \subseteq Unflagged(s)
    /\ \A p \in Unflagged(t) : Number(t, p) = Number(s, p)
    /\ \A p \in Positions(s) : p \in Positions(t) \/ p \in Sent(s)

LEMMA GotNextExpectedIs ==
    ASSUME NEW s, StoreOK(s), NEW n \in Int
    PROVE  /\ Answers(s, GotNextExpected(s, n), n)
           /\ NeedsResync(s, n) => GotNextExpected(s, n).meta.offset = 0
<1> DEFINE kept == IF n > s.meta.sequence THEN DeleteOldMessages(s) ELSE s
           t == GotNextExpected(s, n)
           k == NextOffset(s, n)
<1>1. StoreType(kept) /\ kept.meta = s.meta
  BY DeleteOldOK DEF StoreOK
<1>2. kept.nextPos = s.nextPos
  BY DEF DeleteOldMessages, StoreOK, StoreType, IsStore
<1>3. Positions(kept) \subseteq Positions(s) /\ \A p \in Positions(kept) : kept.files[p] = s.files[p]
  <2>1. CASE n > s.meta.sequence
    <3>1. kept.files = Keep(s, Positions(s) \ Sent(s))
      BY <2>1 DEF DeleteOldMessages, StoreOK, StoreType, IsStore
    <3> HIDE DEF kept
    <3> QED
      BY <3>1 DEF Keep, Positions
  <2>2. CASE ~(n > s.meta.sequence)
    BY <2>2
  <2> QED
    BY <2>1, <2>2
<1>4. t = [kept EXCEPT !.meta.offset = k, !.meta.sequence = n,
             !.damage = IF NeedsResync(s, n) THEN @ \cap {"broken"} ELSE @]
  BY DEF GotNextExpected
<1> HIDE DEF kept, t
<1>5. t.files = kept.files /\ t.nextPos = kept.nextPos
      /\ t.meta = [kept.meta EXCEPT !.offset = k, !.sequence = n]
  BY <1>1, <1>4 DEF StoreType, IsStore
<1>6. /\ t.meta.offset = k /\ t.meta.sequence = n
      /\ t.meta.accepted = s.meta.accepted /\ t.meta.api = s.meta.api
  <2> HIDE DEF k
  <2> QED
    BY <1>1, <1>5 DEF StoreType, Meta
<1>7. NeedsResync(s, n) => k = 0
  BY DEF NextOffset
<1> QED
  BY <1>2, <1>3, <1>5, <1>6, <1>7 DEF Answers, SameSending, Positions, t

LEMMA GotNextExpectedAcknowledges ==
    ASSUME NEW s, StoreOK(s), s.damage = {}, NEW n \in Int, ~NeedsResync(s, n)
    PROVE  Acknowledges(s, GotNextExpected(s, n))
<1> DEFINE kept == IF n > s.meta.sequence THEN DeleteOldMessages(s) ELSE s
           t == GotNextExpected(s, n)
           k == NextOffset(s, n)
           U == Unflagged(s)
<1>1. StoreType(kept) /\ kept.meta = s.meta /\ kept.damage = s.damage
  BY DeleteOldOK DEF StoreOK
<1>2. /\ t.files = kept.files /\ t.damage = s.damage
      /\ t.meta.offset = k /\ t.meta.sequence = n
  <2>1. t = [kept EXCEPT !.meta.offset = k, !.meta.sequence = n, !.damage = kept.damage]
    BY DEF GotNextExpected
  <2> HIDE DEF kept, k, t
  <2> QED
    BY <1>1, <2>1 DEF StoreType, IsStore, Meta
<1>3. Positions(t) = Positions(kept) /\ Unflagged(t) = Unflagged(kept)
  BY <1>2 DEF Unflagged, Positions
<1>4. /\ U \subseteq Nat /\ IsFiniteSet(U) /\ Cardinality(U) \in Nat
      /\ s.meta.offset \in Nat /\ s.meta.sequence \in Int /\ s.meta.offset <= Cardinality(U)
      /\ \A p \in U : Rank(U, p) \in Nat
  BY FilesFinite DEF StoreOK, OffsetInQueue
<1> HIDE DEF t
<1>5. CASE n > s.meta.sequence
  <2>1. k = n - s.meta.sequence
    BY <1>5 DEF NextOffset
  <2>2. Base(t) = s.meta.sequence
    BY <1>2, <1>4, <2>1 DEF Base
  <2>3. Unflagged(t) = Pending(s)
    BY <1>3, <1>5, DeleteOldOK DEF StoreOK
  <2>4. Pending(s) = U \ First(U, s.meta.offset)
    BY <1>4 DEF Pending, First
  <2>5. /\ Cardinality(Pending(s)) = Cardinality(U) - s.meta.offset
        /\ \A p \in Pending(s) : Rank(Pending(s), p) = Rank(U, p) - s.meta.offset
    <3> HIDE DEF U
    <3>1. U \subseteq Nat /\ IsFiniteSet(U) /\ s.meta.offset \in Nat /\ s.meta.offset <= Cardinality(U)
      BY <1>4
    <3>2. LET W == U \ First(U, s.meta.offset)
          IN  /\ Cardinality(W) = Cardinality(U) - s.meta.offset
              /\ \A p \in W : Rank(W, p) = Rank(U, p) - s.meta.offset
      BY <3>1, RankAfterFirst
    <3> QED
      BY <2>4, <3>2
  <2>6. Top(t) = Top(s)
    BY <1>4, <2>2, <2>3, <2>5 DEF Top, Base
  <2>7. \A p \in Pending(s) : p \in U /\ Number(t, p) = Number(s, p)
    <3>1. SUFFICES ASSUME NEW p \in Pending(s) PROVE p \in U /\ Number(t, p) = Number(s, p)
      OBVIOUS
    <3>2. p \in U /\ Rank(U, p) \in Nat
      BY <1>4 DEF Pending
    <3>3. Number(t, p) = Base(t) + Rank(Pending(s), p)
      BY <2>3 DEF Number, Base
    <3>4. Number(s, p) = Base(s) + Rank(U, p)
      BY DEF Number, Base
    <3> QED
      BY <1>4, <2>2, <2>5, <3>2, <3>3, <3>4 DEF Base
  <2>8. Positions(kept) = Positions(s) \ Sent(s)
    <3>1. kept.files = Keep(s, Positions(s) \ Sent(s))
      BY <1>5 DEF DeleteOldMessages, StoreOK, StoreType, IsStore
    <3> QED
      BY <3>1 DEF Keep, Positions
  <2>9. \A p \in Positions(s) : p \in Positions(t) \/ p \in Sent(s)
    BY <1>3, <2>8
  <2> QED
    BY <1>2, <2>2, <2>3, <2>6, <2>7, <2>9 DEF Acknowledges, t
<1>6. CASE ~(n > s.meta.sequence)
  <2>1. k = s.meta.offset + n - s.meta.sequence
    BY <1>6 DEF NextOffset
  <2>2. Base(t) = Base(s)
    BY <1>2, <1>4, <2>1 DEF Base
  <2>3. kept = s
    BY <1>6
  <2>4. Unflagged(t) = U /\ Positions(t) = Positions(s)
    BY <1>3, <2>3
  <2>5. Top(t) = Top(s)
    BY <2>2, <2>4 DEF Top
  <2>6. \A p \in U : Number(t, p) = Number(s, p)
    <3>1. \A p : Number(t, p) = Base(t) + Rank(U, p)
      BY <2>4 DEF Number, Base
    <3>2. \A p : Number(s, p) = Base(s) + Rank(U, p)
      BY DEF Number, Base
    <3> QED
      BY <2>2, <3>1, <3>2
  <2> QED
    BY <1>2, <2>2, <2>4, <2>5, <2>6 DEF Acknowledges, t
<1> QED
  BY <1>5, <1>6

-----------------------------------------------------------------------------
(* The store as a component *)

(***************************************************************************)
(* Every method of the store, and every fault it can meet, preserves       *)
(* StoreConsistent.                                                        *)
(***************************************************************************)
LEMMA StoreConsistentStep == StoreConsistent /\ [QueueNext]_queueVars => StoreConsistent'
<1> DEFINE Inv == StoreOK(queue) /\ onDisk \in Meta
<1>1. StoreConsistent <=> Inv
  BY DEF StoreConsistent, TypeOK, OffsetWithinQueue, StoreOK
<1>2. StoreConsistent' <=> Inv'
  BY DEF StoreConsistent, TypeOK, OffsetWithinQueue, StoreOK
<1>3. SUFFICES ASSUME Inv, [QueueNext]_queueVars PROVE Inv'
  BY <1>1, <1>2
<1>4. ASSUME NEW t \in Types, AddMessage(t) PROVE Inv'
  BY <1>3, <1>4, AddOK DEF AddMessage
<1>5. ASSUME NEW max \in Batches, ReadPending(max) PROVE Inv'
  BY <1>3, <1>5, FlagOK, QueueAssumption DEF ReadPending
<1>6. ASSUME NEW n \in Answered, PeerExpects(n) PROVE Inv'
  BY <1>3, <1>6, GotNextExpectedOK, QueueAssumption DEF PeerExpects
<1>7. ASSUME NEW accepted \in SUBSET Types, AcceptTypes(accepted) PROVE Inv'
  BY <1>3, <1>7, SetAcceptedTypesOK DEF AcceptTypes
<1>8. ASSUME NEW api \in Apis, SpeakApi(api) PROVE Inv'
  BY <1>3, <1>8, SetServerApiOK DEF SpeakApi
<1>9. CASE ExchangeSucceeded
  BY <1>3, <1>9, RecordSuccessOK DEF ExchangeSucceeded
<1>10. CASE ExchangeFailed
  BY <1>3, <1>10, RecordFailureOK DEF ExchangeFailed
<1>11. CASE Clear
  BY <1>3, <1>11, DeleteAllOK DEF Clear, StoreOK
<1>12. CASE Commit
  BY <1>3, <1>12 DEF Commit, StoreOK, StoreType
<1>13. CASE Restart
  BY <1>3, <1>13, ReloadOK DEF Restart
<1>14. CASE FileDamaged
  BY <1>3, <1>14, CorruptOK DEF FileDamaged
<1>15. CASE UNCHANGED queueVars
  BY <1>3, <1>15 DEF queueVars
<1> QED
  BY <1>3, <1>4, <1>5, <1>6, <1>7, <1>8, <1>9, <1>10, <1>11, <1>12, <1>13,
     <1>14, <1>15 DEF QueueNext

(***************************************************************************)
(* StoreConsistent holds of every reachable store.                         *)
(***************************************************************************)
THEOREM StoreConsistentAlways == QueueSpec => []StoreConsistent
<1>1. QueueInit => StoreConsistent
  BY NewStoreOK DEF QueueInit, StoreConsistent, TypeOK, OffsetWithinQueue, StoreOK
<1> QED
  BY <1>1, StoreConsistentStep, PTL DEF QueueSpec

(***************************************************************************)
(* Whatever number the peer answers with and whatever fails, the offset    *)
(* stays a natural number and every file is well formed and lies below the *)
(* name the next one takes.                                                *)
(***************************************************************************)
THEOREM TypeCorrect == QueueSpec => []TypeOK
<1>1. StoreConsistent => TypeOK
  BY DEF StoreConsistent
<1> QED
  BY <1>1, StoreConsistentAlways, PTL

(***************************************************************************)
(* The pending offset never points past the queue unless files went behind *)
(* its back, so that what is added next will be sent.                      *)
(***************************************************************************)
THEOREM OffsetCorrect == QueueSpec => []OffsetWithinQueue
<1>1. StoreConsistent => OffsetWithinQueue
  BY DEF StoreConsistent
<1> QED
  BY <1>1, StoreConsistentAlways, PTL

-----------------------------------------------------------------------------
(* What the peer acknowledged last *)

(***************************************************************************)
(* A method that leaves what was sent, and everything before it, in place  *)
(* renumbers nothing; nor does one that empties the store.                 *)
(***************************************************************************)
LEMMA StartKept ==
    ASSUME NEW s, StoreType(s), NEW t, StoreType(t), KeepsStart(s, t)
    PROVE  KeepsAcknowledged(s, t)
<1>1. CASE t.damage # {}
  BY <1>1 DEF KeepsAcknowledged
<1>2. CASE SameStart(s, t)
  <2>1. \A q \in Sent(s) : Rank(Unflagged(s), q) = Rank(Unflagged(t), q)
    <3>1. TAKE q \in Sent(s)
    <3>2. Unflagged(s) \subseteq Nat /\ Unflagged(t) \subseteq Nat
      BY FilesFinite
    <3>3. {p \in Unflagged(s) : p < q} = {p \in Unflagged(t) : p < q}
      BY <1>2, <3>1, <3>2 DEF SameStart
    <3> QED
      BY <3>3 DEF Rank
  <2>2. \A q \in Sent(s) : Number(t, q) = Number(s, q) /\ q \in Unflagged(t)
    BY <1>2, <2>1 DEF SameStart, Number
  <2> QED
    BY <2>2 DEF KeepsAcknowledged
<1>3. CASE StartsAfresh(s, t)
  BY <1>3 DEF StartsAfresh, KeepsAcknowledged
<1> QED
  BY <1>1, <1>2, <1>3 DEF KeepsStart

(***************************************************************************)
(* got_next_expected: unless it resynchronises, a lower answer takes the   *)
(* offset back as far as the sequence, and a higher one deletes everything *)
(* that was sent.                                                          *)
(***************************************************************************)
LEMMA GotNextExpectedNumbers ==
    ASSUME NEW s, StoreOK(s), NEW n \in Int
    PROVE  KeepsAcknowledged(s, GotNextExpected(s, n))
<1> DEFINE kept == IF n > s.meta.sequence THEN DeleteOldMessages(s) ELSE s
           t == GotNextExpected(s, n)
<1>1. StoreType(kept) /\ kept.meta = s.meta
  BY DeleteOldOK DEF StoreOK
<1>2. /\ t.files = kept.files
      /\ t.meta.offset = NextOffset(s, n) /\ t.meta.sequence = n
  <2> HIDE DEF kept
  <2>1. t = [kept EXCEPT !.meta.offset = NextOffset(s, n), !.meta.sequence = n,
               !.damage = IF NeedsResync(s, n) THEN @ \cap {"broken"} ELSE @]
    BY DEF GotNextExpected, kept
  <2> QED
    BY <2>1, <1>1 DEF StoreType, IsStore, Meta
<1> HIDE DEF t
<1>3. Unflagged(t) = Unflagged(kept)
  BY <1>2 DEF Unflagged, Positions
<1>4. CASE n > s.meta.sequence
  <2>1. Unflagged(t) = Pending(s)
    BY <1>3, <1>4, DeleteOldOK DEF StoreOK
  <2>2. Sent(s) \cap Pending(s) = {}
    BY FilesFinite DEF Sent, Pending, StoreOK
  <2>3. ~(t.meta.sequence <= s.meta.sequence)
    BY <1>2, <1>4, FilesFinite DEF StoreOK
  <2> QED
    BY <2>1, <2>2, <2>3 DEF KeepsAcknowledged, t
<1>5. CASE ~(n > s.meta.sequence)
  <2>1. Unflagged(t) = Unflagged(s)
    BY <1>3, <1>5
  <2>2. Sent(s) \subseteq Unflagged(t)
    BY <2>1 DEF Sent
  <2>3. ASSUME ~NeedsResync(s, n), NEW p \in Unflagged(s)
        PROVE  Number(t, p) = Number(s, p)
    <3>1. t.meta.offset = s.meta.offset + n - s.meta.sequence
      BY <1>2, <1>5, <2>3 DEF NextOffset
    <3>2. /\ s.meta.offset \in Nat /\ s.meta.sequence \in Int
          /\ Rank(Unflagged(s), p) \in Nat
      BY <2>3, FilesFinite DEF StoreOK
    <3> QED
      BY <1>2, <2>1, <3>1, <3>2 DEF Number
  <2> QED
    BY <1>2, <2>1, <2>2, <2>3 DEF KeepsAcknowledged, t
<1> QED
  BY <1>4, <1>5

(***************************************************************************)
(* Every method of the store, and every fault it can meet, keeps what the  *)
(* peer acknowledged last where the peer knows it.                         *)
(***************************************************************************)
LEMMA AcknowledgedStep ==
    StoreConsistent /\ [QueueNext]_queueVars => [KeepsAcknowledged(queue, queue')]_queueVars
<1>1. SUFFICES ASSUME StoreConsistent, QueueNext
               PROVE  KeepsAcknowledged(queue, queue')
  OBVIOUS
<1>2. StoreOK(queue) /\ StoreOK(queue')
  BY <1>1, StoreConsistentStep
     DEF StoreConsistent, TypeOK, OffsetWithinQueue, StoreOK
<1>3. SUFFICES ~KeepsStart(queue, queue') => KeepsAcknowledged(queue, queue')
  BY <1>2, StartKept DEF StoreOK
<1>4. ASSUME NEW t \in Types, AddMessage(t) PROVE KeepsStart(queue, queue')
  BY <1>2, <1>4, AddKeepsStart DEF AddMessage
<1>5. ASSUME NEW max \in Batches, ReadPending(max)
      PROVE  KeepsStart(queue, queue')
  BY <1>2, <1>5, FlagKeepsStart, QueueAssumption DEF ReadPending
<1>6. ASSUME NEW n \in Answered, PeerExpects(n)
      PROVE  KeepsAcknowledged(queue, queue')
  BY <1>2, <1>6, GotNextExpectedNumbers, QueueAssumption DEF PeerExpects
<1>7. ASSUME NEW accepted \in SUBSET Types, AcceptTypes(accepted)
      PROVE  KeepsStart(queue, queue')
  BY <1>2, <1>7, SetAcceptedTypesKeepsStart DEF AcceptTypes
<1>8. ASSUME NEW api \in Apis, SpeakApi(api) PROVE KeepsStart(queue, queue')
  <2>1. SameQueue(queue, queue')
    BY <1>2, <1>8 DEF SpeakApi, SetServerApi, SameQueue, StoreOK, StoreType,
                      IsStore, Meta
  <2> QED
    BY <2>1, SameKeeps
<1>9. CASE ExchangeSucceeded
  <2>1. SameQueue(queue, queue')
    BY <1>2, <1>9 DEF ExchangeSucceeded, RecordSuccess, SameQueue, StoreOK,
                      StoreType, IsStore, Meta
  <2>2. KeepsStart(queue, queue')
    BY <2>1, SameKeeps
  <2> QED
    BY <1>3, <2>2
<1>10. CASE ExchangeFailed
  <2>1. KeepsStart(queue, queue')
    BY <1>2, <1>10, RecordFailureKeepsStart DEF ExchangeFailed
  <2> QED
    BY <1>3, <2>1
<1>11. CASE Clear
  <2>1. queue'.files = Keep(queue, {}) /\ queue'.meta.offset = 0
    BY <1>2, <1>11
       DEF Clear, DeleteAllMessages, StoreOK, StoreType, IsStore, Meta
  <2>2. Unflagged(queue') = {}
    BY <2>1 DEF Unflagged, Positions, Keep
  <2>3. KeepsStart(queue, queue')
    BY <2>1, <2>2 DEF KeepsStart, StartsAfresh
  <2> QED
    BY <1>3, <2>3
<1>12. CASE Commit
  <2>1. SameQueue(queue, queue')
    BY <1>12 DEF Commit, SameQueue
  <2>2. KeepsStart(queue, queue')
    BY <2>1, SameKeeps
  <2> QED
    BY <1>3, <2>2
<1>13. CASE Restart
  <2>1. queue'.damage = {} => SameQueue(queue, queue')
    BY <1>2, <1>13 DEF Restart, Reload, SameQueue, StoreOK, StoreType, IsStore
  <2>2. KeepsStart(queue, queue')
    BY <2>1, SameKeeps DEF KeepsStart
  <2> QED
    BY <1>3, <2>2
<1>14. CASE FileDamaged
  <2>1. PICK p \in Positions(queue) : queue' = Corrupt(queue, p)
    BY <1>14 DEF FileDamaged
  <2>2. /\ queue'.files = [queue.files EXCEPT ![p].corrupt = TRUE]
        /\ queue'.meta = queue.meta
    BY <2>1, <1>2 DEF Corrupt, StoreOK, StoreType, IsStore
  <2>3. Unflagged(queue') = Unflagged(queue)
    BY <2>2, <1>2 DEF Unflagged, Positions, StoreOK, StoreType, File
  <2>4. SameStart(queue, queue')
    BY <2>2, <2>3 DEF SameStart, Sent
  <2>5. KeepsStart(queue, queue')
    BY <2>4 DEF KeepsStart
  <2> QED
    BY <1>3, <2>5
<1> QED
  BY <1>1, <1>3, <1>4, <1>5, <1>6, <1>7, <1>8, <1>9, <1>10, <1>11, <1>12,
     <1>13, <1>14 DEF QueueNext

(***************************************************************************)
(* Messages the peer has acknowledged and may ask for again keep their     *)
(* numbers, and their files, until it acknowledges more.                   *)
(***************************************************************************)
THEOREM AcknowledgedKeptAlways == QueueSpec => AcknowledgedKept
  BY StoreConsistentAlways, AcknowledgedStep, PTL DEF QueueSpec, AcknowledgedKept


-----------------------------------------------------------------------------
(* The invariant                                                           *)

PayloadRight(payload) ==
    payload.next \in Nat /\ payload.token \in Nat /\ IsFiniteSet(DOMAIN payload.messages)

\* The messages of the answer that are left are messages the server has.
Left(x) ==
    x.at \in Nat \ {0} /\ x.last \in Nat /\ (x.at <= x.last => x.last <= Len(Outbox))

ExchangeRight(x) ==
    \/ x.stage = "idle"
    \/ x.stage = "sent" /\ PayloadRight(x.payload)
    \/ /\ x.stage \in {"answered", "applied"}
       /\ DOMAIN x = {"stage", "at", "last", "next", "token"}
       /\ Left(x) /\ x.next \in Nat /\ x.token \in Nat
    \/ /\ x.stage \in {"messages", "handled"}
       /\ DOMAIN x = {"stage", "at", "last"} /\ Left(x)

ServerRight(r) ==
    DOMAIN r = {"log", "token"} /\ IsFiniteSet(DOMAIN r.log) /\ r.token \in Nat

LateRight(ls) == IsFiniteSet(ls) /\ \A payload \in ls : PayloadRight(payload)

\* Nobody but the request that is out has a token the server does not know
\* any more; while it is out, it is the only one that has a token.
TokensRight(mine, disk, x, given) ==
    /\ mine \in {NoToken, given} /\ disk \in {NoToken, given}
    /\ x.stage = "sent" => x.payload.token \in {NoToken, given} /\ mine = NoToken /\ disk = NoToken
    /\ x.stage = "answered" => x.token = given

ExchangeInv ==
    /\ StoreOK(store) /\ saved \in Meta
    /\ ExchangeRight(exchange) /\ ServerRight(server) /\ LateRight(late)
    /\ DOMAIN faults = {"kinds", "count"}
    /\ "late" \notin faults.kinds =>
         /\ late = {}
         /\ TokensRight(store.meta.exchange_token, saved.exchange_token, exchange, server.token)

-----------------------------------------------------------------------------
(* What the operations of the store do to the token and to the number of   *)
(* messages taken from the server                                          *)

\* They stay.
Keeps(s, t) ==
    /\ StoreOK(t) /\ t.meta.exchange_token = s.meta.exchange_token
    /\ t.meta.server_sequence = s.meta.server_sequence

LEMMA FlagKeeps ==
    ASSUME NEW s, StoreOK(s), NEW max \in Nat PROVE Keeps(s, FlagUnsendable(s, max))
  <1>1. FlagUnsendable(s, max).meta = s.meta
    BY DEF FlagUnsendable, StoreOK, StoreType, IsStore
  <1>. QED  BY <1>1, FlagOK DEF Keeps

LEMMA AddKeeps ==
    ASSUME NEW s, StoreOK(s), NEW type \in Types, NEW gone PROVE Keeps(s, Add(s, type, gone))
  <1>. DEFINE lost == {p \in Positions(s) : s.files[p].dir \in gone}
              t == [s EXCEPT !.files = Keep(s, Positions(s) \ lost), !.dirs = @ \ gone,
                             !.damage = @ \cup (IF lost \cap Unflagged(s) = {}
                                                THEN {} ELSE {"trimmed"})]
              u == DeleteMessagesOverLimit(s, gone)
  <1>1. u = IF Cardinality(Positions(t)) > MaxSize THEN DeleteAllMessages(t) ELSE t
    BY DEF DeleteMessagesOverLimit
  <1>2. t.meta = s.meta /\ DOMAIN t = DOMAIN s
    BY DEF StoreOK, StoreType, IsStore
  <1>. HIDE DEF t
  <1>3. DeleteAllMessages(t).meta = [t.meta EXCEPT !.offset = 0]
    BY <1>2 DEF DeleteAllMessages, StoreOK, StoreType, IsStore
  <1>4. /\ u.meta.exchange_token = s.meta.exchange_token
        /\ u.meta.server_sequence = s.meta.server_sequence
    BY <1>1, <1>2, <1>3 DEF StoreOK, StoreType, Meta
  <1>. HIDE DEF u
  <1>5. StoreOK(u)
    BY TrimOK DEF u
  <1>6. Write(u, type).meta = u.meta
    BY <1>5 DEF Write, StoreOK, StoreType, IsStore
  <1>7. Add(s, type, gone) = s \/ Add(s, type, gone) = Write(u, type)
    BY DEF Add, u
  <1>. QED  BY <1>4, <1>6, <1>7, AddOK DEF Keeps

LEMMA GotNextExpectedKeeps ==
    ASSUME NEW s, StoreOK(s), NEW n \in Int PROVE Keeps(s, GotNextExpected(s, n))
  <1>. DEFINE kept == IF n > s.meta.sequence THEN DeleteOldMessages(s) ELSE s
              t == GotNextExpected(s, n)
  <1>1. StoreType(kept) /\ kept.meta = s.meta
    BY DeleteOldOK DEF StoreOK
  <1>. HIDE DEF kept
  <1>2. t.meta = [kept.meta EXCEPT !.offset = NextOffset(s, n), !.sequence = n]
    BY <1>1 DEF GotNextExpected, StoreType, IsStore, kept
  <1>3. /\ t.meta.exchange_token = s.meta.exchange_token
        /\ t.meta.server_sequence = s.meta.server_sequence
    <2>. HIDE DEF t
    <2>. QED  BY <1>1, <1>2 DEF StoreType, Meta
  <1>. QED  BY <1>3, GotNextExpectedOK DEF Keeps

LEMMA SetAcceptedTypesKeeps ==
    ASSUME NEW s, StoreOK(s), NEW accepted \in SUBSET Types
    PROVE  Keeps(s, SetAcceptedTypes(s, accepted))
  <1>. DEFINE m == [s.meta EXCEPT !.accepted = accepted]
              t == [s EXCEPT !.meta.accepted = accepted]
  <1>1. /\ m \in Meta /\ m.offset = s.meta.offset
        /\ m.exchange_token = s.meta.exchange_token
        /\ m.server_sequence = s.meta.server_sequence
    BY DEF StoreOK, StoreType, Meta
  <1>2. t = [s EXCEPT !.meta = m]
    BY DEF StoreOK, StoreType, IsStore
  <1>. HIDE DEF m, t
  <1>3. StoreOK(t) /\ t.meta = m
    BY <1>1, <1>2, MetaOK
  <1>4. ReprocessHolding(t, accepted).meta = t.meta
    BY <1>3 DEF ReprocessHolding, StoreOK, StoreType, IsStore
  <1>. QED  BY <1>1, <1>3, <1>4, SetAcceptedTypesOK DEF Keeps, SetAcceptedTypes, t

\* The metadata changes, but not the offset.
LEMMA MetaChanges ==
    ASSUME NEW s, StoreOK(s), NEW m \in Meta, m.offset = s.meta.offset, NEW t,
           t = [s EXCEPT !.meta = m]
    PROVE  StoreOK(t) /\ t.meta = m
  BY MetaOK

LEMMA SetServerApiKeeps ==
    ASSUME NEW s, StoreOK(s), NEW api \in Apis PROVE Keeps(s, SetServerApi(s, api))
  <1>. DEFINE m == [s.meta EXCEPT !.api = api]
  <1>1. /\ m \in Meta /\ m.offset = s.meta.offset
        /\ m.exchange_token = s.meta.exchange_token
        /\ m.server_sequence = s.meta.server_sequence
    BY DEF StoreOK, StoreType, Meta
  <1>2. SetServerApi(s, api) = [s EXCEPT !.meta = m]
    BY DEF SetServerApi, StoreOK, StoreType, IsStore
  <1>. HIDE DEF m
  <1>. QED  BY <1>1, <1>2, MetaChanges DEF Keeps

LEMMA RecordSuccessKeeps ==
    ASSUME NEW s, StoreOK(s) PROVE Keeps(s, RecordSuccess(s))
  <1>. DEFINE m == [s.meta EXCEPT !.failing = FALSE, !.blackhole = FALSE]
  <1>1. /\ m \in Meta /\ m.offset = s.meta.offset
        /\ m.exchange_token = s.meta.exchange_token
        /\ m.server_sequence = s.meta.server_sequence
    BY DEF StoreOK, StoreType, Meta
  <1>2. RecordSuccess(s) = [s EXCEPT !.meta = m]
    BY DEF RecordSuccess, StoreOK, StoreType, IsStore
  <1>. HIDE DEF m
  <1>. QED  BY <1>1, <1>2, MetaChanges DEF Keeps

\* Within the first week
LEMMA RecordFailureKeeps ==
    ASSUME NEW s, StoreOK(s) PROVE Keeps(s, RecordFailure(s, FALSE, {}))
  <1>. DEFINE m == [s.meta EXCEPT !.failing = TRUE]
              t == RecordFailure(s, FALSE, {})
  <1>1. /\ m \in Meta /\ m.offset = s.meta.offset
        /\ m.exchange_token = s.meta.exchange_token
        /\ m.server_sequence = s.meta.server_sequence
    BY DEF StoreOK, StoreType, Meta
  <1>2. t = [s EXCEPT !.meta = m]
    BY DEF RecordFailure, StoreOK, StoreType, IsStore
  <1>. HIDE DEF m, t
  <1>3. StoreOK(t) /\ t.meta = m
    BY <1>1, <1>2, MetaChanges
  <1>. QED  BY <1>1, <1>3 DEF t, Keeps

LEMMA TokenSet ==
    ASSUME NEW s, StoreOK(s), NEW token \in Nat
    PROVE  LET t == [s EXCEPT !.meta.exchange_token = token]
           IN  /\ StoreOK(t) /\ t.meta.exchange_token = token
               /\ t.meta.server_sequence = s.meta.server_sequence
  <1>. DEFINE m == [s.meta EXCEPT !.exchange_token = token]
              t == [s EXCEPT !.meta.exchange_token = token]
  <1>1. /\ m \in Meta /\ m.offset = s.meta.offset
        /\ m.exchange_token = token /\ m.server_sequence = s.meta.server_sequence
    BY DEF StoreOK, StoreType, Meta
  <1>2. t = [s EXCEPT !.meta = m]
    BY DEF StoreOK, StoreType, IsStore
  <1>. HIDE DEF m, t
  <1>3. StoreOK(t) /\ t.meta = m
    BY <1>1, <1>2, MetaChanges
  <1>. QED  BY <1>1, <1>3 DEF t

LEMMA SequenceSet ==
    ASSUME NEW s, StoreOK(s), NEW n \in Nat
    PROVE  LET t == [s EXCEPT !.meta.server_sequence = n]
           IN  /\ StoreOK(t) /\ t.meta.exchange_token = s.meta.exchange_token
               /\ t.meta.server_sequence = n
  <1>. DEFINE m == [s.meta EXCEPT !.server_sequence = n]
              t == [s EXCEPT !.meta.server_sequence = n]
  <1>1. /\ m \in Meta /\ m.offset = s.meta.offset
        /\ m.exchange_token = s.meta.exchange_token /\ m.server_sequence = n
    BY DEF StoreOK, StoreType, Meta
  <1>2. t = [s EXCEPT !.meta = m]
    BY DEF StoreOK, StoreType, IsStore
  <1>. HIDE DEF m, t
  <1>3. StoreOK(t) /\ t.meta = m
    BY <1>1, <1>2, MetaChanges
  <1>. QED  BY <1>1, <1>3 DEF t

LEMMA ReloadMeta ==
    ASSUME NEW s, StoreOK(s), NEW disk \in Meta
    PROVE  StoreOK(Reload(s, disk)) /\ Reload(s, disk).meta = disk
  <1>1. Reload(s, disk).meta = disk
    BY DEF Reload, StoreOK, StoreType, IsStore
  <1>. QED  BY <1>1, ReloadOK

-----------------------------------------------------------------------------
(* Requests and answers                                                    *)

LEMMA PayloadIsRight ==
    ASSUME NEW s, StoreOK(s)
    PROVE  PayloadRight(Payload(s)) /\ Payload(s).token = s.meta.exchange_token
  <1>. DEFINE batch == SameApi(s, GetPendingMessages(s, MaxMessages))
  <1>1. batch \subseteq Positions(s)
    BY DEF SameApi, GetPendingMessages, Scanned, Pending, Unflagged
  <1>2. Cardinality(batch) \in Nat
    BY <1>1, FilesFinite, SubsetCount DEF StoreOK
  <1>. HIDE DEF batch
  <1>3. s.meta \in Meta
    BY DEF StoreOK, StoreType
  <1>4. IsFiniteSet(DOMAIN Numbered(s, batch))
    <2>1. s.meta.sequence \in Int /\ s.meta.sequence + Cardinality(batch) - 1 \in Int
      BY <1>2, <1>3 DEF Meta
    <2>2. IsFiniteSet(s.meta.sequence .. s.meta.sequence + Cardinality(batch) - 1)
      BY <2>1, FS_Interval
    <2>. QED  BY <2>2 DEF Numbered
  <1>5. s.meta.server_sequence \in Nat /\ s.meta.exchange_token \in Nat
    BY <1>3 DEF Meta
  <1>. QED  BY <1>4, <1>5 DEF PayloadRight, Payload, batch

\* There is always a token that nobody has.
LEMMA NewTokenRight == ASSUME LateRight(late) PROVE NewToken \in Nat
  <1>. DEFINE tokens == {payload.token : payload \in late}
              T == TokensInUse
              n == Cardinality(T)
  <1>1. IsFiniteSet(tokens)
    <2>1. [payload \in late |-> payload.token] \in Surjection(late, tokens)
      BY DEF Surjection
    <2>. HIDE DEF tokens
    <2>. QED  BY <2>1, FS_Surjection DEF LateRight
  <1>2. IsFiniteSet(T)
    <2>. DEFINE A == {NoToken, server.token, saved.exchange_token, store.meta.exchange_token}
                B == IF exchange.stage = "sent" THEN {exchange.payload.token} ELSE {}
    <2>1. T = (A \cup tokens) \cup B
      BY DEF TokensInUse
    <2>2. IsFiniteSet(A)
      <3>1. A = (({NoToken} \cup {server.token}) \cup {saved.exchange_token}) \cup {store.meta.exchange_token}
        OBVIOUS
      <3>2. \A x : IsFiniteSet({x})
        BY FS_Singleton
      <3>. HIDE DEF A
      <3>3. IsFiniteSet({NoToken} \cup {server.token})
        BY <3>2, FS_Union
      <3>4. IsFiniteSet(({NoToken} \cup {server.token}) \cup {saved.exchange_token})
        BY <3>2, <3>3, FS_Union
      <3>. QED  BY <3>1, <3>2, <3>4, FS_Union
    <2>3. IsFiniteSet(B)
      BY FS_Singleton, FS_EmptySet
    <2>. HIDE DEF A, B, T, tokens
    <2>4. IsFiniteSet(A \cup tokens)
      BY <1>1, <2>2, FS_Union
    <2>. QED  BY <2>1, <2>3, <2>4, FS_Union
  <1>. HIDE DEF T
  <1>3. n \in Nat
    BY <1>2, FS_CardinalityType
  <1>. HIDE DEF n
  <1>4. (0 .. n) \ T # {}
    <2>1. SUFFICES ASSUME (0 .. n) \subseteq T PROVE FALSE
      BY <1>3
    <2>2. Cardinality(0 .. n) <= n
      BY <1>2, <2>1, FS_Subset DEF n
    <2>3. Cardinality(0 .. n) = n + 1
      BY <1>3, FS_Interval
    <2>. QED  BY <1>3, <2>2, <2>3
  <1>. DEFINE U == (0 .. n) \ T
  <1>5. U \subseteq Nat /\ U # {}
    BY <1>3, <1>4
  <1>. HIDE DEF U
  <1>6. \E x \in U : \A y \in U : x <= y
    BY <1>5, LeastElement
  <1>7. Min(U) \in U
    BY <1>6 DEF Min
  <1>. QED  BY <1>5, <1>7 DEF NewToken, U, n, T

\* What the server knows after a request
LEMMA ReceiveRight ==
    ASSUME ServerRight(server), LateRight(late), NEW payload, PayloadRight(payload), Receive(payload)
    PROVE  ServerRight(server') /\ server'.token = NewToken
  <1>1. server' = [log |-> Received(payload), token |-> NewToken]
    BY DEF Receive
  <1>2. IsFiniteSet(DOMAIN server.log \cup DOMAIN payload.messages)
    BY FS_Union DEF ServerRight, PayloadRight
  <1>3. IsFiniteSet(DOMAIN Received(payload))
    BY <1>2 DEF Received, ServerRight
  <1>. QED  BY <1>1, <1>3, NewTokenRight DEF ServerRight

-----------------------------------------------------------------------------
(* The steps                                                               *)

LEMMA InvIs ==
    ASSUME ExchangeInv
    PROVE  /\ StoreOK(store) /\ saved \in Meta /\ store.meta \in Meta
           /\ ExchangeRight(exchange) /\ ServerRight(server) /\ LateRight(late)
           /\ DOMAIN faults = {"kinds", "count"}
           /\ "late" \notin faults.kinds =>
                /\ late = {}
                /\ TokensRight(store.meta.exchange_token, saved.exchange_token, exchange, server.token)
  BY DEF ExchangeInv, StoreOK, StoreType

\* Messages are added.
LEMMA AddedStep ==
    ASSUME ExchangeInv, Keeps(store, store'), UNCHANGED <<saved, exchange, late, server, faults>>
    PROVE  ExchangeInv'
  BY InvIs DEF ExchangeInv, Keeps

LEMMA SendStep ==
    ASSUME ExchangeInv,
           (\E t \in Types : SendMessage(t)) \/ (\E op \in contexts : SendResult(op))
    PROVE  ExchangeInv'
  <1>1. \E t \in Types : \E gone : store' = Add(store, t, gone)
    BY ExchangeAssumption DEF SendMessage, SendResult
  <1>2. UNCHANGED <<saved, exchange, late, server, faults>>
    BY DEF SendMessage, SendResult
  <1>. QED  BY <1>1, <1>2, InvIs, AddKeeps, AddedStep

LEMMA BeginStep == ASSUME ExchangeInv, Begin PROVE ExchangeInv'
  <1>. DEFINE s == FlagUnsendable(store, MaxMessages)
              x == [stage |-> "sent", payload |-> Payload(store)]
  <1>1. /\ exchange = Idle /\ exchange' = x
        /\ store' = [s EXCEPT !.meta.exchange_token = NoToken] /\ saved' = store'.meta
        /\ UNCHANGED <<late, server, faults>>
    BY DEF Begin, TakeToken
  <1>2. Keeps(store, s)
    BY InvIs, FlagKeeps, ExchangeAssumption
  <1>. HIDE DEF s
  <1>3. StoreOK(store') /\ store'.meta.exchange_token = NoToken
    BY <1>1, <1>2, TokenSet DEF Keeps, NoToken
  <1>4. saved' \in Meta /\ saved'.exchange_token = NoToken
    BY <1>1, <1>3 DEF StoreOK, StoreType
  <1>5. x.stage = "sent" /\ x.payload = Payload(store)
    OBVIOUS
  <1>. HIDE DEF x
  <1>6. PayloadRight(x.payload) /\ x.payload.token = store.meta.exchange_token
    BY <1>5, InvIs, PayloadIsRight
  <1>7. ExchangeRight(x)
    BY <1>5, <1>6 DEF ExchangeRight
  <1>8. ASSUME "late" \notin faults.kinds
        PROVE  TokensRight(NoToken, NoToken, x, server.token)
    BY <1>5, <1>6, <1>8, InvIs DEF TokensRight
  <1>. QED  BY <1>1, <1>3, <1>4, <1>7, <1>8, InvIs DEF ExchangeInv

LEMMA FaultCounted ==
    ASSUME ExchangeInv, NEW kind, Fault(kind)
    PROVE  DOMAIN faults' = {"kinds", "count"} /\ faults'.kinds = faults.kinds /\ kind \in faults.kinds
  <1>1. faults' = [faults EXCEPT !.count = faults.count + 1] /\ kind \in faults.kinds
    BY DEF Fault
  <1>. QED  BY <1>1, InvIs

LEMMA IdleFacts ==
    ASSUME NEW mine, NEW disk, NEW given
    PROVE  /\ ExchangeRight(Idle)
           /\ mine \in {NoToken, given} /\ disk \in {NoToken, given}
                => TokensRight(mine, disk, Idle, given)
  BY DEF Idle, ExchangeRight, TokensRight

LEMMA RequestFailsStep == ASSUME ExchangeInv, RequestFails PROVE ExchangeInv'
  <1>1. Fault("loss") /\ exchange' = Idle /\ UNCHANGED <<store, saved, late, server>>
    BY DEF RequestFails
  <1>2. DOMAIN faults' = {"kinds", "count"} /\ faults'.kinds = faults.kinds
    BY <1>1, FaultCounted
  <1>3. ASSUME "late" \notin faults.kinds
        PROVE  TokensRight(store.meta.exchange_token, saved.exchange_token, Idle, server.token)
    BY <1>3, InvIs, IdleFacts DEF TokensRight
  <1>. QED  BY <1>1, <1>2, <1>3, InvIs, IdleFacts DEF ExchangeInv

\* A request that may still arrive
LEMMA LateAdded ==
    ASSUME ExchangeInv, exchange.stage = "sent" PROVE LateRight(late \cup {exchange.payload})
  <1>1. PayloadRight(exchange.payload)
    BY InvIs DEF ExchangeRight
  <1>2. IsFiniteSet(late \cup {exchange.payload})
    BY InvIs, FS_AddElement DEF LateRight
  <1>. QED  BY <1>1, <1>2, InvIs DEF LateRight

LEMMA RequestTimesOutStep == ASSUME ExchangeInv, RequestTimesOut PROVE ExchangeInv'
  <1>1. /\ Fault("late") /\ exchange.stage = "sent" /\ exchange' = Idle
        /\ late' = late \cup {exchange.payload} /\ UNCHANGED <<store, saved, server>>
    BY DEF RequestTimesOut
  <1>2. DOMAIN faults' = {"kinds", "count"} /\ faults'.kinds = faults.kinds /\ "late" \in faults.kinds
    BY <1>1, FaultCounted
  <1>. QED  BY <1>1, <1>2, InvIs, IdleFacts, LateAdded DEF ExchangeInv

LEMMA ServerAnswersStep == ASSUME ExchangeInv, ServerAnswers PROVE ExchangeInv'
  <1>. DEFINE n == exchange.payload.next
              x(last) == [stage |-> "answered", at |-> n + 1, last |-> last,
                          next |-> Cardinality(DOMAIN server'.log), token |-> server'.token]
  <1>1. /\ exchange.stage = "sent" /\ Receive(exchange.payload)
        /\ UNCHANGED <<store, saved, late, faults>>
    BY DEF ServerAnswers
  <1>2. PICK last \in LastSent(exchange.payload) : exchange' = x(last)
    BY DEF ServerAnswers
  <1>3. PayloadRight(exchange.payload)
    BY <1>1, InvIs DEF ExchangeRight
  <1>4. ServerRight(server')
    BY <1>1, <1>3, InvIs, ReceiveRight
  <1>5. exchange'.stage = "answered" /\ exchange'.token = server'.token
    BY <1>2
  <1>6. ExchangeRight(exchange')
    <2>1. n \in Nat /\ Len(Outbox) \in Nat
      BY <1>3, ExchangeAssumption DEF PayloadRight
    <2>2. last \in IF n < Len(Outbox) THEN n + 1 .. Len(Outbox) ELSE {n}
      BY DEF LastSent
    <2>3. Cardinality(DOMAIN server'.log) \in Nat /\ server'.token \in Nat
      BY <1>4, FS_CardinalityType DEF ServerRight
    <2>. DEFINE c == Cardinality(DOMAIN server'.log)
                t == server'.token
    <2>4. exchange' = [stage |-> "answered", at |-> n + 1, last |-> last, next |-> c, token |-> t]
      BY <1>2
    <2>5. c \in Nat /\ t \in Nat
      BY <2>3
    <2>. HIDE DEF c, t, n
    <2>6. last \in Nat /\ (n + 1 <= last => last <= Len(Outbox))
      BY <2>1, <2>2
    <2>7. Left(exchange')
      BY <2>1, <2>4, <2>6 DEF Left
    <2>8. /\ exchange'.stage = "answered" /\ exchange'.next = c /\ exchange'.token = t
          /\ DOMAIN exchange' = {"stage", "at", "last", "next", "token"}
      BY <2>4
    <2>. QED  BY <2>5, <2>7, <2>8 DEF ExchangeRight
  <1>7. ASSUME "late" \notin faults.kinds
        PROVE  TokensRight(store.meta.exchange_token, saved.exchange_token, exchange', server'.token)
    BY <1>1, <1>5, <1>7, InvIs DEF TokensRight
  <1>. QED  BY <1>1, <1>4, <1>6, <1>7, InvIs DEF ExchangeInv

LEMMA ServerRejectsStep == ASSUME ExchangeInv, ServerRejects PROVE ExchangeInv'
  <1>1. exchange' = Idle /\ UNCHANGED <<store, saved, late, server, faults>>
    BY DEF ServerRejects
  <1>2. ASSUME "late" \notin faults.kinds
        PROVE  TokensRight(store.meta.exchange_token, saved.exchange_token, Idle, server.token)
    BY <1>2, InvIs, IdleFacts DEF TokensRight
  <1>. QED  BY <1>1, <1>2, InvIs, IdleFacts DEF ExchangeInv

LEMMA ServerReceivesLateStep ==
    ASSUME ExchangeInv, NEW payload \in late, ServerReceivesLate(payload) PROVE ExchangeInv'
  <1>1. /\ late' = late \ {payload} /\ (Receive(payload) \/ UNCHANGED server)
        /\ UNCHANGED <<store, saved, exchange, faults>>
    BY DEF ServerReceivesLate
  <1>2. "late" \in faults.kinds
    BY InvIs
  <1>3. LateRight(late')
    BY <1>1, InvIs, FS_Subset DEF LateRight
  <1>4. ServerRight(server')
    BY <1>1, InvIs, ReceiveRight DEF LateRight
  <1>. QED  BY <1>1, <1>2, <1>3, <1>4, InvIs DEF ExchangeInv

LEMMA RollbackStep ==
    ASSUME ExchangeInv, NEW n \in 0 .. Expected - 1, Rollback(n) PROVE ExchangeInv'
  <1>. DEFINE log == [k \in 0 .. n - 1 |-> server.log[k]]
  <1>1. /\ Fault("rollback") /\ server' = [server EXCEPT !.log = log]
        /\ UNCHANGED <<store, saved, exchange, late>>
    BY DEF Rollback
  <1>2. DOMAIN faults' = {"kinds", "count"} /\ faults'.kinds = faults.kinds
    BY <1>1, FaultCounted
  <1>3. IsFiniteSet(DOMAIN log)
    <2>1. Expected \in Nat
      BY InvIs, FS_CardinalityType DEF ServerRight, Expected
    <2>2. IsFiniteSet(0 .. n - 1)
      BY <2>1, FS_Interval
    <2>. QED  BY <2>2
  <1>. HIDE DEF log
  <1>4. ServerRight(server') /\ server'.token = server.token
    BY <1>1, <1>3, InvIs DEF ServerRight
  <1>. QED  BY <1>1, <1>2, <1>4, InvIs DEF ExchangeInv

LEMMA ApplyAnswerStep == ASSUME ExchangeInv, ApplyAnswer PROVE ExchangeInv'
  <1>. DEFINE moved == GotNextExpected(store, exchange.next)
  <1>1. /\ exchange.stage = "answered" /\ exchange' = [exchange EXCEPT !.stage = "applied"]
        /\ UNCHANGED <<saved, late, server, faults>>
    BY DEF ApplyAnswer
  <1>2. PICK gone : store' = [(IF NeedsResync(store, exchange.next) THEN Add(moved, Resync, gone)
                               ELSE moved) EXCEPT !.meta.exchange_token = exchange.token]
    BY DEF ApplyAnswer
  <1>3. /\ exchange.next \in Nat /\ exchange.token \in Nat /\ Left(exchange)
        /\ DOMAIN exchange = {"stage", "at", "last", "next", "token"}
    BY <1>1, InvIs DEF ExchangeRight
  <1>4. StoreOK(moved)
    BY <1>3, InvIs, GotNextExpectedKeeps DEF Keeps
  <1>. DEFINE s == IF NeedsResync(store, exchange.next) THEN Add(moved, Resync, gone) ELSE moved
  <1>5. StoreOK(s)
    BY <1>4, AddKeeps, StoreAssumption DEF Keeps
  <1>6. store' = [s EXCEPT !.meta.exchange_token = exchange.token]
    BY <1>2
  <1>. HIDE DEF s
  <1>7. StoreOK(store') /\ store'.meta.exchange_token = exchange.token
    BY <1>3, <1>5, <1>6, TokenSet
  <1>8. ExchangeRight(exchange') /\ exchange'.stage = "applied"
    BY <1>1, <1>3 DEF ExchangeRight, Left
  <1>9. ASSUME "late" \notin faults.kinds
        PROVE  TokensRight(store'.meta.exchange_token, saved.exchange_token, exchange', server.token)
    BY <1>1, <1>7, <1>8, <1>9, InvIs DEF TokensRight
  <1>. QED  BY <1>1, <1>7, <1>8, <1>9, InvIs DEF ExchangeInv

LEMMA CommitAnswerStep == ASSUME ExchangeInv, CommitAnswer PROVE ExchangeInv'
  <1>1. /\ exchange.stage = "applied" /\ saved' = store'.meta
        /\ exchange' = [stage |-> "messages", at |-> exchange.at, last |-> exchange.last]
        /\ UNCHANGED <<late, server, faults>>
    BY DEF CommitAnswer
  <1>2. PICK api \in ServerApis : store' = AdoptApi(store, api)
    BY DEF CommitAnswer
  <1>3. store' = store \/ \E a \in Apis : store' = SetServerApi(store, a)
    BY <1>2, ExchangeAssumption DEF AdoptApi
  <1>4. Keeps(store, store')
    BY <1>3, InvIs, SetServerApiKeeps DEF Keeps
  <1>5. saved' \in Meta /\ saved'.exchange_token = store.meta.exchange_token
    BY <1>1, <1>4 DEF Keeps, StoreOK, StoreType
  <1>6. Left(exchange)
    BY <1>1, InvIs DEF ExchangeRight
  <1>7. ExchangeRight(exchange') /\ exchange'.stage = "messages"
    <2>1. /\ exchange'.stage = "messages" /\ exchange'.at = exchange.at
          /\ exchange'.last = exchange.last /\ DOMAIN exchange' = {"stage", "at", "last"}
      BY <1>1
    <2>. QED  BY <1>6, <2>1 DEF ExchangeRight, Left
  <1>8. ASSUME "late" \notin faults.kinds
        PROVE  TokensRight(store'.meta.exchange_token, saved'.exchange_token, exchange', server.token)
    BY <1>4, <1>5, <1>7, <1>8, InvIs DEF TokensRight, Keeps
  <1>. QED  BY <1>1, <1>4, <1>5, <1>7, <1>8, InvIs DEF ExchangeInv, Keeps

\* What the handlers of the exchange do to its store
LEMMA HandleMessageKeeps == ASSUME ExchangeInv, HandleMessage PROVE Keeps(store, store')
  <1>1. exchange.stage = "messages" /\ exchange.at <= exchange.last
    BY DEF HandleMessage, MessageLeft
  <1>2. PICK gone : store' = Handled(Message, gone)
    BY DEF HandleMessage
  <1>3. Left(exchange)
    BY <1>1, InvIs DEF ExchangeRight
  <1>4. Message \in ServerMessage
    <2>1. exchange.at \in 1 .. Len(Outbox)
      BY <1>1, <1>3, ExchangeAssumption DEF Left
    <2>. QED  BY <2>1, ExchangeAssumption DEF Message
  <1>5. /\ Message.type \in {"accepted-types", "resynchronize", "activity"}
        /\ Message.types \in SUBSET Types
    BY <1>4 DEF ServerMessage
  <1>6. CASE Message.type = "accepted-types"
    <2>. DEFINE s == SetAcceptedTypes(store, Message.types)
    <2>1. store' = FlagUnsendable(s, 1)
      BY <1>2, <1>6 DEF Handled
    <2>2. Keeps(store, s)
      BY <1>5, InvIs, SetAcceptedTypesKeeps
    <2>. HIDE DEF s
    <2>. QED  BY <2>1, <2>2, FlagKeeps DEF Keeps
  <1>7. CASE Message.type = "resynchronize"
    <2>1. store' = Add(store, Resync, gone)
      BY <1>2, <1>7 DEF Handled
    <2>. QED  BY <2>1, InvIs, AddKeeps, StoreAssumption
  <1>8. CASE Message.type = "activity"
    <2>1. store' = store
      BY <1>2, <1>8 DEF Handled
    <2>. QED  BY <2>1, InvIs DEF Keeps
  <1>. QED  BY <1>5, <1>6, <1>7, <1>8

LEMMA HandleMessageStep == ASSUME ExchangeInv, HandleMessage PROVE ExchangeInv'
  <1>1. /\ exchange.stage = "messages"
        /\ exchange' = [exchange EXCEPT !.stage = "handled"]
        /\ UNCHANGED <<saved, late, server, faults>>
    BY DEF HandleMessage, MessageLeft
  <1>2. Keeps(store, store')
    BY HandleMessageKeeps
  <1>3. Left(exchange) /\ DOMAIN exchange = {"stage", "at", "last"}
    BY <1>1, InvIs DEF ExchangeRight
  <1>4. ExchangeRight(exchange') /\ exchange'.stage = "handled"
    BY <1>1, <1>3 DEF ExchangeRight, Left
  <1>5. ASSUME "late" \notin faults.kinds
        PROVE  TokensRight(store'.meta.exchange_token, saved.exchange_token, exchange', server.token)
    BY <1>2, <1>4, <1>5, InvIs DEF TokensRight, Keeps
  <1>. QED  BY <1>1, <1>2, <1>4, <1>5, InvIs DEF ExchangeInv, Keeps

LEMMA CommitMessageStep == ASSUME ExchangeInv, CommitMessage PROVE ExchangeInv'
  <1>. DEFINE n == store.meta.server_sequence + 1
  <1>1. /\ exchange.stage = "handled" /\ saved' = store'.meta
        /\ store' = [store EXCEPT !.meta.server_sequence = n]
        /\ exchange' = [exchange EXCEPT !.stage = "messages", !.at = exchange.at + 1]
        /\ UNCHANGED <<late, server, faults>>
    BY DEF CommitMessage, NextServerSequence
  <1>2. n \in Nat
    BY InvIs DEF Meta
  <1>. HIDE DEF n
  <1>3. StoreOK(store') /\ store'.meta.exchange_token = store.meta.exchange_token
    BY <1>1, <1>2, InvIs, SequenceSet
  <1>4. saved' \in Meta /\ saved'.exchange_token = store.meta.exchange_token
    BY <1>1, <1>3 DEF StoreOK, StoreType
  <1>5. Left(exchange) /\ DOMAIN exchange = {"stage", "at", "last"} /\ Len(Outbox) \in Nat
    BY <1>1, InvIs, ExchangeAssumption DEF ExchangeRight
  <1>6. ExchangeRight(exchange') /\ exchange'.stage = "messages"
    <2>1. /\ exchange'.stage = "messages" /\ exchange'.at = exchange.at + 1
          /\ exchange'.last = exchange.last /\ DOMAIN exchange' = {"stage", "at", "last"}
      BY <1>1, <1>5
    <2>2. Left(exchange')
      BY <1>5, <2>1 DEF Left
    <2>. QED  BY <2>1, <2>2 DEF ExchangeRight
  <1>7. ASSUME "late" \notin faults.kinds
        PROVE  TokensRight(store'.meta.exchange_token, saved'.exchange_token, exchange', server.token)
    BY <1>3, <1>4, <1>6, <1>7, InvIs DEF TokensRight
  <1>. QED  BY <1>1, <1>3, <1>4, <1>6, <1>7, InvIs DEF ExchangeInv

\* An exchange comes to its end.
LEMMA EndStep ==
    ASSUME ExchangeInv, Keeps(store, store'), exchange' = Idle, UNCHANGED <<saved, late, server, faults>>
    PROVE  ExchangeInv'
  <1>1. ASSUME "late" \notin faults.kinds
        PROVE  TokensRight(store'.meta.exchange_token, saved.exchange_token, Idle, server.token)
    BY <1>1, InvIs, IdleFacts DEF TokensRight, Keeps
  <1>. QED  BY <1>1, InvIs, IdleFacts DEF ExchangeInv, Keeps

LEMMA FinishStep == ASSUME ExchangeInv, Finish PROVE ExchangeInv'
  <1>. DEFINE s == FlagUnsendable(store, 1)
  <1>1. store' = RecordSuccess(s) /\ exchange' = Idle /\ UNCHANGED <<saved, late, server, faults>>
    BY DEF Finish
  <1>2. Keeps(store, s)
    BY InvIs, FlagKeeps
  <1>. HIDE DEF s
  <1>3. Keeps(store, store')
    BY <1>1, <1>2, RecordSuccessKeeps DEF Keeps
  <1>. QED  BY <1>1, <1>3, EndStep

LEMMA HandlerRaisesStep == ASSUME ExchangeInv, HandlerRaises PROVE ExchangeInv'
  <1>1. /\ store' = RecordFailure(store, FALSE, {}) /\ exchange' = Idle
        /\ UNCHANGED <<saved, late, server, faults>>
    BY DEF HandlerRaises
  <1>2. Keeps(store, store')
    BY <1>1, InvIs, RecordFailureKeeps
  <1>. QED  BY <1>1, <1>2, EndStep

LEMMA CrashStep == ASSUME ExchangeInv, Crash PROVE ExchangeInv'
  <1>1. /\ Fault("crash") /\ store' = Reload(store, saved) /\ exchange' = Idle
        /\ \/ late' = late
           \/ /\ exchange.stage = "sent" /\ "late" \in faults.kinds
              /\ late' = late \cup {exchange.payload}
        /\ UNCHANGED <<saved, server>>
    BY DEF Crash
  <1>2. DOMAIN faults' = {"kinds", "count"} /\ faults'.kinds = faults.kinds
    BY <1>1, FaultCounted
  <1>3. StoreOK(store') /\ store'.meta = saved
    BY <1>1, InvIs, ReloadMeta
  <1>4. LateRight(late')
    BY <1>1, InvIs, LateAdded
  <1>5. ASSUME "late" \notin faults.kinds
        PROVE  late' = {} /\ TokensRight(saved.exchange_token, saved.exchange_token, Idle, server.token)
    BY <1>1, <1>5, InvIs, IdleFacts DEF TokensRight
  <1>. QED  BY <1>1, <1>2, <1>3, <1>4, <1>5, InvIs, IdleFacts DEF ExchangeInv

LEMMA ExchangeInit == Init => ExchangeInv
  <1>. SUFFICES ASSUME Init PROVE ExchangeInv
    OBVIOUS
  <1>1. /\ store = NewStore /\ saved = NewMeta /\ exchange = Idle /\ late = {}
        /\ server = [log |-> [n \in {} |-> 0], token |-> NoToken]
        /\ \E kinds \in FaultMixes : faults = [kinds |-> kinds, count |-> 0]
    BY DEF Init
  <1>2. StoreOK(store) /\ saved \in Meta /\ saved.exchange_token = NoToken
    BY <1>1, NewStoreOK DEF NewMeta
  <1>3. store.meta.exchange_token = NoToken
    BY <1>1 DEF NewStore, NewMeta
  <1>4. ServerRight(server)
    BY <1>1, FS_EmptySet DEF ServerRight, NoToken
  <1>5. LateRight(late) /\ DOMAIN faults = {"kinds", "count"}
    BY <1>1, FS_EmptySet DEF LateRight
  <1>. QED  BY <1>1, <1>2, <1>3, <1>4, <1>5, IdleFacts DEF ExchangeInv

LEMMA ExchangeStep == ExchangeInv /\ [Next]_vars => ExchangeInv'
  <1>. SUFFICES ASSUME ExchangeInv, [Next]_vars PROVE ExchangeInv'
    OBVIOUS
  <1>1. CASE UNCHANGED vars
    BY <1>1 DEF vars, ExchangeInv
  <1>2. CASE Step
    BY <1>2, BeginStep, ServerAnswersStep, ServerRejectsStep, ApplyAnswerStep, CommitAnswerStep,
       HandleMessageStep, CommitMessageStep, HandlerRaisesStep, FinishStep DEF Step
  <1>3. CASE \E op \in contexts : DiscardResult(op)
    <2>1. UNCHANGED <<store, saved, exchange, late, server, faults>>
      BY <1>3 DEF DiscardResult
    <2>. QED  BY <2>1 DEF ExchangeInv
  <1>. QED
    BY <1>1, <1>2, <1>3, SendStep, RequestFailsStep, RequestTimesOutStep, ServerReceivesLateStep,
       RollbackStep, CrashStep DEF Next

(***************************************************************************)
(* The exchange never breaks its store, whatever the server expects and    *)
(* wherever handle_result is killed: the files are well formed, and the    *)
(* pending offset lies in the queue unless files or metadata were lost     *)
(* behind its back.                                                        *)
(***************************************************************************)
THEOREM ExchangeKeepsStore == Spec => [](StoreType(store) /\ OffsetInQueue(store))
  <1>1. ExchangeInv => StoreType(store) /\ OffsetInQueue(store)
    BY DEF ExchangeInv, StoreOK
  <1>. QED  BY <1>1, ExchangeInit, ExchangeStep, PTL DEF Spec

(***************************************************************************)
(* A token that is forgotten and committed before the request is sent      *)
(* (_get_exchange_token) is enough: no lost answer, rollback or crash at   *)
(* any point makes the client present a token that the server rejects,     *)
(* unless a request arrives after it was given up.                         *)
(***************************************************************************)
THEOREM NotLockedOutEver == Spec => []NotLockedOut
  <1>1. ExchangeInv => NotLockedOut
    BY DEF ExchangeInv, TokensRight, NotLockedOut, Admits
  <1>. QED  BY <1>1, ExchangeInit, ExchangeStep, PTL DEF Spec

-----------------------------------------------------------------------------
(* The messages of the server are handled once each                        *)

HistoryRight(h) ==
    /\ DOMAIN h = {"added", "logged", "cut", "upset", "handled", "runs", "crashes"}
    /\ h.cut \in BOOLEAN /\ h.upset \in BOOLEAN
    /\ h.handled \in [DOMAIN Outbox -> Nat] /\ h.runs \in Nat /\ h.crashes \in Nat

\* From the history h to the history g nothing was handled.
SameHandling(h, g) ==
    HistoryRight(g) /\ g.handled = h.handled /\ g.runs = h.runs /\ g.crashes = h.crashes

\* The next message of the answer is the one after those that are acknowledged.
HandlingInv ==
    /\ HistoryRight(history)
    /\ store.meta.server_sequence = saved.server_sequence
    /\ exchange.stage = "sent" => exchange.payload.next = saved.server_sequence
    /\ exchange.stage \in {"answered", "applied", "messages", "handled"} =>
         exchange.at = saved.server_sequence + 1
    /\ exchange.stage = "handled" => exchange.at \in DOMAIN Outbox /\ history.handled[exchange.at] > 0
    /\ HandledOnce

LEMMA CutIs ==
    ASSUME NEW h, HistoryRight(h), NEW cut \in BOOLEAN
    PROVE  /\ SameHandling(h, Cut(h, cut)) /\ Cut(h, cut).cut = cut
           /\ Cut(h, cut).upset = (h.upset \/ cut)
           /\ Cut(h, cut).added = h.added /\ Cut(h, cut).logged = h.logged
  <1>. DEFINE u == h.upset \/ cut
              g == [h EXCEPT !.cut = cut, !.upset = u]
  <1>1. Cut(h, cut) = g
    BY DEF Cut
  <1>2. u \in BOOLEAN
    BY DEF HistoryRight
  <1>. HIDE DEF u
  <1>3. /\ DOMAIN g = {"added", "logged", "cut", "upset", "handled", "runs", "crashes"}
        /\ g.cut = cut /\ g.upset = u
    BY DEF HistoryRight
  <1>4. /\ g.added = h.added /\ g.logged = h.logged /\ g.handled = h.handled
        /\ g.runs = h.runs /\ g.crashes = h.crashes
    BY DEF HistoryRight
  <1>. HIDE DEF g
  <1>5. SameHandling(h, g)
    BY <1>2, <1>3, <1>4 DEF SameHandling, HistoryRight
  <1>. QED  BY <1>1, <1>3, <1>4, <1>5 DEF u

LEMMA AddedSet ==
    ASSUME NEW h, HistoryRight(h), NEW added
    PROVE  LET g == [h EXCEPT !.added = added]
           IN  /\ SameHandling(h, g) /\ g.cut = h.cut /\ g.upset = h.upset
               /\ g.added = added /\ g.logged = h.logged
  BY DEF HistoryRight, SameHandling

LEMMA LoggedSet ==
    ASSUME NEW h, HistoryRight(h), NEW logged
    PROVE  LET g == [h EXCEPT !.logged = logged]
           IN  /\ SameHandling(h, g) /\ g.cut = h.cut /\ g.upset = h.upset
               /\ g.added = h.added /\ g.logged = logged
  BY DEF HistoryRight, SameHandling

\* The messages that have been added, after a change from store s to store t
AddedAfter(h, s, t) ==
    (h.added \ Ids(s)) \cup (h.added \cap Ids(t)) \cup (Ids(t) \ Ids(s))

CutAfter(h, s, t) == h.cut \/ t.damage # {} \/ ~(Pending(s) \subseteq Positions(t))

LEMMA RecordIs ==
    ASSUME NEW h, HistoryRight(h), NEW s, NEW t
    PROVE  LET g == Record(h, s, t)
           IN  /\ SameHandling(h, g) /\ g.cut = CutAfter(h, s, t)
               /\ g.upset = (h.upset \/ CutAfter(h, s, t))
               /\ g.added = AddedAfter(h, s, t) /\ g.logged = h.logged
  <1>. DEFINE a == [h EXCEPT !.added = AddedAfter(h, s, t)]
              g == Record(h, s, t)
  <1>1. CutAfter(h, s, t) \in BOOLEAN
    BY DEF CutAfter, HistoryRight
  <1>2. g = Cut(a, CutAfter(h, s, t))
    BY DEF Record, CutAfter, AddedAfter
  <1>3. /\ SameHandling(h, a) /\ a.upset = h.upset
        /\ a.added = AddedAfter(h, s, t) /\ a.logged = h.logged
    BY AddedSet
  <1>. HIDE DEF a
  <1>4. /\ SameHandling(a, Cut(a, CutAfter(h, s, t)))
        /\ Cut(a, CutAfter(h, s, t)).cut = CutAfter(h, s, t)
        /\ Cut(a, CutAfter(h, s, t)).upset = (a.upset \/ CutAfter(h, s, t))
        /\ Cut(a, CutAfter(h, s, t)).added = a.added
        /\ Cut(a, CutAfter(h, s, t)).logged = a.logged
    BY <1>1, <1>3, CutIs DEF SameHandling
  <1>. HIDE DEF g
  <1>. QED  BY <1>2, <1>3, <1>4 DEF SameHandling, g

LEMMA HandlingIs ==
    ASSUME ExchangeInv, HandlingInv
    PROVE  /\ HistoryRight(history) /\ store.meta.server_sequence = saved.server_sequence
           /\ \A i \in DOMAIN Outbox : i <= saved.server_sequence => history.handled[i] > 0
           /\ history.runs \in Nat /\ history.crashes \in Nat
           /\ history.runs <= saved.server_sequence + history.crashes + 1
           /\ exchange.stage # "handled" => history.runs <= saved.server_sequence + history.crashes
  <1>1. saved.server_sequence \in Nat /\ history.runs \in Nat /\ history.crashes \in Nat
    BY InvIs DEF Meta, HandlingInv, HistoryRight
  <1>. QED  BY <1>1 DEF HandlingInv, HandledOnce

\* A step of the exchange that handles no message and acknowledges none
LEMMA UnhandledStep ==
    ASSUME ExchangeInv, HandlingInv, SameHandling(history, history'),
           store'.meta.server_sequence = store.meta.server_sequence,
           saved'.server_sequence = saved.server_sequence,
           exchange.stage # "handled", exchange'.stage # "handled",
           exchange'.stage = "sent" => exchange'.payload.next = saved.server_sequence,
           exchange'.stage \in {"answered", "applied", "messages"} =>
             exchange'.at = saved.server_sequence + 1
    PROVE  HandlingInv'
  BY HandlingIs, InvIs DEF HandlingInv, HandledOnce, SameHandling

\* Nothing of the exchange moves.
LEMMA BesidesStep ==
    ASSUME ExchangeInv, HandlingInv, SameHandling(history, history'),
           store'.meta.server_sequence = store.meta.server_sequence,
           UNCHANGED <<saved, exchange>>
    PROVE  HandlingInv'
  BY HandlingIs, InvIs DEF HandlingInv, HandledOnce, SameHandling

LEMMA SameHistory == ASSUME ExchangeInv, HandlingInv, UNCHANGED history PROVE SameHandling(history, history')
  BY HandlingIs DEF SameHandling, HistoryRight

LEMMA HandlingSend ==
    ASSUME ExchangeInv, HandlingInv,
           (\E t \in Types : SendMessage(t)) \/ (\E op \in contexts : SendResult(op))
    PROVE  HandlingInv'
  <1>1. \E t \in Types : \E gone : store' = Add(store, t, gone)
    BY ExchangeAssumption DEF SendMessage, SendResult
  <1>2. UNCHANGED <<saved, exchange>> /\ history' = Record(history, store, store')
    BY DEF SendMessage, SendResult
  <1>3. Keeps(store, store')
    BY <1>1, InvIs, AddKeeps
  <1>. QED  BY <1>2, <1>3, HandlingIs, RecordIs, BesidesStep DEF Keeps

LEMMA HandlingBegin == ASSUME ExchangeInv, HandlingInv, Begin PROVE HandlingInv'
  <1>. DEFINE s == FlagUnsendable(store, MaxMessages)
  <1>1. /\ exchange = Idle /\ exchange' = [stage |-> "sent", payload |-> Payload(store)]
        /\ store' = [s EXCEPT !.meta.exchange_token = NoToken] /\ saved' = store'.meta
        /\ UNCHANGED history
    BY DEF Begin, TakeToken
  <1>2. Keeps(store, s)
    BY InvIs, FlagKeeps, ExchangeAssumption
  <1>. HIDE DEF s
  <1>3. store'.meta.server_sequence = store.meta.server_sequence
    BY <1>1, <1>2, TokenSet DEF Keeps, NoToken
  <1>4. Payload(store).next = store.meta.server_sequence
    BY DEF Payload
  <1>5. exchange.stage = "idle" /\ exchange'.stage = "sent" /\ exchange'.payload = Payload(store)
    BY <1>1 DEF Idle
  <1>. QED  BY <1>1, <1>3, <1>4, <1>5, HandlingIs, SameHistory, UnhandledStep

LEMMA HandlingEnd ==
    ASSUME ExchangeInv, HandlingInv, store'.meta.server_sequence = store.meta.server_sequence,
           exchange.stage # "handled", exchange' = Idle, UNCHANGED <<saved, history>>
    PROVE  HandlingInv'
  BY HandlingIs, SameHistory, UnhandledStep DEF Idle

LEMMA HandlingEnds ==
    ASSUME ExchangeInv, HandlingInv,
           RequestFails \/ RequestTimesOut \/ ServerRejects \/ HandlerRaises \/ Finish
    PROVE  HandlingInv'
  <1>1. exchange.stage # "handled" /\ exchange' = Idle /\ UNCHANGED <<saved, history>>
    BY DEF RequestFails, RequestTimesOut, ServerRejects, HandlerRaises, Finish, MessageLeft
  <1>2. CASE HandlerRaises
    BY <1>1, <1>2, InvIs, RecordFailureKeeps, HandlingEnd DEF HandlerRaises, Keeps
  <1>3. CASE Finish
    <2>. DEFINE s == FlagUnsendable(store, 1)
    <2>1. store' = RecordSuccess(s)
      BY <1>3 DEF Finish
    <2>2. Keeps(store, s)
      BY InvIs, FlagKeeps
    <2>. HIDE DEF s
    <2>. QED  BY <1>1, <2>1, <2>2, RecordSuccessKeeps, HandlingEnd DEF Keeps
  <1>. QED
    BY <1>1, <1>2, <1>3, HandlingEnd DEF RequestFails, RequestTimesOut, ServerRejects

LEMMA HandlingReceived ==
    ASSUME ExchangeInv, HandlingInv, NEW payload, Receive(payload) PROVE SameHandling(history, history')
  BY HandlingIs, LoggedSet DEF Receive

LEMMA HandlingServerAnswers ==
    ASSUME ExchangeInv, HandlingInv, ServerAnswers PROVE HandlingInv'
  <1>1. /\ exchange.stage = "sent" /\ Receive(exchange.payload) /\ UNCHANGED <<store, saved>>
        /\ exchange'.stage = "answered" /\ exchange'.at = exchange.payload.next + 1
    BY DEF ServerAnswers
  <1>2. exchange.payload.next = saved.server_sequence
    BY <1>1 DEF HandlingInv
  <1>. QED  BY <1>1, <1>2, HandlingReceived, UnhandledStep

LEMMA HandlingServer ==
    ASSUME ExchangeInv, HandlingInv,
           (\E payload \in late : ServerReceivesLate(payload)) \/ (\E n \in 0 .. Expected - 1 : Rollback(n))
    PROVE  HandlingInv'
  <1>1. UNCHANGED <<store, saved, exchange>>
    BY DEF ServerReceivesLate, Rollback
  <1>2. SameHandling(history, history')
    BY SameHistory, HandlingReceived DEF ServerReceivesLate, Rollback
  <1>. QED  BY <1>1, <1>2, BesidesStep

LEMMA HandlingApplyAnswer == ASSUME ExchangeInv, HandlingInv, ApplyAnswer PROVE HandlingInv'
  <1>. DEFINE moved == GotNextExpected(store, exchange.next)
  <1>1. /\ exchange.stage = "answered" /\ exchange' = [exchange EXCEPT !.stage = "applied"]
        /\ UNCHANGED saved
    BY DEF ApplyAnswer
  <1>2. PICK gone : store' = [(IF NeedsResync(store, exchange.next) THEN Add(moved, Resync, gone)
                               ELSE moved) EXCEPT !.meta.exchange_token = exchange.token]
    BY DEF ApplyAnswer
  <1>3. /\ exchange.next \in Nat /\ exchange.token \in Nat
        /\ DOMAIN exchange = {"stage", "at", "last", "next", "token"}
    BY <1>1, InvIs DEF ExchangeRight
  <1>. DEFINE s == IF NeedsResync(store, exchange.next) THEN Add(moved, Resync, gone) ELSE moved
  <1>4. Keeps(store, moved)
    BY <1>3, InvIs, GotNextExpectedKeeps
  <1>. HIDE DEF moved
  <1>5. Keeps(store, s)
    BY <1>4, AddKeeps, StoreAssumption DEF Keeps
  <1>6. store' = [s EXCEPT !.meta.exchange_token = exchange.token]
    BY <1>2 DEF moved
  <1>. HIDE DEF s
  <1>7. store'.meta.server_sequence = store.meta.server_sequence
    BY <1>3, <1>5, <1>6, TokenSet DEF Keeps
  <1>8. exchange'.stage = "applied" /\ exchange'.at = exchange.at
    BY <1>1, <1>3
  <1>9. SameHandling(history, history')
    <2>1. \/ history' = history
          \/ history' = Cut([history EXCEPT !.added = Ids(store')], store'.damage # {})
      BY DEF ApplyAnswer
    <2>. DEFINE a == [history EXCEPT !.added = Ids(store')]
    <2>2. SameHandling(history, a)
      BY HandlingIs, AddedSet
    <2>. HIDE DEF a
    <2>3. SameHandling(a, Cut(a, store'.damage # {}))
      BY <2>2, CutIs DEF SameHandling
    <2>. QED  BY <2>1, <2>2, <2>3, SameHistory DEF SameHandling, a
  <1>10. exchange.at = saved.server_sequence + 1
    BY <1>1 DEF HandlingInv
  <1>. QED  BY <1>1, <1>7, <1>8, <1>9, <1>10, UnhandledStep

LEMMA HandlingCommitAnswer == ASSUME ExchangeInv, HandlingInv, CommitAnswer PROVE HandlingInv'
  <1>1. /\ exchange.stage = "applied" /\ saved' = store'.meta /\ UNCHANGED history
        /\ exchange'.stage = "messages" /\ exchange'.at = exchange.at
    BY DEF CommitAnswer
  <1>2. store' = store \/ \E a \in Apis : store' = SetServerApi(store, a)
    BY ExchangeAssumption DEF CommitAnswer, AdoptApi
  <1>3. Keeps(store, store')
    BY <1>2, InvIs, SetServerApiKeeps DEF Keeps
  <1>4. exchange.at = saved.server_sequence + 1
    BY <1>1 DEF HandlingInv
  <1>. QED  BY <1>1, <1>3, <1>4, HandlingIs, SameHistory, UnhandledStep DEF Keeps

LEMMA HandlingHandleMessage == ASSUME ExchangeInv, HandlingInv, HandleMessage PROVE HandlingInv'
  <1>. DEFINE r == Record(history, store, store')
              at == exchange.at
              k == r.handled[at] + 1
              h == [r.handled EXCEPT ![at] = k]
              n == r.runs + 1
  <1>1. /\ exchange.stage = "messages" /\ at <= exchange.last
        /\ exchange' = [exchange EXCEPT !.stage = "handled"] /\ UNCHANGED saved
        /\ history' = [r EXCEPT !.handled = h, !.runs = n]
    BY DEF HandleMessage, MessageLeft
  <1>2. Left(exchange) /\ DOMAIN exchange = {"stage", "at", "last"}
    BY <1>1, InvIs DEF ExchangeRight
  <1>3. at \in DOMAIN Outbox
    BY <1>1, <1>2, ExchangeAssumption DEF Left
  <1>4. Keeps(store, store')
    BY HandleMessageKeeps
  <1>5. SameHandling(history, r)
    BY HandlingIs, RecordIs
  <1>6. HistoryRight(r) /\ r.handled = history.handled /\ r.runs = history.runs /\ r.crashes = history.crashes
    BY <1>5 DEF SameHandling
  <1>. HIDE DEF r
  <1>7. k \in Nat /\ n \in Nat /\ k > 0
    BY <1>3, <1>6 DEF HistoryRight
  <1>8. h \in [DOMAIN Outbox -> Nat] /\ h[at] = k /\ \A i \in DOMAIN Outbox : i # at => h[i] = r.handled[i]
    <2>. HIDE DEF k
    <2>. QED  BY <1>3, <1>6, <1>7 DEF HistoryRight
  <1>9. HistoryRight(history') /\ history'.handled = h /\ history'.runs = n /\ history'.crashes = r.crashes
    <2>. HIDE DEF h, n
    <2>1. /\ DOMAIN history' = {"added", "logged", "cut", "upset", "handled", "runs", "crashes"}
          /\ history'.handled = h /\ history'.runs = n /\ history'.crashes = r.crashes
          /\ history'.cut = r.cut /\ history'.upset = r.upset
      BY <1>1, <1>6 DEF HistoryRight
    <2>. QED  BY <1>6, <1>7, <1>8, <2>1 DEF HistoryRight
  <1>10. exchange'.stage = "handled" /\ exchange'.at = at
    BY <1>1, <1>2
  <1>11. at = saved.server_sequence + 1
    BY <1>1 DEF HandlingInv
  <1>12. \A i \in DOMAIN Outbox : i <= saved.server_sequence => h[i] > 0
    <2>. HIDE DEF h, k
    <2>. QED  BY <1>6, <1>7, <1>8, HandlingIs
  <1>13. history'.runs <= saved.server_sequence + history'.crashes + 1
    BY <1>1, <1>6, <1>9, HandlingIs, InvIs DEF Meta
  <1>. HIDE DEF h, k, n, at
  <1>14. HandledOnce'
    BY <1>1, <1>9, <1>10, <1>12, <1>13 DEF HandledOnce
  <1>. QED
    BY <1>1, <1>3, <1>4, <1>7, <1>8, <1>9, <1>10, <1>11, <1>14, HandlingIs DEF HandlingInv, Keeps

LEMMA HandlingCommitMessage == ASSUME ExchangeInv, HandlingInv, CommitMessage PROVE HandlingInv'
  <1>. DEFINE n == store.meta.server_sequence + 1
  <1>1. /\ exchange.stage = "handled" /\ saved' = store'.meta /\ UNCHANGED history
        /\ store' = [store EXCEPT !.meta.server_sequence = n]
        /\ exchange' = [exchange EXCEPT !.stage = "messages", !.at = exchange.at + 1]
    BY DEF CommitMessage, NextServerSequence
  <1>2. n \in Nat /\ n = saved.server_sequence + 1 /\ saved.server_sequence \in Nat
    BY HandlingIs, InvIs DEF Meta
  <1>. HIDE DEF n
  <1>3. saved'.server_sequence = n /\ store'.meta.server_sequence = n
    BY <1>1, <1>2, InvIs, SequenceSet
  <1>4. exchange'.stage = "messages" /\ exchange'.at = exchange.at + 1
    BY <1>1, InvIs DEF ExchangeRight
  <1>5. exchange.at = n /\ history.handled[n] > 0
    BY <1>1, <1>2 DEF HandlingInv
  <1>6. \A i \in DOMAIN Outbox : i <= n => history.handled[i] > 0
    BY <1>2, <1>5, HandlingIs, ExchangeAssumption
  <1>7. history.runs <= n + history.crashes
    BY <1>2, HandlingIs
  <1>8. HandledOnce'
    BY <1>1, <1>3, <1>4, <1>6, <1>7, <1>2, HandlingIs DEF HandledOnce
  <1>9. exchange'.at = n + 1
    BY <1>4, <1>5
  <1>. QED  BY <1>1, <1>3, <1>4, <1>8, <1>9, HandlingIs DEF HandlingInv

LEMMA HandlingCrash == ASSUME ExchangeInv, HandlingInv, Crash PROVE HandlingInv'
  <1>. DEFINE n == history.crashes + 1
              a == [history EXCEPT !.crashes = n]
              cut == history.cut \/ store'.damage # {}
  <1>1. /\ store' = Reload(store, saved) /\ exchange' = Idle /\ UNCHANGED saved
        /\ history' = Cut(a, cut)
    BY DEF Crash
  <1>2. store'.meta = saved
    BY <1>1, InvIs, ReloadMeta
  <1>3. cut \in BOOLEAN /\ n \in Nat
    BY HandlingIs DEF HistoryRight
  <1>. HIDE DEF cut
  <1>4. HistoryRight(a) /\ a.handled = history.handled /\ a.runs = history.runs /\ a.crashes = n
    <2>. HIDE DEF n
    <2>. QED  BY <1>3, HandlingIs DEF HistoryRight
  <1>. HIDE DEF a
  <1>5. HistoryRight(history') /\ history'.handled = history.handled
        /\ history'.runs = history.runs /\ history'.crashes = n
    BY <1>1, <1>3, <1>4, CutIs DEF SameHandling
  <1>6. exchange'.stage = "idle"
    BY <1>1 DEF Idle
  <1>7. history.runs <= saved.server_sequence + n
    BY HandlingIs, InvIs DEF Meta
  <1>. QED  BY <1>1, <1>2, <1>5, <1>6, <1>7, HandlingIs, InvIs DEF HandlingInv, HandledOnce, Meta

LEMMA HandlingInit == Init => HandlingInv
  <1>. SUFFICES ASSUME Init PROVE HandlingInv
    OBVIOUS
  <1>. DEFINE h == [i \in DOMAIN Outbox |-> 0]
  <1>1. /\ store = NewStore /\ saved = NewMeta /\ exchange = Idle
        /\ history = [added |-> {}, logged |-> {}, cut |-> FALSE, upset |-> FALSE,
                      handled |-> h, runs |-> 0, crashes |-> 0]
    BY DEF Init
  <1>2. h \in [DOMAIN Outbox -> Nat]
    OBVIOUS
  <1>. HIDE DEF h
  <1>3. HistoryRight(history) /\ history.runs = 0 /\ history.crashes = 0
    BY <1>1, <1>2 DEF HistoryRight
  <1>4. store.meta.server_sequence = 0 /\ saved.server_sequence = 0 /\ exchange.stage = "idle"
    BY <1>1 DEF NewStore, NewMeta, Idle
  <1>. QED  BY <1>3, <1>4, ExchangeAssumption DEF HandlingInv, HandledOnce

LEMMA HandlingStep == ExchangeInv /\ HandlingInv /\ [Next]_vars => HandlingInv'
  <1>. SUFFICES ASSUME ExchangeInv, HandlingInv, [Next]_vars PROVE HandlingInv'
    OBVIOUS
  <1>1. CASE UNCHANGED vars \/ \E op \in contexts : DiscardResult(op)
    <2>1. UNCHANGED <<store, saved, exchange, history>>
      BY <1>1 DEF vars, DiscardResult
    <2>. QED  BY <2>1, SameHistory, BesidesStep
  <1>2. CASE Step
    BY <1>2, HandlingBegin, HandlingServerAnswers, HandlingEnds, HandlingApplyAnswer,
       HandlingCommitAnswer, HandlingHandleMessage, HandlingCommitMessage DEF Step
  <1>. QED
    BY <1>1, <1>2, HandlingSend, HandlingEnds, HandlingServer, HandlingCrash DEF Next

(***************************************************************************)
(* No message of the server is skipped, and a handler runs again only for  *)
(* a crash between its message and the commit of the new server_sequence   *)
(* (_handle_result, process_messages): with any answers, of any length,    *)
(* and however many exchanges fail on the way.                             *)
(***************************************************************************)
THEOREM HandledOnceAlways == Spec => []HandledOnce
  <1>1. ExchangeInv /\ HandlingInv => HandledOnce
    BY DEF HandlingInv
  <1>. QED  BY <1>1, ExchangeInit, ExchangeStep, HandlingInit, HandlingStep, PTL DEF Spec

-----------------------------------------------------------------------------
(* Store and log: what the client has under a number is what the server    *)
(* received under it                                                       *)

\* The log of the first n messages describes store s.
InStep(s, log, n) ==
    /\ s.damage = {} /\ 0 <= Base(s) /\ n <= Top(s)
    /\ \A p \in Unflagged(s) : Number(s, p) < n => log[Number(s, p)] = s.files[p].id

SentLogged(s, logged) == \A p \in Sent(s) : s.files[p].id \in logged

\* A message that the server has, though the client does not know yet, is not
\* held at the next exchange.
SendableBelow(s, n) == \A p \in Pending(s) : Number(s, p) < n => Sendable(s, p)

\* A message in the log that is still stored has the number it has there.
InLog(s, log) ==
    \A m \in DOMAIN log : \A p \in Positions(s) :
      log[m] = s.files[p].id => p \in Unflagged(s) /\ Number(s, p) = m

Once(log) == \A m, n \in DOMAIN log : log[m] = log[n] => m = n

LogRight(log, logged, next) ==
    /\ DOMAIN log = 0 .. Cardinality(DOMAIN log) - 1
    /\ \A m \in DOMAIN log : log[m] \in logged /\ log[m] \in Nat /\ log[m] < next

\* The request that is out
PayloadShape(s, payload) ==
    /\ payload.sequence = s.meta.sequence
    /\ \E k \in Nat : DOMAIN payload.messages = s.meta.sequence .. s.meta.sequence + k - 1
    /\ \A n \in DOMAIN payload.messages : payload.messages[n] \in Nat /\ payload.messages[n] < s.nextPos

PayloadPlaced(s, payload) ==
    \A n \in DOMAIN payload.messages :
      \E p \in Pending(s) :
        Number(s, p) = n /\ s.files[p].id = payload.messages[n] /\ Sendable(s, p)

\* An answer that the client has not applied
AnswerPlaced(s, n, logged) ==
    n <= Top(s) /\ \A p \in Unflagged(s) : Number(s, p) < n => s.files[p].id \in logged

LEMMA SendableSame ==
    ASSUME NEW s, NEW t, SameSending(s, t), NEW p,
           t.files[p].type = s.files[p].type, t.files[p].api = s.files[p].api,
           t.files[p].corrupt = s.files[p].corrupt, Sendable(s, p)
    PROVE  Sendable(t, p)
  BY DEF SameSending, Sendable

\* A message was added
LEMMA GrowsInStep ==
    ASSUME NEW s, StoreOK(s), NEW t, StoreOK(t), t.damage = {}, Grows(s, t),
           NEW n \in Nat, NEW log, InStep(s, log, n)
    PROVE  InStep(t, log, n)
  <1>1. /\ Base(s) \in Int /\ Base(t) \in Int /\ Top(s) \in Int /\ Top(t) \in Int
        /\ \A p \in Unflagged(t) : Number(t, p) \in Int
    BY NumberFacts DEF StoreOK, InStep
  <1>2. 0 <= Base(t) /\ n <= Top(t)
    BY <1>1 DEF Grows, InStep
  <1>3. ASSUME NEW p \in Unflagged(t), Number(t, p) < n PROVE log[Number(t, p)] = t.files[p].id
    <2>1. p \in Unflagged(s) /\ Number(t, p) = Number(s, p) /\ t.files[p] = s.files[p]
      BY <1>1, <1>3 DEF Grows, InStep
    <2>. QED  BY <1>3, <2>1 DEF InStep
  <1>. QED  BY <1>2, <1>3 DEF InStep

LEMMA GrowsSentLogged ==
    ASSUME NEW s, NEW t, Grows(s, t), SamePlain(s, t), NEW logged, SentLogged(s, logged)
    PROVE  SentLogged(t, logged)
  <1>1. SUFFICES ASSUME NEW p \in Sent(t) PROVE t.files[p].id \in logged
    BY DEF SentLogged
  <1>2. p \in Sent(s) /\ p \in Positions(s) /\ p \in Positions(t)
    BY DEF Grows, Sent, Unflagged
  <1>. QED  BY <1>2 DEF SamePlain, SentLogged

LEMMA GrowsSendable ==
    ASSUME NEW s, StoreOK(s), s.damage = {}, NEW t, StoreOK(t), t.damage = {}, Grows(s, t),
           SameSending(s, t), NEW n \in Nat, n <= Top(s), SendableBelow(s, n)
    PROVE  SendableBelow(t, n)
  <1>1. SUFFICES ASSUME NEW p \in Pending(t), Number(t, p) < n PROVE Sendable(t, p)
    BY DEF SendableBelow
  <1>2. p \in Unflagged(t) /\ Number(t, p) \in Int /\ t.meta.sequence <= Number(t, p) /\ Top(s) \in Int
    BY NumberFacts DEF StoreOK, Pending
  <1>3. p \in Unflagged(s) /\ Number(t, p) = Number(s, p) /\ t.files[p] = s.files[p]
    BY <1>1, <1>2 DEF Grows
  <1>4. p \in Pending(s)
    BY <1>2, <1>3, NumberFacts DEF StoreOK, Grows
  <1>5. Sendable(s, p)
    BY <1>1, <1>3, <1>4 DEF SendableBelow
  <1>. QED  BY <1>3, <1>5, SendableSame

LEMMA GrowsPending ==
    ASSUME NEW s, StoreOK(s), s.damage = {}, NEW t, StoreOK(t), t.damage = {}, Grows(s, t), NEW p \in Pending(s)
    PROVE  p \in Pending(t) /\ Number(t, p) = Number(s, p) /\ t.files[p] = s.files[p]
  <1>1. p \in Unflagged(t) /\ Number(t, p) = Number(s, p) /\ t.files[p] = s.files[p]
    BY DEF Grows
  <1>2. p \in Unflagged(s) /\ s.meta.sequence <= Number(s, p)
    BY NumberFacts DEF StoreOK, Pending
  <1>3. p \in Pending(t)
    BY <1>1, <1>2, NumberFacts DEF StoreOK, Grows
  <1>. QED  BY <1>1, <1>3

LEMMA GrowsPayload ==
    ASSUME NEW s, StoreOK(s), s.damage = {}, NEW t, StoreOK(t), t.damage = {}, Grows(s, t),
           SameSending(s, t), NEW payload, PayloadPlaced(s, payload)
    PROVE  PayloadPlaced(t, payload)
  <1>1. SUFFICES ASSUME NEW n \in DOMAIN payload.messages
                 PROVE  \E p \in Pending(t) :
                          Number(t, p) = n /\ t.files[p].id = payload.messages[n] /\ Sendable(t, p)
    BY DEF PayloadPlaced
  <1>2. PICK p \in Pending(s) : Number(s, p) = n /\ s.files[p].id = payload.messages[n] /\ Sendable(s, p)
    BY DEF PayloadPlaced
  <1>3. p \in Pending(t) /\ Number(t, p) = Number(s, p) /\ t.files[p] = s.files[p]
    BY GrowsPending
  <1>4. Sendable(t, p)
    BY <1>2, <1>3, SendableSame
  <1>. QED  BY <1>2, <1>3, <1>4

LEMMA GrowsAnswer ==
    ASSUME NEW s, StoreOK(s), s.damage = {}, NEW t, StoreOK(t), t.damage = {}, Grows(s, t),
           NEW n \in Nat, NEW logged, AnswerPlaced(s, n, logged)
    PROVE  AnswerPlaced(t, n, logged)
  <1>1. Top(s) \in Int /\ Top(t) \in Int /\ \A p \in Unflagged(t) : Number(t, p) \in Int
    BY NumberFacts DEF StoreOK
  <1>2. n <= Top(t)
    BY <1>1 DEF Grows, AnswerPlaced
  <1>3. ASSUME NEW p \in Unflagged(t), Number(t, p) < n PROVE t.files[p].id \in logged
    <2>1. p \in Unflagged(s) /\ Number(t, p) = Number(s, p) /\ t.files[p] = s.files[p]
      BY <1>1, <1>3 DEF Grows, AnswerPlaced
    <2>. QED  BY <1>3, <2>1 DEF AnswerPlaced
  <1>. QED  BY <1>2, <1>3 DEF AnswerPlaced

LEMMA GrowsInLog ==
    ASSUME NEW s, NEW t, Grows(s, t), s.nextPos \in Nat, NEW log, NEW logged,
           LogRight(log, logged, s.nextPos), InLog(s, log)
    PROVE  InLog(t, log)
  <1>1. SUFFICES ASSUME NEW m \in DOMAIN log, NEW p \in Positions(t), log[m] = t.files[p].id
                 PROVE  p \in Unflagged(t) /\ Number(t, p) = m
    BY DEF InLog
  <1>2. t.files[p].id # s.nextPos
    BY <1>1 DEF LogRight
  <1>3. /\ p \in Positions(s) /\ t.files[p].id = s.files[p].id
        /\ p \in Unflagged(s) => p \in Unflagged(t) /\ Number(t, p) = Number(s, p)
    BY <1>2 DEF Grows
  <1>. QED  BY <1>1, <1>3 DEF InLog

\* Nothing changed below a number
LEMMA SameBelowInStep ==
    ASSUME NEW s, StoreOK(s), NEW t, StoreOK(t), t.damage = {}, NEW n \in Nat, NEW k \in Int, n <= k,
           SameBelow(s, t, k), SamePlain(s, t), NEW log, InStep(s, log, n)
    PROVE  InStep(t, log, n)
  <1>1. /\ Base(s) \in Int /\ Top(t) \in Int /\ Base(t) = Base(s)
        /\ \A p \in Unflagged(t) : Number(t, p) \in Int
    BY NumberFacts DEF StoreOK, InStep, SameBelow, Base
  <1>2. 0 <= Base(t) /\ n <= Top(t)
    BY <1>1 DEF InStep, SameBelow
  <1>3. ASSUME NEW p \in Unflagged(t), Number(t, p) < n PROVE log[Number(t, p)] = t.files[p].id
    <2>1. p \in Unflagged(s) /\ Number(s, p) = Number(t, p)
      BY <1>1, <1>3 DEF SameBelow
    <2>2. t.files[p].id = s.files[p].id
      BY <1>3, <2>1 DEF SamePlain, Unflagged
    <2>. QED  BY <1>3, <2>1, <2>2 DEF InStep
  <1>. QED  BY <1>2, <1>3 DEF InStep

LEMMA SameBelowSentLogged ==
    ASSUME NEW s, NEW t, NEW k, SameBelow(s, t, k), SamePlain(s, t), NEW logged, SentLogged(s, logged)
    PROVE  SentLogged(t, logged)
  <1>1. SUFFICES ASSUME NEW p \in Sent(t) PROVE t.files[p].id \in logged
    BY DEF SentLogged
  <1>2. p \in Sent(s) /\ p \in Positions(s) /\ p \in Positions(t)
    BY DEF SameBelow, Sent, Unflagged
  <1>. QED  BY <1>2 DEF SamePlain, SentLogged

LEMMA SameBelowInLog ==
    ASSUME NEW s, StoreOK(s), s.damage = {}, NEW t, StoreOK(t), NEW n \in Nat, NEW k \in Int, n <= k,
           SameBelow(s, t, k), SamePlain(s, t), NEW log, NEW logged, DOMAIN log = 0 .. n - 1,
           LogRight(log, logged, s.nextPos), InLog(s, log)
    PROVE  InLog(t, log)
  <1>1. SUFFICES ASSUME NEW m \in DOMAIN log, NEW p \in Positions(t), log[m] = t.files[p].id
                 PROVE  p \in Unflagged(t) /\ Number(t, p) = m
    BY DEF InLog
  <1>2. log[m] \in Nat /\ log[m] < s.nextPos /\ s.nextPos \in Nat /\ m \in Nat /\ m < n
    BY <1>1 DEF LogRight, StoreOK, StoreType
  <1>3. PICK q \in Positions(s) : t.files[p].id = s.files[q].id
    BY <1>1, <1>2 DEF SamePlain, IdsFrom
  <1>4. q \in Unflagged(s) /\ Number(s, q) = m
    BY <1>1, <1>3 DEF InLog
  <1>5. q \in Unflagged(t) /\ Number(t, q) = m
    BY <1>2, <1>4 DEF SameBelow
  <1>6. q \in Positions(t) /\ t.files[q].id = t.files[p].id
    BY <1>3, <1>5 DEF SamePlain, Unflagged
  <1>7. p = q
    BY <1>6 DEF SamePlain, Plain
  <1>. QED  BY <1>5, <1>7

\* What was sent stays as it is
LEMMA SameStartBelow ==
    ASSUME NEW s, StoreOK(s), s.damage = {}, NEW t, StoreOK(t), t.damage = {}, SameStart(s, t)
    PROVE  SameBelow(s, t, s.meta.sequence)
  <1>1. Sent(t) = Sent(s) /\ \A q \in Sent(s) : Number(t, q) = Number(s, q)
    BY SameStartSent
  <1>2. t.meta.offset = s.meta.offset /\ t.meta.sequence = s.meta.sequence
    BY DEF SameStart
  <1>3. s.meta.sequence <= Top(t)
    BY <1>2, NumberFacts DEF StoreOK
  <1>4. \A p \in Unflagged(t) : Number(t, p) < s.meta.sequence => p \in Sent(t)
    BY <1>2, NumberFacts DEF StoreOK
  <1>5. \A p \in Unflagged(s) : Number(s, p) < s.meta.sequence => p \in Sent(s)
    BY NumberFacts DEF StoreOK
  <1>6. Sent(s) \subseteq Unflagged(s) /\ Sent(t) \subseteq Unflagged(t)
    BY DEF Sent
  <1>. QED  BY <1>1, <1>2, <1>3, <1>4, <1>5, <1>6 DEF SameBelow

\* Nothing is sendable or not below the sequence
LEMMA NothingBelow ==
    ASSUME NEW s, StoreOK(s), s.damage = {}, NEW n \in Nat, n <= s.meta.sequence PROVE SendableBelow(s, n)
  <1>1. SUFFICES ASSUME NEW p \in Pending(s), Number(s, p) < n PROVE FALSE
    BY DEF SendableBelow
  <1>2. p \in Unflagged(s) /\ s.meta.sequence <= Number(s, p) /\ Number(s, p) \in Int /\ s.meta.sequence \in Int
    BY NumberFacts DEF StoreOK, Pending
  <1>. QED  BY <1>1, <1>2

\* Only metadata changed that has nothing to do with the numbers
SameNumbers(s, t) == SameQueue(s, t) /\ t.nextPos = s.nextPos

LEMMA SameNumbersIs ==
    ASSUME NEW s, NEW t, SameNumbers(s, t)
    PROVE  /\ Positions(t) = Positions(s) /\ Unflagged(t) = Unflagged(s) /\ Sent(t) = Sent(s)
           /\ Pending(t) = Pending(s) /\ Base(t) = Base(s) /\ Top(t) = Top(s)
           /\ \A p : Number(t, p) = Number(s, p)
           /\ Ids(t) = Ids(s) /\ t.files = s.files /\ t.damage = s.damage
           /\ t.nextPos = s.nextPos /\ t.meta.sequence = s.meta.sequence
  <1>1. Positions(t) = Positions(s) /\ Unflagged(t) = Unflagged(s)
    BY DEF SameNumbers, SameQueue, Positions, Unflagged
  <1>2. t.meta.offset = s.meta.offset /\ t.meta.sequence = s.meta.sequence /\ t.files = s.files
    BY DEF SameNumbers, SameQueue
  <1>3. Sent(t) = Sent(s)
    BY <1>1, <1>2 DEF Sent
  <1>4. Pending(t) = Pending(s)
    BY <1>1, <1>2 DEF Pending
  <1>5. Base(t) = Base(s) /\ Top(t) = Top(s)
    BY <1>1, <1>2 DEF Base, Top
  <1>6. \A p : Number(t, p) = Number(s, p)
    BY <1>1, <1>2 DEF Number
  <1>7. Ids(t) = Ids(s)
    BY <1>1, <1>2 DEF Ids
  <1>. QED  BY <1>1, <1>2, <1>3, <1>4, <1>5, <1>6, <1>7 DEF SameNumbers, SameQueue

LEMMA SameNumbersKeep ==
    ASSUME NEW s, NEW t, SameNumbers(s, t), NEW log, NEW n, NEW logged
    PROVE  /\ InStep(s, log, n) => InStep(t, log, n)
           /\ SentLogged(s, logged) => SentLogged(t, logged)
           /\ InLog(s, log) => InLog(t, log)
           /\ AnswerPlaced(s, n, logged) => AnswerPlaced(t, n, logged)
           /\ Plain(s) => Plain(t)
           /\ SameSending(s, t) /\ SendableBelow(s, n) => SendableBelow(t, n)
  <1>1. InStep(s, log, n) => InStep(t, log, n)
    BY SameNumbersIs DEF InStep
  <1>2. SentLogged(s, logged) => SentLogged(t, logged)
    BY SameNumbersIs DEF SentLogged
  <1>3. InLog(s, log) => InLog(t, log)
    BY SameNumbersIs DEF InLog
  <1>4. AnswerPlaced(s, n, logged) => AnswerPlaced(t, n, logged)
    BY SameNumbersIs DEF AnswerPlaced
  <1>5. Plain(s) => Plain(t)
    BY SameNumbersIs DEF Plain
  <1>6. SameSending(s, t) /\ SendableBelow(s, n) => SendableBelow(t, n)
    BY SameNumbersIs, SendableSame DEF SendableBelow
  <1>. QED  BY <1>1, <1>2, <1>3, <1>4, <1>5, <1>6

LEMMA SameNumbersPayload ==
    ASSUME NEW s, NEW t, SameNumbers(s, t), SameSending(s, t), NEW payload
    PROVE  /\ PayloadShape(s, payload) => PayloadShape(t, payload)
           /\ PayloadPlaced(s, payload) => PayloadPlaced(t, payload)
  <1>1. PayloadShape(s, payload) => PayloadShape(t, payload)
    BY SameNumbersIs DEF PayloadShape
  <1>2. \A p : Sendable(s, p) => Sendable(t, p)
    BY SameNumbersIs, SendableSame
  <1>3. PayloadPlaced(s, payload) => PayloadPlaced(t, payload)
    BY <1>2, SameNumbersIs DEF PayloadPlaced
  <1>. QED  BY <1>1, <1>3

\* An answer is applied
LEMMA AcknowledgesKeep ==
    ASSUME NEW s, StoreOK(s), NEW t, StoreOK(t), NEW n \in Nat, NEW k \in Nat, NEW log, NEW logged,
           Answers(s, t, k), Acknowledges(s, t), AnswerPlaced(s, k, logged),
           InStep(s, log, n), SentLogged(s, logged)
    PROVE  InStep(t, log, n) /\ SentLogged(t, logged)
  <1>1. t.damage = {} /\ s.damage = {}
    BY DEF Acknowledges, InStep
  <1>2. Base(s) \in Int /\ s.meta.sequence \in Int /\ Base(s) <= s.meta.sequence
    BY <1>1, NumberFacts DEF StoreOK
  <1>3. 0 <= Base(t) /\ n <= Top(t)
    BY <1>2 DEF Acknowledges, InStep
  <1>4. \A p \in Unflagged(t) : p \in Unflagged(s) /\ Number(t, p) = Number(s, p) /\ t.files[p] = s.files[p]
    BY DEF Acknowledges, Answers, Unflagged
  <1>5. InStep(t, log, n)
    BY <1>1, <1>3, <1>4 DEF InStep
  <1>6. \A p \in Sent(t) : p \in Unflagged(t) /\ Number(t, p) < k
    BY <1>1, NumberFacts DEF StoreOK, Answers, Sent
  <1>7. SentLogged(t, logged)
    BY <1>4, <1>6 DEF SentLogged, AnswerPlaced
  <1>. QED  BY <1>5, <1>7

LEMMA AcknowledgesInLog ==
    ASSUME NEW s, NEW t, NEW k, NEW log, Answers(s, t, k), Acknowledges(s, t), InLog(s, log)
    PROVE  InLog(t, log)
  <1>1. SUFFICES ASSUME NEW m \in DOMAIN log, NEW p \in Positions(t), log[m] = t.files[p].id
                 PROVE  p \in Unflagged(t) /\ Number(t, p) = m
    BY DEF InLog
  <1>2. p \in Positions(s) /\ t.files[p] = s.files[p]
    BY DEF Answers
  <1>3. p \in Unflagged(s) /\ Number(s, p) = m
    BY <1>1, <1>2 DEF InLog
  <1>4. p \in Unflagged(t)
    BY <1>1, <1>2, <1>3 DEF Unflagged
  <1>. QED  BY <1>3, <1>4 DEF Acknowledges

LEMMA AcknowledgesAdded ==
    ASSUME NEW s, NEW t, NEW k, NEW logged, Answers(s, t, k), Acknowledges(s, t), SentLogged(s, logged),
           NEW added, added \subseteq Ids(s) \cup logged
    PROVE  added \subseteq Ids(t) \cup logged
  <1>1. SUFFICES ASSUME NEW p \in Positions(s) PROVE s.files[p].id \in Ids(t) \cup logged
    BY DEF Ids
  <1>2. CASE p \in Sent(s)
    BY <1>2 DEF SentLogged
  <1>3. CASE p \in Positions(t)
    BY <1>3 DEF Answers, Ids
  <1>. QED  BY <1>1, <1>2, <1>3 DEF Acknowledges

LEMMA AnswersPlain ==
    ASSUME NEW s, StoreOK(s), NEW t, NEW k, Answers(s, t, k), Plain(s)
    PROVE  Plain(t) /\ IdsFrom(s, t)
  <1>1. s.nextPos \in Nat
    BY DEF StoreOK, StoreType
  <1>. QED  BY <1>1 DEF Answers, Plain, IdsFrom

LEMMA AddOffset ==
    ASSUME NEW s, StoreOK(s), s.meta.offset = 0, NEW type \in Types, NEW gone
    PROVE  Add(s, type, gone).meta.offset = 0
  <1>. DEFINE d == DeleteMessagesOverLimit(s, gone)
              t == Write(d, type)
  <1>1. Trims(s, d)
    BY TrimIs
  <1>. HIDE DEF d
  <1>2. Writes(d, t)
    BY <1>1, WriteIs DEF Trims
  <1>3. t.meta.offset = 0
    BY <1>1, <1>2 DEF Trims, Writes
  <1>. QED  BY <1>3 DEF Add, d

\* A store that starts again behind everything the server has
LEMMA AfreshInStep ==
    ASSUME NEW t, StoreOK(t), t.damage = {}, t.meta.offset = 0, NEW n \in Nat, n <= t.meta.sequence,
           NEW log, NEW logged
    PROVE  InStep(t, log, n) /\ SentLogged(t, logged)
  <1>1. /\ t.meta.sequence \in Int /\ Base(t) = t.meta.sequence /\ Top(t) \in Int
        /\ t.meta.sequence <= Top(t)
        /\ \A p \in Unflagged(t) : Number(t, p) \in Int /\ Base(t) <= Number(t, p)
        /\ \A p \in Unflagged(t) : p \in Sent(t) <=> Number(t, p) < t.meta.sequence
    BY NumberFacts DEF StoreOK, Base
  <1>2. \A p \in Unflagged(t) : ~(Number(t, p) < n) /\ p \notin Sent(t)
    BY <1>1
  <1>3. Sent(t) = {}
    BY <1>2 DEF Sent
  <1>. QED  BY <1>1, <1>2, <1>3 DEF InStep, SentLogged

\* An ancient answer: the server has nothing of what the client has.
LEMMA AncientInLog ==
    ASSUME NEW s, StoreOK(s), NEW u, NEW t, NEW n \in Nat, NEW k \in Nat, n <= k, Ancient(s, k),
           IdsFrom(s, u), IdsFrom(u, t), NEW log, NEW logged, DOMAIN log = 0 .. n - 1,
           LogRight(log, logged, s.nextPos), s.damage = {}, InLog(s, log), u.nextPos \in Nat
    PROVE  InLog(t, log)
  <1>1. SUFFICES ASSUME NEW m \in DOMAIN log, NEW p \in Positions(t), log[m] = t.files[p].id
                 PROVE  FALSE
    BY DEF InLog
  <1>2. log[m] \in Nat /\ log[m] < s.nextPos /\ s.nextPos \in Nat /\ m \in Nat /\ m < n
    BY <1>1 DEF LogRight, StoreOK, StoreType
  <1>3. PICK r \in Positions(u) : t.files[p].id = u.files[r].id
    BY <1>1, <1>2 DEF IdsFrom
  <1>4. PICK q \in Positions(s) : u.files[r].id = s.files[q].id
    BY <1>1, <1>2, <1>3 DEF IdsFrom
  <1>5. q \in Unflagged(s) /\ Number(s, q) = m
    BY <1>1, <1>3, <1>4 DEF InLog
  <1>6. Base(s) <= m /\ Base(s) \in Int
    BY <1>5, NumberFacts DEF StoreOK
  <1>7. k < Base(s)
    BY DEF Ancient, Base
  <1>. QED  BY <1>2, <1>6, <1>7

LEMMA NotTooHigh ==
    ASSUME NEW s, StoreOK(s), s.damage = {}, NEW k \in Nat, k <= Top(s) PROVE ~TooHigh(s, k)
  <1>. DEFINE U == Unflagged(s)
  <1>1. /\ U \subseteq Nat /\ IsFiniteSet(U) /\ Cardinality(U) \in Nat
        /\ s.meta.offset \in Nat /\ s.meta.sequence \in Int /\ s.meta.offset <= Cardinality(U)
        /\ \A p \in U : Rank(U, p) \in Nat
    BY FilesFinite DEF StoreOK, OffsetInQueue
  <1>2. Pending(s) = U \ First(U, s.meta.offset)
    BY <1>1 DEF Pending, First
  <1>3. CountPending(s) = Cardinality(U) - s.meta.offset
    BY <1>1, <1>2, RankAfterFirst DEF CountPending
  <1>. QED  BY <1>1, <1>3 DEF TooHigh, Top, Base

-----------------------------------------------------------------------------
(* The request                                                             *)

Batch(s) == SameApi(s, GetPendingMessages(s, MaxMessages))

LEMMA BatchIs ==
    ASSUME NEW s, StoreOK(s)
    PROVE  /\ Batch(s) \subseteq Pending(s) /\ Batch(s) \subseteq Positions(s) /\ Batch(s) \subseteq Nat
           /\ IsFiniteSet(Batch(s)) /\ Cardinality(Batch(s)) \in Nat
           /\ \A p \in Batch(s) : Sendable(s, p)
  <1>1. Batch(s) \subseteq Pending(s) /\ \A p \in Batch(s) : Sendable(s, p)
    BY DEF Batch, SameApi, GetPendingMessages, Scanned
  <1>2. Pending(s) \subseteq Positions(s) /\ Positions(s) \subseteq Nat /\ IsFiniteSet(Positions(s))
    BY FilesFinite DEF StoreOK
  <1>3. Batch(s) \subseteq Positions(s)
    BY <1>1, <1>2
  <1>4. IsFiniteSet(Batch(s)) /\ Cardinality(Batch(s)) \in Nat
    BY <1>2, <1>3, SubsetCount
  <1>. QED  BY <1>1, <1>2, <1>3, <1>4

\* Every number of the request is that of one message.
LEMMA PayloadMessages ==
    ASSUME NEW s, StoreOK(s)
    PROVE  LET c == s.meta.sequence
               messages == Payload(s).messages
           IN  /\ Payload(s).sequence = c
               /\ DOMAIN messages = c .. c + Cardinality(Batch(s)) - 1
               /\ \A n \in DOMAIN messages :
                    \E p \in Batch(s) : c + Rank(Batch(s), p) = n /\ messages[n] = s.files[p].id
  <1>. DEFINE c == s.meta.sequence
              P == Batch(s)
              k == Cardinality(P)
              at(n) == CHOOSE p \in P : c + Rank(P, p) = n
  <1>1. P \subseteq Nat /\ IsFiniteSet(P) /\ k \in Nat /\ c \in Int
    BY BatchIs, FilesFinite DEF StoreOK
  <1>2. Payload(s).sequence = c /\ Payload(s).messages = [n \in c .. c + k - 1 |-> s.files[at(n)].id]
    BY DEF Payload, Numbered, Batch
  <1>3. ASSUME NEW n \in c .. c + k - 1 PROVE at(n) \in P /\ c + Rank(P, at(n)) = n
    <2>1. n - c \in Nat /\ n - c < k /\ c + (n - c) = n
      BY <1>1, <1>3
    <2>2. \E p \in P : Rank(P, p) = n - c
      BY <1>1, <2>1, RankOnto
    <2>3. \E p \in P : c + Rank(P, p) = n
      BY <2>1, <2>2
    <2>. QED  BY <2>3
  <1>. HIDE DEF at, P, k
  <1>4. \A n \in c .. c + k - 1 : \E p \in P : c + Rank(P, p) = n /\ Payload(s).messages[n] = s.files[p].id
    BY <1>2, <1>3
  <1>5. DOMAIN Payload(s).messages = c .. c + k - 1
    BY <1>2
  <1>. QED  BY <1>2, <1>4, <1>5 DEF P, k

LEMMA PayloadHasShape ==
    ASSUME NEW s, StoreOK(s), Plain(s), NEW t, t.meta.sequence = s.meta.sequence, t.nextPos = s.nextPos
    PROVE  PayloadShape(t, Payload(s))
  <1>. DEFINE messages == Payload(s).messages
  <1>1. \A p \in Batch(s) : s.files[p].id \in Nat /\ s.files[p].id < s.nextPos
    BY BatchIs DEF Plain, StoreOK, StoreType, File
  <1>2. \A n \in DOMAIN messages : messages[n] \in Nat /\ messages[n] < s.nextPos
    BY <1>1, PayloadMessages
  <1>3. \E k \in Nat : DOMAIN messages = s.meta.sequence .. s.meta.sequence + k - 1
    BY BatchIs, PayloadMessages
  <1>. QED  BY <1>2, <1>3, PayloadMessages DEF PayloadShape

(***************************************************************************)
(* A request carries the first pending messages that are left after        *)
(* reading them, so that each has the number it has in the store.          *)
(***************************************************************************)
LEMMA PayloadIsPlaced ==
    ASSUME NEW s, StoreOK(s), Plain(s), s.damage = {}
    PROVE  PayloadPlaced(FlagUnsendable(s, MaxMessages), Payload(s))
  <1>. DEFINE t == FlagUnsendable(s, MaxMessages)
              bad == {p \in Scanned(s, MaxMessages) : ~Sendable(s, p)}
              V == Unflagged(t)
              W == Pending(t)
              P == Batch(s)
              G == GetPendingMessages(s, MaxMessages)
              Before(p) == {r \in Pending(s) : r < p /\ Sendable(s, r)}
              k == s.meta.offset
              c == s.meta.sequence
  <1>1. MaxMessages \in Nat
    BY ExchangeAssumption
  <1>2. StoreOK(t) /\ Flags(s, t, bad)
    BY <1>1, FlagOK, FlagIs
  <1>. HIDE DEF t
  <1>3. bad \subseteq Pending(s) /\ \A p \in bad : ~Sendable(s, p)
    BY DEF Scanned
  <1>4. V = Unflagged(s) \ bad /\ t.damage = {} /\ t.meta = s.meta
    BY <1>2 DEF Flags
  <1>5. c \in Int /\ k \in Nat /\ c <= Top(s)
    BY FilesFinite, NumberFacts DEF StoreOK
  <1>6. \A p \in Pending(s) : Number(s, p) < c => Sendable(s, p)
    <2>1. \A p \in Pending(s) : p \in Unflagged(s) /\ c <= Number(s, p) /\ Number(s, p) \in Int
      BY NumberFacts DEF StoreOK, Pending
    <2>. QED  BY <1>5, <2>1
  <1>7. SameBelow(s, t, c)
    <2>. HIDE DEF bad
    <2>. QED  BY <1>2, <1>3, <1>5, <1>6, FlagSameBelow
  <1>8. V \subseteq Nat /\ IsFiniteSet(V) /\ k <= Cardinality(V) /\ \A p \in V : Rank(V, p) \in Nat
    BY <1>2, <1>4, FilesFinite DEF StoreOK, OffsetInQueue
  <1>9. W = V \ First(V, k)
    BY <1>4, <1>5, <1>8 DEF Pending, First
  <1>10. \A p \in W : Rank(W, p) = Rank(V, p) - k
    BY <1>5, <1>8, <1>9, RankAfterFirst
  <1>11. Sent(s) = Sent(t) /\ Sent(t) = First(V, k)
    BY <1>4, <1>7 DEF SameBelow, Sent, First
  <1>12. \A p : p \in Pending(s) <=> p \in Unflagged(s) /\ p \notin Sent(s)
    BY FilesFinite DEF StoreOK, Pending, Sent
  <1>13. W = Pending(s) \ bad
    BY <1>4, <1>9, <1>11, <1>12
  <1>14. P \subseteq W /\ P \subseteq Nat /\ P \subseteq Positions(s)
    BY <1>3, <1>13, BatchIs
  <1>15. ASSUME NEW p \in P, NEW q \in W, q < p PROVE q \in P
    <2>1. p \in G /\ p \in Pending(s) /\ Cardinality(Before(p)) < MaxMessages /\ p \in Nat
      BY <1>14, <1>15 DEF Batch, SameApi, GetPendingMessages, Scanned
    <2>2. q \in Pending(s) /\ q \notin bad /\ q \in Nat
      BY <1>8, <1>9, <1>13, <1>15
    <2>3. Before(q) \subseteq Before(p)
      <3>1. SUFFICES ASSUME NEW r \in Pending(s), r < q PROVE r < p
        OBVIOUS
      <3>2. r \in Nat
        BY FilesFinite DEF StoreOK
      <3>. QED  BY <1>15, <2>1, <2>2, <3>1, <3>2
    <2>4. IsFiniteSet(Before(p)) /\ Cardinality(Before(p)) \in Nat
      <3>1. IsFiniteSet(Pending(s))
        BY FilesFinite, SubsetCount DEF StoreOK
      <3>. QED  BY <3>1, SubsetCount
    <2>5. Cardinality(Before(q)) <= Cardinality(Before(p)) /\ Cardinality(Before(q)) \in Nat
      <3>. HIDE DEF Before
      <3>. QED  BY <2>3, <2>4, SubsetCount
    <2>6. Cardinality(Before(q)) < MaxMessages
      BY <1>1, <2>1, <2>4, <2>5
    <2>7. q \in Scanned(s, MaxMessages)
      BY <2>2, <2>6 DEF Scanned
    <2>8. q \in G
      BY <2>2, <2>7 DEF GetPendingMessages
    <2>9. G \subseteq Nat
      BY FilesFinite DEF StoreOK, GetPendingMessages, Scanned
    <2>10. \A r \in G : r <= p => s.files[r].api = s.files[Min(G)].api
      BY <1>15 DEF Batch, SameApi
    <2>11. \A r \in G : r <= q => s.files[r].api = s.files[Min(G)].api
      <3>1. \A r \in Nat : r <= q => r <= p
        BY <1>15, <2>1, <2>2
      <3>. HIDE DEF G
      <3>. QED  BY <2>9, <2>10, <3>1
    <2>. QED  BY <2>8, <2>11 DEF Batch, SameApi
  <1>16. ASSUME NEW p \in P PROVE Number(t, p) = c + Rank(P, p)
    <2>1. {q \in W : q < p} = {q \in P : q < p}
      BY <1>14, <1>15, <1>16
    <2>2. Rank(W, p) = Rank(P, p)
      BY <2>1 DEF Rank
    <2>3. p \in V /\ Rank(V, p) \in Nat /\ Rank(W, p) = Rank(V, p) - k
      BY <1>8, <1>9, <1>10, <1>14, <1>16
    <2>4. Number(t, p) = c - k + Rank(V, p)
      BY <1>4 DEF Number
    <2>. QED  BY <1>5, <2>2, <2>3, <2>4
  <1>17. \A p \in P : t.files[p].id = s.files[p].id /\ Sendable(t, p)
    <2>1. SUFFICES ASSUME NEW p \in P PROVE t.files[p].id = s.files[p].id /\ Sendable(t, p)
      OBVIOUS
    <2>2. p \in Positions(s) /\ Sendable(s, p)
      BY <1>14, BatchIs
    <2>3. SameSending(s, t)
      BY <1>4 DEF SameSending
    <2>. HIDE DEF bad
    <2>. QED  BY <1>2, <2>2, <2>3, SendableSame DEF Flags
  <1>. HIDE DEF P, W, c, bad
  <1>18. SUFFICES ASSUME NEW n \in DOMAIN Payload(s).messages
                  PROVE  \E p \in W : /\ Number(t, p) = n /\ t.files[p].id = Payload(s).messages[n]
                                      /\ Sendable(t, p)
    BY DEF PayloadPlaced, t, W
  <1>19. PICK p \in P : c + Rank(P, p) = n /\ Payload(s).messages[n] = s.files[p].id
    BY PayloadMessages DEF P, c
  <1>. QED  BY <1>14, <1>16, <1>17, <1>19

-----------------------------------------------------------------------------
(* The server's log                                                        *)

\* A log grew by messages of a request.
Extends(log, new, messages) ==
    /\ DOMAIN new = 0 .. Cardinality(DOMAIN new) - 1
    /\ Cardinality(DOMAIN new) \in Nat /\ Cardinality(DOMAIN log) <= Cardinality(DOMAIN new)
    /\ \A m \in DOMAIN log : m \in DOMAIN new /\ new[m] = log[m]
    /\ \A m \in DOMAIN new : m \in DOMAIN log \/ (m \in DOMAIN messages /\ new[m] = messages[m])
    /\ \/ Cardinality(DOMAIN new) = Cardinality(DOMAIN log)
       \/ Cardinality(DOMAIN new) - 1 \in DOMAIN messages

LEMMA IntervalCount ==
    ASSUME NEW n \in Nat PROVE Cardinality(0 .. n - 1) = n /\ IsFiniteSet(0 .. n - 1)
  <1>1. Cardinality(0 .. n - 1) = IF 0 > n - 1 THEN 0 ELSE n - 1 - 0 + 1
    BY FS_Interval
  <1>2. IsFiniteSet(0 .. n - 1)
    BY FS_Interval
  <1>. QED  BY <1>1, <1>2

\* The numbers below n, and those of a request that go on from there
Reaches(D, A, B, n) ==
    \E e \in Nat : /\ D = 0 .. e - 1 /\ n <= e /\ (e = n \/ e - 1 \in B)
                   /\ \A m \in D : m < n <=> m \in A

LEMMA IntervalUnion ==
    ASSUME NEW n \in Nat, NEW c \in Nat, NEW k \in Nat, c <= n,
           NEW A, A = 0 .. n - 1, NEW B, B = c .. c + k - 1
    PROVE  Reaches(A \cup B, A, B, n)
  <1>. DEFINE e == IF c + k <= n THEN n ELSE c + k
  <1>1. A \cup B = 0 .. e - 1
    OBVIOUS
  <1>2. e \in Nat /\ n <= e /\ (e = n \/ e - 1 \in B)
    OBVIOUS
  <1>3. \A m \in A \cup B : m < n <=> m \in A
    OBVIOUS
  <1>. QED  BY <1>1, <1>2, <1>3 DEF Reaches

LEMMA ReceivedExtends ==
    ASSUME ServerRight(server), NEW logged, NEW next, LogRight(server.log, logged, next),
           NEW s, s.meta.sequence \in Nat, NEW payload, PayloadShape(s, payload)
    PROVE  Extends(server.log, Received(payload), payload.messages)
  <1>. DEFINE log == server.log
              n == Expected
              c == s.meta.sequence
              messages == payload.messages
              new == Received(payload)
  <1>1. n \in Nat /\ n = Cardinality(DOMAIN log) /\ DOMAIN log = 0 .. n - 1
    BY FS_CardinalityType DEF ServerRight, Expected, LogRight
  <1>2. PICK k \in Nat : DOMAIN messages = c .. c + k - 1
    BY DEF PayloadShape
  <1>3. payload.sequence = c /\ c \in Nat
    BY DEF PayloadShape
  <1>. HIDE DEF c, n
  <1>4. CASE c > n
    <2>1. new = log
      BY <1>3, <1>4 DEF Received, n
    <2>. HIDE DEF new, log
    <2>2. \A m \in DOMAIN log : m \in DOMAIN new /\ new[m] = log[m]
      BY <2>1
    <2>3. \A m \in DOMAIN new : m \in DOMAIN log
      BY <2>1
    <2>4. Cardinality(DOMAIN new) = n /\ DOMAIN new = 0 .. n - 1
      BY <1>1, <2>1
    <2>5. Extends(log, new, messages)
      BY <1>1, <2>2, <2>3, <2>4 DEF Extends
    <2>. QED  BY <2>5 DEF new, log
  <1>5. CASE ~(c > n)
    <2>. DEFINE D == DOMAIN log \cup DOMAIN messages
    <2>1. new = [m \in D |-> IF m < n THEN log[m] ELSE messages[m]]
      BY <1>3, <1>5 DEF Received, n
    <2>. HIDE DEF new, log, messages
    <2>2. DOMAIN new = D /\ \A m \in D : new[m] = IF m < n THEN log[m] ELSE messages[m]
      BY <2>1
    <2>3. c <= n
      BY <1>1, <1>3, <1>5
    <2>4. PICK e \in Nat : /\ D = 0 .. e - 1 /\ n <= e /\ (e = n \/ e - 1 \in DOMAIN messages)
                           /\ \A m \in D : m < n <=> m \in DOMAIN log
      <3>1. Reaches(D, DOMAIN log, DOMAIN messages, n)
        BY <1>1, <1>2, <1>3, <2>3, IntervalUnion
      <3>. HIDE DEF D
      <3>. QED  BY <3>1 DEF Reaches
    <2>5. Cardinality(DOMAIN new) = e
      BY <2>2, <2>4, IntervalCount
    <2>6. \A m \in DOMAIN log : m \in DOMAIN new /\ new[m] = log[m]
      BY <2>2, <2>4
    <2>7. \A m \in DOMAIN new : m \in DOMAIN log \/ (m \in DOMAIN messages /\ new[m] = messages[m])
      BY <2>2, <2>4
    <2>8. Extends(log, new, messages)
      BY <1>1, <2>2, <2>4, <2>5, <2>6, <2>7 DEF Extends
    <2>. QED  BY <2>8 DEF new, log, messages
  <1>. QED  BY <1>4, <1>5

\* The new messages are the client's, under its numbers.
LEMMA ExtendsInStep ==
    ASSUME NEW s, StoreOK(s), NEW log, NEW new, NEW payload, Extends(log, new, payload.messages),
           NEW n \in Nat, DOMAIN log = 0 .. n - 1, n = Cardinality(DOMAIN log),
           InStep(s, log, n), PayloadPlaced(s, payload), SendableBelow(s, n)
    PROVE  /\ InStep(s, new, Cardinality(DOMAIN new))
           /\ SendableBelow(s, Cardinality(DOMAIN new))
  <1>. DEFINE e == Cardinality(DOMAIN new)
              messages == payload.messages
  <1>1. e \in Nat /\ n <= e /\ DOMAIN new = 0 .. e - 1
    BY DEF Extends
  <1>2. /\ s.damage = {} /\ Base(s) \in Int /\ Top(s) \in Int /\ 0 <= Base(s) /\ n <= Top(s)
        /\ \A p \in Unflagged(s) : Number(s, p) \in Int /\ Base(s) <= Number(s, p) /\ Number(s, p) < Top(s)
        /\ \A p, q \in Unflagged(s) : Number(s, p) = Number(s, q) => p = q
    BY NumberFacts DEF StoreOK, InStep
  <1>3. Pending(s) \subseteq Unflagged(s)
    BY DEF Pending
  <1>4. \A m \in DOMAIN messages : m < Top(s)
    BY <1>2, <1>3 DEF PayloadPlaced
  <1>5. e <= Top(s)
    <2>1. CASE e = n
      BY <1>2, <2>1
    <2>2. CASE e - 1 \in DOMAIN messages
      BY <1>1, <1>2, <1>4, <2>2
    <2>. QED  BY <2>1, <2>2 DEF Extends
  <1>6. ASSUME NEW p \in Unflagged(s), Number(s, p) < e, ~(Number(s, p) < n)
        PROVE  /\ new[Number(s, p)] = s.files[p].id /\ Sendable(s, p)
    <2>. DEFINE m == Number(s, p)
    <2>1. m \in DOMAIN new /\ m \notin DOMAIN log
      BY <1>1, <1>2, <1>6
    <2>2. m \in DOMAIN messages /\ new[m] = messages[m]
      BY <2>1 DEF Extends
    <2>3. PICK q \in Pending(s) : Number(s, q) = m /\ s.files[q].id = messages[m] /\ Sendable(s, q)
      BY <2>2 DEF PayloadPlaced
    <2>4. q = p
      BY <1>2, <1>3, <2>3
    <2>. QED  BY <2>2, <2>3, <2>4
  <1>7. ASSUME NEW p \in Unflagged(s), Number(s, p) < n PROVE new[Number(s, p)] = s.files[p].id
    <2>1. Number(s, p) \in DOMAIN log
      BY <1>2, <1>7
    <2>2. new[Number(s, p)] = log[Number(s, p)]
      BY <2>1 DEF Extends
    <2>. QED  BY <1>7, <2>2 DEF InStep
  <1>. HIDE DEF e
  <1>8. InStep(s, new, e)
    BY <1>2, <1>5, <1>6, <1>7 DEF InStep
  <1>9. SendableBelow(s, e)
    BY <1>3, <1>6 DEF SendableBelow
  <1>. QED  BY <1>8, <1>9 DEF e

LEMMA ExtendsInLog ==
    ASSUME NEW s, StoreOK(s), Plain(s), NEW log, NEW new, NEW payload, Extends(log, new, payload.messages),
           PayloadPlaced(s, payload), Once(log), InLog(s, log)
    PROVE  Once(new) /\ InLog(s, new)
  <1>. DEFINE messages == payload.messages
  <1>1. ASSUME NEW m \in DOMAIN new
        PROVE  \/ m \in DOMAIN log /\ new[m] = log[m]
               \/ \E q \in Pending(s) : Number(s, q) = m /\ s.files[q].id = new[m]
    BY DEF Extends, PayloadPlaced
  <1>2. Pending(s) \subseteq Positions(s) /\ Pending(s) \subseteq Unflagged(s)
    BY FilesFinite DEF StoreOK
  <1>3. InLog(s, new)
    <2>1. SUFFICES ASSUME NEW m \in DOMAIN new, NEW p \in Positions(s), new[m] = s.files[p].id
                   PROVE  p \in Unflagged(s) /\ Number(s, p) = m
      BY DEF InLog
    <2>2. CASE m \in DOMAIN log /\ new[m] = log[m]
      BY <2>1, <2>2 DEF InLog
    <2>3. CASE \E q \in Pending(s) : Number(s, q) = m /\ s.files[q].id = new[m]
      BY <1>2, <2>1, <2>3 DEF Plain
    <2>. QED  BY <1>1, <2>2, <2>3
  <1>4. ASSUME NEW m \in DOMAIN new, NEW q \in Pending(s), Number(s, q) = m, s.files[q].id = new[m],
               NEW n \in DOMAIN new, new[n] = new[m]
        PROVE  m = n
    BY <1>2, <1>3, <1>4 DEF InLog
  <1>5. Once(new)
    <2>1. SUFFICES ASSUME NEW m \in DOMAIN new, NEW n \in DOMAIN new, new[m] = new[n] PROVE m = n
      BY DEF Once
    <2>2. CASE \E q \in Pending(s) : Number(s, q) = m /\ s.files[q].id = new[m]
      BY <1>4, <2>1, <2>2
    <2>3. CASE \E q \in Pending(s) : Number(s, q) = n /\ s.files[q].id = new[n]
      BY <1>4, <2>1, <2>3
    <2>4. CASE m \in DOMAIN log /\ new[m] = log[m] /\ n \in DOMAIN log /\ new[n] = log[n]
      BY <2>1, <2>4 DEF Once
    <2>. QED  BY <1>1, <2>2, <2>3, <2>4
  <1>. QED  BY <1>3, <1>5

\* The server forgets.
LEMMA LogCutShort ==
    ASSUME NEW s, StoreOK(s), NEW log, NEW n \in Nat, NEW k \in Nat, k <= n, DOMAIN log = 0 .. n - 1,
           NEW logged, LogRight(log, logged, s.nextPos)
    PROVE  LET old == [m \in 0 .. k - 1 |-> log[m]]
           IN  /\ DOMAIN old = 0 .. k - 1 /\ Cardinality(DOMAIN old) = k
               /\ LogRight(old, logged, s.nextPos)
               /\ InStep(s, log, n) => InStep(s, old, k)
               /\ SendableBelow(s, n) => SendableBelow(s, k)
               /\ Once(log) => Once(old)
               /\ InLog(s, log) => InLog(s, old)
  <1>. DEFINE old == [m \in 0 .. k - 1 |-> log[m]]
  <1>1. /\ DOMAIN old = 0 .. k - 1 /\ Cardinality(DOMAIN old) = k
        /\ \A m \in DOMAIN old : m \in DOMAIN log /\ old[m] = log[m]
    BY IntervalCount
  <1>. HIDE DEF old
  <1>2. LogRight(old, logged, s.nextPos)
    BY <1>1 DEF LogRight
  <1>3. ASSUME InStep(s, log, n) PROVE InStep(s, old, k)
    <2>1. /\ Top(s) \in Int /\ Base(s) \in Int /\ 0 <= Base(s)
          /\ \A p \in Unflagged(s) : Number(s, p) \in Int /\ Base(s) <= Number(s, p)
      BY <1>3, NumberFacts DEF StoreOK, InStep
    <2>2. \A p \in Unflagged(s) : Number(s, p) < k => Number(s, p) \in DOMAIN old /\ Number(s, p) < n
      BY <1>1, <2>1
    <2>. QED  BY <1>1, <1>3, <2>1, <2>2 DEF InStep
  <1>4. ASSUME SendableBelow(s, n), NEW p \in Pending(s), Number(s, p) < k PROVE Sendable(s, p)
    <2>1. p \in Unflagged(s) /\ s.meta.offset \in Nat /\ s.meta.sequence \in Int /\ Rank(Unflagged(s), p) \in Nat
      BY FilesFinite DEF StoreOK, Pending
    <2>2. Number(s, p) \in Int
      BY <2>1 DEF Number
    <2>. QED  BY <1>4, <2>2 DEF SendableBelow
  <1>5. Once(log) => Once(old)
    BY <1>1 DEF Once
  <1>6. InLog(s, log) => InLog(s, old)
    BY <1>1 DEF InLog
  <1>. QED  BY <1>1, <1>2, <1>3, <1>4, <1>5, <1>6 DEF SendableBelow, old

-----------------------------------------------------------------------------
(* What the client has, what it sent and what the server received          *)

Count(log) == Cardinality(DOMAIN log)

AnswerTaken(x) == x.stage \in {"applied", "messages", "handled"}

\* This holds whatever has happened to the numbering.
Sound(s, disk, x, log, h) ==
    /\ LogRight(log, h.logged, s.nextPos)
    /\ s.meta.sequence \in Nat /\ disk.sequence \in Nat /\ Plain(s)
    /\ x.stage # "handled" => disk.accepted = s.meta.accepted /\ disk.api = s.meta.api
    /\ h.upset \/ ~h.cut
    /\ x.stage = "sent" => PayloadShape(s, x.payload)
    /\ x.stage = "answered" => Count(log) <= x.next
    /\ AnswerTaken(x) => Count(log) <= s.meta.sequence

\* The numbers of the client are those of the server.
Agreed(s, x, log, h) ==
    /\ InStep(s, log, Count(log)) /\ SentLogged(s, h.logged)
    /\ h.added \subseteq Ids(s) \cup h.logged
    /\ ~AnswerTaken(x) => SendableBelow(s, Count(log))
    /\ x.stage = "sent" => PayloadPlaced(s, x.payload)
    /\ x.stage = "answered" => AnswerPlaced(s, x.next, h.logged)

Logged(s, log) == Once(log) /\ InLog(s, log)

Lossless ==
    /\ Sound(store, saved, exchange, server.log, history)
    /\ ~history.cut => Agreed(store, exchange, server.log, history)
    /\ ~history.upset => Logged(store, server.log)


\* What every action starts from
LEMMA LosslessIs ==
    ASSUME ExchangeInv, HandlingInv, Lossless
    PROVE  /\ StoreOK(store) /\ saved \in Meta /\ store.meta \in Meta /\ store.nextPos \in Nat
           /\ ServerRight(server) /\ HistoryRight(history)
           /\ Expected = Count(server.log) /\ Expected \in Nat
           /\ DOMAIN server.log = 0 .. Expected - 1
           /\ Sound(store, saved, exchange, server.log, history)
           /\ ~history.cut => Agreed(store, exchange, server.log, history) /\ store.damage = {}
           /\ ~history.upset => Logged(store, server.log) /\ ~history.cut
  <1>1. StoreOK(store) /\ saved \in Meta /\ store.meta \in Meta /\ ServerRight(server)
    BY InvIs
  <1>2. store.nextPos \in Nat
    BY <1>1 DEF StoreOK, StoreType
  <1>3. HistoryRight(history)
    BY DEF HandlingInv
  <1>4. Expected = Count(server.log) /\ Expected \in Nat
    BY <1>1, FS_CardinalityType DEF ServerRight, Expected, Count
  <1>5. Sound(store, saved, exchange, server.log, history)
    BY DEF Lossless
  <1>6. DOMAIN server.log = 0 .. Expected - 1
    BY <1>4, <1>5 DEF Sound, LogRight, Expected
  <1>7. ~history.cut => Agreed(store, exchange, server.log, history) /\ store.damage = {}
    BY DEF Lossless, Agreed, InStep
  <1>8. ~history.upset => Logged(store, server.log) /\ ~history.cut
    BY <1>5 DEF Lossless, Sound
  <1>. QED  BY <1>1, <1>2, <1>3, <1>4, <1>5, <1>6, <1>7, <1>8

LEMMA LogRightMore ==
    ASSUME NEW log, NEW logged, NEW n \in Nat, NEW m \in Nat, n <= m, LogRight(log, logged, n)
    PROVE  LogRight(log, logged, m)
  BY DEF LogRight

LEMMA PayloadShapeMore ==
    ASSUME NEW s, s.nextPos \in Nat, NEW t, t.nextPos \in Nat, s.nextPos <= t.nextPos,
           t.meta.sequence = s.meta.sequence, NEW payload, PayloadShape(s, payload)
    PROVE  PayloadShape(t, payload)
  BY DEF PayloadShape

-----------------------------------------------------------------------------
(* Messages from the plugins                                               *)

\* What add leaves when no room had to be made for the message
LEMMA AddAgreed ==
    ASSUME NEW s, StoreOK(s), Plain(s), NEW type \in Types, NEW gone, NEW t, t = Add(s, type, gone),
           t.damage = {}, Pending(s) \subseteq Positions(t),
           NEW log, NEW n \in Nat, NEW logged, InStep(s, log, n), SentLogged(s, logged)
    PROVE  /\ StoreOK(t) /\ Grows(s, t) /\ SameSending(s, t) /\ s.damage = {}
           /\ InStep(t, log, n) /\ SentLogged(t, logged)
  <1>1. StoreOK(t) /\ SamePlain(s, t) /\ SameSending(s, t)
    BY AddOK, AddPlain
  <1>2. s.damage = {}
    BY DEF InStep
  <1>3. Grows(s, t)
    BY <1>2, AddGrows
  <1>. QED  BY <1>1, <1>2, <1>3, GrowsInStep, GrowsSentLogged

LEMMA AddedRight ==
    ASSUME NEW h, NEW s, NEW t, NEW added, NEW logged, added = AddedAfter(h, s, t),
           h.added \subseteq Ids(s) \cup logged
    PROVE  added \subseteq Ids(t) \cup logged
  BY DEF AddedAfter

LEMMA LossSend ==
    ASSUME ExchangeInv, HandlingInv, Lossless,
           (\E t \in Types : SendMessage(t)) \/ (\E op \in contexts : SendResult(op))
    PROVE  Lossless'
  <1>. PICK type \in Types : \E gone : store' = Add(store, type, gone)
    BY ExchangeAssumption DEF SendMessage, SendResult
  <1>1. PICK gone : store' = Add(store, type, gone)
    OBVIOUS
  <1>2. /\ history' = Record(history, store, store') /\ ReactorFree
        /\ saved' = saved /\ exchange' = exchange /\ server' = server
    BY DEF SendMessage, SendResult
  <1>. DEFINE s == store
              t == store'
              log == server.log
              logged == history.logged
              n == Count(log)
  <1>3. /\ StoreOK(s) /\ s.nextPos \in Nat /\ n \in Nat /\ HistoryRight(history)
        /\ Sound(s, saved, exchange, log, history)
    BY LosslessIs
  <1>4. Plain(s) /\ LogRight(log, logged, s.nextPos)
    BY <1>3 DEF Sound
  <1>5. StoreOK(t) /\ SamePlain(s, t) /\ SameSending(s, t)
    BY <1>1, <1>3, <1>4, AddOK, AddPlain
  <1>6. /\ history'.logged = logged /\ history'.added = AddedAfter(history, s, t)
        /\ history'.cut = CutAfter(history, s, t) /\ history'.upset = (history.upset \/ history'.cut)
    BY <1>2, <1>3, RecordIs
  <1>7. t.nextPos \in Nat /\ s.nextPos <= t.nextPos /\ t.meta.sequence = s.meta.sequence /\ Plain(t)
    BY <1>5 DEF StoreOK, StoreType, SamePlain, IdsFrom
  <1>8. exchange.stage \in {"idle", "sent", "answered"} /\ ~AnswerTaken(exchange)
    BY <1>2 DEF ReactorFree, AnswerTaken
  <1>9. Sound(t, saved, exchange, log, history')
    <2>1. LogRight(log, logged, t.nextPos)
      BY <1>3, <1>4, <1>7, LogRightMore
    <2>2. exchange.stage = "sent" => PayloadShape(t, exchange.payload)
      BY <1>3, <1>7, PayloadShapeMore DEF Sound
    <2>3. t.meta.accepted = s.meta.accepted /\ t.meta.api = s.meta.api
      BY <1>5 DEF SameSending
    <2>. QED  BY <1>3, <1>6, <1>7, <1>8, <2>1, <2>2, <2>3 DEF Sound
  <1>10. ASSUME ~history'.cut PROVE Agreed(t, exchange, log, history') /\ Grows(s, t)
    <2>1. ~history.cut /\ t.damage = {} /\ Pending(s) \subseteq Positions(t)
      BY <1>6, <1>10 DEF CutAfter
    <2>2. Agreed(s, exchange, log, history)
      BY <2>1, LosslessIs
    <2>3. /\ Grows(s, t) /\ SameSending(s, t) /\ s.damage = {}
          /\ InStep(t, log, n) /\ SentLogged(t, logged)
      BY <1>1, <1>3, <1>4, <2>1, <2>2, AddAgreed DEF Agreed
    <2>4. history'.added \subseteq Ids(t) \cup logged
      BY <1>6, <2>2, AddedRight DEF Agreed
    <2>5. SendableBelow(t, n)
      <3>1. n <= Top(s) /\ SendableBelow(s, n)
        BY <1>8, <2>2 DEF Agreed, InStep
      <3>. QED  BY <1>3, <1>5, <2>1, <2>3, <3>1, GrowsSendable
    <2>6. exchange.stage = "sent" => PayloadPlaced(t, exchange.payload)
      BY <1>3, <1>5, <2>1, <2>2, <2>3, GrowsPayload DEF Agreed
    <2>7. exchange.stage = "answered" => AnswerPlaced(t, exchange.next, logged)
      <3>1. exchange.stage = "answered" => exchange.next \in Nat
        BY InvIs DEF ExchangeRight
      <3>. QED  BY <1>3, <1>5, <2>1, <2>2, <2>3, <3>1, GrowsAnswer DEF Agreed
    <2>. QED  BY <1>6, <2>3, <2>4, <2>5, <2>6, <2>7 DEF Agreed
  <1>11. ASSUME ~history'.upset PROVE Logged(t, log)
    <2>1. ~history'.cut /\ ~history.upset
      BY <1>6, <1>11
    <2>2. Logged(s, log)
      BY <2>1, LosslessIs
    <2>3. InLog(t, log)
      BY <1>3, <1>4, <1>10, <2>1, <2>2, GrowsInLog DEF Logged
    <2>. QED  BY <2>2, <2>3 DEF Logged
  <1>. QED  BY <1>2, <1>9, <1>10, <1>11 DEF Lossless

-----------------------------------------------------------------------------
(* Requests                                                                *)

\* Reading the queue holds nothing that the server has.
LEMMA FlagAgreed ==
    ASSUME NEW s, StoreOK(s), Plain(s), NEW max \in Nat, NEW t, t = FlagUnsendable(s, max),
           NEW log, NEW n \in Nat, NEW logged, InStep(s, log, n), SentLogged(s, logged), SendableBelow(s, n)
    PROVE  /\ InStep(t, log, n) /\ SentLogged(t, logged) /\ SendableBelow(t, n)
           /\ DOMAIN log = 0 .. n - 1 /\ LogRight(log, logged, s.nextPos) /\ InLog(s, log) => InLog(t, log)
  <1>. DEFINE bad == {p \in Scanned(s, max) : ~Sendable(s, p)}
              c == s.meta.sequence
              k == IF c <= n THEN n ELSE c
  <1>1. StoreOK(t) /\ SamePlain(s, t) /\ SameSending(s, t) /\ Flags(s, t, bad)
    BY FlagOK, FlagPlain, FlagIs
  <1>2. s.damage = {} /\ t.damage = {} /\ t.meta = s.meta
    BY <1>1 DEF InStep, Flags
  <1>3. bad \subseteq Pending(s) /\ \A p \in bad : ~Sendable(s, p)
    BY DEF Scanned
  <1>. HIDE DEF bad
  <1>4. c \in Int /\ c <= Top(s) /\ n <= Top(s)
    BY <1>2, NumberFacts DEF StoreOK, InStep
  <1>5. \A p \in Pending(s) : p \in Unflagged(s) /\ Number(s, p) \in Int /\ c <= Number(s, p)
    BY <1>2, NumberFacts DEF StoreOK, Pending
  <1>6. \A p \in Pending(s) : Number(s, p) < k => Sendable(s, p)
    BY <1>4, <1>5 DEF SendableBelow
  <1>7. k \in Int /\ c <= k /\ k <= Top(s) /\ n <= k
    BY <1>4
  <1>. HIDE DEF k
  <1>8. SameBelow(s, t, k)
    BY <1>1, <1>2, <1>3, <1>6, <1>7, FlagSameBelow
  <1>9. InStep(t, log, n)
    BY <1>1, <1>2, <1>7, <1>8, SameBelowInStep
  <1>10. SentLogged(t, logged)
    BY <1>1, <1>8, SameBelowSentLogged
  <1>11. ASSUME NEW p \in Pending(t), Number(t, p) < n PROVE Sendable(t, p)
    <2>1. p \in Unflagged(t) /\ Number(t, p) \in Int /\ c <= Number(t, p)
      BY <1>1, <1>2, NumberFacts DEF StoreOK, Pending
    <2>2. p \in Unflagged(s) /\ Number(s, p) = Number(t, p)
      BY <1>7, <1>8, <1>11, <2>1 DEF SameBelow
    <2>3. p \in Pending(s)
      BY <1>2, <2>1, <2>2, NumberFacts DEF StoreOK
    <2>4. Sendable(s, p)
      BY <1>11, <2>2, <2>3 DEF SendableBelow
    <2>5. p \in Positions(s)
      BY <2>2 DEF Unflagged
    <2>. QED  BY <1>1, <2>4, <2>5, SendableSame DEF Flags
  <1>12. DOMAIN log = 0 .. n - 1 /\ LogRight(log, logged, s.nextPos) /\ InLog(s, log) => InLog(t, log)
    BY <1>1, <1>2, <1>7, <1>8, SameBelowInLog
  <1>. QED  BY <1>9, <1>10, <1>11, <1>12 DEF SendableBelow

LEMMA SameIds ==
    ASSUME NEW s, NEW t, Positions(t) = Positions(s), \A p \in Positions(s) : t.files[p].id = s.files[p].id
    PROVE  Ids(t) = Ids(s)
  BY DEF Ids

\* A step that leaves the queue alone
LEMMA TakeTokenIs ==
    ASSUME NEW s, StoreOK(s)
    PROVE  /\ SameNumbers(s, TakeToken(s)) /\ SameSending(s, TakeToken(s))
           /\ TakeToken(s).meta.sequence = s.meta.sequence /\ TakeToken(s).damage = s.damage
  <1>1. s.meta \in Meta /\ IsStore(s)
    BY DEF StoreOK, StoreType
  <1>. QED  BY <1>1 DEF TakeToken, SameNumbers, SameQueue, SameSending, Meta, IsStore

LEMMA LossBegin == ASSUME ExchangeInv, HandlingInv, Lossless, Begin PROVE Lossless'
  <1>. DEFINE s == store
              u == FlagUnsendable(s, MaxMessages)
              t == TakeToken(u)
              payload == Payload(s)
              log == server.log
              logged == history.logged
              n == Count(log)
  <1>1. /\ store' = t /\ saved' = t.meta /\ server' = server /\ history' = history
        /\ exchange = Idle /\ exchange' = [stage |-> "sent", payload |-> payload]
    BY DEF Begin
  <1>2. exchange'.stage = "sent" /\ exchange'.payload = payload /\ ~AnswerTaken(exchange')
    BY <1>1 DEF AnswerTaken
  <1>3. /\ StoreOK(s) /\ s.nextPos \in Nat /\ n \in Nat /\ DOMAIN log = 0 .. n - 1
        /\ Sound(s, saved, exchange, log, history)
    BY LosslessIs
  <1>4. Plain(s) /\ LogRight(log, logged, s.nextPos) /\ MaxMessages \in Nat /\ s.meta.sequence \in Nat
    BY <1>3, ExchangeAssumption DEF Sound
  <1>5. /\ StoreOK(u) /\ SamePlain(s, u) /\ SameSending(s, u)
        /\ Flags(s, u, {p \in Scanned(s, MaxMessages) : ~Sendable(s, p)})
    BY <1>3, <1>4, FlagOK, FlagPlain, FlagIs
  <1>6. u.nextPos = s.nextPos /\ u.meta.sequence = s.meta.sequence /\ Plain(u) /\ Ids(u) = Ids(s)
    BY <1>5, SameIds DEF Flags, SamePlain
  <1>7. SameNumbers(u, t) /\ SameSending(u, t)
    BY <1>5, TakeTokenIs
  <1>8. PayloadShape(u, payload)
    BY <1>3, <1>4, <1>6, PayloadHasShape
  <1>9. s.damage = {} => PayloadPlaced(u, payload)
    BY <1>3, <1>4, PayloadIsPlaced
  <1>. HIDE DEF u, t, payload
  <1>10. /\ t.nextPos = s.nextPos /\ t.meta.sequence = s.meta.sequence /\ Plain(t) /\ Ids(t) = Ids(s)
         /\ PayloadShape(t, payload)
    BY <1>6, <1>7, <1>8, SameNumbersIs, SameNumbersKeep, SameNumbersPayload
  <1>11. Sound(t, t.meta, exchange', log, history)
    BY <1>2, <1>3, <1>4, <1>10 DEF Sound
  <1>12. ASSUME ~history.cut PROVE Agreed(t, exchange', log, history)
    <2>1. Agreed(s, exchange, log, history) /\ s.damage = {} /\ ~AnswerTaken(exchange)
      BY <1>1, <1>12, LosslessIs DEF AnswerTaken, Idle
    <2>2. InStep(u, log, n) /\ SentLogged(u, logged) /\ SendableBelow(u, n)
      BY <1>3, <1>4, <2>1, FlagAgreed DEF Agreed, u
    <2>3. InStep(t, log, n) /\ SentLogged(t, logged) /\ SendableBelow(t, n) /\ PayloadPlaced(t, payload)
      BY <1>7, <1>9, <2>1, <2>2, SameNumbersKeep, SameNumbersPayload
    <2>. QED  BY <1>2, <1>10, <2>1, <2>3 DEF Agreed
  <1>13. ASSUME ~history.upset PROVE Logged(t, log)
    <2>1. Logged(s, log) /\ Agreed(s, exchange, log, history) /\ ~AnswerTaken(exchange)
      BY <1>1, <1>13, LosslessIs DEF AnswerTaken, Idle
    <2>2. InLog(u, log)
      BY <1>3, <1>4, <2>1, FlagAgreed DEF Agreed, u, Logged
    <2>. QED  BY <1>7, <2>1, <2>2, SameNumbersKeep DEF Logged
  <1>. QED  BY <1>1, <1>11, <1>12, <1>13 DEF Lossless

\* A step after which no request is out, and which leaves the numbers alone
LEMMA LossQuiet ==
    ASSUME ExchangeInv, HandlingInv, Lossless, UNCHANGED <<server, history>>,
           StoreOK(store'), SameNumbers(store, store'), saved'.sequence \in Nat,
           saved'.accepted = store'.meta.accepted, saved'.api = store'.meta.api,
           exchange'.stage \in {"idle", "messages"},
           exchange'.stage = "messages" => AnswerTaken(exchange),
           SameSending(store, store') \/ AnswerTaken(exchange)
    PROVE  Lossless'
  <1>. DEFINE s == store
              t == store'
              log == server.log
              logged == history.logged
              n == Count(log)
  <1>1. /\ StoreOK(s) /\ n \in Nat /\ Sound(s, saved, exchange, log, history)
    BY LosslessIs
  <1>2. /\ t.nextPos = s.nextPos /\ t.meta.sequence = s.meta.sequence /\ Plain(t) /\ Ids(t) = Ids(s)
        /\ t.damage = s.damage
    BY <1>1, SameNumbersIs, SameNumbersKeep DEF Sound
  <1>3. exchange'.stage # "sent" /\ exchange'.stage # "answered" /\ exchange'.stage # "handled"
    OBVIOUS
  <1>4. AnswerTaken(exchange') => AnswerTaken(exchange)
    BY DEF AnswerTaken
  <1>5. Sound(t, saved', exchange', log, history)
    BY <1>1, <1>2, <1>3, <1>4 DEF Sound
  <1>6. ASSUME ~history.cut PROVE Agreed(t, exchange', log, history)
    <2>1. Agreed(s, exchange, log, history) /\ s.damage = {}
      BY <1>6, LosslessIs
    <2>2. InStep(t, log, n) /\ SentLogged(t, logged)
      BY <2>1, SameNumbersKeep DEF Agreed
    <2>3. SendableBelow(t, n)
      <3>1. CASE AnswerTaken(exchange)
        <4>1. n <= t.meta.sequence
          BY <1>1, <1>2, <3>1 DEF Sound
        <4>. QED  BY <1>1, <1>2, <2>1, <4>1, NothingBelow
      <3>2. CASE ~AnswerTaken(exchange)
        BY <2>1, <3>2, SameNumbersKeep DEF Agreed
      <3>. QED  BY <3>1, <3>2
    <2>. QED  BY <1>2, <1>3, <2>1, <2>2, <2>3 DEF Agreed
  <1>7. ASSUME ~history.upset PROVE Logged(t, log)
    BY <1>7, LosslessIs, SameNumbersKeep DEF Logged
  <1>. QED  BY <1>5, <1>6, <1>7 DEF Lossless

LEMMA SameNumbersRefl == ASSUME NEW s PROVE SameNumbers(s, s) /\ SameSending(s, s)
  BY DEF SameNumbers, SameQueue, SameSending

LEMMA LossNoAnswer ==
    ASSUME ExchangeInv, HandlingInv, Lossless, RequestFails \/ ServerRejects PROVE Lossless'
  <1>1. /\ UNCHANGED <<store, saved, server, history>> /\ exchange' = Idle
        /\ exchange.stage \in {"sent", "answered"}
    BY DEF RequestFails, ServerRejects
  <1>2. exchange'.stage = "idle" /\ exchange.stage # "handled"
    BY <1>1 DEF Idle
  <1>3. /\ StoreOK(store) /\ saved.sequence \in Nat
        /\ saved.accepted = store.meta.accepted /\ saved.api = store.meta.api
    BY <1>2, LosslessIs DEF Sound
  <1>4. SameNumbers(store, store') /\ SameSending(store, store')
    BY <1>1, SameNumbersRefl
  <1>5. /\ StoreOK(store') /\ saved'.sequence \in Nat
        /\ saved'.accepted = store'.meta.accepted /\ saved'.api = store'.meta.api
    BY <1>1, <1>3
  <1>. QED  BY <1>1, <1>2, <1>4, <1>5, LossQuiet

LEMMA MetaNumbers ==
    ASSUME NEW s, StoreOK(s), NEW m \in Meta, m.offset = s.meta.offset, m.sequence = s.meta.sequence,
           NEW t, t = [s EXCEPT !.meta = m]
    PROVE  SameNumbers(s, t) /\ StoreOK(t) /\ t.meta = m
  <1>1. StoreOK(t) /\ t.meta = m
    BY MetaChanges
  <1>2. IsStore(s)
    BY DEF StoreOK, StoreType
  <1>. QED  BY <1>1, <1>2 DEF SameNumbers, SameQueue, IsStore

LEMMA RecordFailureNumbers ==
    ASSUME NEW s, StoreOK(s)
    PROVE  LET t == RecordFailure(s, FALSE, {})
           IN  SameNumbers(s, t) /\ SameSending(s, t) /\ StoreOK(t)
  <1>. DEFINE m == [s.meta EXCEPT !.failing = TRUE]
              t == [s EXCEPT !.meta = m]
  <1>1. s.meta \in Meta /\ IsStore(s)
    BY DEF StoreOK, StoreType
  <1>2. /\ m \in Meta /\ m.offset = s.meta.offset /\ m.sequence = s.meta.sequence
        /\ m.accepted = s.meta.accepted /\ m.api = s.meta.api
    BY <1>1 DEF Meta
  <1>3. RecordFailure(s, FALSE, {}) = t
    BY <1>1 DEF RecordFailure
  <1>. HIDE DEF m
  <1>4. SameNumbers(s, t) /\ StoreOK(t) /\ t.meta = m
    BY <1>2, MetaNumbers
  <1>. QED  BY <1>2, <1>3, <1>4 DEF SameSending

LEMMA RecordSuccessNumbers ==
    ASSUME NEW s, StoreOK(s)
    PROVE  SameNumbers(s, RecordSuccess(s)) /\ SameSending(s, RecordSuccess(s)) /\ StoreOK(RecordSuccess(s))
  <1>. DEFINE m == [s.meta EXCEPT !.failing = FALSE, !.blackhole = FALSE]
              t == [s EXCEPT !.meta = m]
  <1>1. s.meta \in Meta /\ IsStore(s)
    BY DEF StoreOK, StoreType
  <1>2. /\ m \in Meta /\ m.offset = s.meta.offset /\ m.sequence = s.meta.sequence
        /\ m.accepted = s.meta.accepted /\ m.api = s.meta.api
    BY <1>1 DEF Meta
  <1>3. RecordSuccess(s) = t
    BY <1>1 DEF RecordSuccess
  <1>. HIDE DEF m
  <1>4. SameNumbers(s, t) /\ StoreOK(t) /\ t.meta = m
    BY <1>2, MetaNumbers
  <1>. QED  BY <1>2, <1>3, <1>4 DEF SameSending

LEMMA LossHandlerRaises == ASSUME ExchangeInv, HandlingInv, Lossless, HandlerRaises PROVE Lossless'
  <1>1. /\ UNCHANGED <<saved, server, history>> /\ exchange' = Idle /\ exchange.stage = "messages"
        /\ store' = RecordFailure(store, FALSE, {})
    BY DEF HandlerRaises, MessageLeft
  <1>2. exchange'.stage = "idle"
    BY <1>1 DEF Idle
  <1>3. /\ StoreOK(store) /\ saved.sequence \in Nat
        /\ saved.accepted = store.meta.accepted /\ saved.api = store.meta.api
    BY <1>1, LosslessIs DEF Sound
  <1>4. SameNumbers(store, store') /\ SameSending(store, store') /\ StoreOK(store')
    BY <1>1, <1>3, RecordFailureNumbers
  <1>5. saved'.sequence \in Nat /\ saved'.accepted = store'.meta.accepted /\ saved'.api = store'.meta.api
    BY <1>1, <1>3, <1>4 DEF SameSending
  <1>. QED  BY <1>1, <1>2, <1>4, <1>5, LossQuiet

LEMMA SetServerApiNumbers ==
    ASSUME NEW s, StoreOK(s), NEW api \in Apis
    PROVE  SameNumbers(s, SetServerApi(s, api)) /\ StoreOK(SetServerApi(s, api))
  <1>. DEFINE m == [s.meta EXCEPT !.api = api]
              t == [s EXCEPT !.meta = m]
  <1>1. s.meta \in Meta /\ IsStore(s)
    BY DEF StoreOK, StoreType
  <1>2. m \in Meta /\ m.offset = s.meta.offset /\ m.sequence = s.meta.sequence
    BY <1>1 DEF Meta
  <1>3. SetServerApi(s, api) = t
    BY <1>1 DEF SetServerApi
  <1>. HIDE DEF m
  <1>. QED  BY <1>2, <1>3, MetaNumbers

LEMMA LossCommitAnswer == ASSUME ExchangeInv, HandlingInv, Lossless, CommitAnswer PROVE Lossless'
  <1>1. /\ exchange.stage = "applied" /\ saved' = store'.meta /\ UNCHANGED <<server, history>>
        /\ exchange' = [stage |-> "messages", at |-> exchange.at, last |-> exchange.last]
    BY DEF CommitAnswer
  <1>2. store' = store \/ \E a \in Apis : store' = SetServerApi(store, a)
    BY ExchangeAssumption DEF CommitAnswer, AdoptApi
  <1>3. StoreOK(store) /\ store.meta.sequence \in Nat
    BY LosslessIs DEF Sound
  <1>4. SameNumbers(store, store') /\ StoreOK(store')
    BY <1>2, <1>3, SameNumbersRefl, SetServerApiNumbers
  <1>5. store'.meta.sequence = store.meta.sequence
    BY <1>4, SameNumbersIs
  <1>6. exchange'.stage = "messages" /\ AnswerTaken(exchange)
    BY <1>1 DEF AnswerTaken
  <1>. QED  BY <1>1, <1>3, <1>4, <1>5, <1>6, LossQuiet

LEMMA LossCommitMessage == ASSUME ExchangeInv, HandlingInv, Lossless, CommitMessage PROVE Lossless'
  <1>. DEFINE n == store.meta.server_sequence + 1
              m == [store.meta EXCEPT !.server_sequence = n]
              t == [store EXCEPT !.meta = m]
  <1>1. /\ exchange.stage = "handled" /\ saved' = store'.meta /\ UNCHANGED <<server, history>>
        /\ store' = [store EXCEPT !.meta.server_sequence = n]
        /\ exchange' = [exchange EXCEPT !.stage = "messages", !.at = exchange.at + 1]
    BY DEF CommitMessage, NextServerSequence
  <1>2. StoreOK(store) /\ store.meta.sequence \in Nat /\ store.meta \in Meta /\ IsStore(store)
    BY LosslessIs DEF Sound, StoreOK, StoreType
  <1>3. n \in Nat
    BY <1>2 DEF Meta
  <1>. HIDE DEF n
  <1>4. m \in Meta /\ m.offset = store.meta.offset /\ m.sequence = store.meta.sequence
    BY <1>2, <1>3 DEF Meta
  <1>5. store' = t
    BY <1>1, <1>2
  <1>. HIDE DEF m
  <1>6. SameNumbers(store, store') /\ StoreOK(store')
    BY <1>2, <1>4, <1>5, MetaNumbers
  <1>7. store'.meta.sequence = store.meta.sequence
    BY <1>6, SameNumbersIs
  <1>8. DOMAIN exchange = {"stage", "at", "last"}
    BY <1>1, InvIs DEF ExchangeRight
  <1>9. exchange'.stage = "messages" /\ AnswerTaken(exchange)
    BY <1>1, <1>8 DEF AnswerTaken
  <1>. QED  BY <1>1, <1>2, <1>6, <1>7, <1>9, LossQuiet

LEMMA LossFinish == ASSUME ExchangeInv, HandlingInv, Lossless, Finish PROVE Lossless'
  <1>. DEFINE s == store
              u == FlagUnsendable(s, 1)
              t == RecordSuccess(u)
              log == server.log
              logged == history.logged
              n == Count(log)
  <1>1. /\ store' = t /\ UNCHANGED <<saved, server, history>>
        /\ exchange.stage = "messages" /\ exchange' = Idle
    BY DEF Finish
  <1>2. exchange'.stage = "idle" /\ AnswerTaken(exchange) /\ ~AnswerTaken(exchange')
    BY <1>1 DEF AnswerTaken, Idle
  <1>3. /\ StoreOK(s) /\ s.nextPos \in Nat /\ n \in Nat /\ DOMAIN log = 0 .. n - 1
        /\ Sound(s, saved, exchange, log, history)
    BY LosslessIs
  <1>4. Plain(s) /\ LogRight(log, logged, s.nextPos) /\ s.meta.sequence \in Nat /\ n <= s.meta.sequence
    BY <1>2, <1>3 DEF Sound
  <1>5. /\ StoreOK(u) /\ SamePlain(s, u) /\ SameSending(s, u)
        /\ Flags(s, u, {p \in Scanned(s, 1) : ~Sendable(s, p)})
    BY <1>3, <1>4, FlagOK, FlagPlain, FlagIs
  <1>6. u.nextPos = s.nextPos /\ u.meta.sequence = s.meta.sequence /\ Plain(u) /\ Ids(u) = Ids(s)
    BY <1>5, SameIds DEF Flags, SamePlain
  <1>7. SameNumbers(u, t) /\ SameSending(u, t)
    BY <1>5, RecordSuccessNumbers
  <1>. HIDE DEF u, t
  <1>8. t.nextPos = s.nextPos /\ t.meta.sequence = s.meta.sequence /\ Plain(t) /\ Ids(t) = Ids(s)
    BY <1>6, <1>7, SameNumbersIs, SameNumbersKeep
  <1>9. saved.accepted = t.meta.accepted /\ saved.api = t.meta.api
    BY <1>1, <1>3, <1>5, <1>7 DEF Sound, SameSending
  <1>10. Sound(t, saved, exchange', log, history)
    BY <1>2, <1>3, <1>4, <1>8, <1>9 DEF Sound
  <1>11. ASSUME ~history.cut PROVE Agreed(t, exchange', log, history)
    <2>1. Agreed(s, exchange, log, history) /\ s.damage = {}
      BY <1>11, LosslessIs
    <2>2. SendableBelow(s, n)
      BY <1>3, <1>4, <2>1, NothingBelow
    <2>3. InStep(u, log, n) /\ SentLogged(u, logged) /\ SendableBelow(u, n)
      BY <1>3, <1>4, <2>1, <2>2, FlagAgreed DEF Agreed, u
    <2>4. InStep(t, log, n) /\ SentLogged(t, logged) /\ SendableBelow(t, n)
      BY <1>7, <2>3, SameNumbersKeep
    <2>. QED  BY <1>2, <1>8, <2>1, <2>4 DEF Agreed
  <1>12. ASSUME ~history.upset PROVE Logged(t, log)
    <2>1. Logged(s, log) /\ Agreed(s, exchange, log, history) /\ s.damage = {}
      BY <1>12, LosslessIs
    <2>2. SendableBelow(s, n)
      BY <1>3, <1>4, <2>1, NothingBelow
    <2>3. InLog(u, log)
      BY <1>3, <1>4, <2>1, <2>2, FlagAgreed DEF Agreed, u, Logged
    <2>. QED  BY <1>7, <2>1, <2>3, SameNumbersKeep DEF Logged
  <1>. QED  BY <1>1, <1>10, <1>11, <1>12 DEF Lossless

-----------------------------------------------------------------------------
(* The server                                                              *)

LEMMA LossRollback ==
    ASSUME ExchangeInv, HandlingInv, Lossless, NEW k \in 0 .. Expected - 1, Rollback(k) PROVE Lossless'
  <1>. DEFINE s == store
              log == server.log
              logged == history.logged
              n == Count(log)
              old == [m \in 0 .. k - 1 |-> log[m]]
  <1>1. /\ server' = [server EXCEPT !.log = old]
        /\ UNCHANGED <<store, saved, exchange, history>>
    BY DEF Rollback
  <1>2. /\ StoreOK(s) /\ n \in Nat /\ DOMAIN log = 0 .. n - 1 /\ n = Expected
        /\ Sound(s, saved, exchange, log, history) /\ ServerRight(server)
    BY LosslessIs
  <1>3. k \in Nat /\ k <= n
    BY <1>2
  <1>4. LogRight(log, logged, s.nextPos)
    BY <1>2 DEF Sound
  <1>5. /\ Count(old) = k /\ LogRight(old, logged, s.nextPos)
        /\ InStep(s, log, n) => InStep(s, old, k)
        /\ SendableBelow(s, n) => SendableBelow(s, k)
        /\ Once(log) => Once(old)
        /\ InLog(s, log) => InLog(s, old)
    BY <1>2, <1>3, <1>4, LogCutShort DEF Count
  <1>. HIDE DEF old
  <1>6. server'.log = old
    BY <1>1, <1>2 DEF ServerRight
  <1>7. exchange.stage = "answered" => exchange.next \in Nat
    BY InvIs DEF ExchangeRight
  <1>. HIDE DEF n
  <1>8. Sound(s, saved, exchange, old, history)
    BY <1>2, <1>3, <1>5, <1>7 DEF Sound, n
  <1>9. ~history.cut => Agreed(s, exchange, old, history)
    BY <1>5, LosslessIs DEF Agreed, n
  <1>10. ~history.upset => Logged(s, old)
    BY <1>5, LosslessIs DEF Logged
  <1>. QED  BY <1>1, <1>6, <1>8, <1>9, <1>10 DEF Lossless

LEMMA ExtendsRight ==
    ASSUME NEW s, NEW payload, PayloadShape(s, payload), NEW log, NEW logged, LogRight(log, logged, s.nextPos),
           NEW new, Extends(log, new, payload.messages)
    PROVE  LogRight(new, logged \cup Range(new), s.nextPos)
  <1>1. \A m \in DOMAIN new : new[m] \in Nat /\ new[m] < s.nextPos
    BY DEF PayloadShape, LogRight, Extends
  <1>2. \A m \in DOMAIN new : new[m] \in logged \cup Range(new)
    BY DEF Range
  <1>3. DOMAIN new = 0 .. Cardinality(DOMAIN new) - 1
    BY DEF Extends
  <1>. HIDE DEF Range
  <1>. QED  BY <1>1, <1>2, <1>3 DEF LogRight

\* What the server received is what its answer acknowledges.
LEMMA ReceivedPlaced ==
    ASSUME NEW s, StoreOK(s), NEW new, NEW e \in Nat, DOMAIN new = 0 .. e - 1, InStep(s, new, e), NEW logged
    PROVE  AnswerPlaced(s, e, logged \cup Range(new))
  <1>1. ASSUME NEW p \in Unflagged(s), Number(s, p) < e PROVE s.files[p].id \in Range(new)
    <2>1. Number(s, p) \in Int /\ 0 <= Number(s, p)
      BY NumberFacts DEF StoreOK, InStep
    <2>2. Number(s, p) \in DOMAIN new
      BY <1>1, <2>1
    <2>. QED  BY <1>1, <2>2 DEF InStep, Range
  <1>. HIDE DEF Range
  <1>. QED  BY <1>1 DEF AnswerPlaced, InStep

LEMMA LossServerAnswers == ASSUME ExchangeInv, HandlingInv, Lossless, ServerAnswers PROVE Lossless'
  <1>. DEFINE s == store
              log == server.log
              logged == history.logged
              n == Count(log)
              payload == exchange.payload
              new == Received(payload)
              e == Count(new)
  <1>1. /\ exchange.stage = "sent" /\ Receive(payload) /\ UNCHANGED <<store, saved>>
        /\ exchange'.stage = "answered" /\ exchange'.next = Count(server'.log)
    BY DEF ServerAnswers, Count
  <1>2. /\ StoreOK(s) /\ n \in Nat /\ DOMAIN log = 0 .. n - 1 /\ n = Expected /\ HistoryRight(history)
        /\ Sound(s, saved, exchange, log, history) /\ ServerRight(server)
    BY LosslessIs
  <1>3. /\ LogRight(log, logged, s.nextPos) /\ PayloadShape(s, payload) /\ s.meta.sequence \in Nat
        /\ Plain(s)
    BY <1>1, <1>2 DEF Sound
  <1>4. Extends(log, new, payload.messages)
    BY <1>2, <1>3, ReceivedExtends
  <1>. HIDE DEF new
  <1>5. server'.log = new
    BY <1>1 DEF Receive, new
  <1>6. /\ history'.logged = logged \cup Range(new) /\ history'.added = history.added
        /\ history'.cut = history.cut /\ history'.upset = history.upset
    BY <1>1, <1>2, <1>5, LoggedSet DEF Receive
  <1>7. LogRight(new, history'.logged, s.nextPos)
    BY <1>3, <1>4, <1>6, ExtendsRight
  <1>8. e \in Nat /\ n <= e /\ DOMAIN new = 0 .. e - 1 /\ exchange'.next = e
    BY <1>1, <1>4, <1>5 DEF Extends, Count
  <1>9. exchange'.stage # "sent" /\ exchange'.stage # "handled" /\ ~AnswerTaken(exchange')
    BY <1>1 DEF AnswerTaken
  <1>10. Sound(s, saved, exchange', new, history')
    BY <1>1, <1>2, <1>6, <1>7, <1>8, <1>9 DEF Sound
  <1>11. ASSUME ~history.cut PROVE Agreed(s, exchange', new, history') /\ PayloadPlaced(s, payload)
    <2>1. Agreed(s, exchange, log, history) /\ ~AnswerTaken(exchange)
      BY <1>1, <1>11, LosslessIs DEF AnswerTaken
    <2>2. PayloadPlaced(s, payload) /\ InStep(s, log, n) /\ SendableBelow(s, n)
      BY <1>1, <2>1 DEF Agreed
    <2>3. InStep(s, new, e) /\ SendableBelow(s, e)
      BY <1>2, <1>4, <2>2, ExtendsInStep DEF Count
    <2>4. AnswerPlaced(s, e, history'.logged)
      BY <1>2, <1>6, <1>8, <2>3, ReceivedPlaced
    <2>5. SentLogged(s, history'.logged) /\ history'.added \subseteq Ids(s) \cup history'.logged
      BY <1>6, <2>1 DEF Agreed, SentLogged
    <2>. QED  BY <1>8, <1>9, <2>2, <2>3, <2>4, <2>5 DEF Agreed
  <1>12. ASSUME ~history.upset PROVE Logged(s, new)
    <2>1. Logged(s, log) /\ ~history.cut
      BY <1>12, LosslessIs
    <2>. QED  BY <1>2, <1>3, <1>4, <1>11, <2>1, ExtendsInLog DEF Logged
  <1>. QED  BY <1>1, <1>5, <1>6, <1>10, <1>11, <1>12 DEF Lossless

-----------------------------------------------------------------------------
(* handle_result                                                           *)

LEMMA TokenNumbers ==
    ASSUME NEW s, StoreOK(s), NEW token \in Nat
    PROVE  LET t == [s EXCEPT !.meta.exchange_token = token]
           IN  SameNumbers(s, t) /\ SameSending(s, t) /\ StoreOK(t) /\ t.meta.offset = s.meta.offset
  <1>. DEFINE m == [s.meta EXCEPT !.exchange_token = token]
              t == [s EXCEPT !.meta = m]
  <1>1. s.meta \in Meta /\ IsStore(s)
    BY DEF StoreOK, StoreType
  <1>2. /\ m \in Meta /\ m.offset = s.meta.offset /\ m.sequence = s.meta.sequence
        /\ m.accepted = s.meta.accepted /\ m.api = s.meta.api
    BY <1>1 DEF Meta
  <1>3. [s EXCEPT !.meta.exchange_token = token] = t
    BY <1>1
  <1>. HIDE DEF m
  <1>4. SameNumbers(s, t) /\ StoreOK(t) /\ t.meta = m
    BY <1>2, MetaNumbers
  <1>. QED  BY <1>2, <1>3, <1>4 DEF SameSending

\* The answer is one of those that the client expects.
LEMMA LossAcknowledged ==
    ASSUME ExchangeInv, HandlingInv, Lossless, exchange.stage = "answered", exchange'.stage = "applied",
           NEW k \in Nat, k = exchange.next, ~NeedsResync(store, k),
           NEW u, u = GotNextExpected(store, k), StoreOK(u), StoreOK(store'),
           SameNumbers(u, store'), SameSending(u, store'), UNCHANGED <<saved, server, history>>
    PROVE  Lossless'
  <1>. DEFINE s == store
              t == store'
              log == server.log
              logged == history.logged
              n == Count(log)
  <1>1. /\ StoreOK(s) /\ n \in Nat /\ Sound(s, saved, exchange, log, history) /\ k \in Int
    BY LosslessIs
  <1>2. Answers(s, u, k) /\ (s.damage = {} => Acknowledges(s, u))
    BY <1>1, GotNextExpectedIs, GotNextExpectedAcknowledges
  <1>3. Plain(u) /\ u.nextPos = s.nextPos /\ u.meta.sequence = k /\ SameSending(s, u)
    BY <1>1, <1>2, AnswersPlain DEF Sound, Answers
  <1>4. Plain(t) /\ t.nextPos = s.nextPos /\ t.meta.sequence = k /\ Ids(t) = Ids(u)
    BY <1>3, SameNumbersIs, SameNumbersKeep
  <1>5. exchange'.stage # "sent" /\ exchange'.stage # "answered" /\ AnswerTaken(exchange')
    BY DEF AnswerTaken
  <1>6. saved.accepted = t.meta.accepted /\ saved.api = t.meta.api
    BY <1>1, <1>3 DEF Sound, SameSending
  <1>7. Sound(t, saved, exchange', log, history)
    BY <1>1, <1>4, <1>5, <1>6 DEF Sound
  <1>8. ASSUME ~history.cut PROVE Agreed(t, exchange', log, history) /\ Acknowledges(s, u)
    <2>1. Agreed(s, exchange, log, history) /\ s.damage = {}
      BY <1>8, LosslessIs
    <2>2. Acknowledges(s, u) /\ AnswerPlaced(s, k, logged) /\ InStep(s, log, n) /\ SentLogged(s, logged)
      BY <1>2, <2>1 DEF Agreed
    <2>3. InStep(u, log, n) /\ SentLogged(u, logged)
      BY <1>1, <1>2, <2>2, AcknowledgesKeep
    <2>4. history.added \subseteq Ids(u) \cup logged
      BY <1>2, <2>1, <2>2, AcknowledgesAdded DEF Agreed
    <2>5. InStep(t, log, n) /\ SentLogged(t, logged)
      BY <2>3, SameNumbersKeep
    <2>. QED  BY <1>4, <1>5, <2>2, <2>4, <2>5 DEF Agreed
  <1>9. ASSUME ~history.upset PROVE Logged(t, log)
    <2>1. Logged(s, log) /\ ~history.cut
      BY <1>9, LosslessIs
    <2>2. InLog(u, log)
      BY <1>2, <1>8, <2>1, AcknowledgesInLog DEF Logged
    <2>. QED  BY <2>1, <2>2, SameNumbersKeep DEF Logged
  <1>. QED  BY <1>7, <1>8, <1>9 DEF Lossless

\* The client starts again from the number that the server gives it.
LEMMA LossResync ==
    ASSUME ExchangeInv, HandlingInv, Lossless, exchange.stage = "answered", exchange'.stage = "applied",
           NEW k \in Nat, k = exchange.next, NeedsResync(store, k),
           NEW moved, moved = GotNextExpected(store, k), StoreOK(moved),
           NEW gone, NEW u, u = Add(moved, Resync, gone), StoreOK(u), StoreOK(store'),
           SameNumbers(u, store'), SameSending(u, store'), store'.meta.offset = u.meta.offset,
           UNCHANGED <<saved, server>>,
           history' = Cut([history EXCEPT !.added = Ids(store')], store'.damage # {})
    PROVE  Lossless'
  <1>. DEFINE s == store
              t == store'
              log == server.log
              logged == history.logged
              n == Count(log)
  <1>1. /\ StoreOK(s) /\ n \in Nat /\ Sound(s, saved, exchange, log, history) /\ k \in Int
        /\ s.nextPos \in Nat /\ DOMAIN log = 0 .. n - 1 /\ HistoryRight(history) /\ Resync \in Types
    BY LosslessIs, StoreAssumption
  <1>2. Plain(s) /\ LogRight(log, logged, s.nextPos) /\ n <= k
    BY <1>1 DEF Sound
  <1>3. Answers(s, moved, k) /\ moved.meta.offset = 0
    BY <1>1, GotNextExpectedIs
  <1>4. /\ Plain(moved) /\ IdsFrom(s, moved) /\ moved.nextPos = s.nextPos /\ moved.meta.sequence = k
        /\ SameSending(s, moved)
    BY <1>1, <1>2, <1>3, AnswersPlain DEF Answers
  <1>5. SamePlain(moved, u) /\ SameSending(moved, u) /\ u.meta.offset = 0
    BY <1>1, <1>3, <1>4, AddPlain, AddOffset
  <1>6. Plain(u) /\ IdsFrom(moved, u) /\ u.meta.sequence = k /\ s.nextPos <= u.nextPos
    BY <1>4, <1>5 DEF SamePlain, IdsFrom
  <1>7. Plain(t) /\ t.meta.sequence = k /\ t.nextPos = u.nextPos /\ t.meta.offset = 0 /\ t.nextPos \in Nat
    BY <1>5, <1>6, SameNumbersIs, SameNumbersKeep DEF StoreOK, StoreType
  <1>8. /\ history'.logged = logged /\ history'.added = Ids(t) /\ history'.cut = (t.damage # {})
        /\ history'.upset = (history.upset \/ t.damage # {})
    <2>. DEFINE a == [history EXCEPT !.added = Ids(t)]
                cut == t.damage # {}
    <2>1. /\ HistoryRight(a) /\ a.upset = history.upset /\ a.added = Ids(t) /\ a.logged = logged
      BY <1>1, AddedSet DEF SameHandling
    <2>2. history' = Cut(a, cut) /\ cut \in BOOLEAN
      OBVIOUS
    <2>. HIDE DEF a, cut
    <2>3. /\ history'.logged = a.logged /\ history'.added = a.added /\ history'.cut = cut
          /\ history'.upset = (a.upset \/ cut)
      BY <2>1, <2>2, CutIs
    <2>. QED  BY <2>1, <2>3 DEF cut
  <1>9. exchange'.stage # "sent" /\ exchange'.stage # "answered" /\ AnswerTaken(exchange')
    BY DEF AnswerTaken
  <1>10. saved.accepted = t.meta.accepted /\ saved.api = t.meta.api
    BY <1>1, <1>4, <1>5 DEF Sound, SameSending
  <1>11. Sound(t, saved, exchange', log, history')
    <2>1. LogRight(log, history'.logged, t.nextPos)
      BY <1>1, <1>2, <1>6, <1>7, <1>8, LogRightMore
    <2>. QED  BY <1>1, <1>2, <1>7, <1>8, <1>9, <1>10, <2>1 DEF Sound
  <1>12. ASSUME ~history'.cut PROVE Agreed(t, exchange', log, history')
    <2>1. t.damage = {}
      BY <1>8, <1>12
    <2>2. InStep(t, log, n) /\ SentLogged(t, logged)
      BY <1>1, <1>2, <1>7, <2>1, AfreshInStep
    <2>. QED  BY <1>8, <1>9, <2>2 DEF Agreed
  <1>13. ASSUME ~history'.upset PROVE Logged(t, log)
    <2>1. Logged(s, log) /\ Agreed(s, exchange, log, history) /\ s.damage = {}
      BY <1>8, <1>13, LosslessIs
    <2>2. k <= Top(s)
      BY <2>1 DEF Agreed, AnswerPlaced
    <2>3. Ancient(s, k)
      BY <1>1, <2>1, <2>2, NotTooHigh DEF NeedsResync
    <2>4. moved.nextPos \in Nat
      BY <1>1, <1>4
    <2>5. InLog(u, log)
      BY <1>1, <1>2, <1>4, <1>6, <2>1, <2>3, <2>4, AncientInLog DEF Logged
    <2>. QED  BY <2>1, <2>5, SameNumbersKeep DEF Logged
  <1>. QED  BY <1>11, <1>12, <1>13 DEF Lossless

LEMMA LossApplyAnswer == ASSUME ExchangeInv, HandlingInv, Lossless, ApplyAnswer PROVE Lossless'
  <1>. DEFINE k == exchange.next
              moved == GotNextExpected(store, k)
              ancient == NeedsResync(store, k)
              u(gone) == IF ancient THEN Add(moved, Resync, gone) ELSE moved
  <1>1. /\ exchange.stage = "answered" /\ exchange' = [exchange EXCEPT !.stage = "applied"]
        /\ UNCHANGED <<saved, server>>
    BY DEF ApplyAnswer
  <1>2. PICK gone : /\ store' = [u(gone) EXCEPT !.meta.exchange_token = exchange.token]
                    /\ history' = IF ancient
                                  THEN Cut([history EXCEPT !.added = Ids(store')], store'.damage # {})
                                  ELSE history
    BY DEF ApplyAnswer
  <1>3. /\ k \in Nat /\ k \in Int /\ exchange.token \in Nat
        /\ DOMAIN exchange = {"stage", "at", "last", "next", "token"}
    BY <1>1, InvIs DEF ExchangeRight
  <1>4. exchange'.stage = "applied"
    BY <1>1, <1>3
  <1>5. StoreOK(moved)
    BY <1>3, InvIs, GotNextExpectedOK
  <1>. HIDE DEF k, moved
  <1>6. CASE ancient
    <2>. DEFINE v == Add(moved, Resync, gone)
    <2>1. StoreOK(v)
      BY <1>5, AddOK, StoreAssumption
    <2>. HIDE DEF v
    <2>2. store' = [v EXCEPT !.meta.exchange_token = exchange.token]
      BY <1>2, <1>6 DEF v
    <2>3. /\ SameNumbers(v, store') /\ SameSending(v, store') /\ StoreOK(store')
          /\ store'.meta.offset = v.meta.offset
      BY <1>3, <2>1, <2>2, TokenNumbers
    <2>4. history' = Cut([history EXCEPT !.added = Ids(store')], store'.damage # {})
      BY <1>2, <1>6
    <2>. QED  BY <1>1, <1>3, <1>4, <1>5, <1>6, <2>1, <2>3, <2>4, LossResync DEF k, moved, v
  <1>7. CASE ~ancient
    <2>1. store' = [moved EXCEPT !.meta.exchange_token = exchange.token] /\ history' = history
      BY <1>2, <1>7
    <2>2. SameNumbers(moved, store') /\ SameSending(moved, store') /\ StoreOK(store')
      BY <1>3, <1>5, <2>1, TokenNumbers
    <2>. QED  BY <1>1, <1>3, <1>4, <1>5, <1>7, <2>1, <2>2, LossAcknowledged DEF k, moved
  <1>. QED  BY <1>6, <1>7

LEMMA SetAcceptedTypesMeta ==
    ASSUME NEW s, StoreOK(s), NEW accepted \in SUBSET Types, NEW t, t = SetAcceptedTypes(s, accepted)
    PROVE  t.damage = s.damage /\ t.meta.offset = s.meta.offset /\ t.meta.sequence = s.meta.sequence
  <1>1. s.meta \in Meta /\ IsStore(s)
    BY DEF StoreOK, StoreType
  <1>. DEFINE a == [s EXCEPT !.meta.accepted = accepted]
  <1>2. /\ IsStore(a) /\ a.damage = s.damage
        /\ a.meta.offset = s.meta.offset /\ a.meta.sequence = s.meta.sequence
    BY <1>1 DEF IsStore, Meta
  <1>. HIDE DEF a
  <1>3. t = ReprocessHolding(a, accepted)
    BY DEF SetAcceptedTypes, a
  <1>4. t.damage = a.damage /\ t.meta = a.meta
    BY <1>2, <1>3 DEF ReprocessHolding, IsStore
  <1>. QED  BY <1>2, <1>4

LEMMA StartIsSame ==
    ASSUME NEW s, StoreOK(s), NEW t, KeepsStart(s, t), t.damage = {},
           t.meta.offset = s.meta.offset, t.meta.sequence = s.meta.sequence
    PROVE  SameStart(s, t)
  <1>1. CASE StartsAfresh(s, t)
    <2>1. s.meta.offset = 0
      BY <1>1 DEF StartsAfresh
    <2>2. \A p \in Unflagged(s) : Rank(Unflagged(s), p) \in Nat
      BY FilesFinite DEF StoreOK
    <2>3. Sent(s) = {}
      BY <2>1, <2>2 DEF Sent
    <2>. QED  BY <2>3 DEF SameStart
  <1>. QED  BY <1>1 DEF KeepsStart

\* Other types are accepted: messages move, but none of those that were sent.
LEMMA SetAcceptedTypesAgreed ==
    ASSUME NEW s, StoreOK(s), Plain(s), NEW accepted \in SUBSET Types, NEW t, t = SetAcceptedTypes(s, accepted),
           NEW log, NEW n \in Nat, n <= s.meta.sequence, NEW logged, InStep(s, log, n), SentLogged(s, logged)
    PROVE  /\ InStep(t, log, n) /\ SentLogged(t, logged)
           /\ DOMAIN log = 0 .. n - 1 /\ LogRight(log, logged, s.nextPos) /\ InLog(s, log) => InLog(t, log)
  <1>1. StoreOK(t) /\ SamePlain(s, t) /\ KeepsStart(s, t)
    BY SetAcceptedTypesOK, SetAcceptedTypesPlain, SetAcceptedTypesKeepsStart
  <1>2. s.damage = {} /\ t.damage = {} /\ SameStart(s, t) /\ s.meta.sequence \in Int
    BY <1>1, SetAcceptedTypesMeta, StartIsSame, FilesFinite DEF InStep, StoreOK
  <1>3. SameBelow(s, t, s.meta.sequence)
    BY <1>1, <1>2, SameStartBelow
  <1>4. InStep(t, log, n)
    BY <1>1, <1>2, <1>3, SameBelowInStep
  <1>5. SentLogged(t, logged)
    BY <1>1, <1>3, SameBelowSentLogged
  <1>6. DOMAIN log = 0 .. n - 1 /\ LogRight(log, logged, s.nextPos) /\ InLog(s, log) => InLog(t, log)
    BY <1>1, <1>2, <1>3, SameBelowInLog
  <1>. QED  BY <1>4, <1>5, <1>6

\* What a handler may do to the store
HandledWell(s, t, log, logged, n) ==
    /\ SamePlain(s, t) /\ StoreOK(t)
    /\ t.damage = {} /\ Pending(s) \subseteq Positions(t) /\ InStep(s, log, n) /\ SentLogged(s, logged) =>
         /\ InStep(t, log, n) /\ SentLogged(t, logged)
         /\ InLog(s, log) => InLog(t, log)

LEMMA AddHandled ==
    ASSUME NEW s, StoreOK(s), Plain(s), NEW type \in Types, NEW gone, NEW log, NEW n \in Nat, NEW logged,
           LogRight(log, logged, s.nextPos)
    PROVE  HandledWell(s, Add(s, type, gone), log, logged, n)
  <1>. DEFINE t == Add(s, type, gone)
  <1>1. SamePlain(s, t) /\ StoreOK(t) /\ s.nextPos \in Nat
    BY AddPlain, AddOK DEF StoreOK, StoreType
  <1>. HIDE DEF t
  <1>2. ASSUME t.damage = {}, Pending(s) \subseteq Positions(t), InStep(s, log, n), SentLogged(s, logged)
        PROVE  /\ InStep(t, log, n) /\ SentLogged(t, logged)
               /\ InLog(s, log) => InLog(t, log)
    <2>1. InStep(t, log, n) /\ SentLogged(t, logged) /\ Grows(s, t)
      BY <1>2, AddAgreed DEF t
    <2>. QED  BY <1>1, <2>1, GrowsInLog
  <1>. QED  BY <1>1, <1>2 DEF HandledWell, t

LEMMA AcceptHandled ==
    ASSUME NEW s, StoreOK(s), Plain(s), NEW accepted \in SUBSET Types, NEW log, NEW n \in Nat, NEW logged,
           n <= s.meta.sequence, LogRight(log, logged, s.nextPos), DOMAIN log = 0 .. n - 1
    PROVE  HandledWell(s, FlagUnsendable(SetAcceptedTypes(s, accepted), 1), log, logged, n)
  <1>. DEFINE u == SetAcceptedTypes(s, accepted)
              t == FlagUnsendable(u, 1)
  <1>1. StoreOK(u) /\ SamePlain(s, u) /\ s.nextPos \in Nat /\ u.nextPos \in Nat
    BY SetAcceptedTypesOK, SetAcceptedTypesPlain DEF StoreOK, StoreType
  <1>2. InStep(s, log, n) /\ SentLogged(s, logged) =>
          /\ InStep(u, log, n) /\ SentLogged(u, logged) /\ (InLog(s, log) => InLog(u, log))
    BY SetAcceptedTypesAgreed
  <1>. HIDE DEF u
  <1>3. Plain(u) /\ s.nextPos <= u.nextPos /\ u.meta.sequence = s.meta.sequence
    BY <1>1 DEF SamePlain, IdsFrom
  <1>4. StoreOK(t) /\ SamePlain(u, t)
    BY <1>1, <1>3, FlagOK, FlagPlain
  <1>5. Positions(t) = Positions(u)
    BY <1>1, <1>3, FlagIs DEF Flags
  <1>6. SamePlain(s, t)
    <2>1. Plain(t) /\ t.meta.sequence = s.meta.sequence
      BY <1>3, <1>4 DEF SamePlain
    <2>2. \A p \in Positions(s) \cap Positions(t) : t.files[p].id = s.files[p].id
      BY <1>1, <1>4, <1>5 DEF SamePlain
    <2>3. \A p \in Positions(t) : t.files[p].id = u.files[p].id
      BY <1>4, <1>5 DEF SamePlain
    <2>4. s.nextPos <= t.nextPos
      <3>1. u.nextPos <= t.nextPos /\ t.nextPos \in Nat
        BY <1>4 DEF SamePlain, IdsFrom, StoreOK, StoreType
      <3>. QED  BY <1>1, <1>3, <3>1
    <2>5. IdsFrom(s, t)
      BY <1>1, <1>5, <2>3, <2>4 DEF SamePlain, IdsFrom
    <2>. QED  BY <2>1, <2>2, <2>5 DEF SamePlain
  <1>7. ASSUME InStep(s, log, n), SentLogged(s, logged)
        PROVE  /\ InStep(t, log, n) /\ SentLogged(t, logged)
               /\ InLog(s, log) => InLog(t, log)
    <2>1. InStep(u, log, n) /\ SentLogged(u, logged) /\ (InLog(s, log) => InLog(u, log))
      BY <1>2, <1>7
    <2>2. SendableBelow(u, n)
      BY <1>1, <1>3, <2>1, NothingBelow DEF InStep
    <2>3. LogRight(log, logged, u.nextPos)
      BY <1>1, <1>3, LogRightMore
    <2>. QED  BY <1>1, <1>3, <2>1, <2>2, <2>3, FlagAgreed
  <1>. QED  BY <1>4, <1>6, <1>7 DEF HandledWell, u

LEMMA SameHandled ==
    ASSUME NEW s, StoreOK(s), Plain(s), NEW log, NEW n, NEW logged PROVE HandledWell(s, s, log, logged, n)
  <1>1. s.nextPos \in Nat
    BY DEF StoreOK, StoreType
  <1>2. SamePlain(s, s)
    BY <1>1 DEF SamePlain, IdsFrom
  <1>. QED  BY <1>2 DEF HandledWell

LEMMA MessageHandledWell ==
    ASSUME ExchangeInv, HandlingInv, Lossless, HandleMessage
    PROVE  HandledWell(store, store', server.log, history.logged, Expected)
  <1>1. exchange.stage = "messages" /\ exchange.at <= exchange.last
    BY DEF HandleMessage, MessageLeft
  <1>2. PICK gone : store' = Handled(Message, gone)
    BY DEF HandleMessage
  <1>3. Left(exchange) /\ AnswerTaken(exchange)
    BY <1>1, InvIs DEF ExchangeRight, AnswerTaken
  <1>4. Message \in ServerMessage
    <2>1. exchange.at \in 1 .. Len(Outbox)
      BY <1>1, <1>3, ExchangeAssumption DEF Left
    <2>. QED  BY <2>1, ExchangeAssumption DEF Message
  <1>5. /\ Message.type \in {"accepted-types", "resynchronize", "activity"}
        /\ Message.types \in SUBSET Types
    BY <1>4 DEF ServerMessage
  <1>6. /\ StoreOK(store) /\ Expected \in Nat /\ DOMAIN server.log = 0 .. Expected - 1
        /\ Expected = Count(server.log) /\ Sound(store, saved, exchange, server.log, history)
    BY LosslessIs
  <1>7. /\ Plain(store) /\ LogRight(server.log, history.logged, store.nextPos)
        /\ Expected <= store.meta.sequence
    BY <1>3, <1>6 DEF Sound
  <1>8. CASE Message.type = "accepted-types"
    <2>1. store' = FlagUnsendable(SetAcceptedTypes(store, Message.types), 1)
      BY <1>2, <1>8 DEF Handled
    <2>. QED  BY <1>5, <1>6, <1>7, <2>1, AcceptHandled
  <1>9. CASE Message.type = "resynchronize"
    <2>1. store' = Add(store, Resync, gone)
      BY <1>2, <1>9 DEF Handled
    <2>. QED  BY <1>6, <1>7, <2>1, AddHandled, StoreAssumption
  <1>10. CASE Message.type = "activity"
    <2>1. store' = store
      BY <1>2, <1>10 DEF Handled
    <2>. QED  BY <1>6, <1>7, <2>1, SameHandled
  <1>. QED  BY <1>5, <1>8, <1>9, <1>10

LEMMA LossHandleMessage == ASSUME ExchangeInv, HandlingInv, Lossless, HandleMessage PROVE Lossless'
  <1>. DEFINE s == store
              t == store'
              log == server.log
              logged == history.logged
              n == Count(log)
              r == Record(history, s, t)
              h == [r.handled EXCEPT ![exchange.at] = r.handled[exchange.at] + 1]
              m == r.runs + 1
  <1>1. /\ exchange.stage = "messages" /\ UNCHANGED <<saved, server>>
        /\ exchange' = [exchange EXCEPT !.stage = "handled"]
        /\ history' = [r EXCEPT !.handled = h, !.runs = m]
    BY DEF HandleMessage, MessageLeft
  <1>2. DOMAIN exchange = {"stage", "at", "last"}
    BY <1>1, InvIs DEF ExchangeRight
  <1>3. exchange'.stage = "handled" /\ AnswerTaken(exchange') /\ AnswerTaken(exchange)
    BY <1>1, <1>2 DEF AnswerTaken
  <1>4. /\ n \in Nat /\ n = Expected /\ HistoryRight(history) /\ s.nextPos \in Nat
        /\ Sound(s, saved, exchange, log, history)
    BY LosslessIs
  <1>5. HandledWell(s, t, log, logged, n)
    BY <1>4, MessageHandledWell
  <1>6. /\ HistoryRight(r) /\ r.cut = CutAfter(history, s, t)
        /\ r.upset = (history.upset \/ CutAfter(history, s, t))
        /\ r.added = AddedAfter(history, s, t) /\ r.logged = logged
    BY <1>4, RecordIs DEF SameHandling
  <1>7. /\ history'.cut = r.cut /\ history'.upset = r.upset
        /\ history'.added = r.added /\ history'.logged = r.logged
    <2>. HIDE DEF r, h, m
    <2>. QED  BY <1>1, <1>6 DEF HistoryRight
  <1>. HIDE DEF r
  <1>8. t.nextPos \in Nat /\ s.nextPos <= t.nextPos /\ t.meta.sequence = s.meta.sequence /\ Plain(t)
    BY <1>5 DEF HandledWell, SamePlain, IdsFrom, StoreOK, StoreType
  <1>9. Sound(t, saved, exchange', log, history')
    <2>1. LogRight(log, logged, t.nextPos)
      BY <1>4, <1>8, LogRightMore DEF Sound
    <2>. QED  BY <1>3, <1>4, <1>6, <1>7, <1>8, <2>1 DEF Sound
  <1>10. ASSUME ~history'.cut
         PROVE  /\ Agreed(t, exchange', log, history') /\ ~history.cut
                /\ InLog(s, log) => InLog(t, log)
    <2>1. ~history.cut /\ t.damage = {} /\ Pending(s) \subseteq Positions(t)
      BY <1>6, <1>7, <1>10 DEF CutAfter
    <2>2. Agreed(s, exchange, log, history)
      BY <2>1, LosslessIs
    <2>3. InStep(t, log, n) /\ SentLogged(t, logged) /\ (InLog(s, log) => InLog(t, log))
      BY <1>5, <2>1, <2>2 DEF HandledWell, Agreed
    <2>4. history'.added \subseteq Ids(t) \cup logged
      BY <1>6, <1>7, <2>2, AddedRight DEF Agreed
    <2>. QED  BY <1>3, <1>6, <1>7, <2>1, <2>3, <2>4 DEF Agreed
  <1>11. ASSUME ~history'.upset PROVE Logged(t, log)
    <2>1. ~history'.cut /\ ~history.upset
      BY <1>6, <1>7, <1>11
    <2>. QED  BY <1>10, <2>1, LosslessIs DEF Logged
  <1>. QED  BY <1>1, <1>9, <1>10, <1>11 DEF Lossless

-----------------------------------------------------------------------------

\* A restart
LEMMA ReloadSame ==
    ASSUME NEW s, StoreOK(s), NEW disk \in Meta, NEW t, t = Reload(s, disk)
    PROVE  /\ StoreOK(t) /\ t.meta = disk /\ t.files = s.files /\ t.nextPos = s.nextPos
           /\ t.damage = {} => SameNumbers(s, t)
  <1>1. IsStore(s)
    BY DEF StoreOK, StoreType
  <1>. DEFINE same == disk.offset = s.meta.offset /\ disk.sequence = s.meta.sequence
              d == s.damage \cup (IF same THEN {} ELSE {"crashed"})
  <1>2. t = [s EXCEPT !.meta = disk, !.damage = d]
    BY DEF Reload
  <1>3. d = {} => same /\ s.damage = {}
    OBVIOUS
  <1>. HIDE DEF d
  <1>4. t.meta = disk /\ t.files = s.files /\ t.nextPos = s.nextPos /\ t.damage = d
    BY <1>1, <1>2 DEF IsStore
  <1>. QED  BY <1>3, <1>4, ReloadOK DEF SameNumbers, SameQueue

LEMMA PlainFiles ==
    ASSUME NEW s, NEW t, t.files = s.files, t.nextPos = s.nextPos, Plain(s) PROVE Plain(t)
  BY DEF Plain, Positions

LEMMA LossCrash == ASSUME ExchangeInv, HandlingInv, Lossless, Crash PROVE Lossless'
  <1>. DEFINE s == store
              t == store'
              log == server.log
              logged == history.logged
              n == Count(log)
              k == history.crashes + 1
              a == [history EXCEPT !.crashes = k]
              cut == history.cut \/ t.damage # {}
  <1>1. /\ t = Reload(s, saved) /\ exchange' = Idle /\ UNCHANGED <<saved, server>>
        /\ history' = Cut(a, cut)
    BY DEF Crash
  <1>2. /\ n \in Nat /\ HistoryRight(history) /\ StoreOK(s) /\ saved \in Meta
        /\ Sound(s, saved, exchange, log, history)
    BY LosslessIs
  <1>3. /\ StoreOK(t) /\ t.meta = saved /\ t.files = s.files /\ t.nextPos = s.nextPos
        /\ t.damage = {} => SameNumbers(s, t)
    BY <1>1, <1>2, ReloadSame
  <1>4. cut \in BOOLEAN /\ k \in Nat
    BY <1>2 DEF HistoryRight
  <1>. HIDE DEF cut
  <1>5. HistoryRight(a) /\ a.upset = history.upset /\ a.added = history.added /\ a.logged = logged
    <2>. HIDE DEF k
    <2>. QED  BY <1>2, <1>4 DEF HistoryRight
  <1>. HIDE DEF a
  <1>6. /\ history'.cut = cut /\ history'.upset = (history.upset \/ cut)
        /\ history'.added = history.added /\ history'.logged = logged
    BY <1>1, <1>4, <1>5, CutIs
  <1>7. exchange'.stage = "idle" /\ ~AnswerTaken(exchange')
    BY <1>1 DEF Idle, AnswerTaken
  <1>8. Plain(t)
    BY <1>2, <1>3, PlainFiles DEF Sound
  <1>9. Sound(t, saved, exchange', log, history')
    BY <1>2, <1>3, <1>6, <1>7, <1>8 DEF Sound
  <1>10. ASSUME ~history'.cut PROVE Agreed(t, exchange', log, history') /\ SameNumbers(s, t) /\ ~history.cut
    <2>1. ~history.cut /\ t.damage = {} /\ SameNumbers(s, t)
      BY <1>3, <1>6, <1>10 DEF cut
    <2>2. Agreed(s, exchange, log, history)
      BY <2>1, LosslessIs
    <2>3. InStep(t, log, n) /\ SentLogged(t, logged) /\ Ids(t) = Ids(s)
      BY <2>1, <2>2, SameNumbersIs, SameNumbersKeep DEF Agreed
    <2>4. SendableBelow(t, n)
      <3>1. CASE AnswerTaken(exchange)
        <4>1. n <= t.meta.sequence
          BY <1>2, <2>1, <3>1, SameNumbersIs DEF Sound
        <4>. QED  BY <1>2, <1>3, <2>1, <4>1, NothingBelow
      <3>2. CASE ~AnswerTaken(exchange)
        <4>1. exchange.stage # "handled"
          BY <3>2 DEF AnswerTaken
        <4>2. SameSending(s, t)
          BY <1>2, <1>3, <4>1 DEF Sound, SameSending
        <4>. QED  BY <2>1, <2>2, <3>2, <4>2, SameNumbersKeep DEF Agreed
      <3>. QED  BY <3>1, <3>2
    <2>. QED  BY <1>6, <1>7, <2>1, <2>2, <2>3, <2>4 DEF Agreed
  <1>11. ASSUME ~history'.upset PROVE Logged(t, log)
    <2>1. ~history'.cut /\ ~history.upset
      BY <1>6, <1>11
    <2>. QED  BY <1>10, <2>1, LosslessIs, SameNumbersKeep DEF Logged
  <1>. QED  BY <1>1, <1>9, <1>10, <1>11 DEF Lossless

LossInv == "late" \notin faults.kinds => Lossless

LEMMA LossInit == Init => LossInv
  <1>. SUFFICES ASSUME Init PROVE Lossless
    BY DEF LossInv
  <1>. DEFINE h == [i \in DOMAIN Outbox |-> 0]
              f == [p \in {} |-> 0]
  <1>1. /\ store = NewStore /\ saved = NewMeta /\ exchange = Idle /\ server = [log |-> f, token |-> NoToken]
        /\ history = [added |-> {}, logged |-> {}, cut |-> FALSE, upset |-> FALSE,
                      handled |-> h, runs |-> 0, crashes |-> 0]
    BY DEF Init
  <1>. HIDE DEF h
  <1>2. /\ history.added = {} /\ history.logged = {} /\ ~history.cut /\ ~history.upset
    BY <1>1
  <1>3. exchange.stage = "idle" /\ ~AnswerTaken(exchange)
    BY <1>1 DEF Idle, AnswerTaken
  <1>4. server.log = f /\ DOMAIN f = {} /\ Cardinality(DOMAIN f) = 0 /\ 0 .. 0 - 1 = {}
    BY <1>1, FS_EmptySet
  <1>. HIDE DEF f
  <1>5. /\ store.meta = NewMeta /\ store.damage = {} /\ Positions(store) = {} /\ store.nextPos = 0
        /\ StoreOK(store)
    BY <1>1, NewStoreOK DEF NewStore, Positions
  <1>6. NewMeta.sequence = 0 /\ NewMeta.offset = 0
    BY DEF NewMeta
  <1>7. Count(server.log) = 0
    BY <1>4 DEF Count
  <1>8. LogRight(server.log, history.logged, store.nextPos)
    BY <1>4 DEF LogRight
  <1>9. Plain(store)
    BY <1>5 DEF Plain
  <1>10. Sound(store, saved, exchange, server.log, history)
    BY <1>1, <1>2, <1>3, <1>5, <1>6, <1>8, <1>9 DEF Sound
  <1>11. InStep(store, server.log, 0) /\ SentLogged(store, history.logged)
    BY <1>5, <1>6, AfreshInStep
  <1>12. SendableBelow(store, 0)
    BY <1>5, <1>6, NothingBelow
  <1>13. Agreed(store, exchange, server.log, history)
    BY <1>2, <1>3, <1>7, <1>11, <1>12 DEF Agreed
  <1>14. Logged(store, server.log)
    BY <1>4 DEF Logged, Once, InLog
  <1>. QED  BY <1>10, <1>13, <1>14 DEF Lossless

LEMMA LossStep == ExchangeInv /\ HandlingInv /\ LossInv /\ [Next]_vars => LossInv'
  <1>. SUFFICES ASSUME ExchangeInv, HandlingInv, LossInv, [Next]_vars, "late" \notin faults'.kinds
                PROVE  Lossless'
    BY DEF LossInv
  <1>1. ASSUME NEW kind, Fault(kind) PROVE faults'.kinds = faults.kinds /\ kind \in faults.kinds
    BY <1>1, FaultCounted
  <1>2. faults'.kinds = faults.kinds
    BY <1>1 DEF Next, vars, SendMessage, SendResult, DiscardResult, Step, Begin, ServerAnswers, ServerRejects, ApplyAnswer,
                CommitAnswer, HandleMessage, CommitMessage, HandlerRaises, Finish, RequestFails,
                RequestTimesOut, ServerReceivesLate, Rollback, Crash
  <1>3. Lossless /\ late = {}
    BY <1>2, InvIs DEF LossInv
  <1>4. ~RequestTimesOut /\ ~(\E payload \in late : ServerReceivesLate(payload))
    BY <1>1, <1>2, <1>3 DEF RequestTimesOut
  <1>5. CASE UNCHANGED vars \/ \E op \in contexts : DiscardResult(op)
    <2>1. UNCHANGED <<store, saved, exchange, server, history>>
      BY <1>5 DEF vars, DiscardResult
    <2>. QED  BY <1>3, <2>1 DEF Lossless
  <1>6. CASE Step
    BY <1>3, <1>6, LossBegin, LossServerAnswers, LossNoAnswer, LossApplyAnswer, LossCommitAnswer,
       LossHandleMessage, LossCommitMessage, LossHandlerRaises, LossFinish DEF Step
  <1>. QED
    BY <1>3, <1>4, <1>5, <1>6, LossSend, LossNoAnswer, LossRollback, LossCrash DEF Next

(***************************************************************************)
(* A message leaves the store only when the server has it or with a        *)
(* resynchronisation, client and server agree on the numbers, and the      *)
(* server never has a message twice (the docstring of exchange.py, and     *)
(* got_next_expected with get_pending_messages and add): with any number   *)
(* of messages and of exchanges, requests lost, answers lost, restores of  *)
(* the server and kills, for a store of any size, while no request arrives *)
(* after the client gave it up.                                            *)
(***************************************************************************)
THEOREM MessagesNotLostEver == Spec => []("late" \notin faults.kinds => MessagesNotLost)
  <1>1. ASSUME ExchangeInv, HandlingInv, Lossless PROVE MessagesNotLost
    <2>1. Expected = Count(server.log) /\ Expected \in Nat /\ DOMAIN server.log = 0 .. Expected - 1
      BY <1>1, LosslessIs
    <2>2. Clean => Agreed(store, exchange, server.log, history)
      BY <1>1, LosslessIs DEF Clean
    <2>3. Clean => history.added \subseteq Ids(store) \cup history.logged
      BY <2>2 DEF Agreed
    <2>4. NumbersAgree
      BY <2>1, <2>2 DEF NumbersAgree, Agreed, InStep
    <2>5. LoggedOnce
      BY <1>1, LosslessIs DEF LoggedOnce, Logged, Once
    <2>. QED  BY <2>3, <2>4, <2>5 DEF MessagesNotLost
  <1>2. ExchangeInv /\ HandlingInv /\ LossInv => ("late" \notin faults.kinds => MessagesNotLost)
    BY <1>1 DEF LossInv
  <1>. QED
    BY <1>2, ExchangeInit, ExchangeStep, HandlingInit, HandlingStep, LossInit, LossStep, PTL DEF Spec
=============================================================================
