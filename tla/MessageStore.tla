---------------------------- MODULE MessageStore ----------------------------
(***************************************************************************)
(* The broker's on-disk queue of outgoing messages                         *)
(* (landscape/client/broker/store.py) and the rule that moves its pending  *)
(* offset (landscape/lib/message.py).                                      *)
(*                                                                         *)
(* The store is one record; every method of the class that changes it is   *)
(* an operator from a store to a store, so that the exchange, whose        *)
(* handlers call several of them in a row, can compose them.               *)
(*                                                                         *)
(* Abstractions.  A message file is named by its place in the walk order   *)
(* (a number that only grows) and carries the directory it is in; what     *)
(* the pickle holds is reduced to the type, the API it was tagged with     *)
(* and whether it can still be decoded.  API versions are numbers.  Every  *)
(* message has the same size, so the limit in megabytes is one in files.   *)
(***************************************************************************)
EXTENDS Integers, FiniteSets, FiniteSetsExt

CONSTANTS
    Types,              \* the message types that have a schema
    Apis,               \* server API versions, as numbers
    DEFAULT_SERVER_API, \* landscape/__init__.py
    DirectorySize,      \* directory_size of MessageStore.__init__
    MaxDirs,            \* max_dirs
    MaxSize,            \* max_size_mb, counted in messages
    Resync              \* the "resynchronize" message type

ASSUME StoreAssumption ==
    /\ Apis \subseteq Nat
    /\ DEFAULT_SERVER_API \in Apis
    /\ DirectorySize \in Nat \ {0}
    /\ MaxDirs \in Nat \ {0}
    /\ MaxSize \in Nat
    /\ Resync \in Types

(***************************************************************************)
(* `damage' is history, not program state: the ways in which the pending   *)
(* offset has stopped describing the files.  It is over when all files are *)
(* deleted; a resynchronisation, which starts again at offset 0, ends it   *)
(* too, except that broken files stay and go on being miscounted.          *)
(***************************************************************************)
Damages == {"trimmed", "broken", "crashed"}

File == [id: Nat, dir: Nat, type: Types, api: Apis,
         held: BOOLEAN, broken: BOOLEAN, corrupt: BOOLEAN]

\* What Persist writes on commit(): it is memory until then.
Meta == [offset: Nat, sequence: Int, accepted: SUBSET Types, api: Apis,
         blackhole: BOOLEAN, failing: BOOLEAN,
         server_sequence: Nat, exchange_token: Nat]

NoToken == 0  \* None

NewMeta == [offset |-> 0, sequence |-> 0, accepted |-> {},
            api |-> DEFAULT_SERVER_API, blackhole |-> FALSE, failing |-> FALSE,
            server_sequence |-> 0, exchange_token |-> NoToken]

NewStore == [files |-> [p \in {} |-> 0], dirs |-> {}, nextPos |-> 0,
             meta |-> NewMeta, damage |-> {}]

-----------------------------------------------------------------------------
(* Walking the files *)

Positions(s) == DOMAIN s.files

\* _walk_messages(exclude=HELD + BROKEN)
Unflagged(s) ==
    {p \in Positions(s) : ~s.files[p].held /\ ~s.files[p].broken}

\* the index enumerate() gives p in that walk
Rank(U, p) == Cardinality({q \in U : q < p})

\* Mutant: the first pending message counts as sent
SentAndNext(s) == {p \in Unflagged(s) : Rank(Unflagged(s), p) <= s.meta.offset}

\* the files that have been sent and are kept in case the server wants them again
Sent(s) == {p \in Unflagged(s) : Rank(Unflagged(s), p) < s.meta.offset}

\* _walk_pending_messages
Pending(s) == {p \in Unflagged(s) : Rank(Unflagged(s), p) >= s.meta.offset}

CountPending(s) == Cardinality(Pending(s))

\* the sequence number under which the server knows a message
Number(s, p) == s.meta.sequence - s.meta.offset + Rank(Unflagged(s), p)

Keep(s, P) == [p \in P |-> s.files[p]]

-----------------------------------------------------------------------------
(* get_pending_messages *)

Sendable(s, p) ==
    /\ ~s.files[p].corrupt
    /\ s.files[p].type \in s.meta.accepted
    /\ s.files[p].api <= s.meta.api

\* The files read before max messages have been collected.
Scanned(s, max) ==
    {p \in Pending(s) :
        Cardinality({q \in Pending(s) : q < p /\ Sendable(s, q)}) < max}

GetPendingMessages(s, max) == {p \in Scanned(s, max) : Sendable(s, p)}

\* Mutant: what the server does not accept is not held
FlagBroken(s, max) ==
    LET broken == {p \in Scanned(s, max) : s.files[p].corrupt}
    IN  [s EXCEPT !.files = [p \in Positions(s) |->
                               [s.files[p] EXCEPT !.broken = @ \/ p \in broken]],
                  !.damage = @ \cup (IF broken = {} THEN {} ELSE {"broken"})]

\* Reading flags what cannot be sent: BROKEN if it does not decode, else HELD.
FlagUnsendable(s, max) ==
    LET bad == {p \in Scanned(s, max) : ~Sendable(s, p)}
        broken == {p \in bad : s.files[p].corrupt}
    IN  [s EXCEPT
          !.files = [p \in Positions(s) |->
                       [s.files[p] EXCEPT
                          !.broken = @ \/ p \in broken,
                          !.held = @ \/ p \in bad \ broken]],
          !.damage = @ \cup (IF broken = {} THEN {} ELSE {"broken"})]

-----------------------------------------------------------------------------
(* Deleting *)

\* delete_old_messages: os.rmdir only for a directory it took a file from
DeleteOldMessages(s) ==
    LET old == Sent(s)
        rest == Positions(s) \ old
    IN  [s EXCEPT
          !.files = Keep(s, rest),
          !.dirs = @ \ ({s.files[p].dir : p \in old}
                          \ {s.files[p].dir : p \in rest})]

\* delete_all_messages leaves the directories behind
DeleteAllMessages(s) ==
    [s EXCEPT !.files = Keep(s, {}), !.meta.offset = 0, !.damage = {}]

\* The oldest directories beyond the limit
DirsOverLimit(s) ==
    {d \in s.dirs : Cardinality({e \in s.dirs : e > d}) >= MaxDirs}

\* delete_messages_over_limit, `gone' being the directories rmtree() could
\* remove: its errors are logged and ignored.
DeleteMessagesOverLimit(s, gone) ==
    LET lost == {p \in Positions(s) : s.files[p].dir \in gone}
        trimmed == [s EXCEPT
                      !.files = Keep(s, Positions(s) \ lost),
                      !.dirs = @ \ gone,
                      !.damage = @ \cup (IF lost \cap Unflagged(s) = {}
                                         THEN {} ELSE {"trimmed"})]
    IN  IF Cardinality(Positions(trimmed)) > MaxSize
        THEN DeleteAllMessages(trimmed)
        ELSE trimmed

-----------------------------------------------------------------------------
(* Adding *)

NewestDir(s) == IF s.dirs = {} THEN 0 ELSE Max(s.dirs)

FilesIn(s, d) == {p \in Positions(s) : s.files[p].dir = d}

\* _get_next_message_filename
NextDir(s) ==
    NewestDir(s) +
        (IF Cardinality(FilesIn(s, NewestDir(s))) < DirectorySize THEN 0 ELSE 1)

NewFile(s, t) ==
    [id |-> s.nextPos, dir |-> NextDir(s), type |-> t, api |-> s.meta.api,
     held |-> t \notin s.meta.accepted, broken |-> FALSE, corrupt |-> FALSE]

Write(s, t) ==
    [s EXCEPT
      !.files = [p \in Positions(s) \cup {s.nextPos} |->
                   IF p = s.nextPos THEN NewFile(s, t) ELSE s.files[p]],
      !.dirs = @ \cup {NextDir(s)},
      !.nextPos = @ + 1]

\* add
Add(s, t, gone) ==
    IF s.meta.blackhole THEN s ELSE Write(DeleteMessagesOverLimit(s, gone), t)

-----------------------------------------------------------------------------
(* set_accepted_types, with its _reprocess_holding *)

\* `offset' when the loop of _reprocess_holding reaches p: it counts every file
\* that is not held, broken ones included
CountedBefore(s, p) ==
    Cardinality({q \in Positions(s) : q < p /\ ~s.files[q].held})

\* Mutant: messages before the pending offset are held too
ToHoldAnywhere(s, accepted) ==
    {p \in Positions(s) :
        /\ ~s.files[p].corrupt /\ ~s.files[p].held
        /\ s.files[p].type \notin accepted}

ToHold(s, accepted) ==
    {p \in Positions(s) :
        /\ ~s.files[p].corrupt /\ ~s.files[p].held
        /\ s.files[p].type \notin accepted
        /\ CountedBefore(s, p) >= s.meta.offset}

ToUnhold(s, accepted) ==
    {p \in Positions(s) :
        /\ ~s.files[p].corrupt /\ s.files[p].held
        /\ s.files[p].type \in accepted}

\* Unheld files go to the end of the queue, in the order they are met.
Moved(s, M, p) == s.nextPos + Rank(M, p)

\* Mutant: an unheld file frees its place in the newest directory at once
MovedDirFreed(s, M, p) ==
    NewestDir(s) + ((Cardinality(FilesIn(s, NewestDir(s)) \ M) + Rank(M, p))
                      \div DirectorySize)

\* The directory each one lands in: repeated _get_next_message_filename calls
\* fill the newest directory and then open new ones.  A file that is itself in
\* the newest directory still counts in it when its new name is chosen.
MovedDir(s, M, p) ==
    LET new == NewestDir(s)
        inNew == Cardinality(FilesIn(s, new))
        older == Cardinality({q \in M : s.files[q].dir # new})
    IN  IF s.files[p].dir = new /\ inNew + older < DirectorySize
        THEN new
        ELSE new + ((inNew + Rank(M, p)) \div DirectorySize)

ReprocessHolding(s, accepted) ==
    LET H == ToHold(s, accepted)
        M == ToUnhold(s, accepted)
        moved == {Moved(s, M, p) : p \in M}
        from(x) == CHOOSE p \in M : Moved(s, M, p) = x
    IN  [s EXCEPT
          !.files = [x \in (Positions(s) \ M) \cup moved |->
                       IF x \in moved
                       THEN [s.files[from(x)] EXCEPT
                               !.held = FALSE, !.dir = MovedDir(s, M, from(x))]
                       ELSE [s.files[x] EXCEPT !.held = @ \/ x \in H]],
          !.dirs = @ \cup {MovedDir(s, M, p) : p \in M},
          !.nextPos = @ + Cardinality(M)]

SetAcceptedTypes(s, accepted) ==
    ReprocessHolding([s EXCEPT !.meta.accepted = accepted], accepted)

SetServerApi(s, api) == [s EXCEPT !.meta.api = api]

-----------------------------------------------------------------------------
(* got_next_expected *)

\* Mutant: off by one
TooHighByTwo(s, n) == n - s.meta.sequence > CountPending(s) + 1

TooHigh(s, n) == n - s.meta.sequence > CountPending(s)
Ancient(s, n) == n < s.meta.sequence - s.meta.offset

\* it returns RESYNC
NeedsResync(s, n) == TooHigh(s, n) \/ Ancient(s, n)

NextOffset(s, n) ==
    IF NeedsResync(s, n) THEN 0
    ELSE IF n > s.meta.sequence THEN n - s.meta.sequence
    ELSE s.meta.offset + n - s.meta.sequence

GotNextExpected(s, n) ==
    LET kept == IF n > s.meta.sequence THEN DeleteOldMessages(s) ELSE s
    IN  [kept EXCEPT !.meta.offset = NextOffset(s, n), !.meta.sequence = n,
                     !.damage = IF NeedsResync(s, n) THEN @ \cap {"broken"} ELSE @]

-----------------------------------------------------------------------------
(* record_success, record_failure *)

RecordSuccess(s) == [s EXCEPT !.meta.failing = FALSE, !.meta.blackhole = FALSE]

\* `week': more than a week since first-failure-time
RecordFailure(s, week, gone) ==
    LET failing == [s EXCEPT !.meta.failing = TRUE]
    IN  IF ~s.meta.blackhole /\ s.meta.failing /\ week
        THEN [Add(failing, Resync, gone) EXCEPT !.meta.blackhole = TRUE]
        ELSE failing

-----------------------------------------------------------------------------
(* A restart: files are written at once, the metadata is what was committed *)

Reload(s, saved) ==
    LET same == saved.offset = s.meta.offset /\ saved.sequence = s.meta.sequence
    IN  [s EXCEPT !.meta = saved,
                  !.damage = @ \cup (IF same THEN {} ELSE {"crashed"})]

\* A file system error leaves a file that no longer decodes.
Corrupt(s, p) == [s EXCEPT !.files[p].corrupt = TRUE]

IsStore(s) == s \in [files: {s.files}, dirs: {s.dirs}, nextPos: {s.nextPos},
                     meta: {s.meta}, damage: {s.damage}]

StoreType(s) ==
    /\ IsStore(s)
    /\ s.nextPos \in Nat
    /\ Positions(s) \subseteq 0 .. s.nextPos - 1
    /\ s.files \in [Positions(s) -> File]
    /\ s.dirs \subseteq Nat /\ IsFiniteSet(s.dirs)
    /\ s.meta \in Meta
    /\ s.damage \subseteq Damages

\* The pending offset is an index into the unflagged files, or their end.
OffsetInQueue(s) ==
    s.damage = {} => s.meta.offset <= Cardinality(Unflagged(s))

\* No file has the BROKEN flag unless one was found broken.
BrokenRecorded(s) ==
    \A p \in Positions(s) : s.files[p].broken => "broken" \in s.damage
=============================================================================
