---------------------------- MODULE MessageQueue ----------------------------
(***************************************************************************)
(* The message store as a component: the broker calls its methods in any   *)
(* order (messages are added by plugins at any time, the peer may answer   *)
(* with any sequence number, the accepted types may change at any answer), *)
(* and the process may be killed between a method that moves files and the *)
(* commit() that saves the offset and the sequence describing them.        *)
(***************************************************************************)
EXTENDS MessageStore

CONSTANTS
    MaxFiles,   \* bound: files ever named
    Answered,   \* what a peer may answer as next-expected-sequence
    Batches,    \* the max argument of get_pending_messages
    Mixes       \* which of "crash", "corrupt", "failure" and "api", a change of
                \* the server's API, happen together

ASSUME QueueAssumption ==
    /\ MaxFiles \in Nat
    /\ Answered \subseteq Int
    /\ Batches \subseteq Nat

VARIABLES
    queue,  \* the files, and the metadata in memory
    onDisk, \* the metadata on disk
    mix     \* those of them that happen in this behaviour

queueVars == <<queue, onDisk, mix>>

QueueInit == queue = NewStore /\ onDisk = NewMeta /\ mix \in Mixes

Room(n) == queue.nextPos + n <= MaxFiles

\* add, called by MessageExchange.send
AddMessage(t) ==
    /\ Room(1)
    /\ \E gone \in SUBSET DirsOverLimit(queue) : queue' = Add(queue, t, gone)
    /\ UNCHANGED <<onDisk, mix>>

\* get_pending_messages, called by _make_payload
ReadPending(max) ==
    /\ queue' = FlagUnsendable(queue, max)
    /\ UNCHANGED <<onDisk, mix>>

\* lib.message.got_next_expected
PeerExpects(n) ==
    /\ queue' = GotNextExpected(queue, n)
    /\ UNCHANGED <<onDisk, mix>>

AcceptTypes(accepted) ==
    /\ Room(Cardinality(ToUnhold(queue, accepted)))
    /\ queue' = SetAcceptedTypes(queue, accepted)
    /\ UNCHANGED <<onDisk, mix>>

SpeakApi(api) ==
    /\ "api" \in mix
    /\ queue' = SetServerApi(queue, api)
    /\ UNCHANGED <<onDisk, mix>>

ExchangeSucceeded ==
    /\ queue' = RecordSuccess(queue)
    /\ UNCHANGED <<onDisk, mix>>

ExchangeFailed ==
    /\ "failure" \in mix /\ Room(1)
    /\ \E week \in BOOLEAN, gone \in SUBSET DirsOverLimit(queue) :
          queue' = RecordFailure(queue, week, gone)
    /\ UNCHANGED <<onDisk, mix>>

\* delete_all_messages, called before registering
Clear ==
    /\ queue' = DeleteAllMessages(queue)
    /\ UNCHANGED <<onDisk, mix>>

\* commit; what is on disk matters only if the process may be killed
Commit ==
    /\ "crash" \in mix
    /\ onDisk' = queue.meta
    /\ UNCHANGED <<queue, mix>>

Restart ==
    /\ "crash" \in mix
    /\ queue' = Reload(queue, onDisk)
    /\ UNCHANGED <<onDisk, mix>>

FileDamaged ==
    /\ "corrupt" \in mix
    /\ \E p \in Positions(queue) : queue' = Corrupt(queue, p)
    /\ UNCHANGED <<onDisk, mix>>

QueueNext ==
    \/ \E t \in Types : AddMessage(t)
    \/ \E max \in Batches : ReadPending(max)
    \/ \E n \in Answered : PeerExpects(n)
    \/ \E accepted \in SUBSET Types : AcceptTypes(accepted)
    \/ \E api \in Apis : SpeakApi(api)
    \/ ExchangeSucceeded
    \/ ExchangeFailed
    \/ Clear
    \/ Commit
    \/ Restart
    \/ FileDamaged

QueueSpec == QueueInit /\ [][QueueNext]_queueVars

-----------------------------------------------------------------------------
(***************************************************************************)
(* The offset stays a natural number whatever sequence number the peer     *)
(* answers with, and every file lies below the name the next one takes.    *)
(***************************************************************************)
TypeOK == StoreType(queue) /\ onDisk \in Meta

(***************************************************************************)
(* The pending offset never points past the messages in the queue, so that *)
(* the next message added is pending and will be sent (get_pending_offset, *)
(* _walk_pending_messages): unless files have gone behind its back.        *)
(***************************************************************************)
OffsetWithinQueue == OffsetInQueue(queue)

(***************************************************************************)
(* The same with what makes it inductive: _reprocess_holding counts broken *)
(* files, _walk_pending_messages does not, so the two agree on what is     *)
(* pending only while no file is broken.                                   *)
(***************************************************************************)
StoreConsistent ==
    TypeOK /\ BrokenRecorded(queue) /\ OffsetWithinQueue

\* What was sent in store s keeps its numbers, and its files, in store t
KeepsAcknowledged(s, t) ==
    /\ t.damage = {} /\ ~NeedsResync(s, t.meta.sequence) =>
         \A p \in Sent(s) \cap Unflagged(t) : Number(t, p) = Number(s, p)
    /\ /\ t.damage = {} /\ t.meta.offset > 0
       /\ t.meta.sequence <= s.meta.sequence
       => Sent(s) \subseteq Unflagged(t)

(***************************************************************************)
(* What the peer acknowledged last it can ask for again, should it lose    *)
(* it.  Those messages keep their sequence numbers for as long as they are *)
(* stored: no adding, holding, unholding, reading or trimming may renumber *)
(* them, and got_next_expected may only by resynchronising.  And they      *)
(* leave the store only when a later answer acknowledges more, or with     *)
(* everything else (delete_old_messages, delete_all_messages).             *)
(***************************************************************************)
AcknowledgedKept == [][KeepsAcknowledged(queue, queue')]_queueVars
=============================================================================
