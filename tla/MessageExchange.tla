--------------------------- MODULE MessageExchange ---------------------------
(***************************************************************************)
(* One broker exchanging messages with the server                          *)
(* (landscape/client/broker/exchange.py), over its message store.          *)
(*                                                                         *)
(* exchange() builds a payload and posts it from a thread.  While the      *)
(* request is out the reactor goes on: plugins add messages and results.   *)
(* The reactor then runs handle_result to its end, but it may be killed at *)
(* any point of it, and what it had not committed by then is lost; the     *)
(* actions below stop where the code has just written to a file, to the    *)
(* context database or to the persist file.                                *)
(*                                                                         *)
(* The server is external: it follows the protocol that the docstring of   *)
(* exchange.py describes, may be restored from a backup (Rollback), and    *)
(* has a fixed list of messages for the client.                            *)
(***************************************************************************)
EXTENDS MessageStore, Sequences, Functions

CONSTANTS
    SERVER_API,     \* the highest API the client speaks
    ServerApis,     \* what the server answers as its own
    MaxMessages,    \* max_messages of MessageExchange.__init__
    Outbox,         \* the messages the server has for the client, in order
    Result,         \* the type of "operation-result" messages
    MaxPos,         \* bound: files named before plugins stop adding
    MaxFaults,      \* bound: crashes, rollbacks and lost or late requests
    FaultMixes      \* which of "crash", "rollback", "loss" and "late" happen
                    \* in one behaviour

ServerMessage == [type: {"accepted-types", "resynchronize", "activity"},
                  types: SUBSET Types, op: Nat]

NoOperation == 0  \* a message without an operation-id

ASSUME ExchangeAssumption ==
    /\ SERVER_API \in Apis /\ ServerApis \subseteq Apis
    /\ MaxMessages \in Nat \ {0}
    /\ Outbox \in Seq(ServerMessage)
    /\ Result \in Types
    /\ MaxPos \in Nat /\ MaxFaults \in Nat

VARIABLES
    store,      \* the message store, with its metadata in memory
    saved,      \* that metadata as last committed
    contexts,   \* the operation ids in the exchange store
    exchange,   \* how far the current exchange has come
    late,       \* requests the client gave up on, still on their way
    server,     \* what the server has received
    history,    \* what happened, for the properties
    faults      \* the kinds of faults of this behaviour, and how many happened

vars == <<store, saved, contexts, exchange, late, server, history, faults>>

Idle == [stage |-> "idle"]

Init ==
    /\ store = NewStore
    /\ saved = NewMeta
    /\ contexts = {}
    /\ exchange = Idle
    /\ late = {}
    /\ server = [log |-> [n \in {} |-> 0], token |-> NoToken]
    /\ history = [added |-> {}, logged |-> {}, cut |-> FALSE, upset |-> FALSE,
                  handled |-> [i \in DOMAIN Outbox |-> 0], runs |-> 0, crashes |-> 0]
    /\ \E kinds \in FaultMixes : faults = [kinds |-> kinds, count |-> 0]

\* The reactor is not inside a handler of the exchange
ReactorFree == exchange.stage \in {"idle", "sent", "answered"}

Ids(s) == {s.files[p].id : p \in Positions(s)}

Expected == Cardinality(DOMAIN server.log)

\* cut: the numbering no longer describes the files, and only a
\* resynchronisation helps; upset: it has been so at some time
Cut(h, cut) == [h EXCEPT !.cut = cut, !.upset = @ \/ cut]

\* What adding a message did to store s.  Messages that had to make room for it
\* are given up on purpose, though some may not have been acknowledged.
Record(h, s, s2) ==
    Cut([h EXCEPT !.added = (@ \ Ids(s)) \cup (@ \cap Ids(s2)) \cup (Ids(s2) \ Ids(s))],
        h.cut \/ s2.damage # {} \/ ~(Pending(s) \subseteq Positions(s2)))

-----------------------------------------------------------------------------
(* Messages from the plugins *)

\* send, for a message with no operation-id
SendMessage(t) ==
    /\ ReactorFree /\ store.nextPos < MaxPos
    /\ \E gone \in SUBSET DirsOverLimit(store) :
          store' = Add(store, t, gone)
    /\ history' = Record(history, store, store')
    /\ UNCHANGED <<saved, contexts, exchange, late, server, faults>>

\* send, for the result of an operation: its context is removed
SendResult(op) ==
    /\ ReactorFree /\ op \in contexts
    /\ contexts' = contexts \ {op}
    /\ \E gone \in SUBSET DirsOverLimit(store) :
          store' = Add(store, Result, gone)
    /\ history' = Record(history, store, store')
    /\ UNCHANGED <<saved, exchange, late, server, faults>>

\* _message_is_obsolete: the client has another secure id than when the
\* operation came, and its result is discarded with the context.
DiscardResult(op) ==
    /\ ReactorFree /\ op \in contexts
    /\ contexts' = contexts \ {op}
    /\ UNCHANGED <<store, saved, exchange, late, server, history, faults>>

-----------------------------------------------------------------------------
(* exchange *)

\* All messages of a payload have the API of the first one.
SameApi(s, P) ==
    {p \in P : \A q \in P : q <= p => s.files[q].api = s.files[Min(P)].api}

\* The receiver numbers the messages of a payload from its sequence on.
Numbered(s, P) ==
    [n \in s.meta.sequence .. s.meta.sequence + Cardinality(P) - 1 |->
       s.files[CHOOSE p \in P : s.meta.sequence + Rank(P, p) = n].id]

Payload(s) ==
    LET batch == SameApi(s, GetPendingMessages(s, MaxMessages))
    IN  [sequence |-> s.meta.sequence, messages |-> Numbered(s, batch),
         next |-> s.meta.server_sequence, token |-> s.meta.exchange_token]

\* Mutant: the token is kept until the next one comes
TokenKept(s) == s

\* _get_exchange_token forgets the token it returns.
TakeToken(s) == [s EXCEPT !.meta.exchange_token = NoToken]

\* exchange, _make_payload and _get_exchange_token
Begin ==
    /\ exchange = Idle
    /\ exchange' = [stage |-> "sent", payload |-> Payload(store)]
    /\ store' = TakeToken(FlagUnsendable(store, MaxMessages))
    /\ saved' = store'.meta
    /\ UNCHANGED <<contexts, late, server, history, faults>>

Fault(kind) ==
    /\ kind \in faults.kinds /\ faults.count < MaxFaults
    /\ faults' = [faults EXCEPT !.count = @ + 1]

\* The transport returns None, whatever went wrong: handle_result fires
\* exchange-failed and does nothing else.
RequestFails ==
    /\ Fault("loss") /\ exchange.stage \in {"sent", "answered"}
    /\ exchange' = Idle
    /\ UNCHANGED <<store, saved, contexts, late, server, history>>

\* The same, of a request that may still arrive
RequestTimesOut ==
    /\ Fault("late") /\ exchange.stage = "sent"
    /\ exchange' = Idle
    /\ late' = late \cup {exchange.payload}
    /\ UNCHANGED <<store, saved, contexts, server, history>>

-----------------------------------------------------------------------------
(* The server *)

Admits(payload) == payload.token \in {NoToken, server.token}

\* Messages below the expected number are discarded; above it, all are.
Received(payload) ==
    IF payload.sequence > Expected THEN server.log
    ELSE [n \in DOMAIN server.log \cup DOMAIN payload.messages |->
            IF n < Expected THEN server.log[n] ELSE payload.messages[n]]

\* Tokens are UUIDs: the next one is any that nobody has, here the least.
TokensInUse ==
    {NoToken, server.token, saved.exchange_token, store.meta.exchange_token}
      \cup {payload.token : payload \in late}
      \cup (IF exchange.stage = "sent" THEN {exchange.payload.token} ELSE {})

NewToken == Min((0 .. Cardinality(TokensInUse)) \ TokensInUse)

Receive(payload) ==
    /\ server' = [log |-> Received(payload), token |-> NewToken]
    /\ history' = [history EXCEPT !.logged = @ \cup Range(server'.log)]

\* What the answer to a payload may end with: at least one of the messages left
LastSent(payload) ==
    IF payload.next < Len(Outbox) THEN payload.next + 1 .. Len(Outbox)
                                  ELSE {payload.next}

ServerAnswers ==
    /\ exchange.stage = "sent" /\ Admits(exchange.payload)
    /\ Receive(exchange.payload)
    /\ \E last \in LastSent(exchange.payload) :
          exchange' = [stage |-> "answered", at |-> exchange.payload.next + 1,
                       last |-> last, next |-> Cardinality(DOMAIN server'.log),
                       token |-> server'.token]
    /\ UNCHANGED <<store, saved, contexts, late, faults>>

\* A stale token: the server takes the client for a clone of itself and tells
\* it to register again, which this module does not follow.
ServerRejects ==
    /\ exchange.stage = "sent" /\ ~Admits(exchange.payload)
    /\ exchange' = Idle
    /\ UNCHANGED <<store, saved, contexts, late, server, history, faults>>

ServerReceivesLate(payload) ==
    /\ payload \in late
    /\ late' = late \ {payload}
    /\ IF Admits(payload) THEN Receive(payload) ELSE UNCHANGED <<server, history>>
    /\ UNCHANGED <<store, saved, contexts, exchange, faults>>

\* The server is restored to an earlier state and expects an earlier number.
Rollback(n) ==
    /\ Fault("rollback") /\ n < Expected
    /\ server' = [server EXCEPT !.log = [k \in 0 .. n - 1 |-> server.log[k]]]
    /\ UNCHANGED <<store, saved, contexts, exchange, late, history>>

-----------------------------------------------------------------------------
(* handle_result *)

\* _handle_result up to its first commit: the new offset and sequence, the
\* resynchronize message if they are out of step, the token
ApplyAnswer ==
    /\ exchange.stage = "answered"
    /\ LET moved == GotNextExpected(store, exchange.next)
           ancient == NeedsResync(store, exchange.next)
       IN  \E gone \in SUBSET DirsOverLimit(moved) :
             /\ store' = [(IF ancient THEN Add(moved, Resync, gone) ELSE moved)
                            EXCEPT !.meta.exchange_token = exchange.token]
             /\ history' = IF ancient
                           THEN Cut([history EXCEPT !.added = Ids(store')],
                                    store'.damage # {})
                           ELSE history
    /\ exchange' = [exchange EXCEPT !.stage = "applied"]
    /\ UNCHANGED <<saved, contexts, late, server, faults>>

\* The server's API, if it is no lower than the one in use
AdoptApi(s, api) ==
    IF api < s.meta.api THEN s
    ELSE SetServerApi(s, IF api > SERVER_API THEN SERVER_API ELSE api)

CommitAnswer ==
    /\ exchange.stage = "applied"
    /\ \E api \in ServerApis : store' = AdoptApi(store, api)
    /\ saved' = store'.meta
    /\ exchange' = [stage |-> "messages", at |-> exchange.at, last |-> exchange.last]
    /\ UNCHANGED <<contexts, late, server, history, faults>>

Message == Outbox[exchange.at]

MessageLeft == exchange.stage = "messages" /\ exchange.at <= exchange.last

\* add_message_context inserts under a unique index.
Insertable(message) == message.op = NoOperation \/ message.op \notin contexts

\* The handlers of the exchange itself; an activity's handler is a plugin's.
\* A resynchronize message answers its operation at once.
Handled(message, gone) ==
    CASE message.type = "accepted-types" ->
            FlagUnsendable(SetAcceptedTypes(store, message.types), 1)
      [] message.type = "resynchronize" -> Add(store, Resync, gone)
      [] message.type = "activity" -> store

\* The context and what the handlers do, in one step: a kill in between leaves
\* what one after both does, without their effects.  They do not raise.
HandleMessage ==
    /\ MessageLeft /\ Insertable(Message)
    /\ contexts' = IF Message.type = "activity"
                   THEN contexts \cup ({Message.op} \ {NoOperation})
                   ELSE contexts
    /\ \E gone \in SUBSET DirsOverLimit(store) : store' = Handled(Message, gone)
    /\ history' = [Record(history, store, store') EXCEPT
                   !.handled[exchange.at] = @ + 1, !.runs = @ + 1]
    /\ exchange' = [exchange EXCEPT !.stage = "handled"]
    /\ UNCHANGED <<saved, late, server, faults>>

\* Mutant: the sequence is advanced by the whole answer
SequenceOfAll(sequence) == Len(Outbox)

\* set_server_sequence after every message
NextServerSequence(sequence) == sequence + 1

CommitMessage ==
    /\ exchange.stage = "handled"
    /\ store' = [store EXCEPT !.meta.server_sequence = NextServerSequence(@)]
    /\ saved' = store'.meta
    /\ exchange' = [exchange EXCEPT !.stage = "messages", !.at = @ + 1]
    /\ UNCHANGED <<contexts, late, server, history, faults>>

\* The insert raises: what is left of the answer is dropped and handle_failure
\* runs.  No week of failures passes within the bounds.
HandlerRaises ==
    /\ MessageLeft /\ ~Insertable(Message)
    /\ store' = RecordFailure(store, FALSE, {})
    /\ exchange' = Idle
    /\ UNCHANGED <<saved, contexts, late, server, history, faults>>

\* The end of _handle_result, which looks for one more pending message
Finish ==
    /\ exchange.stage = "messages" /\ ~MessageLeft
    /\ store' = RecordSuccess(FlagUnsendable(store, 1))
    /\ exchange' = Idle
    /\ UNCHANGED <<saved, contexts, late, server, history, faults>>

-----------------------------------------------------------------------------
\* The broker is killed and started again.  Its request may be on its way.
Crash ==
    /\ Fault("crash")
    /\ store' = Reload(store, saved)
    /\ exchange' = Idle
    /\ \/ UNCHANGED late
       \/ /\ exchange.stage = "sent" /\ "late" \in faults.kinds
          /\ late' = late \cup {exchange.payload}
    /\ history' = Cut([history EXCEPT !.crashes = @ + 1],
                      history.cut \/ store'.damage # {})
    /\ UNCHANGED <<saved, contexts, server>>

Step ==
    \/ Begin \/ ServerAnswers \/ ServerRejects \/ ApplyAnswer \/ CommitAnswer
    \/ HandleMessage \/ CommitMessage \/ HandlerRaises \/ Finish

Next ==
    \/ \E t \in Types : SendMessage(t)
    \/ \E op \in contexts : SendResult(op) \/ DiscardResult(op)
    \/ Step
    \/ RequestFails
    \/ RequestTimesOut
    \/ \E payload \in late : ServerReceivesLate(payload)
    \/ \E n \in 0 .. Expected - 1 : Rollback(n)
    \/ Crash

(***************************************************************************)
(* Every exchange is followed by another one (exchange_completed always    *)
(* calls schedule_exchange(force=True)) and a started one goes on: the     *)
(* faults, of which there are finitely many, are the only way to stop it.  *)
(* Step is enabled in every state and never stutters, so that this says    *)
(* the same as WF_vars(Step); TLC is much faster with it.                  *)
(***************************************************************************)
Spec == Init /\ [][Next]_vars /\ []<><<Step>>_vars
-----------------------------------------------------------------------------
\* Nothing has upset the numbering since the last resynchronisation.
Clean == store.damage = {} /\ ~history.cut

(***************************************************************************)
(* Client and server agree on which message has which sequence number, at  *)
(* every moment of an exchange, whether or not its answer arrives: or a    *)
(* number acknowledged for one message would delete another one.           *)
(***************************************************************************)
NumbersAgree ==
    Clean => \A p \in Unflagged(store) :
                LET n == Number(store, p)
                IN  n \in DOMAIN server.log => server.log[n] = store.files[p].id

(***************************************************************************)
(* The server never processes a message twice: not when an answer is lost, *)
(* and not when it falls back to an older state, since what the client     *)
(* sends again is what the server then no longer has.  (Once files were    *)
(* trimmed, or a kill lost the new offset, the client may send again,      *)
(* under other numbers, what it sent.)                                     *)
(***************************************************************************)
LoggedOnce ==
    ~history.upset =>
      \A m, n \in DOMAIN server.log : server.log[m] = server.log[n] => m = n

(***************************************************************************)
(* A message leaves the store only after the server has received it (the   *)
(* docstring of exchange.py: "so that messages are not lost"), or with a   *)
(* resynchronisation, after which the plugins report everything again; it  *)
(* is received once, and under the number that the client gave it.         *)
(***************************************************************************)
MessagesNotLost ==
    /\ Clean => history.added \subseteq Ids(store) \cup history.logged
    /\ NumbersAgree /\ LoggedOnce

(***************************************************************************)
(* The same when files were trimmed or the broker was killed.              *)
(***************************************************************************)
MessagesNeverLost == history.added \subseteq Ids(store) \cup history.logged

(***************************************************************************)
(* A message of the server is never skipped: the client asks for the next  *)
(* one only after its handlers have run.  And these run once for it, but   *)
(* for one more time at each crash (server_sequence is committed after     *)
(* every message, not at the end).                                         *)
(***************************************************************************)
HandledOnce ==
    /\ \A i \in DOMAIN Outbox : i <= saved.server_sequence => history.handled[i] > 0
    /\ history.runs
         <= saved.server_sequence + history.crashes
              + (IF exchange.stage = "handled" THEN 1 ELSE 0)

(***************************************************************************)
(* The token of a request is none or the last one the server gave out, so  *)
(* that a lost answer or a crash never locks the client out                *)
(* (_get_exchange_token).  Only a request that arrives late can do that.   *)
(***************************************************************************)
NotLockedOut ==
    "late" \notin faults.kinds /\ exchange.stage = "sent" => Admits(exchange.payload)

(***************************************************************************)
(* Once plugins stop adding, everything that may be sent has been sent,    *)
(* though requests are lost, the server falls back and the broker is       *)
(* killed.  A client that is locked out would have to register again.      *)
(* Every message the server has for the client is handled and              *)
(* acknowledged, if the broker is not killed on the way: a context that    *)
(* was stored before a kill keeps its message from being handled for good  *)
(* (add_message_context).                                                  *)
(***************************************************************************)
QueuesDrain ==
    /\ "late" \notin faults.kinds => <>[](Pending(store) = {})
    /\ faults.kinds \cap {"crash", "late"} = {} => <>[](saved.server_sequence = Len(Outbox))
=============================================================================
