-------------------------- MODULE ExchangeSchedule --------------------------
(***************************************************************************)
(* When the broker exchanges messages, and how it registers                *)
(* (landscape/client/broker/exchange.py and registration.py).              *)
(*                                                                         *)
(* An exchange is started by a timer, by a register() call or by the end   *)
(* of the exchange before it.  Its request runs in a thread; until that    *)
(* has ended anything may ask for an urgent exchange, call register() or   *)
(* stop the exchanger.  What an exchange carries is in MessageExchange: an *)
(* answer is here some messages that change the schedule or the identity,  *)
(* handled one after the other while nothing else happens.                 *)
(*                                                                         *)
(* The broker is one record, and the methods that call each other          *)
(* (handle_result, exchange_completed, _handle_exchange_done, exchange,    *)
(* schedule_exchange) are operators from a broker to a broker.  An account *)
(* name and a computer title are configured.  The notification of an       *)
(* impending exchange is always set and cancelled with the exchange's own  *)
(* timer and is not shown apart.                                           *)
(***************************************************************************)
EXTENDS Integers, FiniteSetsExt

CONSTANTS
    Calls,      \* the register() calls that will be made
    Settings    \* where the broker runs: the intervals that can be configured, in
                \* seconds; maxReply, a bound on the messages in an answer; the
                \* errors that the transport raises; and whether the server is
                \* fair to the broker

Errors == {"404", "overloaded", "ssl", "network"}

VARIABLES
    broker,
    setting     \* where this broker runs

vars == <<broker, setting>>

NOTICE == 10    \* notification_interval = interval - 10
START_DELAY == 300
MAX_DELAY == 7200
MAX_COUNT == 6  \* the error count at which the delay is MAX_DELAY

IntervalPairs == [exchange: setting.intervals, urgent: setting.intervals]

Messages ==
    ({"accept-register", "accept-nothing", "set-id", "unknown-id", "refused",
      "urgent", "newer-api", "poison"} \X {<<>>})
      \cup ({"set-intervals"} \X IntervalPairs)

Broker == [
    exchanging: BOOLEAN, urgent: BOOLEAN, stopped: BOOLEAN,
    timer: {"none", "soon", "later", "spent"},      \* _exchange_id
    intervals: IntervalPairs,
    errors: 0 .. MAX_COUNT,             \* _error_count of the backoff counter
    default_api: BOOLEAN,               \* the API in use is DEFAULT_SERVER_API
    secure_id: BOOLEAN,                 \* there is one
    accepts: BOOLEAN,                   \* the server accepts "register"
    should_register: BOOLEAN,           \* _should_register
    waiting: SUBSET Calls,              \* register() calls without an answer
    called: SUBSET Calls,               \* register() calls so far
    raised: BOOLEAN,                    \* an exception is on its way up
    threads: Nat,                       \* requests running
    handling: BOOLEAN,                  \* an answer is being handled
    handled: Nat,                       \* how many messages of it
    \* history
    applied: BOOLEAN,       \* a register message was sent and not answered
    asked: BOOLEAN,         \* an urgent exchange was asked for, none has answered
    chain: Nat,             \* exchanges in a row that no timer or call started
    outcome: Errors \cup {"none", "answer"}]        \* how the last request ended

-----------------------------------------------------------------------------
(* The backoff counter *)

get_delay(errors) ==
    IF errors = 0 THEN 0 ELSE Min({2 ^ (errors - 1) * START_DELAY, MAX_DELAY})

increase(errors) == IF get_delay(errors) < MAX_DELAY THEN errors + 1 ELSE errors

decrease(errors) == Max({errors - 1, 0})

\* The least it returns: a quarter of the delay is random.
get_random_delay(errors) == (3 * get_delay(errors)) \div 4

-----------------------------------------------------------------------------
(* schedule_exchange *)

Interval(b, urgent) ==
    (IF urgent THEN b.intervals.urgent ELSE b.intervals.exchange)
      + get_random_delay(b.errors)

\* call_later with a negative delay raises, after the old timer was cancelled.
SetTimer(b, urgent) ==
    IF Interval(b, urgent) < NOTICE
    THEN [b EXCEPT !.urgent = urgent, !.raised = TRUE,
                   !.timer = IF @ = "none" THEN "none" ELSE "spent"]
    ELSE [b EXCEPT !.urgent = urgent, !.timer = IF urgent THEN "soon" ELSE "later"]

\* Mutant: an urgent exchange is forgotten when it is scheduled again
ScheduleForgetsUrgent(b, urgent, force) ==
    IF /\ ~b.stopped /\ ~b.exchanging
       /\ force \/ b.timer = "none" \/ (urgent /\ ~b.urgent)
    THEN SetTimer(b, urgent)
    ELSE b

schedule_exchange(b, urgent, force) ==
    IF /\ ~b.stopped /\ ~b.exchanging
       /\ force \/ b.timer = "none" \/ (urgent /\ ~b.urgent)
    THEN SetTimer(b, b.urgent \/ urgent)
    ELSE b

Urgently(b) ==
    [schedule_exchange(b, TRUE, FALSE) EXCEPT !.asked = @ \/ ~b.exchanging]

-----------------------------------------------------------------------------
(* exchange, and what registration does before and after it *)

\* Mutant: the wrong way round
ShouldReregister(b) == b.secure_id /\ b.accepts

should_register(b) == ~b.secure_id /\ b.accepts

\* Mutant: the flag is not stored
PreExchangeNoFlag(b) ==
    [b EXCEPT !.applied = @ \/ should_register(b)]

\* _handle_pre_exchange
PreExchange(b) ==
    [b EXCEPT !.should_register = should_register(b),
              !.applied = @ \/ should_register(b)]

exchange(b) ==
    IF b.exchanging THEN b
    ELSE [PreExchange(b) EXCEPT
            !.exchanging = TRUE, !.threads = @ + 1, !.chain = @ + 1]

\* _handle_exchange_done
ExchangeDone(b) ==
    IF should_register(b) /\ ~b.should_register THEN exchange(b) ELSE b

\* Mutant: without force
CompletedUnforced(b) == ExchangeDone(schedule_exchange(b, FALSE, FALSE))

\* exchange_completed.  If schedule_exchange raises, handle_failure runs and it
\* raises once more, and nobody catches that.
exchange_completed(b) ==
    LET scheduled == schedule_exchange(b, FALSE, TRUE)
    IN  IF scheduled.raised THEN [scheduled EXCEPT !.raised = FALSE]
                            ELSE ExchangeDone(scheduled)

\* The messages of an answer that matter here.  fire() swallows what the
\* handlers of an event raise.
HandleMessage(b, message) ==
    CASE message[1] = "accept-register" -> [b EXCEPT !.accepts = TRUE]
      [] message[1] = "accept-nothing" -> [b EXCEPT !.accepts = FALSE]
      [] message[1] = "set-id" ->
            [Urgently([b EXCEPT !.secure_id = TRUE, !.waiting = {}, !.applied = FALSE])
               EXCEPT !.raised = FALSE]
      [] message[1] = "unknown-id" -> [b EXCEPT !.secure_id = FALSE]
      [] message[1] = "refused" ->
            [b EXCEPT !.waiting = {}, !.applied = FALSE]
      [] message[1] = "urgent" -> Urgently(b)
      [] message[1] = "newer-api" -> [b EXCEPT !.default_api = FALSE]
      [] message[1] = "poison" -> [b EXCEPT !.raised = TRUE]
      [] message[1] = "set-intervals" -> [b EXCEPT !.intervals = message[2]]

\* handle_failure
handle_failure(b, error) ==
    IF error = "404" /\ ~b.default_api
    THEN exchange([b EXCEPT !.exchanging = FALSE, !.default_api = TRUE])
    ELSE exchange_completed(
           [b EXCEPT !.exchanging = FALSE,
                     !.errors = IF error = "overloaded" THEN increase(@) ELSE @])

\* handle_result of an answer, up to its messages and after them
BeginResult(b) ==
    [b EXCEPT !.exchanging = FALSE, !.urgent = FALSE, !.asked = FALSE,
              !.handling = TRUE]
EndResult(b) ==
    LET over == [b EXCEPT !.handling = FALSE, !.handled = 0, !.raised = FALSE]
    IN  IF b.raised THEN handle_failure(over, "handler")
        ELSE exchange_completed([over EXCEPT !.errors = decrease(@)])

\* handle_result of None
NoResult(b) == exchange_completed([b EXCEPT !.exchanging = FALSE])

-----------------------------------------------------------------------------
\* The thread is done; exchanges that follow from it form a chain.
Ended(outcome) ==
    [broker EXCEPT !.threads = @ - 1, !.outcome = outcome]

\* The reactor is not in the middle of handle_result.
Free == ~broker.handling

\* With less, start() raises and there is no broker.
StartIntervals == {i \in setting.intervals : i >= NOTICE}

\* start(), with an identity and accepted types from the last run
Init ==
    /\ setting \in Settings
    /\ \E secure_id, accepts \in BOOLEAN,
       intervals \in [exchange: StartIntervals, urgent: StartIntervals] :
          broker = schedule_exchange(
           [exchanging |-> FALSE, urgent |-> FALSE, stopped |-> FALSE,
            timer |-> "none", intervals |-> intervals, errors |-> 0,
            default_api |-> TRUE, secure_id |-> secure_id, accepts |-> accepts,
            should_register |-> FALSE, waiting |-> {}, called |-> {},
            raised |-> FALSE, threads |-> 0, handling |-> FALSE, handled |-> 0,
            applied |-> FALSE, asked |-> TRUE, chain |-> 0, outcome |-> "none"],
           TRUE, FALSE)

TimerRuns ==
    /\ Free /\ broker.timer \in {"soon", "later"}
    /\ broker' = exchange([broker EXCEPT !.timer = "spent", !.chain = 0])
    /\ UNCHANGED setting

\* schedule_exchange(urgent=True), called for a message or by the pinger
AskUrgently ==
    /\ Free
    /\ broker' = [Urgently(broker) EXCEPT !.raised = FALSE]
    /\ UNCHANGED setting

\* register
Register(call) ==
    /\ Free /\ call \notin broker.called
    /\ broker' = exchange([broker EXCEPT
                   !.secure_id = FALSE, !.called = @ \cup {call}, !.chain = 0,
                   !.waiting = @ \cup {call}])
    /\ UNCHANGED setting

Stop ==
    /\ Free
    /\ broker' = [broker EXCEPT !.timer = "none", !.stopped = TRUE]
    /\ UNCHANGED setting

\* An answer comes: handle_result begins, handles its messages up to one whose
\* handler raises, and ends.
Answered ==
    /\ Free /\ broker.threads > 0
    /\ broker' = BeginResult(Ended("answer"))
    /\ UNCHANGED setting

\* The server answers a registration that it was sent, at any later time.
Sensible(message) == message[1] \in {"set-id", "refused"} => broker.applied

Handles(message) ==
    /\ broker.handling /\ ~broker.raised /\ broker.handled < setting.maxReply
    /\ Sensible(message)
    /\ broker' = [HandleMessage(broker, message) EXCEPT !.handled = @ + 1]
    /\ UNCHANGED setting

ResultHandled ==
    /\ broker.handling
    /\ broker' = EndResult(broker)
    /\ UNCHANGED setting

Failed(error) ==
    /\ Free /\ broker.threads > 0
    /\ broker' = IF error \in setting.raises THEN handle_failure(Ended(error), error)
                                     ELSE NoResult(Ended(error))
    /\ UNCHANGED setting

RequestEnds ==
    \/ Answered
    \/ \E message \in Messages : Handles(message)
    \/ ResultHandled
    \/ \E error \in Errors : Failed(error)

Next ==
    \/ TimerRuns
    \/ AskUrgently
    \/ \E call \in Calls : Register(call)
    \/ Stop
    \/ RequestEnds

Spec == Init /\ [][Next]_vars

\* The server accepts registrations, is sent one, and answers it.
Accepting == Handles(<<"accept-register", <<>>>>)
Receiving == broker.should_register /\ Answered
Registering ==
    /\ broker.should_register
    /\ \E m \in {"set-id", "refused"} : Handles(<<m, <<>>>>)

(***************************************************************************)
(* Timers run and requests end (the transport gives a request a time       *)
(* limit).  Of the server: it does not for ever fail to be reached, with a *)
(* registration too, to accept registrations, or to answer one.  Nothing   *)
(* is asked of a setting that is not fair.                                 *)
(***************************************************************************)
FairSpec ==
    /\ Spec
    /\ WF_vars(setting.fair /\ TimerRuns) /\ WF_vars(setting.fair /\ RequestEnds)
    /\ SF_vars(setting.fair /\ Answered) /\ SF_vars(setting.fair /\ Receiving)
    /\ SF_vars(setting.fair /\ Accepting) /\ SF_vars(setting.fair /\ Registering)
-----------------------------------------------------------------------------
(***************************************************************************)
(* The broker's fields keep their types; in particular an exception never  *)
(* stays pending, and the error count stays where its delay is largest.    *)
(***************************************************************************)
TypeOK == broker \in Broker /\ (broker.raised => broker.handling)

(***************************************************************************)
(* At most one request is ever running, and _exchanging says whether:      *)
(* whatever starts an exchange, and though handle_result clears the flag   *)
(* long before it is done.                                                 *)
(***************************************************************************)
OneRequest == broker.threads = IF broker.exchanging THEN 1 ELSE 0

(***************************************************************************)
(* A broker that was not stopped is exchanging or has set a timer to, so   *)
(* that no answer, failure or exception ends its exchanges                 *)
(* (schedule_exchange: "If true, an exchange will necessarily be           *)
(* scheduled").  With an interval that is too short for the notification   *)
(* it may not have.                                                        *)
(***************************************************************************)
TooShort == broker.intervals.exchange < NOTICE \/ broker.intervals.urgent < NOTICE
NeverIdle ==
    \/ broker.stopped \/ broker.exchanging \/ broker.handling
    \/ broker.timer \in {"soon", "later"}
    \/ TooShort

(***************************************************************************)
(* An urgent exchange asked for between two exchanges, or by the handling  *)
(* of an answer, is not put off to the normal interval, not even by        *)
(* requests that fail.                                                     *)
(***************************************************************************)
UrgentHonoured ==
    broker.asked => \/ broker.stopped \/ broker.exchanging \/ broker.handling
                    \/ broker.timer = "soon"
                    \/ TooShort

(***************************************************************************)
(* The end of an exchange starts another one only to register, and only    *)
(* once (_handle_pre_exchange: "Without this flag we would just spin").    *)
(* A downgrade of the API, of which there may be two, starts one more.     *)
(***************************************************************************)
NoSpin == broker.chain <= IF "404" \in setting.raises THEN 4 ELSE 2

(***************************************************************************)
(* A request refused by an overloaded server lengthens the next interval   *)
(* (handle_failure: "We add an exponentially increasing delay").           *)
(***************************************************************************)
OverloadBacksOff == broker.outcome = "overloaded" => broker.errors > 0

(***************************************************************************)
(* Every register() call gets an answer from a fair server: though the     *)
(* exchange it wants may be refused because one is running, which          *)
(* registers nothing.                                                      *)
(***************************************************************************)
RegisterAnswered ==
    \A call \in Calls :
        (setting.fair /\ call \in broker.waiting)
          ~> call \notin broker.waiting \/ broker.stopped

(***************************************************************************)
(* A stopped exchanger comes to rest, though exchange() does not look at   *)
(* _stopped and register() and exchange-done handlers go on calling it.    *)
(***************************************************************************)
StopsEventually == (setting.fair /\ broker.stopped) ~> []~broker.exchanging
=============================================================================
