---------------------------- MODULE RemoteCalls ----------------------------
(***************************************************************************)
(* Method calls between the processes of the client                        *)
(* (landscape/lib/amp.py): a RemoteObject on one end of a connection that  *)
(* may be lost and made again, a MethodCallReceiver on the other.          *)
(*                                                                         *)
(* A call with large arguments goes in chunks, each sent when the one      *)
(* before it is acknowledged.  The last one is given `timeout' seconds.  A *)
(* call that fails with the connection is kept for the next one, if        *)
(* retryOnReconnect says so, for at most retryTimeout seconds if that is   *)
(* set.  A call is made once here; that its deferred fires is `fired'.     *)
(***************************************************************************)
EXTENDS Naturals, SequencesExt

CONSTANTS
    Calls,
    Settings,           \* the ways to use a RemoteObject: the chunks of each call,
                        \* retryOnReconnect, whether there is a retryTimeout, and
                        \* whether the peer may hang
    MaxLosses           \* bound: connections lost

VARIABLES
    setting,        \* how the RemoteObject is used
    connected,
    losses,         \* connections lost so far
    call,           \* what the sender knows of each call: the stage (unmade, idle,
                    \* chunk, last, pending), the chunk it is at, its retry timer
                    \* (none, set, spent), how often it fired
    pending,        \* _pending_requests, in the order of insertion
    wire,           \* chunks on their way to the receiver
    answers,        \* acknowledgements and results on their way back
    buffer,         \* _pending_chunks of the receiver, by call
    executed,       \* how often each call was executed
    garbled         \* one was executed with other arguments than its own

vars == <<setting, connected, losses, call, pending, wire, answers, buffer, executed, garbled>>

Init ==
    /\ setting \in Settings
    /\ connected = TRUE /\ losses = 0
    /\ call = [c \in Calls |-> [stage |-> "unmade", at |-> 0, timer |-> "none", fired |-> 0]]
    /\ pending = <<>> /\ wire = <<>> /\ answers = <<>>
    /\ buffer = [c \in Calls |-> <<>>]
    /\ executed = [c \in Calls |-> 0]
    /\ garbled = FALSE

-----------------------------------------------------------------------------
(* What becomes of a call.  A deferred whose timeout call is cancelled too *)
(* late is not fired: cancel() raises first.                               *)

Fire(q) == [q EXCEPT !.stage = "idle", !.timer = "none", !.fired = @ + 1]

\* _handle_failure that propagates the error
GiveUp(q) == IF q.timer = "spent" THEN [q EXCEPT !.stage = "idle"] ELSE Fire(q)

\* _handle_failure that keeps the request
Keep(q) ==
    [q EXCEPT !.stage = "pending",
              !.timer = IF setting.retryTimeout /\ @ = "none" THEN "set" ELSE @]

\* Mutant: errors are swallowed
FailSilently(q) == IF setting.retryOnReconnect THEN Keep(q) ELSE [q EXCEPT !.stage = "idle"]

\* _handle_failure, for another error than a MethodCallError
Fail(q) == IF setting.retryOnReconnect THEN Keep(q) ELSE GiveUp(q)

\* Mutant: the deferred fires whatever the timeout call has done
ResultAnyway(q) == Fire(q)

\* _handle_result; what it raises goes to _handle_failure.
HandleResult(q) == IF q.timer = "spent" THEN Fail(q) ELSE Fire(q)

\* The calls that are kept
Kept(after) == {c \in Calls : after[c].stage = "pending"}

-----------------------------------------------------------------------------
(* Sending *)

LastChunk(c) == setting.chunks[c]

SentChunk(c, n) == [call |-> c, chunk |-> n]

Waiting(c, q, n) == [q EXCEPT !.stage = IF n = LastChunk(c) THEN "last" ELSE "chunk",
                              !.at = n]

\* A call while there is no connection fails at once.
MakeCall(c) ==
    /\ call[c].stage = "unmade"
    /\ IF connected
       THEN /\ call' = [call EXCEPT ![c] = Waiting(c, call[c], 1)]
            /\ wire' = Append(wire, SentChunk(c, 1))
            /\ UNCHANGED pending
       ELSE /\ call' = [call EXCEPT ![c] = Fail(call[c])]
            /\ pending' = IF setting.retryOnReconnect THEN Append(pending, c) ELSE pending
            /\ UNCHANGED wire
    /\ UNCHANGED <<setting, connected, losses, answers, buffer, executed, garbled>>

\* An acknowledgement, after which the next chunk goes
Acknowledged ==
    /\ answers # <<>> /\ Head(answers).kind = "chunk"
    /\ answers' = Tail(answers)
    /\ LET c == Head(answers).call
           n == call[c].at + 1
       IN  /\ call' = [call EXCEPT ![c] = Waiting(c, call[c], n)]
           /\ wire' = Append(wire, SentChunk(c, n))
    /\ UNCHANGED <<setting, connected, losses, pending, buffer, executed, garbled>>

\* handle_response: a result after the timeout is ignored.
Result ==
    /\ answers # <<>> /\ Head(answers).kind \in {"result", "error"}
    /\ answers' = Tail(answers)
    /\ LET c == Head(answers).call
           q == IF Head(answers).kind = "result" THEN HandleResult(call[c])
                                                 ELSE GiveUp(call[c])
       IN  IF call[c].stage = "last"
           THEN /\ call' = [call EXCEPT ![c] = q]
                /\ pending' = IF q.stage = "pending" THEN Append(pending, c) ELSE pending
           ELSE UNCHANGED <<call, pending>>
    /\ UNCHANGED <<setting, connected, losses, wire, buffer, executed, garbled>>

\* handle_timeout
TimeOut(c) ==
    /\ call[c].stage = "last"
    /\ call' = [call EXCEPT ![c] = GiveUp(call[c])]
    /\ UNCHANGED <<setting, connected, losses, pending, wire, answers, buffer, executed, garbled>>

\* The retry timeout: _handle_failure with call=None
RetryTimeOut(c) ==
    /\ call[c].timer = "set"
    /\ call' = [call EXCEPT ![c] = [call[c] EXCEPT !.timer = "spent", !.fired = @ + 1,
                                      !.stage = IF @ = "pending" THEN "idle" ELSE @]]
    /\ IF c \in ToSet(pending)
       THEN \E i \in DOMAIN pending : pending[i] = c /\ pending' = RemoveAt(pending, i)
       ELSE UNCHANGED pending
    /\ UNCHANGED <<setting, connected, losses, wire, answers, buffer, executed, garbled>>

-----------------------------------------------------------------------------
(* The connection *)

OnTheWire == {c \in Calls : call[c].stage \in {"chunk", "last"}}

ConnectionLost ==
    /\ connected /\ losses < MaxLosses
    /\ connected' = FALSE /\ losses' = losses + 1
    /\ call' = [c \in Calls |-> IF c \in OnTheWire THEN Fail(call[c]) ELSE call[c]]
    /\ \E order \in SetToSeqs(OnTheWire \cap Kept(call')) : pending' = pending \o order
    /\ wire' = <<>> /\ answers' = <<>>
    /\ buffer' = [c \in Calls |-> <<>>]
    /\ UNCHANGED <<setting, executed, garbled>>

\* The requests of _retry: the last one first
Retried == pending

\* _handle_connect and _retry
Reconnect ==
    /\ ~connected /\ connected' = TRUE
    /\ wire' = [i \in 1 .. Len(Retried) |-> SentChunk(Reverse(Retried)[i], 1)]
    /\ call' = [c \in Calls |->
                  IF c \in ToSet(Retried) THEN Waiting(c, call[c], 1) ELSE call[c]]
    /\ pending' = <<>>
    /\ UNCHANGED <<setting, losses, answers, buffer, executed, garbled>>

-----------------------------------------------------------------------------
(* The receiver *)

\* What has arrived of a call
BufferOf(c) == buffer[c]

\* receive_method_call_chunk
ReceiveChunk ==
    /\ wire # <<>> /\ Head(wire).chunk < LastChunk(Head(wire).call)
    /\ wire' = Tail(wire)
    /\ LET c == Head(wire).call
       IN  /\ buffer' = [buffer EXCEPT ![c] = Append(@, <<c, Head(wire).chunk>>)]
           /\ answers' = Append(answers, [kind |-> "chunk", call |-> c])
    /\ UNCHANGED <<setting, connected, losses, call, pending, executed, garbled>>

\* receive_method_call; the method may raise.
ReceiveCall ==
    /\ wire # <<>> /\ Head(wire).chunk = LastChunk(Head(wire).call)
    /\ wire' = Tail(wire)
    /\ LET c == Head(wire).call
       IN  /\ buffer' = [buffer EXCEPT ![c] = <<>>]
           /\ executed' = [executed EXCEPT ![c] = @ + 1]
           /\ garbled' = (garbled \/ Append(BufferOf(c), <<c, LastChunk(c)>>)
                                       # [i \in 1 .. LastChunk(c) |-> <<c, i>>])
           /\ \E kind \in {"result", "error"} :
                answers' = Append(answers, [kind |-> kind, call |-> c])
    /\ UNCHANGED <<setting, connected, losses, call, pending>>

Next ==
    \/ \E c \in Calls : MakeCall(c) \/ TimeOut(c) \/ RetryTimeOut(c)
    \/ Acknowledged \/ Result
    \/ ConnectionLost \/ Reconnect
    \/ ReceiveChunk \/ ReceiveCall

Spec == Init /\ [][Next]_vars

(***************************************************************************)
(* Timers run, the factory makes a lost connection again, and what has     *)
(* arrived is handled; that the peer does so is not assumed if it may      *)
(* hang.                                                                   *)
(***************************************************************************)
FairSpec ==
    /\ Spec
    /\ \A c \in Calls : WF_vars(TimeOut(c)) /\ WF_vars(RetryTimeOut(c))
    /\ WF_vars(Acknowledged) /\ WF_vars(Result) /\ WF_vars(Reconnect)
    /\ WF_vars(~setting.hangs /\ (ReceiveChunk \/ ReceiveCall))
-----------------------------------------------------------------------------
\* The deferred of a call fires at most once, whichever of a result, an error,
\* two timeouts and a lost connection come first: firing it again would raise in
\* the middle of somebody else's code.
FiresOnce == \A c \in Calls : call[c].fired <= 1

\* A call is executed at most once for each connection it was sent over, and so
\* just once by a peer whose calls are not retried.
ExecutedOncePerConnection ==
    \A c \in Calls : executed[c] <= 1 + (IF setting.retryOnReconnect THEN losses ELSE 0)

\* The receiver puts the chunks of a call together again, however they mix with
\* those of other calls and with lost connections.
ArgumentsIntact == ~garbled

\* _pending_requests holds just the calls that wait for a connection, each once.
PendingRight == ToSet(pending) = Kept(call) /\ IsInjective(pending)

(***************************************************************************)
(* A call is executed with its own arguments, not more often than          *)
(* connections were lost with it, its deferred fires once, and it is kept  *)
(* for the next connection just while it waits for one.                    *)
(***************************************************************************)
CallsRight == FiresOnce /\ ExecutedOncePerConnection /\ ArgumentsIntact /\ PendingRight

(***************************************************************************)
(* Every call ends (send_method_call: "If a response from the server is    *)
(* not received within timeout seconds, the returned deferred will         *)
(* errback"), even if the peer hangs, but then only if no chunk is sent    *)
(* without a timeout before the last one.                                  *)
(***************************************************************************)
CallsEnd ==
    \A c \in Calls :
        (call[c].stage # "unmade") ~> (call[c].fired > 0 \/ (setting.hangs /\ call[c].stage = "chunk"))
=============================================================================
