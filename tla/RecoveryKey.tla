---------------------------- MODULE RecoveryKey ----------------------------
(***************************************************************************)
(* The recovery key of an encrypted disk                                   *)
(* (landscape/client/manager/fderecoverykeymanager.py).  snapd generates a *)
(* key and changes the key slot some time later.  The manager asks snapd   *)
(* now and then, hands the key to the broker, which keeps it in memory     *)
(* only, and sends a message.  The broker puts the key it has into that    *)
(* message when it is exchanged (landscape/client/broker/exchange.py).     *)
(***************************************************************************)
EXTENDS Naturals, Sequences

CONSTANTS
    Request,        \* the fde-recovery-key messages of the server
    MaxCrashes      \* bound: crashes of the broker and of the manager

VARIABLES
    request,        \* how far each request is
    change,         \* the change of snapd that belongs to it
    slot,           \* whose key is in the slot
    exchange_state, \* whose key the broker has in memory
    queue,          \* the messages in its store
    server,         \* the last message the server got: successful, key
    overtaken,      \* two requests were under way at the same time
    untold,         \* requests that are over without a message
    crashes

vars == <<request, change, slot, exchange_state, queue, server, overtaken, untold, crashes>>

NoKey == "none"

Init ==
    /\ request = [r \in Request |-> "waiting"]
    /\ change = [r \in Request |-> "none"]
    /\ slot = NoKey /\ exchange_state = NoKey /\ queue = <<>>
    /\ server = [successful |-> FALSE, key |-> NoKey]
    /\ overtaken = FALSE /\ untold = {} /\ crashes = 0

UnderWay == {r \in Request : request[r] \notin {"waiting", "over"}}

\* _recovery_key_exists, _generate_recovery_key and the call of
\* _update_recovery_key, in one go
Update(r) ==
    /\ request[r] = "waiting"
    /\ request' = [request EXCEPT ![r] = "polling"]
    /\ change' = [change EXCEPT ![r] = "Doing"]
    /\ overtaken' = (overtaken \/ UnderWay # {} \/ \E q \in Request : change[q] = "Doing")
    /\ UNCHANGED <<slot, exchange_state, queue, server, untold, crashes>>

\* snapd returns an error for one of them.
UpdateRefused(r) ==
    /\ request[r] = "waiting"
    /\ request' = [request EXCEPT ![r] = "failing"]
    /\ UNCHANGED <<change, slot, exchange_state, queue, server, overtaken, untold, crashes>>

\* snapd is through with it.
ChangeEnds(r) ==
    /\ change[r] = "Doing"
    /\ \/ change' = [change EXCEPT ![r] = "Done"] /\ slot' = r
       \/ change' = [change EXCEPT ![r] = "Error"] /\ UNCHANGED slot
    /\ UNCHANGED <<request, exchange_state, queue, server, overtaken, untold, crashes>>

\* get_status of _poll_for_completion: anything but an incomplete status
\* ends the loop, and the key counts.
Poll(r) ==
    /\ request[r] = "polling" /\ change[r] # "Doing"
    /\ request' = [request EXCEPT ![r] = "handing_over"]
    /\ UNCHANGED <<change, slot, exchange_state, queue, server, overtaken, untold, crashes>>

PollFails(r) ==
    /\ request[r] = "polling"
    /\ request' = [request EXCEPT ![r] = "failing"]
    /\ UNCHANGED <<change, slot, exchange_state, queue, server, overtaken, untold, crashes>>

\* Mutant: a newer key does not replace an older one
KeepsFirst(r) == IF exchange_state = NoKey THEN r ELSE exchange_state

update_exchange_state(r) == r

\* update_exchange_state comes first on the same connection.
HandOver(r) ==
    /\ request[r] = "handing_over"
    /\ exchange_state' = update_exchange_state(r)
    /\ request' = [request EXCEPT ![r] = "sending"]
    /\ UNCHANGED <<change, slot, queue, server, overtaken, untold, crashes>>

\* The broker lets the message in.
SendSuccessful(r) ==
    /\ request[r] = "sending"
    /\ queue' = Append(queue, TRUE)
    /\ request' = [request EXCEPT ![r] = "over"]
    /\ UNCHANGED <<change, slot, exchange_state, server, overtaken, untold, crashes>>

\* The call fails, with no session id or no connection, and the message that
\* follows says so; the one before may have been let in nevertheless.
SendFails(r) ==
    /\ \/ request[r] \in {"handing_over", "sending"} /\ UNCHANGED queue
       \/ request[r] = "sending" /\ queue' = Append(queue, TRUE)
    /\ request' = [request EXCEPT ![r] = "failing"]
    /\ UNCHANGED <<change, slot, exchange_state, server, overtaken, untold, crashes>>

SendUnsuccessful(r) ==
    /\ request[r] = "failing"
    /\ queue' = Append(queue, FALSE)
    /\ request' = [request EXCEPT ![r] = "over"]
    /\ UNCHANGED <<change, slot, exchange_state, server, overtaken, untold, crashes>>

\* A message with the session id of before a resynchronisation is dropped
\* without an error, and after a second call that fails there is no other.
SendDropped(r) ==
    /\ request[r] \in {"sending", "failing"}
    /\ request' = [request EXCEPT ![r] = "over"] /\ untold' = untold \cup {r}
    /\ UNCHANGED <<change, slot, exchange_state, queue, server, overtaken, crashes>>

\* _make_payload: without a key the message says that it was not successful.
Exchange ==
    /\ queue # <<>> /\ queue' = Tail(queue)
    /\ server' = IF Head(queue) /\ exchange_state # NoKey
                 THEN [successful |-> TRUE, key |-> exchange_state]
                 ELSE [server EXCEPT !.successful = FALSE]
    /\ UNCHANGED <<request, change, slot, exchange_state, overtaken, untold, crashes>>

\* The broker starts again: the key is gone, the messages are not, and calls
\* to it fail.
BrokerCrash ==
    /\ crashes < MaxCrashes /\ crashes' = crashes + 1
    /\ exchange_state' = NoKey
    /\ request' = [r \in Request |-> IF request[r] \in {"handing_over", "sending"}
                                     THEN "failing" ELSE request[r]]
    /\ UNCHANGED <<change, slot, queue, server, overtaken, untold>>

\* The manager starts again: what it was waiting for in
\* handle_recovery_key_message is forgotten, and snapd goes on.
ManagerCrash ==
    /\ crashes < MaxCrashes /\ crashes' = crashes + 1
    /\ request' = [r \in Request |-> IF r \in UnderWay THEN "over" ELSE request[r]]
    /\ untold' = untold \cup UnderWay
    /\ UNCHANGED <<change, slot, exchange_state, queue, server, overtaken>>

Next ==
    \/ \E r \in Request :
         \/ Update(r) \/ UpdateRefused(r) \/ ChangeEnds(r) \/ Poll(r) \/ PollFails(r)
         \/ HandOver(r)
         \/ SendSuccessful(r) \/ SendFails(r) \/ SendUnsuccessful(r) \/ SendDropped(r)
    \/ Exchange \/ BrokerCrash \/ ManagerCrash

Spec == Init /\ [][Next]_vars

-----------------------------------------------------------------------------
Quiet == UnderWay = {} /\ queue = <<>> /\ \A r \in Request : change[r] # "Doing"
Failed == {r \in Request : change[r] = "Error"}

(***************************************************************************)
(* When the last thing the server heard is that a key was generated, the   *)
(* key it has is the one that opens the disk, even if the broker was       *)
(* started again in between.  There are three exceptions: snapd failed at  *)
(* the change for that very key; the key in the slot is of a request that  *)
(* the server was never told of, since the manager was started again while *)
(* it waited for snapd or the message was dropped for its session id; or   *)
(* two requests overtook each other.                                       *)
(***************************************************************************)
KeyOpens ==
    Quiet /\ server.successful /\ ~overtaken =>
        server.key = slot \/ slot \in untold \/ server.key \in Failed

(***************************************************************************)
(* The server is told of a key only if the update of the slot did not      *)
(* fail, as the tests of _update_recovery_key say.                         *)
(***************************************************************************)
FailedUpdateIsUnsuccessful == server.successful => change[server.key] # "Error"
=============================================================================
