------------------------------- MODULE Pinger -------------------------------
(***************************************************************************)
(* The pinger (landscape/client/broker/ping.py): it asks a web server, in  *)
(* a thread, whether there are messages for this computer, and if so it    *)
(* asks for an urgent exchange.                                            *)
(*                                                                         *)
(* _call_id is the timer that was set last.  The end of a ping sets one,   *)
(* and so does every message of the server that the broker handles, which  *)
(* may be while a ping is out.  A timer that _call_id no longer names can  *)
(* not be cancelled: it is an orphan here.                                 *)
(***************************************************************************)
EXTENDS Naturals

CONSTANTS
    MaxTimers,  \* bound: timers and pings at a time
    MayStop     \* whether stop() is called

ASSUME PingerAssumption == MaxTimers \in Nat \ {0} /\ MayStop \in BOOLEAN

VARIABLES
    call_id,        \* None, or whether the timer it names is pending or spent
    orphans,        \* pending timers that call_id does not name
    pings,          \* requests that are out
    insecure_id,    \* whether the computer has one
    mail,           \* whether the server has messages for the computer
    asked,          \* an urgent exchange was asked for and has not begun
    stopped         \* stop() was called

vars == <<call_id, orphans, pings, insecure_id, mail, asked, stopped>>

Init ==
    /\ call_id = "none" /\ orphans = 0 /\ pings = 0
    /\ insecure_id \in BOOLEAN /\ mail = FALSE
    /\ asked = FALSE /\ stopped = FALSE

Timers == orphans + (IF call_id = "pending" THEN 1 ELSE 0)

\* Whatever timer call_id named, it is a new one's name now.
Schedule ==
    /\ call_id' = "pending"
    /\ orphans' = Timers

\* The broker starts the pinger once.
Start ==
    /\ call_id = "none" /\ ~stopped
    /\ Schedule
    /\ UNCHANGED <<pings, insecure_id, mail, asked, stopped>>

\* ping: without an id no request is made, and the next ping is scheduled.
PingNow ==
    IF insecure_id
    THEN /\ call_id' = (IF call_id = "pending" THEN "spent" ELSE call_id)
         /\ pings' = pings + 1 /\ UNCHANGED orphans
    ELSE /\ call_id' = "pending" /\ UNCHANGED <<orphans, pings>>

\* The timer of call_id is due.
TimerRuns ==
    /\ call_id = "pending"
    /\ PingNow
    /\ UNCHANGED <<insecure_id, mail, asked, stopped>>

\* An orphan is due.  If it schedules, the timer of call_id is the new orphan.
OrphanRuns ==
    /\ orphans > 0
    /\ IF insecure_id
       THEN /\ pings' = pings + 1 /\ orphans' = orphans - 1
            /\ UNCHANGED call_id
       ELSE /\ orphans' = Timers - 1 /\ call_id' = "pending"
            /\ UNCHANGED pings
    /\ UNCHANGED <<insecure_id, mail, asked, stopped>>

\* Mutant: the next ping is scheduled only after a result
PingFailsForGood ==
    /\ pings > 0 /\ pings' = pings - 1
    /\ UNCHANGED <<call_id, orphans, insecure_id, mail, asked, stopped>>

\* _got_error; it raises, and _schedule is called all the same.
PingFails ==
    /\ pings > 0 /\ pings' = pings - 1
    /\ Schedule
    /\ UNCHANGED <<insecure_id, mail, asked, stopped>>

\* Mutant: the answer is taken the wrong way
GotNoResult ==
    /\ pings > 0 /\ pings' = pings - 1
    /\ asked' = (asked \/ ~mail)
    /\ Schedule
    /\ UNCHANGED <<insecure_id, mail, stopped>>

\* _got_result
GotResult ==
    /\ pings > 0 /\ pings' = pings - 1
    /\ asked' = (asked \/ mail)
    /\ Schedule
    /\ UNCHANGED <<insecure_id, mail, stopped>>

\* _handle_set_intervals, for every message whatever its type
MessageHandled ==
    /\ call_id # "none"
    /\ call_id = "pending" \/ orphans + pings < MaxTimers
    /\ call_id' = "pending"
    /\ UNCHANGED <<orphans, pings, insecure_id, mail, asked, stopped>>

Stop ==
    /\ MayStop /\ call_id # "none"
    /\ call_id' = "none" /\ stopped' = TRUE
    /\ UNCHANGED <<orphans, pings, insecure_id, mail, asked>>

-----------------------------------------------------------------------------
(* What happens outside the pinger *)

\* Registration sets and clears the id.
IdentityChanges ==
    /\ insecure_id' = ~insecure_id
    /\ UNCHANGED <<call_id, orphans, pings, mail, asked, stopped>>

MailArrives ==
    /\ ~mail /\ mail' = TRUE
    /\ UNCHANGED <<call_id, orphans, pings, insecure_id, asked, stopped>>

\* An exchange that was asked for, or one on its own timer, fetches the mail.
Exchange ==
    /\ mail' = FALSE /\ asked' = FALSE
    /\ UNCHANGED <<call_id, orphans, pings, insecure_id, stopped>>

Next ==
    \/ Start \/ TimerRuns \/ OrphanRuns \/ PingFails \/ GotResult
    \/ MessageHandled \/ Stop
    \/ IdentityChanges \/ MailArrives \/ Exchange

Spec == Init /\ [][Next]_vars

(***************************************************************************)
(* The broker starts the pinger, timers run and requests end; the web      *)
(* server does not fail every ping for ever.                               *)
(***************************************************************************)
FairSpec ==
    /\ Spec
    /\ WF_vars(Start) /\ WF_vars(TimerRuns)
    /\ WF_vars(PingFails \/ GotResult) /\ SF_vars(GotResult)
-----------------------------------------------------------------------------
(***************************************************************************)
(* Every counter is in its range: pings and orphans never exceed what      *)
(* messages during a ping have made of them.                               *)
(***************************************************************************)
TypeOK ==
    /\ call_id \in {"none", "pending", "spent"}
    /\ orphans \in 0 .. MaxTimers /\ pings \in 0 .. MaxTimers
    /\ {insecure_id, mail, asked, stopped} \subseteq BOOLEAN

(***************************************************************************)
(* Once started, a ping is out or a timer for one is set: neither errors   *)
(* nor messages nor the loss of the id end the loop (ping.py: "Loop        *)
(* forever").                                                              *)
(***************************************************************************)
LoopGoesOn == call_id # "none" => Timers + pings > 0

(***************************************************************************)
(* Messages for a computer with an id are noticed, unless an exchange      *)
(* fetches them first.                                                     *)
(***************************************************************************)
MailNoticed ==
    mail ~> asked \/ ~mail \/ ~insecure_id \/ stopped
=============================================================================
