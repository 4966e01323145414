------------------------------ MODULE Watchdog ------------------------------
(***************************************************************************)
(* landscape/client/watchdog.py: the process that starts the daemons,      *)
(* pings them, replaces one that died or stopped answering, and takes them *)
(* all down again; with the one AMP connector per daemon                   *)
(* (client/amp.py) that its pings and its request to exit share.           *)
(*                                                                         *)
(* A daemon's processes live in a few slots: slot `current' is the         *)
(* WatchedProcessProtocol in Daemon._process (0 is None).  Delays are left *)
(* out: a timer that is set may run.                                       *)
(***************************************************************************)
EXTENDS Integers, Sequences, FiniteSets

CONSTANTS
  AllDaemons,   \* the daemons there are
  Settings,     \* the ways to run a watchdog
  MaxFailures,  \* pings in a row a daemon may miss (5 in the code)
  MaxQuick,     \* MAXIMUM_CONSECUTIVE_RESTARTS
  Slots         \* bound: processes of one daemon that exist at once

ASSUME WatchdogConstants ==
  /\ \A w \in Settings :
       /\ Len(w.order) > 0              \* the enabled daemons, as in WatchDog.daemons
       /\ \A i \in DOMAIN w.order : w.order[i] \in AllDaemons
       /\ w.maxRetries \in Nat          \* Daemon.max_retries: after the first attempt
       /\ w.lingers \in BOOLEAN         \* a dead process's pipes may stay open a while
       /\ w.vanishes \in BOOLEAN        \* an executable may be missing for a while
  /\ MaxFailures \in Nat \ {0} /\ MaxQuick \in Nat \ {0}
  /\ Slots \in Nat \ {0}

Kinds == {"ping", "exit"}

VARIABLES
  setting,    \* how the watchdog is run
  daemon,     \* per daemon: [current, quick, failures, procs]
  present,    \* the daemons whose executable exists
  foreign,    \* the daemons some other watchdog runs
  calls,      \* per daemon and kind: the call out over AMP
  connector,  \* per daemon: the kind of the call that connected last, or "none"
  check,      \* "startup", "timer", "pinging", "none" or "crashed"
  quitting,   \* the reactor was asked to stop
  stopping,   \* WatchDog._stopping, and with it not Daemon._allow_restart
  exit,       \* "no", "asked", "waiting", "done"
  waits       \* the daemons request_exit still waits for

vars == <<setting, daemon, present, foreign, calls, connector, check, quitting,
          stopping, exit, waits>>

\* The enabled daemons.
Daemons == {setting.order[i] : i \in DOMAIN setting.order}
Broker == setting.order[1]
-----------------------------------------------------------------------------
(* Processes and the protocols that watch them.                            *)

\* No process in the slot.
NoProc == [state |-> "none", term |-> FALSE, kill |-> FALSE, waiter |-> "none"]
Alive == {"starting", "up", "hung", "leaving", "killed"}
Listening(d) == {s \in 1..Slots :
                   daemon[d].procs[s].state \in {"up", "hung", "leaving"}}
                \cup (IF d \in foreign THEN {0} ELSE {})

\* A slot that can take a new process: nothing can come from it any more.
FreeSlots(x) ==
  {s \in 1..Slots : x.procs[s].state \in {"none", "ended", "unspawned"}}

\* A start soon after the last one that is one too many.
LimitReached(x, fast) == fast /\ x.quick + 1 = MaxQuick

\* Mutant: a quick start makes the protocol and leaves before the process.
StartDaemonHalf(x, fast, there) ==
  LET slot == CHOOSE s \in FreeSlots(x) : TRUE
  IN  IF LimitReached(x, fast)
      THEN [x EXCEPT !.current = 0, !.quick = @ + 1]
      ELSE [x EXCEPT !.current = slot, !.quick = IF fast THEN @ + 1 ELSE 0,
                     !.procs[slot] = [NoProc EXCEPT !.state =
                        IF there /\ ~fast THEN "starting" ELSE "unspawned"]]

\* What Daemon.start leaves: the quick starts are counted, and the one that
\* reaches the limit stops the reactor and spawns nothing.
StartDaemon(x, fast, there) ==
  LET quick == IF fast THEN x.quick + 1 ELSE 0
      slot  == CHOOSE s \in FreeSlots(x) : TRUE
  IN  IF LimitReached(x, fast)
      THEN [x EXCEPT !.current = 0, !.quick = quick]
      ELSE [x EXCEPT !.current = slot, !.quick = quick,
                     !.procs[slot] = [NoProc EXCEPT !.state =
                        IF there THEN "starting" ELSE "unspawned"]]

\* A daemon can only be started quickly if it was started before.
MayStart(x, fast) == FreeSlots(x) # {} /\ (fast => x.current # 0)

\* WatchedProcessProtocol._terminate: SIGTERM, and a timer for SIGKILL.  A
\* second timer replaces the first in the attribute, and runs like it.
Terminate(p) ==
  IF p.state \notin Alive THEN p
  ELSE [p EXCEPT !.state = CASE @ = "up" -> "leaving"
                             [] @ = "starting" -> "killed"
                             [] OTHER -> @,
                 !.kill = TRUE]

\* WatchedProcessProtocol.wait raises without a transport.
WaitFails(x) == x.current # 0 /\ x.procs[x.current].state = "unspawned"

\* Mutant: nobody waits for a process to end.
WaitFiresAtOnce(x) == TRUE

\* It fires at once without a pid, and otherwise takes the place of whoever
\* waited before.
WaitFires(x) == x.current = 0 \/ x.procs[x.current].state \notin Alive
Wait(x, who) ==
  IF WaitFires(x) THEN x ELSE [x EXCEPT !.procs[x.current].waiter = who]

\* Daemon.stop: kill.
StopDaemon(x, who) ==
  IF x.current = 0 THEN x
  ELSE Wait([x EXCEPT !.procs[x.current] = Terminate(@)], who)

\* Mutant: wait, without the timer that sends SIGTERM.
WaitForEver(x, who) == IF x.current = 0 THEN x ELSE Wait(x, who)

\* Daemon.wait_or_die: a timer for SIGTERM, and wait.
WaitOrDie(x, who) ==
  IF x.current = 0 THEN x
  ELSE Wait([x EXCEPT !.procs[x.current].term = TRUE], who)

-----------------------------------------------------------------------------
(* Calls over AMP.                                                         *)

NoCall == [state |-> "none", tries |-> 0, proc |-> 0]
NewCall == [NoCall EXCEPT !.state = "connecting"]

\* ComponentConnector.disconnect, when a call of kind k to d ends: it closes
\* what connected last.  A call that is connecting or connected fails, one
\* that waits to try again is never heard of.
CutOff(d, k) ==
  LET other == connector[d]
  IN  IF other \in {"none", k} THEN calls[d]
      ELSE [calls[d] EXCEPT ![other].state =
              CASE @ \in {"connecting", "called"} -> "cut"
                [] @ = "waiting" -> "lost"
                [] OTHER -> @]
\* The call of kind k to d is over, and what follows it is `next'.
Ended(d, k, next) ==
  [calls EXCEPT ![d] = [CutOff(d, k) EXCEPT ![k] = [NoCall EXCEPT !.state = next]]]

Running == check # "crashed" /\ exit # "done"

\* Every ping of a check has ended, in c.
AllDone(c) == \A d \in Daemons : c[d].ping.state \in {"none", "ran"}
\* gather_results(all_running).addBoth(reschedule)
Reschedule(c) ==
  check' = IF check = "pinging" /\ AllDone(c) THEN "timer" ELSE check

\* Daemon.start, of the daemon d whose state is x.
Starts(d, x, fast) ==
  /\ MayStart(x, fast)
  /\ daemon' = [daemon EXCEPT ![d] = StartDaemon(x, fast, d \in present)]
  /\ quitting' = (quitting \/ LimitReached(x, fast))

\* `stopped': the daemon is started whatever happened meanwhile; if that
\* raises, the failures stay as they are.
Raises(d, x, fast) ==
  IF LimitReached(x, fast) THEN stopping ELSE d \notin present
StoppedThenStarts(d, x, c) ==
  \E fast \in BOOLEAN :
    /\ LET y == IF Raises(d, x, fast) THEN x ELSE [x EXCEPT !.failures = 0]
       IN  Starts(d, y, fast)
    /\ calls' = c
    /\ IF Raises(d, x, fast) THEN check' = "timer" ELSE Reschedule(c)

-----------------------------------------------------------------------------
(* WatchDogService and WatchDog.                                           *)

\* startService asks every daemon whether it runs already.
Init ==
  /\ setting \in Settings
  /\ daemon = [d \in Daemons |-> [current |-> 0, quick |-> 0, failures |-> 0,
                                  procs |-> [s \in 1..Slots |-> NoProc]]]
  /\ present = Daemons
  /\ foreign \in {{}, Daemons}
  /\ calls = [d \in Daemons |-> [ping |-> NewCall, exit |-> NoCall]]
  /\ connector = [d \in Daemons |-> "ping"]
  /\ check = "startup"
  /\ quitting = FALSE /\ stopping = FALSE
  /\ exit = "no" /\ waits = {}

\* start_if_not_running, once check_running has all its answers, c: crash if
\* one of them answers; otherwise start every daemon up to one that cannot be
\* started, and the monitoring.
StartIfNotRunning(c) ==
  IF \E d \in Daemons : c[d].ping.state = "ran"
  THEN /\ check' = "crashed"
       /\ UNCHANGED <<daemon, quitting>>
  ELSE LET before(d) == \A i \in DOMAIN setting.order :
                          (\A j \in 1..(i-1) : setting.order[j] # d) => setting.order[i] \in present
       IN  /\ daemon' = [d \in Daemons |->
                IF before(d) THEN StartDaemon(daemon[d], FALSE, TRUE) ELSE daemon[d]]
           /\ check' = IF present = Daemons THEN "timer" ELSE "crashed"
           /\ UNCHANGED quitting

\* What follows the answer to a ping of d: at startup it is kept, and later it
\* is _restart_if_not_running.  The failures are counted up to one more than
\* matters.
PingEnds(d, r) ==
  LET x == IF r \/ stopping THEN [daemon[d] EXCEPT !.failures = 0]
           ELSE [daemon[d] EXCEPT !.failures = IF @ > MaxFailures THEN @ ELSE @ + 1]
      c(next) == Ended(d, "ping", next)
  IN  \/ /\ check = "startup"
         /\ LET a == c(IF r THEN "ran" ELSE "none")
            IN  /\ calls' = a
                /\ IF AllDone(a) THEN StartIfNotRunning(a)
                   ELSE UNCHANGED <<daemon, check, quitting>>
      \/ /\ check # "startup"
         /\ r \/ stopping \/ x.failures # MaxFailures
         /\ daemon' = [daemon EXCEPT ![d] = x]
         /\ calls' = c("none") /\ Reschedule(c("none"))
         /\ UNCHANGED quitting
      \/ /\ check # "startup"
         /\ ~r /\ ~stopping /\ x.failures = MaxFailures
         /\ CASE WaitFails(x) ->
                   /\ daemon' = [daemon EXCEPT ![d] = x]
                   /\ calls' = c("none") /\ check' = "timer"
                   /\ UNCHANGED quitting
              [] ~WaitFails(x) /\ WaitFires(x) ->
                   StoppedThenStarts(d, StopDaemon(x, "restart"), c("none"))
              [] OTHER ->
                   /\ daemon' = [daemon EXCEPT ![d] = StopDaemon(x, "restart")]
                   /\ calls' = c("stopping")
                   /\ UNCHANGED <<check, quitting>>

\* What follows the answer to the request that the broker exits:
\* terminate_processes.  wait() raises for a daemon that was never spawned,
\* and then the rest of them is left alone and the exit is over.
ExitEnds(r) ==
  LET bad(d) == \E i \in DOMAIN setting.order : /\ WaitFails(daemon[setting.order[i]])
                                        /\ \A j \in 1..(i-1) : setting.order[j] # d
      new == [d \in Daemons |->
                IF bad(d) THEN daemon[d]
                ELSE IF r THEN WaitOrDie(daemon[d], "exit")
                ELSE StopDaemon(daemon[d], "exit")]
      left == {d \in Daemons : ~WaitFires(daemon[d])}
  IN  /\ daemon' = new
      /\ calls' = Ended(Broker, "exit", "none")
      /\ waits' = left
      /\ exit' = IF left = {} \/ \E d \in Daemons : bad(d) THEN "done" ELSE "waiting"
      /\ UNCHANGED <<check, quitting>>

\* The call of kind k to d ends with result r: disconnect, then what follows.
Fires(d, k, r) ==
  /\ connector' = [connector EXCEPT ![d] = "none"]
  /\ \/ k = "ping" /\ PingEnds(d, r) /\ UNCHANGED <<exit, waits>>
     \/ k = "exit" /\ ExitEnds(r)
  /\ UNCHANGED <<setting, present, foreign, stopping>>

SetCall(d, k, c) ==
  /\ calls' = [calls EXCEPT ![d][k] = c]
  /\ UNCHANGED <<setting, daemon, present, foreign, connector, check, quitting, stopping,
                 exit, waits>>

\* MethodCallClientFactory: a connection attempt finds a listener, fails and
\* is followed by another, or fails for the last time.
Connects(d, k) ==
  LET call == calls[d][k]
  IN  /\ Running /\ call.state = "connecting"
      /\ \/ \E s \in Listening(d) :
              SetCall(d, k, [call EXCEPT !.state = "called", !.proc = s])
         \/ /\ Listening(d) = {} /\ call.tries < setting.maxRetries
            /\ SetCall(d, k, [call EXCEPT !.state = "waiting", !.tries = @ + 1])
         \/ /\ Listening(d) = {} /\ call.tries = setting.maxRetries
            /\ Fires(d, k, FALSE)
Retries(d, k) ==
  /\ Running /\ calls[d][k].state = "waiting"
  /\ SetCall(d, k, [calls[d][k] EXCEPT !.state = "connecting"])

\* The state of the process a call went to.
Callee(d, k) ==
  LET s == calls[d][k].proc IN IF s = 0 THEN "up" ELSE daemon[d].procs[s].state

\* The answer comes; the broker answers a request to exit once it is leaving.
Answers(d, k) ==
  /\ Running /\ calls[d][k].state = "called"
  /\ \/ Callee(d, k) = "leaving"
     \/ Callee(d, k) = "up" /\ (k = "exit" => calls[d][k].proc = 0)
  /\ Fires(d, k, TRUE)

\* The call takes longer than its timeout, or its connection goes away.  The
\* daemons of another watchdog are taken to answer in time.
CallFails(d, k) ==
  /\ Running
  /\ calls[d][k].state = "cut" \/ (calls[d][k].state = "called" /\ calls[d][k].proc # 0)
  /\ Fires(d, k, FALSE)

\* WatchDog._check.  After a check that raised, the next one waits here for
\* the pings still out (the bound of one ping per daemon).
Check ==
  /\ Running /\ check = "timer" /\ \A d \in Daemons : calls[d].ping.state = "none"
  /\ check' = "pinging"
  /\ calls' = [d \in Daemons |-> [calls[d] EXCEPT !.ping = NewCall]]
  /\ connector' = [d \in Daemons |-> "ping"]
  /\ UNCHANGED <<setting, daemon, present, foreign, quitting, stopping, exit, waits>>

\* WatchDogService.stopService and WatchDog.request_exit.
RequestExit ==
  /\ Running /\ ~stopping
  /\ check' = IF check = "timer" THEN "none" ELSE check
  /\ stopping' = TRUE /\ quitting' = TRUE /\ exit' = "asked"
  /\ calls' = [calls EXCEPT ![Broker].exit = NewCall]
  /\ connector' = [connector EXCEPT ![Broker] = "exit"]
  /\ UNCHANGED <<setting, daemon, present, foreign, waits>>

-----------------------------------------------------------------------------
(* WatchedProcessProtocol: its timers and the end of its process.          *)

Protocol(d, s) == daemon[d].procs[s]
SetProtocol(d, s, p) ==
  /\ daemon' = [daemon EXCEPT ![d].procs[s] = p]
  /\ UNCHANGED <<setting, present, foreign, calls, connector, check, quitting, stopping,
                 exit, waits>>

\* The timer of wait_or_die, and the one of _terminate (_really_kill).
TermTimer(d, s) ==
  /\ Running /\ Protocol(d, s).term
  /\ SetProtocol(d, s, [Terminate(Protocol(d, s)) EXCEPT !.term = FALSE])
KillTimer(d, s) ==
  /\ Running /\ Protocol(d, s).kill
  /\ SetProtocol(d, s, [Protocol(d, s) EXCEPT
                          !.state = IF @ \in Alive THEN "killed" ELSE @,
                          !.kill = FALSE])

\* processEnded: the timers are cancelled, and whoever waits for the process
\* is told; if nobody does, the daemon is started again unless it must not be.
\* Without open pipes it comes with the process's death.
ProcessEnded(d, s) ==
  LET p == Protocol(d, s)
      x == [daemon[d] EXCEPT !.procs[s] = [NoProc EXCEPT !.state = "ended"]]
  IN  /\ Running
      /\ p.state = "dead" \/ (~setting.lingers /\ p.state \in Alive)
      /\ \/ /\ p.waiter = "restart"
            /\ StoppedThenStarts(d, x, [calls EXCEPT ![d].ping = NoCall])
            /\ UNCHANGED <<waits, exit>>
         \/ /\ p.waiter = "exit"
            /\ daemon' = [daemon EXCEPT ![d] = x]
            /\ waits' = waits \ {d}
            /\ exit' = IF waits = {d} THEN "done" ELSE exit
            /\ UNCHANGED <<calls, check, quitting>>
         \/ /\ p.waiter = "none" /\ ~stopping
            /\ \E fast \in BOOLEAN : Starts(d, x, fast)
            /\ UNCHANGED <<calls, check, waits, exit>>
         \/ /\ p.waiter = "none" /\ stopping
            /\ daemon' = [daemon EXCEPT ![d] = x]
            /\ UNCHANGED <<calls, check, quitting, waits, exit>>
      /\ UNCHANGED <<setting, present, foreign, connector, stopping>>

-----------------------------------------------------------------------------
(* The daemons' processes, and their executables.                          *)

Becomes(d, s, state) == SetProtocol(d, s, [Protocol(d, s) EXCEPT !.state = state])
ProcessUp(d, s) == Protocol(d, s).state = "starting" /\ Becomes(d, s, "up")
ProcessHangs(d, s) == Protocol(d, s).state \in {"up", "leaving"} /\ Becomes(d, s, "hung")
\* A daemon that was only busy goes on: with the signal it was sent, if any.
ProcessRecovers(d, s) ==
  /\ Protocol(d, s).state = "hung"
  /\ Becomes(d, s, IF Protocol(d, s).kill THEN "leaving" ELSE "up")
\* The process is gone, and something still holds its pipes.
ProcessDies(d, s) == setting.lingers /\ Protocol(d, s).state \in Alive /\ Becomes(d, s, "dead")

\* BrokerServer.exit: every client is told to exit, and the broker follows.
BrokerExits ==
  LET call == calls[Broker].exit
  IN  /\ call.state = "called" /\ call.proc # 0
      /\ Protocol(Broker, call.proc).state = "up"
      /\ daemon' = [d \in Daemons |-> [daemon[d] EXCEPT !.procs =
           [s \in 1..Slots |-> IF @[s].state = "up" THEN [@[s] EXCEPT !.state = "leaving"]
                              ELSE @[s]]]]
      /\ UNCHANGED <<setting, present, foreign, calls, connector, check, quitting, stopping,
                     exit, waits>>

\* The executable of d is missing for a while.
Executable(d) ==
  /\ setting.vanishes
  /\ present' = IF d \in present THEN present \ {d} ELSE present \cup {d}
  /\ UNCHANGED <<setting, daemon, foreign, calls, connector, check, quitting, stopping,
                 exit, waits>>

-----------------------------------------------------------------------------
CallSteps == \E d \in Daemons, k \in Kinds :
  Connects(d, k) \/ Retries(d, k) \/ Answers(d, k) \/ CallFails(d, k)
TimerSteps == Check \/ \E d \in Daemons, s \in 1..Slots : TermTimer(d, s) \/ KillTimer(d, s)
ProcessSteps == BrokerExits \/ \E d \in Daemons, s \in 1..Slots :
  ProcessEnded(d, s) \/ ProcessUp(d, s) \/ ProcessHangs(d, s)
  \/ ProcessRecovers(d, s) \/ ProcessDies(d, s)

Next == \/ CallSteps \/ TimerSteps \/ ProcessSteps
        \/ RequestExit
        \/ \E d \in Daemons : Executable(d)

Spec == Init /\ [][Next]_vars

\* The reactor runs every timer and follows every connection, a process that
\* was killed or is leaving goes away or hangs, and what starts gets up or
\* dies.  Nothing makes a hung process recover, nor anyone ask for the exit,
\* except the limit of quick starts; an executable that is missing returns.
Goes(d, s) ==
  \/ TermTimer(d, s) \/ KillTimer(d, s) \/ ProcessUp(d, s)
  \/ /\ Protocol(d, s).state \in {"killed", "leaving", "dead"}
     /\ ProcessEnded(d, s) \/ ProcessDies(d, s)
CallGoes(d, k) == Connects(d, k) \/ Retries(d, k) \/ Answers(d, k) \/ CallFails(d, k)
FairSpec ==
  /\ Spec
  /\ WF_vars(Check) /\ WF_vars(BrokerExits) /\ WF_vars(quitting /\ RequestExit)
  /\ \A d \in AllDaemons :
       /\ \A k \in Kinds : WF_vars(d \in Daemons /\ CallGoes(d, k))
       /\ \A s \in 1..Slots : WF_vars(d \in Daemons /\ Goes(d, s))
       /\ WF_vars(d \in Daemons \ present /\ Executable(d))

-----------------------------------------------------------------------------
\* A daemon never has two processes: start() forgets the one it had.  (Pipes
\* that outlive a process can make two of it.)
OneProcess ==
  setting.lingers \/
    \A d \in Daemons : Cardinality({s \in 1..Slots : Protocol(d, s).state \in Alive}) <= 1

\* When request_exit is over no daemon is left behind.  (One that could not be
\* spawned makes terminate_processes leave the others alone.)
NothingLeftBehind ==
  (exit = "done" /\ ~setting.vanishes /\ ~setting.lingers)
    => \A d \in Daemons, s \in 1..Slots : Protocol(d, s).state \notin Alive

\* The watchdog loses sight of no process: there is at most one of each daemon,
\* and none when it has ended (start, request_exit).
NoStrayProcess == OneProcess /\ NothingLeftBehind

\* An exit that was requested is over some time, but for a request that is
\* never heard of again: the ping of the broker that was out with it took its
\* connection away.
ExitEndsUnlessLost ==
  stopping ~> (exit = "done" \/ check = "crashed" \/ calls[Broker].exit.state = "lost")

\* A daemon without a process, and one whose only process hangs for good
HasNone(d) == d \in Daemons /\ \A s \in 1..Slots : Protocol(d, s).state \notin Alive
Hung(d) ==
  /\ d \in Daemons /\ daemon[d].current # 0
  /\ Protocol(d, daemon[d].current).state = "hung"
  /\ \A s \in 1..Slots : Protocol(d, s).state \in Alive => s = daemon[d].current

\* Unless the watchdog is stopping, a daemon that has no process gets one, and
\* one that hangs does not stay so (_check, _restart_if_not_running).  (A daemon
\* whose executable was missing for a while may get none.)
ComesBack ==
  \A d \in AllDaemons :
    /\ (check \in {"timer", "pinging"} /\ ~setting.vanishes /\ HasNone(d))
         ~> (stopping \/ ~HasNone(d))
    /\ Hung(d) ~> (stopping \/ ~Hung(d))
=============================================================================
