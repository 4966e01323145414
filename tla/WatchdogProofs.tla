--------------------------- MODULE WatchdogProofs ---------------------------
(***************************************************************************)
(* The watchdog never has two processes of a daemon and leaves none behind *)
(* (NoStrayProcess), for any daemons, limits of failures and quick starts, *)
(* and number of slots for processes.                                      *)
(***************************************************************************)
EXTENDS Watchdog, FiniteSetTheorems, TLAPS

-----------------------------------------------------------------------------
(* The invariant                                                           *)

ProtocolShape(p) == DOMAIN p = {"state", "term", "kill", "waiter"}

DaemonShape(x) ==
  /\ DOMAIN x = {"current", "quick", "failures", "procs"}
  /\ x.current \in 0..Slots /\ DOMAIN x.procs = 1..Slots
  /\ \A s \in 1..Slots : ProtocolShape(x.procs[s])

NoneAlive(x) == \A s \in 1..Slots : x.procs[s].state \notin Alive

\* Whatever process there is, it is the one of _process, and it is watched.
OnlyCurrent(x) == \A s \in 1..Slots : x.procs[s].state \in Alive => s = x.current
NoDead(x) == \A s \in 1..Slots : x.procs[s].state # "dead"
Spawned(x) == \A s \in 1..Slots : x.procs[s].state # "unspawned"

\* request_exit waits for what there is.
Awaited(x) == \A s \in 1..Slots : x.procs[s].state \in Alive => x.procs[s].waiter = "exit"

\* Nothing was started yet.
Fresh(x) == x.current = 0 /\ \A s \in 1..Slots : x.procs[s].state = "none"

CallShape(c) == DOMAIN c = {"state", "tries", "proc"}
CallsShape(c) == DOMAIN c = Kinds /\ CallShape(c.ping) /\ CallShape(c.exit)

\* What is so of one daemon d, whose state is x
DaemonRight(d, x, w, ck, ex, ws) ==
  /\ DaemonShape(x)
  /\ ~w.lingers => OnlyCurrent(x) /\ NoDead(x)
  /\ ~w.vanishes => Spawned(x)
  /\ ck = "startup" => Fresh(x)
  /\ ~w.lingers /\ ~w.vanishes =>
       /\ ex = "waiting" => Awaited(x) /\ (d \in ws \/ NoneAlive(x))
       /\ ex = "done" => NoneAlive(x)

\* Nobody is asked to exit before the watchdog is.
CallsRight(c, stop) == CallsShape(c) /\ (~stop => c.exit.state = "none")

WatchdogInv ==
  /\ DOMAIN daemon = Daemons /\ DOMAIN calls = Daemons
  /\ \A d \in Daemons : DaemonRight(d, daemon[d], setting, check, exit, waits)
  /\ \A d \in Daemons : CallsRight(calls[d], stopping)
  /\ ~setting.vanishes => present = Daemons
  /\ check = "startup" => exit # "waiting"
  /\ ~stopping => exit = "no"
  /\ exit \in {"no", "asked"} => waits = {}
  /\ exit \in {"no", "asked", "waiting", "done"}

-----------------------------------------------------------------------------
(* One daemon                                                              *)

\* The same processes are alive.
Kin(x, y) ==
  /\ DaemonShape(y) /\ y.current = x.current
  /\ \A s \in 1..Slots : \/ y.procs[s].state = x.procs[s].state
                         \/ x.procs[s].state \in Alive /\ y.procs[s].state \in Alive
WaitersKept(x, y) == \A s \in 1..Slots : y.procs[s].waiter = x.procs[s].waiter

LEMMA KinRight ==
  ASSUME NEW d, NEW x, NEW w, NEW ck, NEW ex, NEW ws, DaemonRight(d, x, w, ck, ex, ws),
         NEW y, Kin(x, y), ex = "waiting" => WaitersKept(x, y), NEW ck2,
         ck2 = "startup" => ck = "startup"
  PROVE  DaemonRight(d, y, w, ck2, ex, ws)
  <1>1. OnlyCurrent(x) => OnlyCurrent(y)
    BY DEF Kin, OnlyCurrent
  <1>2. NoDead(x) => NoDead(y)
    BY DEF Kin, NoDead, Alive
  <1>3. Spawned(x) => Spawned(y)
    BY DEF Kin, Spawned, Alive
  <1>4. Fresh(x) => Fresh(y)
    BY DEF Kin, Fresh, Alive
  <1>5. NoneAlive(x) => NoneAlive(y)
    BY DEF Kin, NoneAlive
  <1>6. WaitersKept(x, y) /\ Awaited(x) => Awaited(y)
    BY DEF Kin, WaitersKept, Awaited, Alive
  <1>. QED  BY <1>1, <1>2, <1>3, <1>4, <1>5, <1>6 DEF DaemonRight, Kin

\* Another protocol in slot s
Changed(x, s, q, y) ==
  /\ DaemonShape(y) /\ y.current = x.current /\ y.procs[s] = q
  /\ \A r \in 1..Slots : r # s => y.procs[r] = x.procs[r]

LEMMA SlotChange ==
  ASSUME NEW x, DaemonShape(x), NEW s \in 1..Slots, NEW q, ProtocolShape(q)
  PROVE  Changed(x, s, q, [x EXCEPT !.procs[s] = q])
  <1>. DEFINE y == [x EXCEPT !.procs[s] = q]
  <1>1. /\ DOMAIN y = DOMAIN x /\ y.current = x.current
        /\ y.procs = [x.procs EXCEPT ![s] = q]
    BY DEF DaemonShape
  <1>. HIDE DEF y
  <1>2. /\ DOMAIN y.procs = 1..Slots /\ y.procs[s] = q
        /\ \A r \in 1..Slots : r # s => y.procs[r] = x.procs[r]
    BY <1>1 DEF DaemonShape
  <1>3. \A r \in 1..Slots : ProtocolShape(y.procs[r])
    BY <1>2 DEF DaemonShape
  <1>4. DaemonShape(y)
    BY <1>1, <1>2, <1>3 DEF DaemonShape
  <1>5. Changed(x, s, q, y)
    BY <1>1, <1>2, <1>4 DEF Changed
  <1>. QED  BY <1>5 DEF y

LEMMA ChangedKin ==
  ASSUME NEW x, NEW s \in 1..Slots, NEW q, NEW y, Changed(x, s, q, y),
         q.state = x.procs[s].state \/ (x.procs[s].state \in Alive /\ q.state \in Alive)
  PROVE  Kin(x, y) /\ (q.waiter = x.procs[s].waiter => WaitersKept(x, y))
  BY DEF Changed, Kin, WaitersKept

LEMMA TerminateFacts ==
  ASSUME NEW p, ProtocolShape(p)
  PROVE  LET q == Terminate(p)
         IN  /\ ProtocolShape(q) /\ q.waiter = p.waiter
             /\ q.state = p.state \/ (p.state \in Alive /\ q.state \in Alive)
  BY DEF Terminate, Alive, ProtocolShape

\* A new process, where none is alive
LEMMA StartRight ==
  ASSUME NEW x, DaemonShape(x), FreeSlots(x) # {}, NEW fast, NEW there \in BOOLEAN
  PROVE  LET y == StartDaemon(x, fast, there)
         IN  /\ DaemonShape(y)
             /\ NoneAlive(x) => OnlyCurrent(y)
             /\ NoDead(x) => NoDead(y)
             /\ there /\ Spawned(x) => Spawned(y)
  <1>. DEFINE slot == CHOOSE s \in FreeSlots(x) : TRUE
              quick == IF fast THEN x.quick + 1 ELSE 0
              q == [NoProc EXCEPT !.state = IF there THEN "starting" ELSE "unspawned"]
              y == StartDaemon(x, fast, there)
  <1>1. slot \in 1..Slots
    BY DEF FreeSlots
  <1>. HIDE DEF slot, quick
  <1>2. /\ ProtocolShape(q)
        /\ q.state = IF there THEN "starting" ELSE "unspawned"
    BY DEF NoProc, ProtocolShape
  <1>. HIDE DEF q
  <1>3. y = IF LimitReached(x, fast) THEN [x EXCEPT !.current = 0, !.quick = quick]
            ELSE [x EXCEPT !.current = slot, !.quick = quick, !.procs[slot] = q]
    BY DEF StartDaemon, slot, quick, q
  <1>. HIDE DEF y
  <1>4. CASE LimitReached(x, fast)
    <2>1. y.current = 0 /\ y.procs = x.procs /\ DOMAIN y = DOMAIN x
      BY <1>3, <1>4 DEF DaemonShape
    <2>2. Slots \in Nat
      BY WatchdogConstants
    <2>3. DaemonShape(y)
      BY <2>1, <2>2 DEF DaemonShape
    <2>4. NoneAlive(x) => OnlyCurrent(y)
      BY <2>1 DEF NoneAlive, OnlyCurrent
    <2>. QED  BY <2>1, <2>3, <2>4 DEF NoDead, Spawned, y
  <1>5. CASE ~LimitReached(x, fast)
    <2>1. y.current = slot /\ y.procs = [x.procs EXCEPT ![slot] = q] /\ DOMAIN y = DOMAIN x
      BY <1>3, <1>5 DEF DaemonShape
    <2>2. /\ DOMAIN y.procs = 1..Slots /\ y.procs[slot] = q
          /\ \A r \in 1..Slots : r # slot => y.procs[r] = x.procs[r]
      BY <1>1, <2>1 DEF DaemonShape
    <2>3. DaemonShape(y)
      BY <1>1, <1>2, <2>1, <2>2 DEF DaemonShape
    <2>4. NoneAlive(x) => OnlyCurrent(y)
      BY <2>1, <2>2 DEF NoneAlive, OnlyCurrent
    <2>5. NoDead(x) => NoDead(y)
      BY <1>2, <2>2 DEF NoDead
    <2>6. there /\ Spawned(x) => Spawned(y)
      BY <1>2, <2>2 DEF Spawned
    <2>. QED  BY <2>3, <2>4, <2>5, <2>6 DEF y
  <1>. QED  BY <1>4, <1>5

\* Daemon.stop
LEMMA StopRight ==
  ASSUME NEW x, DaemonShape(x), NEW who
  PROVE  LET y == StopDaemon(x, who)
         IN  /\ Kin(x, y)
             /\ x.current # 0 /\ x.procs[x.current].state \in Alive
                  => y.procs[x.current].waiter = who
  <1>1. CASE x.current = 0
    BY <1>1 DEF StopDaemon, Kin
  <1>2. CASE x.current # 0
    <2>. DEFINE c == x.current
                q == Terminate(x.procs[c])
                z == [x EXCEPT !.procs[c] = q]
                y == StopDaemon(x, who)
    <2>1. c \in 1..Slots
      BY <1>2, WatchdogConstants DEF DaemonShape
    <2>2. ProtocolShape(x.procs[c])
      BY <2>1 DEF DaemonShape
    <2>3. /\ ProtocolShape(q)
          /\ q.state = x.procs[c].state \/ (x.procs[c].state \in Alive /\ q.state \in Alive)
      BY <2>2, TerminateFacts
    <2>4. y = Wait(z, who)
      BY <1>2 DEF StopDaemon
    <2>. HIDE DEF q, y
    <2>5. Changed(x, c, q, z)
      BY <2>1, <2>3, SlotChange
    <2>6. Kin(x, z) /\ DaemonShape(z) /\ z.current = c /\ z.procs[c] = q
      BY <2>1, <2>3, <2>5, ChangedKin DEF Changed
    <2>. HIDE DEF z
    <2>7. CASE WaitFires(z)
      <3>1. y = z /\ q.state \notin Alive
        BY <1>2, <2>4, <2>6, <2>7 DEF Wait, WaitFires
      <3>2. x.procs[c].state \notin Alive
        BY <2>3, <3>1
      <3>. QED  BY <2>6, <3>1, <3>2 DEF y
    <2>8. CASE ~WaitFires(z)
      <3>. DEFINE r == [z.procs[c] EXCEPT !.waiter = who]
      <3>1. y = [z EXCEPT !.procs[c].waiter = who]
        BY <2>4, <2>6, <2>8 DEF Wait
      <3>2. y = [z EXCEPT !.procs[c] = r]
        BY <3>1
      <3>3. /\ ProtocolShape(r) /\ r.state = z.procs[c].state
            /\ r.waiter = who
        BY <2>3, <2>6 DEF ProtocolShape
      <3>. HIDE DEF r
      <3>4. Changed(z, c, r, y)
        BY <2>1, <2>6, <3>2, <3>3, SlotChange
      <3>5. Kin(z, y) /\ y.procs[c] = r
        BY <2>1, <3>3, <3>4, ChangedKin DEF Changed
      <3>6. Kin(x, y)
        BY <2>6, <3>5 DEF Kin
      <3>. QED  BY <3>3, <3>5, <3>6 DEF y
    <2>. QED  BY <2>7, <2>8
  <1>. QED  BY <1>1, <1>2

\* Daemon.wait_or_die
LEMMA WaitOrDieRight ==
  ASSUME NEW x, DaemonShape(x), NEW who
  PROVE  LET y == WaitOrDie(x, who)
         IN  /\ Kin(x, y)
             /\ x.current # 0 /\ x.procs[x.current].state \in Alive
                  => y.procs[x.current].waiter = who
  <1>1. CASE x.current = 0
    BY <1>1 DEF WaitOrDie, Kin
  <1>2. CASE x.current # 0
    <2>. DEFINE c == x.current
                q == [x.procs[c] EXCEPT !.term = TRUE]
                z == [x EXCEPT !.procs[c] = q]
                y == WaitOrDie(x, who)
    <2>1. c \in 1..Slots
      BY <1>2, WatchdogConstants DEF DaemonShape
    <2>2. ProtocolShape(x.procs[c])
      BY <2>1 DEF DaemonShape
    <2>3. ProtocolShape(q) /\ q.state = x.procs[c].state
      BY <2>2 DEF ProtocolShape
    <2>4. y = Wait(z, who)
      BY <1>2 DEF WaitOrDie
    <2>. HIDE DEF q, y
    <2>5. Changed(x, c, q, z)
      BY <2>1, <2>3, SlotChange
    <2>6. Kin(x, z) /\ DaemonShape(z) /\ z.current = c /\ z.procs[c] = q
      BY <2>1, <2>3, <2>5, ChangedKin DEF Changed
    <2>. HIDE DEF z
    <2>7. CASE WaitFires(z)
      <3>1. y = z /\ q.state \notin Alive
        BY <1>2, <2>4, <2>6, <2>7 DEF Wait, WaitFires
      <3>. QED  BY <2>3, <2>6, <3>1 DEF y
    <2>8. CASE ~WaitFires(z)
      <3>. DEFINE r == [z.procs[c] EXCEPT !.waiter = who]
      <3>1. y = [z EXCEPT !.procs[c].waiter = who]
        BY <2>4, <2>6, <2>8 DEF Wait
      <3>2. y = [z EXCEPT !.procs[c] = r]
        BY <3>1
      <3>3. /\ ProtocolShape(r) /\ r.state = z.procs[c].state
            /\ r.waiter = who
        BY <2>3, <2>6 DEF ProtocolShape
      <3>. HIDE DEF r
      <3>4. Changed(z, c, r, y)
        BY <2>1, <2>6, <3>2, <3>3, SlotChange
      <3>5. Kin(z, y) /\ y.procs[c] = r
        BY <2>1, <3>3, <3>4, ChangedKin DEF Changed
      <3>6. Kin(x, y)
        BY <2>6, <3>5 DEF Kin
      <3>. QED  BY <3>3, <3>5, <3>6 DEF y
    <2>. QED  BY <2>7, <2>8
  <1>. QED  BY <1>1, <1>2

-----------------------------------------------------------------------------
(* Steps in general                                                        *)

\* What calls may become
CallsStay(c, stop) == DOMAIN c = Daemons /\ \A d \in Daemons : CallsRight(c[d], stop)

LEMMA AnyStep ==
  ASSUME WatchdogInv, setting' = setting, DOMAIN daemon' = Daemons,
         \A d \in Daemons : DaemonRight(d, daemon'[d], setting, check', exit', waits'),
         CallsStay(calls', stopping'),
         ~setting.vanishes => present' = present,
         check' = "startup" => exit' # "waiting", ~stopping' => exit' = "no",
         exit' \in {"no", "asked"} => waits' = {}, exit' \in {"no", "asked", "waiting", "done"}
  PROVE  WatchdogInv'
  <1>1. Daemons' = Daemons
    BY DEF Daemons
  <1>. QED  BY <1>1 DEF WatchdogInv, CallsStay

\* The processes go on as they are, or nearly so.
LEMMA GentleStep ==
  ASSUME WatchdogInv, UNCHANGED <<setting, exit, waits, stopping>>,
         ~setting.vanishes => present' = present, check' = "startup" => check = "startup",
         DOMAIN daemon' = Daemons,
         \A d \in Daemons : /\ Kin(daemon[d], daemon'[d])
                            /\ exit = "waiting" => WaitersKept(daemon[d], daemon'[d]),
         CallsStay(calls', stopping)
  PROVE  WatchdogInv'
  <1>1. ASSUME NEW d \in Daemons PROVE DaemonRight(d, daemon'[d], setting, check', exit, waits)
    <2>1. DaemonRight(d, daemon[d], setting, check, exit, waits)
      BY DEF WatchdogInv
    <2>. QED  BY <2>1, KinRight
  <1>. QED  BY <1>1, AnyStep DEF WatchdogInv

LEMMA KinSelf == ASSUME NEW x, DaemonShape(x) PROVE Kin(x, x) /\ WaitersKept(x, x)
  BY DEF Kin, WaitersKept

LEMMA ShapeOf ==
  ASSUME WatchdogInv
  PROVE  /\ DOMAIN daemon = Daemons /\ \A d \in Daemons : DaemonShape(daemon[d])
         /\ DOMAIN calls = Daemons /\ \A d \in Daemons : CallsRight(calls[d], stopping)
         /\ CallsStay(calls, stopping)
  BY DEF WatchdogInv, DaemonRight, CallsStay

\* Nothing about processes
LEMMA CallsStep ==
  ASSUME WatchdogInv, UNCHANGED <<setting, daemon, exit, waits, stopping>>,
         ~setting.vanishes => present' = present, check' = "startup" => check = "startup",
         CallsStay(calls', stopping)
  PROVE  WatchdogInv'
  BY GentleStep, ShapeOf, KinSelf

\* One daemon
LEMMA OneGentleStep ==
  ASSUME WatchdogInv, UNCHANGED <<setting, present, exit, waits, stopping>>,
         check' = "startup" => check = "startup", CallsStay(calls', stopping),
         NEW d \in Daemons, NEW y, daemon' = [daemon EXCEPT ![d] = y],
         Kin(daemon[d], y), exit = "waiting" => WaitersKept(daemon[d], y)
  PROVE  WatchdogInv'
  <1>1. DOMAIN daemon' = Daemons /\ \A e \in Daemons : daemon'[e] = IF e = d THEN y ELSE daemon[e]
    BY ShapeOf
  <1>2. \A e \in Daemons : Kin(daemon[e], daemon'[e])
                            /\ (exit = "waiting" => WaitersKept(daemon[e], daemon'[e]))
    BY <1>1, ShapeOf, KinSelf
  <1>. QED  BY <1>1, <1>2, GentleStep

\* One daemon is started again.
Startable(x, w) ==
  /\ DaemonShape(x) /\ (~w.lingers => NoneAlive(x) /\ NoDead(x))
  /\ ~w.vanishes => Spawned(x)

LEMMA StartsStep ==
  ASSUME WatchdogInv, NEW d \in Daemons, NEW x, NEW fast, Startable(x, setting), Starts(d, x, fast),
         UNCHANGED <<setting, present, exit, waits, stopping>>, check' # "startup",
         CallsStay(calls', stopping),
         ~setting.lingers /\ ~setting.vanishes => exit \in {"no", "asked"}
  PROVE  WatchdogInv'
  <1>. DEFINE there == d \in present
              y == StartDaemon(x, fast, there)
  <1>1. daemon' = [daemon EXCEPT ![d] = y] /\ FreeSlots(x) # {}
    BY DEF Starts, MayStart
  <1>2. there \in BOOLEAN /\ (~setting.vanishes => there)
    BY DEF WatchdogInv
  <1>. HIDE DEF there
  <1>3. /\ DaemonShape(y) /\ (NoneAlive(x) => OnlyCurrent(y)) /\ (NoDead(x) => NoDead(y))
        /\ (there /\ Spawned(x) => Spawned(y))
    BY <1>1, <1>2, StartRight DEF Startable
  <1>. HIDE DEF y
  <1>4. DaemonRight(d, y, setting, check', exit, waits)
    BY <1>2, <1>3 DEF DaemonRight, Startable
  <1>5. DOMAIN daemon' = Daemons /\ \A e \in Daemons : daemon'[e] = IF e = d THEN y ELSE daemon[e]
    BY <1>1, ShapeOf
  <1>6. ASSUME NEW e \in Daemons PROVE DaemonRight(e, daemon'[e], setting, check', exit, waits)
    <2>1. DaemonRight(e, daemon[e], setting, check, exit, waits)
      BY DEF WatchdogInv
    <2>2. DaemonRight(e, daemon[e], setting, check', exit, waits)
      BY <2>1 DEF DaemonRight
    <2>. QED  BY <1>4, <1>5, <2>2
  <1>. QED  BY <1>5, <1>6, AnyStep DEF WatchdogInv

LEMMA FailuresKin ==
  ASSUME NEW x, DaemonShape(x), NEW n, NEW y, y = [x EXCEPT !.failures = n]
  PROVE  Kin(x, y) /\ WaitersKept(x, y)
  <1>1. DOMAIN y = DOMAIN x /\ y.current = x.current /\ y.procs = x.procs
    BY DEF DaemonShape
  <1>. QED  BY <1>1 DEF Kin, WaitersKept, DaemonShape

LEMMA KinStartable ==
  ASSUME NEW x, NEW y, NEW w, Startable(x, w), Kin(x, y) PROVE Startable(y, w)
  <1>1. NoDead(x) => NoDead(y)
    BY DEF Kin, NoDead, Alive
  <1>2. Spawned(x) => Spawned(y)
    BY DEF Kin, Spawned, Alive
  <1>3. NoneAlive(x) => NoneAlive(y)
    BY DEF Kin, NoneAlive
  <1>. QED  BY <1>1, <1>2, <1>3 DEF Startable, Kin

LEMMA StoppedThenStartsStep ==
  ASSUME WatchdogInv, NEW d \in Daemons, NEW x, NEW c, Startable(x, setting),
         StoppedThenStarts(d, x, c), UNCHANGED <<setting, present, exit, waits, stopping>>,
         check # "startup", CallsStay(c, stopping),
         ~setting.lingers /\ ~setting.vanishes => exit \in {"no", "asked"}
  PROVE  WatchdogInv'
  <1>1. PICK fast \in BOOLEAN :
          /\ Starts(d, IF Raises(d, x, fast) THEN x ELSE [x EXCEPT !.failures = 0], fast)
          /\ calls' = c /\ check' \in {"timer", check}
    BY DEF StoppedThenStarts, Reschedule
  <1>. DEFINE y == IF Raises(d, x, fast) THEN x ELSE [x EXCEPT !.failures = 0]
  <1>2. Startable(y, setting)
    <2>1. \A z : z = [x EXCEPT !.failures = 0] => Kin(x, z)
      BY FailuresKin DEF Startable
    <2>2. Startable([x EXCEPT !.failures = 0], setting)
      BY <2>1, KinStartable
    <2>. QED  BY <2>2
  <1>3. Starts(d, y, fast)
    BY <1>1
  <1>. HIDE DEF y
  <1>. QED  BY <1>1, <1>2, <1>3, StartsStep

-----------------------------------------------------------------------------
(* Calls                                                                   *)

\* One of the two calls to a daemon changes.
LEMMA OneCall ==
  ASSUME NEW c, NEW stop, CallsRight(c, stop), NEW k, NEW e, k \in Kinds => CallShape(e),
         k = "exit" /\ ~stop => e.state = "none"
  PROVE  CallsRight([c EXCEPT ![k] = e], stop)
  <1>. DEFINE f == [c EXCEPT ![k] = e]
  <1>1. DOMAIN c = {"ping", "exit"} /\ DOMAIN f = {"ping", "exit"}
    BY DEF CallsRight, CallsShape, Kinds
  <1>2. /\ f["ping"] = IF k = "ping" THEN e ELSE c["ping"]
        /\ f["exit"] = IF k = "exit" THEN e ELSE c["exit"]
    BY <1>1
  <1>. HIDE DEF f
  <1>3. CallsRight(f, stop)
    BY <1>1, <1>2 DEF CallsRight, CallsShape, Kinds
  <1>. QED  BY <1>3 DEF f

\* disconnect, for the call that connected last
LEMMA CutCallRight ==
  ASSUME NEW c, NEW stop, CallsRight(c, stop), NEW o
  PROVE  CallsRight([c EXCEPT ![o].state =
                       CASE @ \in {"connecting", "called"} -> "cut"
                         [] @ = "waiting" -> "lost"
                         [] OTHER -> @], stop)
  <1>. DEFINE new == CASE c[o].state \in {"connecting", "called"} -> "cut"
                       [] c[o].state = "waiting" -> "lost"
                       [] OTHER -> c[o].state
              e == [c[o] EXCEPT !.state = new]
  <1>1. c[o].state = "none" => new = "none"
    OBVIOUS
  <1>2. o \in Kinds => CallShape(c[o])
    BY DEF CallsRight, CallsShape, Kinds
  <1>3. o = "exit" /\ ~stop => c[o].state = "none"
    BY DEF CallsRight
  <1>4. o \in Kinds => CallShape(e) /\ e.state = new
    <2>. HIDE DEF new
    <2>. QED  BY <1>2 DEF CallShape
  <1>5. o = "exit" /\ ~stop => e.state = "none"
    BY <1>1, <1>3, <1>4 DEF Kinds
  <1>. HIDE DEF e
  <1>6. CallsRight([c EXCEPT ![o] = e], stop)
    BY <1>4, <1>5, OneCall
  <1>. QED  BY <1>6 DEF e, new

LEMMA CallsOfOne ==
  ASSUME WatchdogInv, NEW d, NEW c, d \in Daemons => CallsRight(c, stopping)
  PROVE  CallsStay([calls EXCEPT ![d] = c], stopping)
  <1>. DEFINE f == [calls EXCEPT ![d] = c]
  <1>1. DOMAIN f = Daemons /\ \A e \in Daemons : f[e] = IF e = d THEN c ELSE calls[e]
    BY ShapeOf
  <1>. HIDE DEF f
  <1>2. CallsStay(f, stopping)
    BY <1>1, ShapeOf DEF CallsStay
  <1>. QED  BY <1>2 DEF f

LEMMA CutOffRight ==
  ASSUME WatchdogInv, NEW d \in Daemons, NEW k PROVE CallsRight(CutOff(d, k), stopping)
  BY ShapeOf, CutCallRight DEF CutOff

LEMMA EndedRight ==
  ASSUME WatchdogInv, NEW d, NEW k, NEW next, k = "exit" => next = "none"
  PROVE  CallsStay(Ended(d, k, next), stopping)
  <1>. DEFINE e == [NoCall EXCEPT !.state = next]
              c == [CutOff(d, k) EXCEPT ![k] = e]
  <1>1. CallShape(e) /\ e.state = next
    BY DEF NoCall, CallShape
  <1>. HIDE DEF e
  <1>2. ASSUME d \in Daemons PROVE CallsRight(c, stopping)
    BY <1>1, <1>2, CutOffRight, OneCall
  <1>3. Ended(d, k, next) = [calls EXCEPT ![d] = c]
    BY DEF Ended, e
  <1>. HIDE DEF c
  <1>. QED  BY <1>2, <1>3, CallsOfOne

\* A call of kind k goes on.
LEMMA SetCallStep ==
  ASSUME WatchdogInv, NEW d \in Daemons, NEW k \in Kinds, NEW c, CallShape(c), SetCall(d, k, c),
         calls[d][k].state # "none"
  PROVE  WatchdogInv'
  <1>. DEFINE f == [calls[d] EXCEPT ![k] = c]
  <1>1. /\ calls' = [calls EXCEPT ![d] = f]
        /\ UNCHANGED <<setting, daemon, present, check, stopping, exit, waits>>
    BY DEF SetCall
  <1>2. CallsRight(calls[d], stopping)
    BY ShapeOf
  <1>3. k = "exit" => stopping
    BY <1>2 DEF CallsRight
  <1>4. CallsRight(f, stopping)
    BY <1>2, <1>3, OneCall
  <1>. HIDE DEF f
  <1>5. CallsStay(calls', stopping)
    BY <1>1, <1>4, CallsOfOne
  <1>. QED  BY <1>1, <1>5, CallsStep

-----------------------------------------------------------------------------
(* What follows a call                                                     *)

LEMMA StartIfNotRunningStep ==
  ASSUME WatchdogInv, Running, check = "startup", NEW c, CallsStay(c, stopping), calls' = c,
         StartIfNotRunning(c), UNCHANGED <<setting, present, exit, waits, stopping>>
  PROVE  WatchdogInv'
  <1>1. CASE check' = "crashed" /\ UNCHANGED daemon
    BY <1>1, CallsStep
  <1>2. CASE /\ check' \in {"timer", "crashed"} /\ DOMAIN daemon' = Daemons
             /\ \A d \in Daemons : daemon'[d] \in {StartDaemon(daemon[d], FALSE, TRUE), daemon[d]}
    <2>1. exit \in {"no", "asked"}
      BY DEF Running, WatchdogInv
    <2>2. ASSUME NEW d \in Daemons PROVE DaemonRight(d, daemon'[d], setting, check', exit, waits)
      <3>. DEFINE x == daemon[d]
                  y == StartDaemon(x, FALSE, TRUE)
      <3>1. DaemonRight(d, x, setting, check, exit, waits)
        BY DEF WatchdogInv
      <3>. HIDE DEF x
      <3>2. DaemonShape(x) /\ Fresh(x)
        BY <3>1 DEF DaemonRight
      <3>3. NoneAlive(x) /\ NoDead(x) /\ Spawned(x)
        BY <3>2 DEF Fresh, NoneAlive, NoDead, Spawned, Alive
      <3>4. FreeSlots(x) # {}
        <4>1. 1 \in 1..Slots
          BY WatchdogConstants
        <4>2. 1 \in FreeSlots(x)
          BY <3>2, <4>1 DEF FreeSlots, Fresh
        <4>. QED  BY <4>2
      <3>5. DaemonShape(y) /\ OnlyCurrent(y) /\ NoDead(y) /\ Spawned(y)
        BY <3>2, <3>3, <3>4, StartRight
      <3>. HIDE DEF y
      <3>6. DaemonRight(d, y, setting, check', exit, waits)
        BY <1>2, <2>1, <3>5 DEF DaemonRight
      <3>7. DaemonRight(d, x, setting, check', exit, waits)
        BY <1>2, <3>1 DEF DaemonRight
      <3>. QED  BY <1>2, <3>6, <3>7 DEF x, y
    <2>. QED  BY <1>2, <2>1, <2>2, AnyStep DEF WatchdogInv
  <1>3. CASE ~ \E d \in Daemons : c[d].ping.state = "ran"
    <2>. DEFINE before(d) == \A i \in DOMAIN setting.order :
                  (\A j \in 1..(i-1) : setting.order[j] # d) => setting.order[i] \in present
    <2>1. /\ daemon' = [d \in Daemons |->
                IF before(d) THEN StartDaemon(daemon[d], FALSE, TRUE) ELSE daemon[d]]
          /\ check' \in {"timer", "crashed"}
      BY <1>3 DEF StartIfNotRunning
    <2>. HIDE DEF before
    <2>. QED  BY <1>2, <2>1
  <1>4. CASE \E d \in Daemons : c[d].ping.state = "ran"
    BY <1>1, <1>4 DEF StartIfNotRunning
  <1>. QED  BY <1>3, <1>4

LEMMA PingEndsStep ==
  ASSUME WatchdogInv, Running, NEW d \in Daemons, NEW r, PingEnds(d, r),
         UNCHANGED <<setting, present, exit, waits, stopping>>
  PROVE  WatchdogInv'
  <1>. DEFINE n == IF r \/ stopping THEN 0
                   ELSE IF daemon[d].failures > MaxFailures THEN daemon[d].failures
                   ELSE daemon[d].failures + 1
              x == [daemon[d] EXCEPT !.failures = n]
              c(next) == Ended(d, "ping", next)
              z == StopDaemon(x, "restart")
  <1>0. PingEnds(d, r) <=>
      \/ /\ check = "startup"
         /\ LET a == c(IF r THEN "ran" ELSE "none")
            IN  /\ calls' = a
                /\ IF AllDone(a) THEN StartIfNotRunning(a)
                   ELSE UNCHANGED <<daemon, check, quitting>>
      \/ /\ check # "startup"
         /\ r \/ stopping \/ x.failures # MaxFailures
         /\ daemon' = [daemon EXCEPT ![d] = x]
         /\ calls' = c("none") /\ Reschedule(c("none"))
         /\ UNCHANGED quitting
      \/ /\ check # "startup"
         /\ ~r /\ ~stopping /\ x.failures = MaxFailures
         /\ CASE WaitFails(x) ->
                   /\ daemon' = [daemon EXCEPT ![d] = x]
                   /\ calls' = c("none") /\ check' = "timer"
                   /\ UNCHANGED quitting
              [] ~WaitFails(x) /\ WaitFires(x) -> StoppedThenStarts(d, z, c("none"))
              [] OTHER ->
                   /\ daemon' = [daemon EXCEPT ![d] = z]
                   /\ calls' = c("stopping")
                   /\ UNCHANGED <<check, quitting>>
    BY DEF PingEnds
  <1>. HIDE DEF n
  <1>1. \A next : CallsStay(c(next), stopping)
    BY EndedRight
  <1>. HIDE DEF c
  <1>2. DaemonShape(daemon[d]) /\ DaemonRight(d, daemon[d], setting, check, exit, waits)
    BY ShapeOf DEF WatchdogInv
  <1>3. Kin(daemon[d], x) /\ WaitersKept(daemon[d], x)
    BY <1>2, FailuresKin
  <1>. HIDE DEF x
  <1>4. Kin(x, z)
    BY <1>3, StopRight DEF Kin
  <1>5. Kin(daemon[d], z)
    BY <1>3, <1>4 DEF Kin
  <1>. HIDE DEF z
  <1>6. CASE check = "startup"
    <2>. DEFINE a == c(IF r THEN "ran" ELSE "none")
    <2>1. calls' = a /\ (StartIfNotRunning(a) \/ UNCHANGED <<daemon, check, quitting>>)
      BY <1>0, <1>6
    <2>2. CallsStay(a, stopping)
      BY <1>1
    <2>. HIDE DEF a
    <2>3. CASE StartIfNotRunning(a)
      BY <1>6, <2>1, <2>2, <2>3, StartIfNotRunningStep
    <2>4. CASE UNCHANGED <<daemon, check, quitting>>
      BY <2>1, <2>2, <2>4, CallsStep
    <2>. QED  BY <2>1, <2>3, <2>4
  <1>7. CASE /\ check # "startup" /\ daemon' = [daemon EXCEPT ![d] = x]
             /\ calls' = c("none") /\ check' \in {"timer", check}
    BY <1>1, <1>3, <1>7, OneGentleStep
  <1>8. CASE /\ check # "startup" /\ ~stopping /\ WaitFires(x) /\ StoppedThenStarts(d, z, c("none"))
    <2>1. exit = "no"
      BY <1>8 DEF WatchdogInv
    <2>2. Startable(z, setting)
      <3>1. DaemonRight(d, x, setting, check, exit, waits)
        BY <1>2, <1>3, KinRight
      <3>2. ~setting.lingers => NoneAlive(x)
        BY <1>8, <3>1, WatchdogConstants DEF DaemonRight, OnlyCurrent, NoneAlive, WaitFires
      <3>3. Startable(x, setting)
        BY <3>1, <3>2 DEF Startable, DaemonRight
      <3>. QED  BY <1>4, <3>3, KinStartable
    <2>. QED  BY <1>1, <1>8, <2>1, <2>2, StoppedThenStartsStep
  <1>9. CASE /\ check # "startup" /\ ~stopping /\ daemon' = [daemon EXCEPT ![d] = z]
             /\ calls' = c("stopping") /\ UNCHANGED check
    <2>1. exit = "no"
      BY <1>9 DEF WatchdogInv
    <2>. QED  BY <1>1, <1>5, <1>9, <2>1, OneGentleStep
  <1>. QED  BY <1>0, <1>6, <1>7, <1>8, <1>9 DEF Reschedule

\* One waits for what there is: what Daemon.stop and wait_or_die leave of x
LEMMA AwaitedAfter ==
  ASSUME NEW x, NEW y, DaemonShape(x), OnlyCurrent(x), Kin(x, y),
         x.current # 0 /\ x.procs[x.current].state \in Alive
           => y.procs[x.current].waiter = "exit"
  PROVE  Awaited(y) /\ (WaitFires(x) => NoneAlive(y))
  <1>1. 0 \notin 1..Slots
    BY WatchdogConstants
  <1>2. \A s \in 1..Slots : y.procs[s].state \in Alive => x.procs[s].state \in Alive
    BY DEF Kin, Alive
  <1>3. Awaited(y)
    BY <1>1, <1>2 DEF Awaited, OnlyCurrent
  <1>4. WaitFires(x) => NoneAlive(y)
    BY <1>1, <1>2 DEF NoneAlive, OnlyCurrent, WaitFires
  <1>. QED  BY <1>3, <1>4

LEMMA ExitEndsStep ==
  ASSUME WatchdogInv, Running, stopping, NEW r, ExitEnds(r),
         UNCHANGED <<setting, present, stopping>>
  PROVE  WatchdogInv'
  <1>. DEFINE bad(d) == \E i \in DOMAIN setting.order :
                          /\ WaitFails(daemon[setting.order[i]])
                          /\ \A j \in 1..(i-1) : setting.order[j] # d
              left == {d \in Daemons : ~WaitFires(daemon[d])}
              after(d) == IF r THEN WaitOrDie(daemon[d], "exit") ELSE StopDaemon(daemon[d], "exit")
  <1>1. /\ daemon' = [d \in Daemons |-> IF bad(d) THEN daemon[d] ELSE after(d)]
        /\ calls' = Ended(Broker, "exit", "none") /\ waits' = left
        /\ exit' = IF left = {} \/ \E d \in Daemons : bad(d) THEN "done" ELSE "waiting"
        /\ UNCHANGED <<check, quitting>>
    BY DEF ExitEnds
  <1>2. ASSUME NEW d \in Daemons, ~setting.vanishes PROVE ~bad(d)
    <2>1. ASSUME NEW i \in DOMAIN setting.order PROVE ~WaitFails(daemon[setting.order[i]])
      <3>. DEFINE e == setting.order[i]
      <3>1. e \in Daemons
        BY DEF Daemons
      <3>. HIDE DEF e
      <3>2. DaemonShape(daemon[e]) /\ Spawned(daemon[e])
        BY <1>2, <3>1 DEF WatchdogInv, DaemonRight
      <3>3. ~WaitFails(daemon[e])
        BY <3>2, WatchdogConstants DEF WaitFails, DaemonShape, Spawned
      <3>. QED  BY <3>3 DEF e
    <2>. QED  BY <2>1
  <1>. HIDE DEF bad
  <1>3. ASSUME NEW d \in Daemons
        PROVE  /\ DaemonRight(d, daemon[d], setting, check, exit, waits)
               /\ Kin(daemon[d], after(d))
               /\ daemon[d].current # 0 /\ daemon[d].procs[daemon[d].current].state \in Alive
                    => after(d).procs[daemon[d].current].waiter = "exit"
    <2>1. DaemonShape(daemon[d]) /\ DaemonRight(d, daemon[d], setting, check, exit, waits)
      BY ShapeOf DEF WatchdogInv
    <2>2. CASE r
      BY <2>1, <2>2, WaitOrDieRight
    <2>3. CASE ~r
      BY <2>1, <2>3, StopRight
    <2>. QED  BY <2>2, <2>3
  <1>. HIDE DEF after
  <1>4. ASSUME NEW d \in Daemons PROVE DaemonRight(d, daemon'[d], setting, check, exit', waits')
    <2>. DEFINE x == daemon[d]
                y == after(d)
    <2>1. /\ DaemonRight(d, x, setting, check, exit, waits) /\ Kin(x, y)
          /\ x.current # 0 /\ x.procs[x.current].state \in Alive
                    => y.procs[x.current].waiter = "exit"
      BY <1>3
    <2>2. daemon'[d] = IF bad(d) THEN x ELSE y
      BY <1>1
    <2>3. d \in waits' <=> ~WaitFires(x)
      BY <1>1
    <2>. HIDE DEF x, y
    <2>4. DaemonShape(x) /\ DaemonShape(y)
      BY <2>1 DEF DaemonRight, Kin
    <2>5. DaemonRight(d, x, setting, check, "no", waits')
      BY <2>1 DEF DaemonRight
    <2>6. DaemonRight(d, y, setting, check, "no", waits')
      BY <2>1, <2>5, KinRight
    <2>7. CASE setting.vanishes \/ setting.lingers
      BY <2>2, <2>5, <2>6, <2>7 DEF DaemonRight
    <2>8. CASE ~setting.vanishes /\ ~setting.lingers
      <3>1. daemon'[d] = y
        BY <1>2, <2>2, <2>8
      <3>2. OnlyCurrent(x)
        BY <2>1, <2>8 DEF DaemonRight
      <3>3. Awaited(y) /\ (WaitFires(x) => NoneAlive(y))
        BY <2>1, <2>4, <3>2, AwaitedAfter
      <3>4. exit' = "done" => WaitFires(x)
        BY <1>1, <1>2, <2>3, <2>8
      <3>. QED  BY <2>3, <2>6, <3>1, <3>3, <3>4 DEF DaemonRight
    <2>. QED  BY <2>7, <2>8
  <1>5. CallsStay(calls', stopping)
    BY <1>1, EndedRight
  <1>6. check = "startup" => exit' = "done"
    <2>1. ASSUME check = "startup", NEW d \in Daemons PROVE WaitFires(daemon[d])
      BY <2>1 DEF WatchdogInv, DaemonRight, Fresh, WaitFires
    <2>. QED  BY <1>1, <2>1
  <1>7. DOMAIN daemon' = Daemons /\ exit' \in {"waiting", "done"}
    BY <1>1
  <1>. QED  BY <1>1, <1>4, <1>5, <1>6, <1>7, AnyStep

LEMMA FiresStep ==
  ASSUME WatchdogInv, Running, NEW d \in Daemons, NEW k \in Kinds, NEW r, Fires(d, k, r),
         calls[d][k].state # "none"
  PROVE  WatchdogInv'
  <1>1. UNCHANGED <<setting, present, stopping>>
    BY DEF Fires
  <1>2. CASE PingEnds(d, r) /\ UNCHANGED <<exit, waits>>
    BY <1>1, <1>2, PingEndsStep
  <1>3. CASE k = "exit" /\ ExitEnds(r)
    <2>1. stopping
      BY <1>3, ShapeOf DEF CallsRight
    <2>. QED  BY <1>1, <1>3, <2>1, ExitEndsStep
  <1>. QED  BY <1>2, <1>3 DEF Fires

LEMMA CallStep ==
  ASSUME WatchdogInv, NEW d \in Daemons, NEW k \in Kinds,
         Connects(d, k) \/ Retries(d, k) \/ Answers(d, k) \/ CallFails(d, k)
  PROVE  WatchdogInv'
  <1>. DEFINE call == calls[d][k]
  <1>1. CallShape(call)
    BY ShapeOf DEF CallsRight, CallsShape, Kinds
  <1>2. CASE Connects(d, k)
    <2>1. Running /\ call.state = "connecting"
      BY <1>2 DEF Connects
    <2>2. ASSUME NEW s, SetCall(d, k, [call EXCEPT !.state = "called", !.proc = s])
          PROVE  WatchdogInv'
      <3>1. CallShape([call EXCEPT !.state = "called", !.proc = s])
        BY <1>1 DEF CallShape
      <3>. QED  BY <2>1, <2>2, <3>1, SetCallStep
    <2>3. CASE SetCall(d, k, [call EXCEPT !.state = "waiting", !.tries = @ + 1])
      <3>1. CallShape([call EXCEPT !.state = "waiting", !.tries = @ + 1])
        BY <1>1 DEF CallShape
      <3>. QED  BY <2>1, <2>3, <3>1, SetCallStep
    <2>4. CASE Fires(d, k, FALSE)
      BY <2>1, <2>4, FiresStep
    <2>. QED  BY <1>2, <2>2, <2>3, <2>4 DEF Connects
  <1>3. CASE Retries(d, k)
    <2>1. CallShape([call EXCEPT !.state = "connecting"])
      BY <1>1 DEF CallShape
    <2>. QED  BY <1>3, <2>1, SetCallStep DEF Retries
  <1>4. CASE Answers(d, k)
    BY <1>4, FiresStep DEF Answers
  <1>5. CASE CallFails(d, k)
    BY <1>5, FiresStep DEF CallFails
  <1>. QED  BY <1>2, <1>3, <1>4, <1>5

LEMMA CheckStep == ASSUME WatchdogInv, Check PROVE WatchdogInv'
  <1>1. /\ calls' = [d \in Daemons |-> [calls[d] EXCEPT !.ping = NewCall]] /\ check' = "pinging"
        /\ UNCHANGED <<setting, daemon, present, stopping, exit, waits>>
    BY DEF Check
  <1>2. CallShape(NewCall)
    BY DEF NewCall, NoCall, CallShape
  <1>3. ASSUME NEW d \in Daemons PROVE CallsRight([calls[d] EXCEPT !.ping = NewCall], stopping)
    <2>1. CallsRight([calls[d] EXCEPT !["ping"] = NewCall], stopping)
      BY <1>2, ShapeOf, OneCall
    <2>. QED  BY <2>1
  <1>4. CallsStay(calls', stopping)
    BY <1>1, <1>3 DEF CallsStay
  <1>. QED  BY <1>1, <1>4, CallsStep

LEMMA RequestExitStep == ASSUME WatchdogInv, RequestExit PROVE WatchdogInv'
  <1>. DEFINE c == [calls[Broker] EXCEPT !.exit = NewCall]
  <1>1. /\ calls' = [calls EXCEPT ![Broker] = c] /\ check' \in {"none", check}
        /\ stopping' = TRUE /\ exit' = "asked" /\ UNCHANGED <<setting, daemon, present, waits>>
        /\ ~stopping
    BY DEF RequestExit
  <1>2. exit = "no" /\ waits = {}
    BY <1>1 DEF WatchdogInv
  <1>3. CallShape(NewCall)
    BY DEF NewCall, NoCall, CallShape
  <1>4. \A d \in Daemons : CallsRight(calls[d], TRUE)
    BY ShapeOf DEF CallsRight
  <1>5. Broker \in Daemons => CallsRight(c, TRUE)
    <2>1. Broker \in Daemons => CallsRight([calls[Broker] EXCEPT !["exit"] = NewCall], TRUE)
      BY <1>3, <1>4, OneCall
    <2>. QED  BY <2>1
  <1>. HIDE DEF c
  <1>6. DOMAIN calls' = Daemons
        /\ \A d \in Daemons : calls'[d] = IF d = Broker THEN c ELSE calls[d]
    BY <1>1, ShapeOf
  <1>7. CallsStay(calls', stopping')
    BY <1>1, <1>4, <1>5, <1>6 DEF CallsStay
  <1>8. ASSUME NEW d \in Daemons PROVE DaemonRight(d, daemon'[d], setting, check', exit', waits')
    <2>1. DaemonRight(d, daemon[d], setting, check, exit, waits)
      BY DEF WatchdogInv
    <2>. QED  BY <1>1, <1>2, <2>1 DEF DaemonRight
  <1>. QED  BY <1>1, <1>2, <1>7, <1>8, AnyStep, ShapeOf

-----------------------------------------------------------------------------
(* Processes                                                               *)

\* A process changes and is the same process.
LEMMA SetProtocolStep ==
  ASSUME WatchdogInv, NEW d \in Daemons, NEW s \in 1..Slots, NEW p, ProtocolShape(p),
         SetProtocol(d, s, p), p.waiter = daemon[d].procs[s].waiter,
         \/ p.state = daemon[d].procs[s].state
         \/ daemon[d].procs[s].state \in Alive /\ p.state \in Alive
  PROVE  WatchdogInv'
  <1>. DEFINE x == daemon[d]
              y == [x EXCEPT !.procs[s] = p]
  <1>1. /\ daemon' = [daemon EXCEPT ![d] = y]
        /\ UNCHANGED <<setting, present, calls, check, stopping, exit, waits>>
    BY DEF SetProtocol
  <1>2. DaemonShape(x)
    BY ShapeOf
  <1>3. Changed(x, s, p, y)
    BY <1>2, SlotChange
  <1>4. Kin(x, y) /\ WaitersKept(x, y)
    BY <1>3, ChangedKin
  <1>. HIDE DEF y
  <1>. QED  BY <1>1, <1>4, ShapeOf, OneGentleStep

LEMMA ProtocolSteps ==
  ASSUME WatchdogInv, NEW d \in Daemons, NEW s \in 1..Slots,
         \/ TermTimer(d, s) \/ KillTimer(d, s) \/ ProcessUp(d, s) \/ ProcessHangs(d, s)
         \/ ProcessRecovers(d, s)
  PROVE  WatchdogInv'
  <1>. DEFINE p == daemon[d].procs[s]
              t == Terminate(p)
  <1>1. ProtocolShape(p)
    BY ShapeOf DEF DaemonShape
  <1>2. CASE TermTimer(d, s)
    <2>. DEFINE q == [t EXCEPT !.term = FALSE]
    <2>1. /\ ProtocolShape(t) /\ t.waiter = p.waiter
          /\ t.state = p.state \/ (p.state \in Alive /\ t.state \in Alive)
      BY <1>1, TerminateFacts
    <2>2. SetProtocol(d, s, q)
      BY <1>2 DEF TermTimer, Protocol
    <2>. HIDE DEF t
    <2>3. ProtocolShape(q) /\ q.waiter = t.waiter /\ q.state = t.state
      BY <2>1 DEF ProtocolShape
    <2>. HIDE DEF q
    <2>. QED  BY <2>1, <2>2, <2>3, SetProtocolStep
  <1>3. CASE KillTimer(d, s)
    <2>. DEFINE new == IF p.state \in Alive THEN "killed" ELSE p.state
                q == [p EXCEPT !.state = new, !.kill = FALSE]
    <2>1. SetProtocol(d, s, q)
      BY <1>3 DEF KillTimer, Protocol
    <2>2. new = p.state \/ (p.state \in Alive /\ new \in Alive)
      BY DEF Alive
    <2>. HIDE DEF new
    <2>3. ProtocolShape(q) /\ q.waiter = p.waiter /\ q.state = new
      BY <1>1 DEF ProtocolShape
    <2>. HIDE DEF q
    <2>. QED  BY <2>1, <2>2, <2>3, SetProtocolStep
  <1>4. ASSUME NEW new, Becomes(d, s, new), p.state \in Alive, new \in Alive PROVE WatchdogInv'
    <2>. DEFINE q == [p EXCEPT !.state = new]
    <2>1. SetProtocol(d, s, q)
      BY <1>4 DEF Becomes, Protocol
    <2>2. ProtocolShape(q) /\ q.waiter = p.waiter /\ q.state = new
      BY <1>1 DEF ProtocolShape
    <2>. HIDE DEF q
    <2>. QED  BY <1>4, <2>1, <2>2, SetProtocolStep
  <1>5. CASE ProcessUp(d, s)
    BY <1>4, <1>5 DEF ProcessUp, Protocol, Alive
  <1>6. CASE ProcessHangs(d, s)
    BY <1>4, <1>6 DEF ProcessHangs, Protocol, Alive
  <1>7. CASE ProcessRecovers(d, s)
    BY <1>4, <1>7 DEF ProcessRecovers, Protocol, Alive
  <1>. QED  BY <1>2, <1>3, <1>5, <1>6, <1>7

\* Where pipes outlive a process, little is claimed.
LEMMA ProcessDiesStep ==
  ASSUME WatchdogInv, NEW d \in Daemons, NEW s \in 1..Slots, ProcessDies(d, s)
  PROVE  WatchdogInv'
  <1>. DEFINE x == daemon[d]
              q == [x.procs[s] EXCEPT !.state = "dead"]
              y == [x EXCEPT !.procs[s] = q]
  <1>1. /\ daemon' = [daemon EXCEPT ![d] = y] /\ setting.lingers /\ x.procs[s].state \in Alive
        /\ UNCHANGED <<setting, present, calls, check, stopping, exit, waits>>
    BY DEF ProcessDies, Becomes, SetProtocol, Protocol
  <1>2. DaemonShape(x) /\ DaemonRight(d, x, setting, check, exit, waits)
    BY ShapeOf DEF WatchdogInv
  <1>3. check # "startup"
    BY <1>1, <1>2 DEF DaemonRight, Fresh, Alive
  <1>4. ProtocolShape(q) /\ q.state = "dead"
    BY <1>2 DEF DaemonShape, ProtocolShape
  <1>. HIDE DEF q
  <1>5. Changed(x, s, q, y)
    BY <1>2, <1>4, SlotChange
  <1>. HIDE DEF x, y
  <1>6. DaemonShape(y) /\ (Spawned(x) => Spawned(y))
    BY <1>4, <1>5 DEF Changed, Spawned
  <1>7. DaemonRight(d, y, setting, check, exit, waits)
    BY <1>1, <1>2, <1>3, <1>6 DEF DaemonRight
  <1>8. ASSUME NEW e \in Daemons PROVE DaemonRight(e, daemon'[e], setting, check, exit, waits)
    <2>1. daemon'[e] = IF e = d THEN y ELSE daemon[e]
      BY <1>1, ShapeOf
    <2>. QED  BY <1>7, <2>1 DEF WatchdogInv
  <1>9. DOMAIN daemon' = Daemons
    BY <1>1, ShapeOf
  <1>. QED  BY <1>1, <1>8, <1>9, ShapeOf, AnyStep DEF WatchdogInv

LEMMA BrokerExitsStep == ASSUME WatchdogInv, BrokerExits PROVE WatchdogInv'
  <1>. DEFINE leave(p) == IF p.state = "up" THEN [p EXCEPT !.state = "leaving"] ELSE p
              after(x) == [x EXCEPT !.procs = [s \in 1..Slots |-> leave(x.procs[s])]]
  <1>1. /\ daemon' = [d \in Daemons |-> after(daemon[d])]
        /\ UNCHANGED <<setting, present, calls, check, stopping, exit, waits>>
    BY DEF BrokerExits
  <1>2. ASSUME NEW p, ProtocolShape(p)
        PROVE  /\ ProtocolShape(leave(p)) /\ leave(p).waiter = p.waiter
               /\ leave(p).state = p.state \/ (p.state \in Alive /\ leave(p).state \in Alive)
    BY <1>2 DEF ProtocolShape, Alive
  <1>. HIDE DEF leave
  <1>3. ASSUME NEW x, DaemonShape(x) PROVE Kin(x, after(x)) /\ WaitersKept(x, after(x))
    <2>. DEFINE y == after(x)
    <2>1. /\ DOMAIN y = DOMAIN x /\ y.current = x.current
          /\ y.procs = [s \in 1..Slots |-> leave(x.procs[s])]
      BY <1>3 DEF DaemonShape
    <2>. HIDE DEF y
    <2>2. \A s \in 1..Slots : y.procs[s] = leave(x.procs[s]) /\ ProtocolShape(x.procs[s])
      BY <1>3, <2>1 DEF DaemonShape
    <2>3. DaemonShape(y)
      BY <1>2, <1>3, <2>1, <2>2 DEF DaemonShape
    <2>4. Kin(x, y) /\ WaitersKept(x, y)
      BY <1>2, <2>1, <2>2, <2>3 DEF Kin, WaitersKept
    <2>. QED  BY <2>4 DEF y
  <1>. HIDE DEF after
  <1>4. \A d \in Daemons : Kin(daemon[d], daemon'[d]) /\ WaitersKept(daemon[d], daemon'[d])
    BY <1>1, <1>3, ShapeOf
  <1>. QED  BY <1>1, <1>4, ShapeOf, GentleStep

\* One daemon has no process any more, and request_exit may be told.
LEMMA OneEndsStep ==
  ASSUME WatchdogInv, NEW d \in Daemons, NEW x, Startable(x, setting),
         daemon' = [daemon EXCEPT ![d] = x], check # "startup",
         UNCHANGED <<setting, present, calls, check, stopping>>,
         \/ UNCHANGED <<exit, waits>>
         \/ waits' = waits \ {d} /\ exit' = IF waits = {d} THEN "done" ELSE exit
  PROVE  WatchdogInv'
  <1>1. DOMAIN daemon' = Daemons /\ \A e \in Daemons : daemon'[e] = IF e = d THEN x ELSE daemon[e]
    BY ShapeOf
  <1>2. exit' = exit \/ (exit' = "done" /\ waits = {d} /\ exit \notin {"no", "asked"})
    BY DEF WatchdogInv
  <1>3. NoneAlive(x) => OnlyCurrent(x) /\ Awaited(x)
    BY DEF NoneAlive, OnlyCurrent, Awaited
  <1>4. DaemonRight(d, x, setting, check, exit', waits')
    BY <1>3 DEF DaemonRight, Startable
  <1>5. ASSUME NEW e \in Daemons, e # d PROVE DaemonRight(e, daemon[e], setting, check, exit', waits')
    <2>1. DaemonRight(e, daemon[e], setting, check, exit, waits)
      BY DEF WatchdogInv
    <2>2. e \in waits' <=> e \in waits
      BY <1>5
    <2>3. exit' # exit => e \notin waits /\ exit' = "done" /\ exit \in {"waiting", "done"}
      BY <1>2, <1>5 DEF WatchdogInv
    <2>. QED  BY <2>1, <2>2, <2>3 DEF DaemonRight
  <1>6. \A e \in Daemons : DaemonRight(e, daemon'[e], setting, check, exit', waits')
    BY <1>1, <1>4, <1>5
  <1>7. /\ exit' \in {"no", "asked", "waiting", "done"} /\ (~stopping => exit' = "no")
        /\ exit' \in {"no", "asked"} => waits' = {}
    BY <1>2 DEF WatchdogInv
  <1>. QED  BY <1>1, <1>6, <1>7, ShapeOf, AnyStep

LEMMA ProcessEndedStep ==
  ASSUME WatchdogInv, NEW d \in Daemons, NEW s \in 1..Slots, ProcessEnded(d, s)
  PROVE  WatchdogInv'
  <1>. DEFINE v == daemon[d]
              p == v.procs[s]
              q == [NoProc EXCEPT !.state = "ended"]
              x == [v EXCEPT !.procs[s] = q]
  <1>0. /\ Running /\ (p.state = "dead" \/ (~setting.lingers /\ p.state \in Alive))
        /\ \/ /\ p.waiter = "restart"
              /\ StoppedThenStarts(d, x, [calls EXCEPT ![d].ping = NoCall])
              /\ UNCHANGED <<waits, exit>>
           \/ /\ p.waiter = "exit"
              /\ daemon' = [daemon EXCEPT ![d] = x]
              /\ waits' = waits \ {d}
              /\ exit' = IF waits = {d} THEN "done" ELSE exit
              /\ UNCHANGED <<calls, check, quitting>>
           \/ /\ p.waiter = "none" /\ ~stopping
              /\ \E fast \in BOOLEAN : Starts(d, x, fast)
              /\ UNCHANGED <<calls, check, waits, exit>>
           \/ /\ p.waiter = "none" /\ stopping
              /\ daemon' = [daemon EXCEPT ![d] = x]
              /\ UNCHANGED <<calls, check, quitting, waits, exit>>
        /\ UNCHANGED <<setting, present, foreign, connector, stopping>>
    BY DEF ProcessEnded, Protocol
  <1>1. DaemonShape(v) /\ DaemonRight(d, v, setting, check, exit, waits)
    BY ShapeOf DEF WatchdogInv
  <1>2. ProtocolShape(q) /\ q.state = "ended"
    BY DEF NoProc, ProtocolShape
  <1>. HIDE DEF q
  <1>3. Changed(v, s, q, x)
    BY <1>1, <1>2, SlotChange
  <1>. HIDE DEF x
  <1>4. check # "startup"
    BY <1>0, <1>1 DEF DaemonRight, Fresh, Alive
  <1>5. Startable(x, setting)
    <2>1. DaemonShape(x)
      BY <1>3 DEF Changed
    <2>2. Spawned(v) => Spawned(x)
      BY <1>2, <1>3 DEF Changed, Spawned
    <2>3. ASSUME ~setting.lingers PROVE NoneAlive(x) /\ NoDead(x)
      <3>1. OnlyCurrent(v) /\ NoDead(v)
        BY <1>1, <2>3 DEF DaemonRight
      <3>2. s = v.current
        BY <1>0, <3>1 DEF OnlyCurrent, NoDead
      <3>3. \A r \in 1..Slots : r # s => x.procs[r].state \notin Alive \cup {"dead"}
        BY <1>3, <3>1, <3>2 DEF Changed, OnlyCurrent, NoDead
      <3>4. x.procs[s].state \notin Alive \cup {"dead"}
        BY <1>2, <1>3 DEF Changed, Alive
      <3>. QED  BY <3>3, <3>4 DEF NoneAlive, NoDead
    <2>. QED  BY <1>1, <2>1, <2>2, <2>3 DEF Startable, DaemonRight
  <1>6. CASE p.waiter = "restart"
    <2>. DEFINE c == [calls[d] EXCEPT !.ping = NoCall]
                f == [calls EXCEPT ![d] = c]
    <2>1. StoppedThenStarts(d, x, f) /\ UNCHANGED <<waits, exit>>
      BY <1>0, <1>6
    <2>2. CallShape(NoCall)
      BY DEF NoCall, CallShape
    <2>3. CallsRight([calls[d] EXCEPT !["ping"] = NoCall], stopping)
      BY <2>2, ShapeOf, OneCall
    <2>4. CallsRight(c, stopping)
      BY <2>3
    <2>. HIDE DEF c
    <2>5. CallsStay(f, stopping)
      BY <2>4, CallsOfOne
    <2>. HIDE DEF f
    <2>6. ASSUME ~setting.lingers, ~setting.vanishes PROVE exit \in {"no", "asked"}
      <3>1. p.state \in Alive
        BY <1>0, <1>1, <2>6 DEF DaemonRight, NoDead
      <3>2. exit # "waiting"
        BY <1>1, <1>6, <2>6, <3>1 DEF DaemonRight, Awaited
      <3>. QED  BY <1>0, <3>2 DEF WatchdogInv, Running
    <2>. QED  BY <1>0, <1>4, <1>5, <2>1, <2>5, <2>6, StoppedThenStartsStep
  <1>7. CASE p.waiter = "none" /\ ~stopping
    <2>1. exit = "no"
      BY <1>7 DEF WatchdogInv
    <2>2. PICK fast \in BOOLEAN : Starts(d, x, fast)
      BY <1>0, <1>7
    <2>3. UNCHANGED <<setting, present, exit, waits, stopping, calls, check>>
      BY <1>0, <1>7
    <2>. QED  BY <1>4, <1>5, <2>1, <2>2, <2>3, ShapeOf, StartsStep
  <1>8. CASE p.waiter = "exit" \/ (p.waiter = "none" /\ stopping)
    BY <1>0, <1>4, <1>5, <1>8, OneEndsStep
  <1>. QED  BY <1>0, <1>6, <1>7, <1>8

-----------------------------------------------------------------------------
(* The theorem                                                             *)

LEMMA WatchdogInitInv == Init => WatchdogInv
  <1>. SUFFICES ASSUME Init PROVE WatchdogInv
    OBVIOUS
  <1>. DEFINE x == [current |-> 0, quick |-> 0, failures |-> 0,
                    procs |-> [s \in 1..Slots |-> NoProc]]
              c == [ping |-> NewCall, exit |-> NoCall]
  <1>1. /\ daemon = [d \in Daemons |-> x] /\ calls = [d \in Daemons |-> c]
        /\ exit = "no" /\ waits = {} /\ present = Daemons
    BY DEF Init
  <1>2. ProtocolShape(NoProc) /\ NoProc.state = "none"
    BY DEF ProtocolShape, NoProc
  <1>3. 0 \in 0..Slots
    BY WatchdogConstants
  <1>4. DaemonShape(x) /\ Fresh(x)
    BY <1>2, <1>3 DEF DaemonShape, Fresh
  <1>5. CallShape(NewCall) /\ CallShape(NoCall) /\ NoCall.state = "none"
    BY DEF NewCall, NoCall, CallShape
  <1>6. CallsRight(c, stopping)
    BY <1>5 DEF CallsRight, CallsShape, Kinds
  <1>. HIDE DEF x, c
  <1>7. OnlyCurrent(x) /\ NoDead(x) /\ Spawned(x)
    BY <1>4 DEF Fresh, OnlyCurrent, NoDead, Spawned, Alive
  <1>8. ASSUME NEW d \in Daemons PROVE DaemonRight(d, x, setting, check, exit, waits)
    BY <1>1, <1>4, <1>7 DEF DaemonRight
  <1>. QED  BY <1>1, <1>6, <1>8 DEF WatchdogInv

LEMMA WatchdogNextInv == WatchdogInv /\ [Next]_vars => WatchdogInv'
  <1>. SUFFICES ASSUME WatchdogInv, [Next]_vars PROVE WatchdogInv'
    OBVIOUS
  <1>1. CASE CallSteps
    BY <1>1, CallStep DEF CallSteps
  <1>2. CASE TimerSteps
    BY <1>2, CheckStep, ProtocolSteps DEF TimerSteps
  <1>3. CASE ProcessSteps
    BY <1>3, BrokerExitsStep, ProcessEndedStep, ProtocolSteps, ProcessDiesStep DEF ProcessSteps
  <1>4. CASE RequestExit
    BY <1>4, RequestExitStep
  <1>5. ASSUME NEW d \in Daemons, Executable(d) PROVE WatchdogInv'
    BY <1>5, CallsStep, ShapeOf DEF Executable
  <1>6. CASE UNCHANGED vars
    BY <1>6, CallsStep, ShapeOf DEF vars
  <1>. QED  BY <1>1, <1>2, <1>3, <1>4, <1>5, <1>6 DEF Next

LEMMA InvNoStray == WatchdogInv => NoStrayProcess
  <1>. SUFFICES ASSUME WatchdogInv PROVE NoStrayProcess
    OBVIOUS
  <1>1. ASSUME ~setting.lingers, NEW d \in Daemons
        PROVE  Cardinality({s \in 1..Slots : Protocol(d, s).state \in Alive}) <= 1
    <2>. DEFINE c == daemon[d].current
                A == {s \in 1..Slots : Protocol(d, s).state \in Alive}
    <2>1. A \subseteq {c}
      BY <1>1 DEF WatchdogInv, DaemonRight, OnlyCurrent, Protocol
    <2>. HIDE DEF A, c
    <2>2. IsFiniteSet({c}) /\ Cardinality({c}) = 1
      BY FS_Singleton
    <2>3. Cardinality(A) <= 1
      BY <2>1, <2>2, FS_Subset
    <2>. QED  BY <2>3 DEF A
  <1>2. OneProcess
    BY <1>1 DEF OneProcess
  <1>3. NothingLeftBehind
    BY DEF WatchdogInv, DaemonRight, NoneAlive, NothingLeftBehind, Protocol
  <1>. QED  BY <1>2, <1>3 DEF NoStrayProcess

\* The watchdog never has two processes of one daemon, however pings, restarts,
\* timers and the exit interleave, unless pipes outlive a process; and once
\* request_exit is over no daemon runs, unless pipes outlive a process or an
\* executable was missing.
THEOREM NoStrayProcessEver == Spec => []NoStrayProcess
  <1>1. Init => WatchdogInv
    BY WatchdogInitInv
  <1>2. WatchdogInv /\ [Next]_vars => WatchdogInv'
    BY WatchdogNextInv
  <1>3. WatchdogInv => NoStrayProcess
    BY InvNoStray
  <1>. QED  BY <1>1, <1>2, <1>3, PTL DEF Spec

=============================================================================
