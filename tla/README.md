# The Landscape client in TLA+

Landscape client is the agent that a managed Ubuntu machine runs. It reports
what the machine looks like to a Landscape server and does what the server asks
for. This directory holds TLA+ models of its core, the TLC runs that check them
on small instances, and TLAPS proofs about them. All source paths below are
under `src/landscape/`.

## The system

The agent is several processes. The **watchdog** (`client/watchdog.py`) starts
the others and restarts those that die or stop answering. The **broker**
(`client/broker/`) is the only one that talks to the server. The **monitor**
and the **manager** (`client/monitor/`, `client/manager/`) run plugins: the
first report state, the second perform operations. They talk to the broker, and
the broker to them, with AMP method calls over UNIX sockets (`lib/amp.py`,
`client/amp.py`). Package work runs in short-lived processes (`client/package/`)
that are started by plugins and share an SQLite file with them.

| component | state | operations | hard because |
|---|---|---|---|
| message store, `client/broker/store.py` + `lib/message.py` | one file per outgoing message with HELD/BROKEN flags, in numbered directories; in a persist file: pending offset, sequence, accepted types, API, token, blackhole | `add`, `get_pending_messages`, `set_accepted_types`, `delete_*`, `record_failure`, `got_next_expected`, `commit` | files change at once, the offset describing them is memory until `commit`; several index spaces over the same files; loops that rename the files they walk |
| message exchange, `client/broker/exchange.py` | token, server sequence, contexts of operations; `_exchanging`, `_urgent_exchange`, two timers, backoff | `exchange`, `_handle_result`, `handle_message`, `send`, `schedule_exchange`, `stop` | a thread does the request while the reactor goes on; lost and late requests; a kill anywhere in the handling of an answer; urgent requests at any moment |
| registration, `client/broker/registration.py` | secure id, `_should_register`, waiting responses | `register`, pre-exchange and exchange-done handlers, `set-id`, `unknown-id` | may be asked for while an exchange is out |
| pinger, `client/broker/ping.py` | one delayed call, a request in a thread | `ping`, `_schedule`, `stop`, any message | a message or a stop while a ping is out |
| sessions, `client/broker/client.py`, `store.py`, `server.py` | session ids by scope; each plugin's id, loop and pending request | `get_session_id`, `drop_session_ids`, `_resynchronize`, `send_message` | reports made before a resynchronisation that arrive after it |
| AMP calls, `lib/amp.py` | requests waiting for a reconnection, timeouts | `_send_method_call`, `_handle_failure`, `_retry` | connections lost with calls on their way |
| watchdog, `client/watchdog.py` | per daemon: process, restart and quick-start counters, ping failures | `start`, `stop`, `wait`, `request_exit`, `_check` | processes that die, hang or ignore signals |
| register of clients, `client/broker/server.py`, `client/amp.py` | registered clients, connectors, broadcasts that are out | `register_client`, `broadcast_message`, `_message_delivered` | clients that die and come back while the broker connects to them |
| package work, `client/package/`, `lib/apt/package/store.py`, `client/monitor/packagemonitor.py`, `client/manager/packagemanager.py` | tasks, hashes and requests in SQLite; lock files | queue a task, spawn a handler, handle, report, defer | three processes and a plugin over one database |
| package reporter, `client/package/reporter.py`, `lib/apt/package/store.py` | ids by hash, requests for ids, ids that were reported, a time stamp | handle a task, ask for ids, expire requests, look at APT's data, report what changed | runs that are killed between any two transactions; a server that answers late; packages that change while they are looked at |
| package changer, `client/package/changer.py`, `lib/apt/package/facade.py` | marks, holds, a cache of APT | mark, hold, resolve, complement, commit, answer | APT plans more than it was told; dpkg is locked or breaks; a task that is started again |
| operations of the manager, `client/manager/`, `client/user/` | the operations under way | do the steps of an operation and answer it | steps that fail half way, answers that fail, operations at the same time |
| script execution, `client/manager/scriptexecution.py` | a process, its pipes, a time limit, the umask | `run_script`, the process protocol, the result | the limit races the end of the process; the umask is one for all |
| recovery keys, `client/manager/fderecoverykeymanager.py` | snapd's change, the key in the broker's memory | generate, poll, hand over, send, exchange | two requests; a broker or a manager that is killed; messages that the broker refuses or drops |
| lists of repositories, `client/manager/aptsources.py` | `sources.list`, `sources.list.d` and their `.save` files | replace, restore | a failure or a kill between any two files |
| custom graphs, `client/manager/customgraph.py` | graphs, their scripts, what the accumulator has of each, the data for the next message | add, remove, run, send | scripts that are replaced while they run or while their values are added up |
| reporting plugins, `client/monitor/`, `client/manager/`, `client/user/` | what was told last, in memory or on disk | look, send what changed, forget on a resynchronisation | what counts as told; resets while a report is on its way |
| persist, `lib/persist.py` | a file and its backup | `save`, `load` | killed, or out of disk, in the middle of a save |
| accumulator, `client/accumulate.py` | time and value since the last step boundary | a new value | boundaries; a monitor that starts again from an older file |

They interact so. Plugins send messages to the broker over AMP with a session
id; `send_message` puts them in the message store; the exchange reads a batch,
posts it and moves the store's offset by the sequence number the server answers
with. Messages of the server are handled by the broker itself (accepted types,
registration, resynchronisation) or broadcast to the clients, whose plugins
answer operations with messages of their own. A resynchronisation drops session
ids and tells every plugin, which forgets what it told and tells it again. The
pinger asks the server cheaply whether there is something to fetch, and then
asks for an urgent exchange. The watchdog pings the three daemons over AMP.

`PROJECT.json` lists every part, the ones without a module too, and the hazards
that the properties are aimed at.

## Modules

| module | models | by |
|---|---|---|
| `MessageStore` | `store.py`, `lib/message.py` | the store as a record and every method as an operator from a store to a store, in closed form |
| `MessageQueue` | the store as a component | its methods in any order, what a peer may answer, files that stop decoding, failing exchanges, a kill before `commit` |
| `MessageStoreLoops` | `_reprocess_holding`, `get_pending_messages` | the loops as they run, over the listing they change, against the closed forms |
| `MessageExchange` | `exchange.py`, `exchangestore.py`, over `MessageStore` | whole exchanges with a server, cut where the offset, the sequences and the results of handlers are written |
| `ExchangeSchedule` | the timers of `exchange.py`, `registration.py`, `lib/backoff.py` | when exchanges happen |
| `Pinger` | `ping.py` | the loop of pings |
| `Sessions` | `client.py` with the session ids of `store.py`, `server.py` | plugins and the broker, with the two sockets between them |
| `RemoteCalls` | `lib/amp.py` | calls, chunks, timeouts, lost connections, retries |
| `Watchdog` | `watchdog.py`, the connector of `client/amp.py` | daemons and their processes |
| `ClientRegistry` | `server.py`, the start of monitor and manager | registrations and broadcasts |
| `PackageTasks` | `taskhandler.py`, `changer.py`, `releaseupgrader.py`, `packagemanager.py`, the task table of `lib/apt/package/store.py`, the queuing and `_reset` of `packagemonitor.py`, the start of `reporter.py` | one table with row numbers as SQLite gives them, three queues of processes, two plugins, the broker |
| `PackageReports` | `reporter.py`, the tables of hashes, requests and reported ids | runs of the reporter, cut at each call and between the parts of a run that another process can tell apart, with the plugin, the broker's queue and the server |
| `PackageChanges` | `changer.py` over `facade.py` | the first task of a run from its marks to its answer, with any plan of APT that fits the marks |
| `OperationKinds` | the handlers under `client/manager/` | each kind of operation as a record: its steps, and which failures of them count |
| `Operations` | `manager/plugin.py` and the handlers | operations of such kinds at the same time |
| `Scripts` | `scriptexecution.py` | scripts, their processes, pipes and timers |
| `RecoveryKey` | `fderecoverykeymanager.py`, `_make_payload` of `exchange.py` | requests, snapd's slot, the broker's memory and queue, messages that fail or are dropped |
| `SourcesList` | `aptsources.py` | replace and restore, the moves of lists one at a time |
| `CustomGraph` | `customgraph.py`, `manager/store.py` | graphs, runs, the accumulator's table and the data for the server |
| `Mirror` | what reports promise | the abstract specification: each item the server shows is as the machine once was, and only replaced by something later |
| `ReportPlugins` | the plugins of monitor and manager | each as a record: its rule, what makes it look, what it makes of an absent thing, where it remembers, whether it resets |
| `Reports` | `monitor/plugin.py`, `manager/plugin.py` and the plugins, with the calls of `broker/client.py` | one such plugin with the broker and the server |
| `Persist` | `lib/persist.py` | `save` cut at its writes, `load`, starts |
| `Accumulator` | `accumulate.py` | any sequence of values, with restarts |
| `MC...` | | the values of constants for TLC. `MCParts`, `MCSessions` and `MCOperations` hold several components that do not touch each other's state: a variable `part` says whose turn it is in a behaviour, and the others stay in an initial state |
| `...Proofs` | | theorems |

Each VARIABLE is a field of the object that the module's first comment names,
a set of messages on their way, or history that a property reads (`damage`,
`history`, `excuses`, `astray`, `spoilt`, `crossed`). Each action is one call of the reactor: a method that is called, a
timer that runs, a callback that fires, with all it does before it returns to
the reactor. Where the process may be killed in the middle of such a call, as in
`MessageExchange`, the call is several actions that end at its writes, and
nothing else of that process happens between them. Five actions take several
writes in one step, since a kill between those leaves nothing that a property
could tell from a kill before or after all of them: `HandleMessage` of
`MessageExchange` (the context and what the handlers write),
`HandlePackageIds` and `PackagesSent` of `PackageReports` (the ids of one answer,
the tables of one report with its stamp; a run that begins again finds the first
of them done and does the same with the rest), `WriteFiles` and
`RemoveTheirs` of `SourcesList` (the server's own lists, which are written or
removed again). `PROJECT.json` gives the lines of every definition.

Left out of all of them: the text of messages, logging, formats of files,
the real time of delays (a timer that is set may run) except where the length
of a delay is what a property is about (the intervals and the backoff of
`ExchangeSchedule`).

Definitions whose comment starts with `Mutant:` are wrong on purpose: each is a
plausible slip in the definition below it, and breaks the property it is listed
with in `PROJECT.json`.

## Runs

Passing runs:

* `store` (`MessageStoreLoops`): two types, two APIs, directories of two files,
  one directory allowed, three files ever named. The offset stays within the queue unless something
  happened that `damage` names (`StoreConsistent`), acknowledged messages
  keep their numbers and stay until more is acknowledged
  (`AcknowledgedKept`), and both loops that rename
  files under their own generator do what the closed form says
  (`LoopsAgree`). A directory that fills, one that is
  trimmed for the next, and a message that is held and unheld all fit in three files.
* `exchange` (`MCMessageExchange`): whole exchanges in batches of two, with up
  to two faults of one mix: lost requests with a server that is restored from a
  backup, lost and late requests, lost requests with a kill at any write. No
  message is lost and both sides agree on numbers, except after one of the two
  ways the code has to lose a message, a trim and a kill before the commit, until
  the next resynchronisation (`history.cut`); none is logged twice by the server,
  except once such a thing has happened (`history.upset`). These three are
  `MessagesNotLost`. No
  sequence of lost and late answers leaves client and server with different
  tokens for good (`NotLockedOut`); no message of the server is skipped, and one
  is repeated only after a kill, once for each (`HandledOnce`); both queues drain
  (`QueuesDrain`). Two faults are the least with which a late request meets a
  lost answer.
* `parts` (`MCParts`), one of four components at a time.
  `ExchangeSchedule`: exchanges that are asked for by timers, by `register()`,
  by messages and from outside while one is out. One request at a time, always
  another one ahead, a backoff within its range (`ExchangesGoOn`); an urgent
  exchange is not put off (`UrgentHonoured`); no more than a few in a row
  without a delay (`NoSpin`); a `register()` is answered and a stopped exchanger
  comes to rest (`RegisterAnswered`). The safety part takes the interval that is
  just long enough for the notification and the one that is a second too short,
  and answers of any two messages; liveness is asked for of a server that is
  fair, with answers of one message. Where a server has set the interval that is
  too short, an exchange may not be ahead.
  `Pinger`: up to three timers and pings at a time. The loop does not end by
  itself (`LoopGoesOn`) and mail is noticed (`PingerNotices`).
  `Persist`: three changes and three saves that are cut short. After one such
  save what was saved is found (`SavedIsFound`); two in a row may lose it.
  `Accumulator`: values 1 and 2 at any times of four units around two step
  boundaries, the monitor killed anywhere. A data point is the sum over its step
  (`PointsRight`).
* `sessions` (`MCSessions`), one of three components at a time.
  `Sessions`: three resynchronisations, of which two may be on their way while
  a third one is handled, and one kill of the broker. Nothing stale is let in
  (`NoStaleMessage`), and a plugin that was told ends up with a valid id
  (`IdsRenewed`). One plugin is enough: plugins of one scope do not affect
  each other, and the proof covers any number of them for `NoStaleMessage`.
  `RemoteCalls`: two calls, all sixteen ways to use them, two lost connections.
  A deferred fires once, arguments arrive whole, a call is executed at most once
  per connection (`CallsRight`), and ends (`CallsEnd`).
  `ClientRegistry`: two clients, two deaths, a restart of the broker, one
  operation. No operation is handled twice or failed when it was handled
  (`NotFailedIfHandled`), and a client that stays up is registered in the end
  (`StaysRegistered`).
* `watchdog` (`MCWatchdog`): two daemons, or one with retried calls, lingering
  pipes or a missing executable. One process per daemon, none left behind
  (`NoStrayProcess`), an exit ends (`ExitEndsUnlessLost`), a daemon that died
  or hangs is replaced (`ComesBack`). The limits of five pings
  and five quick starts are two here: one below the limit and at it.
* `tasks` (`MCPackageTasks`): up to two changes or an upgrade, with breaks,
  absences of the broker, an answer of the server or a resynchronisation, in six
  mixes. An operation that is not answered stays queued, one is performed or
  answered again only after a break (`TasksRight`), and every operation leaves
  its queue (`TasksEnd`). Two operations of one queue are the least for a row
  number to be given out again while a handler still means the old one.
* `reports` (`MCReports`): a plugin of every rule, two items of which one is
  there at first, two changes of the machine, a resynchronisation, a failing
  call or a crash, two calls on their way. `Reports` implements `Mirror`
  (`TellsTheTruth`), and the server ends up with what the machine is like
  (`ServerIsTold`). Two calls are the least with which a look overlaps a send,
  and plugins that differ from one of those only by what makes them look are
  left out.
* `packages` (`MCPackageReports`): two packages of which the server knows one, a
  request of at most one hash, in four mixes of causes. No hash gets the id of
  another (`IdsRight`), and the server ends up with the packages of the machine
  (`PackagesReported`). The request of one hash makes two requests be out at a
  time, which is where row numbers matter.
* `operations` (`MCOperations`), one of six components at a time.
  `Operations`: every kind of operation beside the addition of a user. The
  answer is true, and a second one follows only where the code sends it
  (`OneTrueAnswer`); all are answered (`OperationsAnswered`).
  `Scripts`: one with a time limit and one with attachments. The umask is that
  of scripts while one runs and the manager's own afterwards, and the answer is
  how the process ended (`ScriptsRight`); a script ends (`ScriptsEnd`).
  `RecoveryKey`: two requests, two crashes of the broker or the manager, calls
  and messages that fail or are dropped. The key the server has opens the disk,
  if it was told of the request whose key is in the slot and snapd did not fail
  (`KeyOpens`). Two requests are the least with which the server has one key and
  the slot another.
  `SourcesList`: three messages, one failure, one edit by the administrator.
  None of the administrator's lists is lost, and a restoration gives the machine
  its own lists back (`ListsKept`).
  `CustomGraph`: three scripts for one graph, three runs with values in the same
  step of the accumulator, the next one or a later one, a restart. A data point
  goes to the server with the hash of the script that completed it, and at most
  one of each script is mixed with values of the script before
  (`ValuesAreOfTheirScript`). Three runs are the least for two data points, of
  which the first may be mixed and the second may not.
  `PackageChanges`: eight requests on a machine of two packages and one of a
  foreign architecture, two tries of a locked dpkg, a kill, a hold from outside.
  Nothing is changed that the policy does not allow (`NothingUnasked`), the
  answer says what was done (`AnswerTrue`), and comes (`ChangeAnswered`).

Deadlock is not checked where all work ends: in `parts`, `sessions`,
`watchdog` and `operations`, whose bounded behaviours stop.

Runs that end in a violation, each with its entry under `findings`:

* `exchange_crash_loses`: `got_next_expected` deletes files at once and the
  offset that counts from the oldest file is saved 50 lines later. A kill in
  between skips messages that were never sent.
* `schedule_overload`: every exception of a request becomes `None` in
  `transport.py`, so the backoff for an overloaded server is never reached.
* `recovery_key`: `_poll_for_completion` waits until snapd's change is no longer
  under way and takes any other end of it for success, an error too.

## Fairness

Liveness is only claimed under what the program's surroundings give:

* the reactor runs a delayed call whose time has come, and a callback whose
  result is there (weak fairness of timers, results and events in every module);
* a request that is out ends, with an answer, an error or libcurl's timeout
  (`RequestEnds`, `GotResult`/`PingFails`);
* in `MessageExchange` exchanges go on: infinitely often a step of one is taken
  (faults are bounded, so from some point on no request is lost);
* a server that is asked again and again is reached some time, by a request with
  a registration too, accepts types, and answers a registration (strong fairness
  of `Answered`, `Receiving`, `Accepting` and `Registering`), and one ping of many
  gets through (strong fairness of `GotResult`);
* the factory of a lost AMP connection connects again, and a peer handles what
  it got, unless it `hangs`;
* a process that was killed goes away, one that was started gets up; nothing
  says that a hung one recovers. An executable that is missing returns. In
  `ClientRegistry` the watchdog starts a client that is down;
* in `PackageTasks` the plugins run at their intervals and processes go on. A
  change is not postponed for ever, since it is answered once it is older than
  70 minutes, and some run of the reporter finds no release upgrade under way
  (strong fairness of `Change` and of `Prepares` for the reporter). In
  `PackageReports` the reporter is started again and again, goes on, and
  messages arrive; in `PackageChanges` the changer goes on, and a change whose
  packages stay unknown gets old (`GetOld`);
* in `Reports` a plugin looks whenever its triggers come (weak fairness of
  `Looks` and `RunMounts`), calls are answered, events and results arrive, and a
  client registers again;
* in `Operations` the steps that are begun end, each with or without success; in
  `Scripts` a process that was killed or ended is reaped, a timer that was set
  runs. Nothing says that a script without a time limit ends, or that children
  close the pipes they keep.

A component that shares a run with others has its fairness only in the
behaviours where `part` names it.

## Refinement

`Reports` implements `Mirror`, for every rule of the plugins: `TellsTheTruth` is
`Mirror`'s specification with the server's copy as the mirror, the machine's past
states as what was shown, and, for each item, the state that its value is from.
It says that a report never shows a thing as it never was, nor puts an older
state over a newer one, whatever overtakes what. `Mirror` has a way out,
`astray`: the points of `Reports` that set it are the flaws of the reporting
plugins that only a resynchronisation repairs; they are listed below. The run
`reports` checks this refinement, and `ReportsProofs` proves it.
`MessageStoreLoops` is the second one: its loops are checked against the
operators of `MessageStore` that every other module uses (`LoopsAgree`).

## Proofs

For every value of the constants, from the named ASSUMEs of the modules alone:

* `MessageProofs!StoreConsistentAlways`: `StoreConsistent` is an invariant
  of `MessageQueue`, for any types, limits, answers of the peer and mix of
  faults. It is inductive: well-typed files that lie below the name the next
  one takes (`TypeOK`); an offset of at most the
  number of files that are neither held nor broken, unless a trim, a kill or a
  broken file came between (`OffsetWithinQueue`); and every broken file known to
  the history (`BrokenRecorded`). The offset bound alone is not inductive: the
  step that skips a broken file needs to know that this was noticed.
  It rests on one or two lemmas per method: its type, and what it does to the
  number of messages that are pending; all of them are about finite sets and
  their cardinality. `TypeCorrect` and `OffsetCorrect` are its parts.
* `MessageProofs!AcknowledgedKeptAlways`, an action property of the same
  specification, from the same invariant: a method leaves what was sent and all
  that lies before it in place, or empties the store, or is `got_next_expected`
  with a higher number.
* `SessionsProofs!NoStaleMessageEver`: for any plugins and scopes. The
  strengthening: ids are below the one to be issued next and never given out
  twice (`Given`), an id belongs to one scope (`ScopesApart`), what a plugin
  holds or is about to get is of its own scope (`OwnIds`), and a report made
  before the last resynchronisation of its scope carries an id that is not the
  current one (`StaleOut`).
* `SessionsProofs!CallsRightEver`: for any finite number of calls, of any number
  of chunks. A call is at one of four places: nowhere on the wire, on its way
  with one chunk, acknowledged so far, or answered; at each of them `CallInv`
  says what the receiver has collected, how often the method was executed
  against the connections so far, and whether the deferred can have fired.
* `SessionsProofs!NotFailedIfHandledEver`: for any number of operations, deaths
  and restarts. What one broadcast has called, heard and reported fits together
  (`Told`): the client with the plugin is called once, and what is reported as
  failed is over and unhandled.
* `MessageProofs!NotLockedOutEver`, and `ExchangeKeepsStore`: for any
  messages of the server, batches and faults. While no request can be late, the
  token in memory and the one on disk are none or the one the server gave last,
  and while a request is out it alone has a token (`TokensRight`): that is why
  `_get_exchange_token` commits the loss of the token before it sends. That the
  store stays well formed is shown with the same lemmas, for the calls as an
  exchange makes them.
* `MessageProofs!HandledOnceAlways`: for any answers, of any length, and any
  number of crashes. The server's sequence in memory is the one on disk, the
  request that is out asks for the message after it and the answer is handled from
  there, so that only a message whose handlers have run and whose commit is still
  to come can be run again (`HandlingInv`).
* `MessageProofs!MessagesNotLostEver`: for a store of any size and any number of
  messages, exchanges, lost requests, lost answers, restores and kills, while no
  request arrives after it was given up. The invariant `Lossless` has three
  layers. `Sound` holds whatever happened: the log of the server has only
  messages that were sent, and an answer that is out or taken is for no fewer
  than it has. `Agreed` holds until the numbering is cut, and again after a
  resynchronisation: every number below what the server expects is that of the
  same message on both sides (`InStep`), what was sent and is gone is with the
  server (`SentLogged`), a payload and an answer on their way belong where they
  would be put (`PayloadPlaced`, `AnswerPlaced`), and nothing unsendable lies
  below what the server has seen (`SendableBelow`). `Logged` holds until the
  first cut: what the server has of the files it has under their own number.
  None of the parts of `MessagesNotLost` is inductive, since an answer that is
  lost after the server took the payload leaves the agreement to the next
  exchange.
* `WatchdogProofs!NoStrayProcessEver`: for any daemons and any number of tries
  of a call. The only live process of a daemon is the one that
  `Daemon._process` names, and once the exit waits, it waits for every one that
  is left (`DaemonRight`); before the first check there is none.
* `ReportsProofs!MirrorsTheMachine`: `Spec => TellsTheTruth`, the refinement of
  `Mirror`, for any finite set of items and any of the plugins. The invariant is
  about what is on its way: each message says of an item how it once was, at a
  time that is not before that of what the server shows; messages, and what
  `MountInfo` has queued behind them, are in the order of those times; and one
  that carries the session id of now was made since the last resynchronisation
  (`CallsRight`). A message that would break the order leads `astray`, and the
  refinement allows anything then.
* `OperationsProofs!OneTrueAnswerAlways`: for any kinds of operations that fit
  `KindsAssumption`, at the same time. Which answers there can be at each stage
  of an operation, and that status and answer agree with what has failed
  (`AnswersInv`).
* `OperationsProofs!ScriptsRightAlways`: for any number of scripts. How process,
  pipes, timer and answers fit each stage (`ScriptsInv`); and while no two had
  the umask at the same time, it is the manager's own or that of the only script
  under way, which has kept the manager's (`UmaskInv`).
* `OperationsProofs!KeyOpensAlways`: for any number of requests and of crashes.
  `KeyInv` says, while none overtook another: at most one request has a key, and
  what it hands over is in the slot (`OneKey`); a slot that changes after its
  request is over was reported as a failure or not at all (`LateChange`); and
  what the server has heard last, or is going to hear from the queue, is a key
  of which `Right` holds (`RightKey`). `KeyOpens` speaks of quiet states only;
  the invariant has to say what the queue and a request under way lead to.
* `OperationsProofs!ListsKeptAlways`, an action property: at each stage of a
  message, of the list and of each file of the administrator, one of the two
  places has the newest version (`ListsInv`).
* `OperationsProofs!ValuesAreOfTheirScriptAlways`: for any graphs, versions,
  runs and restarts. `GraphInv` says of a graph that is not `crossed`: data, file
  and running script agree (`Agrees`); versions come in order, those of data
  points before those in the accumulator, these before what runs and what is in
  the file (`Ordered`), so that the values of a script before can only be
  in the sum when its successor completes its first point; and there is one such
  point at most (`MixedOnce`).
* `OperationsProofs!NothingUnaskedAlways` and `AnswerTrueAlways`: for any
  packages, versions and plans of APT. Marks are what the message asked for and
  what completes it, what completes it fits the policy, and the plan that is
  committed is all marked (`ChangeInv`).
* `PartsProofs!ExchangesGoOnAlways`, `UrgentHonouredAlways`, `NoSpinAlways`: for
  any intervals that are natural numbers, any number of messages in an answer
  and any calls. `Sound` says that the flag counts the request, that a timer is
  set unless something is under way, and that the urgent flag is set from the
  moment an urgent exchange is wanted until an answer comes; `ChainBound` counts
  what may still follow in a chain: one exchange to register, told by the flag
  `_should_register` of the one that runs, and one for each downgrade of the API.
  The bound of `NoSpin` alone is not inductive.
* `PartsProofs!LoopGoesOnAlways` and `PingerTypeCorrect`: from the start on a
  timer is set or a ping out (`PingerChain`), and there are never more of both
  together than the bound. The second is needed to show that the timer
  `_call_id` names is one that is counted.
* `PartsProofs!SavedIsFoundAlways`: where the last saved value is, by how many
  saves were cut since (`PersistInv`).
* `PartsProofs!PointsRightAlways`: for any step size, values and times. What is
  accumulated, in memory and in the file, is the sum since the last boundary
  that each of the two knows of (`AccumulatorInv`); the rest is arithmetic of
  boundaries.

* `PackageTasksProofs!TasksRightAlways`: for any changes, upgrades, kills and
  absences of the broker, until a table that was cleared gives out a row again
  under a handler that still means the old one (`history.overtaken`). The
  invariant `TasksInv`: an operation has at most one row (`AddedOnce`); the row
  of a handler is there with its task (`RowsHeld`); an answer that was sent is on
  its way, arrived or discarded (`SentIsTold`); and while an operation is queued
  and not at hand, it was performed no more often than handlers broke, so that
  the next attempt still fits the bound (`Attempts`). The bound of the property
  alone is not inductive.
* `PackageReportsProofs!IdsRightAlways`: for any packages, database of the
  server, changes, kills and resynchronisations, without an assumption on the
  constants. Rows of requests are given out again, and an answer names nothing
  but a row. What keeps ids right is that a row is the number of at most one
  message, answer or task at a time (`Apart`, `Disjoint`), whose request is still
  there with the same hashes (`Asked`, `Fits`), also while the reporter is about
  to send a request or has not yet removed the task that led to one (`RunRight`).

The components that share a run are proved about in `PartsSpec`, the
specification that the run checks. The assumptions say no more than what the
constants are: sets, numbers, versions of packages that belong to one package
(`PackagesAssumption`), files of the administrator that are not also Landscape's
(`ListsAssumption`), chunks of a call of which there is at least one
(`CallsAssumption`), operations that are not also tasks of the reporter
(`TasksAssumption`). The largest one, `KindsAssumption`, says that an operation's
own steps and its closing ones have different names, and that a handler that may
answer twice closes only after an answer that got through and does not look at
the users then; TLC evaluates it on every kind there is.
The bounds of the runs are constants like any other here: the theorems hold for
every value of them.

Only model-checked:

* all liveness, since the prover has no fairness;
* `LoopsAgree`, which is about what a fold over sequences of any length gives;
* `MessagesNotLost` where requests arrive late. The mix that the run checks has
  late and lost requests alone. With a restored server besides it is false: after
  the restore the client goes back to the older numbers and may hold a message of
  them that the server no longer accepts, which renumbers those behind it; a late
  request that has no token then brings the old payload under the old numbers. The
  theorem therefore excludes late requests altogether.

## Where the code does less than its comments say

Met while modelling, and excused by name in the properties above:

* `broker/exchange.py:930`, `884`: the context of an operation is inserted before
  its handlers run, under a UNIQUE constraint on the operation, and the sequence
  is saved after them. A kill in between makes the server send the message again,
  the insert fails, and neither this message nor any after it is ever handled.
  `QueuesDrain` asks nothing of the server's messages where a kill may happen.
* `broker/exchange.py:688`: an urgent request that is made while an exchange is
  out is dropped if that exchange fails.
* `broker/exchange.py:709`: with an interval below ten seconds the delay of the
  notification is negative, the reactor refuses it, and no exchange follows.
* `broker/registration.py:150`: `register()` can be answered by the outcome of a
  registration that was sent before it was called.
* `broker/ping.py:185`, `191`: while a ping is out, a message starts a second
  loop and `stop()` stops nothing.
* `broker/store.py:315`: trimming deletes directories that the pending offset
  counts, and the offset stays. `broker/store.py:599`: an empty list of scopes
  drops every id, and the plugins take it for none of theirs.
* `broker/client.py:87`, `93`, `125`: of two resynchronisations close together
  the second may be answered first; a report can be made between an event and
  its reset; two results start two loops.
* `broker/client.py:302`: a client that reconnects after the broker was killed
  keeps an id that the broker may not know, until the next resynchronisation.
* `lib/amp.py:298`: only the last chunk of a call has a timeout.
  `lib/amp.py:405`: a result after the retry timeout is taken for a lost
  connection, and the call is made once more at the next one.
* `client/watchdog.py:450`, `607`: a daemon may be started, or started again,
  after the exit was requested. `334`: pipes that outlive a process can lead to
  two processes. `306`, `308`: a daemon without its executable keeps
  `terminate_processes` from ending the others, and is not started again when it
  is back. `187` and `client/amp.py:154`: a ping and the request to exit share a
  connector, and the end of the first can cut off the second or leave it without
  an answer.
* `broker/server.py:379`: an operation that nobody handles is not answered if
  the call to one client fails. `175`: overlapping registrations leave a
  connector that belongs to no client. `67`: a plugin whose client is being
  connected misses a resynchronisation.
* `client/monitor/packagemonitor.py:157`: `_reset` adds its task before it clears
  the others so that no handler removes a row that is not its own. That protects
  the row of the resynchronisation only: a changer that is at row 2 when the
  table is cleared removes the change that was queued as row 2 since, and that
  one is never performed nor answered. The tasks that are cleared include those of
  the changer and the release upgrader, which the server gets no answer to, and an
  answer of a changer that started before the session ids were dropped is discarded.
* `client/package/releaseupgrader.py:337`: the answer is sent and not waited for;
  it is lost if the broker is away when the process ends. If `finish` fails, a
  second answer says that the upgrade failed.

* Reports (`astray`): a plugin that counts data as told before the call
  (`monitor/plugin.py`, `manager/plugin.py`) is wrong about it when the call
  fails or the message is discarded; one that counts it afterwards is wrong when
  the call fails though the broker took the message, when it is killed before
  the flush, or when the result comes after a reset. A resynchronisation that
  finds the client unregistered or down is not repeated. Looking while a send is
  under way makes the list of processes start from nothing and the mounts raise
  a TypeError (`mountinfo.py:98`). `SnapManager` does not reset;
  `ProcessorInfo` and the cloud metadata are not sent again after a reset. That
  an annotation, a snap or a mount is gone is never told.
* Operations: `usgmanager.py:88` and the handlers like it (scripts, `pro`, FDE)
  answer FAILED after a SUCCEEDED whose call failed, or whose closing step did.
  `shutdownmanager.py`: `_respond_fail` is called with one argument and takes
  two, and the shutdown is scheduled even if the answer failed.
  `usermanager.py:115`: an operation is not answered if the look at the users
  fails, and overlapping operations share one `_user_monitor`, so that the first
  to end closes the connection of the other. `aptsources.py`: the reporter's
  exit code is not looked at.
* `manager/scriptexecution.py:341`: two scripts at a time put back each other's
  umask. A file that can not be written is left behind.
* `manager/fderecoverykeymanager.py`: of two requests at a time the key of the
  first may be sent as that of the second; a broker that is killed loses the key
  and sends the message without it. A manager that is killed at the await of
  `51`, or a message that the broker drops for its session id
  (`broker/server.py:241`), leaves the new key in the slot while the server
  keeps the one before as good.
* `manager/customgraph.py:194`, `245`: a script that is still running when its
  graph is replaced has its value credited to the new script, once an exchange
  has put the graph back into the data; a run that asked the broker before a
  graph was removed puts it back. `204`, `manager/store.py:28`, `45`: neither a
  replacement nor a removal clears what the accumulator has of a graph, so the
  first data point of the new script is made of values of the old one as well.
  `136`: if writing a script fails, the store and the data are still those of the
  script before.
* `manager/aptsources.py:135`, `148`: the restoration puts an old `.save` over a
  file of the same name that the administrator has written since. A kill between
  the two moves leaves no `sources.list`, and replacing fails until a
  restoration.
* `package/reporter.py:951`: a change between the look at APT's data and the new
  stamp is not noticed until the next one. Ids that come with a database, or in
  a run that breaks later, are not used before the packages change again. A
  report that the broker took though its call failed is never taken back. A run
  that starts between the broker's drop of the ids and the plugin's reset
  reports what the reset then forgets. The table of security updates is not
  cleared by a resynchronisation. `504`: answers name a row, and rows are given
  out again: after a request was given up, a late or repeated answer gives hashes
  wrong ids.
* `package/changer.py`, `lib/apt/package/facade.py`: `703` raises StopIteration
  for a broken package that is not among those to be installed; the changer does
  not expect that, or a ChannelError, so the task is never answered and blocks
  its queue. `749`: holds are changed before the packages and stay if those fail,
  and the cache of holds is not refreshed within a run. `819`: a download that
  fails at the commit raises an exception that is not among those that are
  caught, and the task is not answered either. `328`: the cache is read once for
  a run of the changer, so that later tasks of the run see it as it was before
  the first. A version that is
  already installed may be removed by APT's plan though it was asked for, and
  packages of foreign architectures are not compared with what was asked.
* `lib/persist.py:171`: killed between the rename and the write, the program
  starts from nothing, since the constructor (`95`) only looks for the file;
  `load` itself would find the backup. A first save that is cut short leaves a
  file that the program refuses to start with. A second cut in a row puts the
  broken file over the backup.
* `accumulate.py`: a monitor that is killed and goes on from an older file may
  make a data point for one boundary twice. A clock that goes back is not
  modelled.

## Not modelled

Parsing of `/proc`, `/sys` and of command output, `landscape-sysinfo`, the
questions of `landscape-config` and the order of its options, TLS and HTTP
headers, bpickle and the schemas, sequence ranges, package skeletons: no state,
or only input and output. The upgraders, which have no patch in this release.
Within modelled parts: what a registration message holds; `run_apt_update`, of
which `PackageTasks` has only its end; log rotation by the watchdog; the tree of
values inside a persist; binaries that come with a change of packages; the
cutting of long output; the full refresh of users by the flag of an upgrade
(`usermonitor.py:131`); tasks of the package changer after the first of a run,
which do not read the cache again; handlers of the exchange that raise, which none
of them does but for the insert of a context. APT itself, SQLite, libcurl, snapd and the server
are not in the repository and are modelled by what the code does with them.
Threads matter at one place, the request of an exchange and of a ping; the
thread touches nothing but its arguments, and is an action of its own.

## What is left

* Composition: `Reports` has the session ids of one plugin inside it, and
  `Sessions` has several without their reports. `RecoveryKey` has its own small
  queue in place of `MessageStore`.
* Recursive algorithms against a definition (sequence ranges, the coercions of
  schemas), which TLC could check over short inputs.
