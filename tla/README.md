# A verification development for v7-engine

v7-engine is a crypto trading system: research code (`alphaforge/`,
`simulation/`), a policy engine (`v7/`), a runtime that scans markets and trades
on paper or live (`runtime/`), and tools around them.  This directory holds TLA+
models of the parts whose correctness depends on concurrency, order and failure,
the TLC configurations that check them on small instances, and proofs, checked
by TLAPS, of every safety property that the passing runs check.

All paths below are relative to `src/` of the repository.

## 1. Inventory

The repository is large, but most of it is numerical batch code or reports.  The
state that several threads or processes share is in `runtime/`, in the backfill
of market data, in the outcome cache and in the agent orchestrator.

| Component | State | Operations | Hard because |
|---|---|---|---|
| Inference bus `runtime/runtime/inference_bus.py` | a bounded queue, worker threads, a ledger of jobs, counters, a `done` event per job | `configure`, `submit`, `_worker_loop`, snapshots | scans block on it without a timeout; the capacity is read without the lock; status and counters are written in separate sections |
| Scan event bus `runtime/runtime/scan_event_bus.py` | recent events, subscribers, a bounded queue per subscriber | `publish`, `subscribe`, `unsubscribe`, delivery that drops the oldest | replay and live deliveries race; two deliveries to one full queue |
| Scan control and scan run `runtime/runtime/scan_control.py`, `scan_runtime.py`, `api/routes/scans.py` | one control row per profile, `scan_runs`, the registered context with its `force_stop_event` | pause, resume, stop, stop-all, force-stop-all, reconcile; the points of `run_scan` that look at or write the row | each update reads the whole row in one session and writes it in another; scan threads die; runs overlap |
| Market bundle cache (in `scan_runtime.py`) | bundles, in-flight events, trends | `_get_market_snapshot_cached`, `_resolve_htf_trend`, the fetch pool | single flight with a gap between wake and store; waiters hold threads of the pool |
| Autonomous loop `runtime/runtime/autonomous_loop.py` | trigger flag, wake and stop events, threads | start, stop, pause, `trigger_scan_now`, `run_forever` | flags set by other threads between a read and a clear; a dying loop is alive |
| Circuit breaker `runtime/services/circuit_breaker_service.py` | events, settings, a cache per service instance | evaluate, reset, change settings | many evaluators with a cache each; a transition is several commits |
| Safety gates `runtime/runtime/safety/`, `execution_orchestrator.py` | kill switch, drawdown gate | trigger, release, auto-resume, `check_all`, manual orders | shared by all threads and profiles without a lock; a path around the gates |
| Paper execution `runtime/runtime/paper_execution.py` | account, orders, fills, positions | open, close, monitor, update, delete, deposit, reset | cash and rows in separate commits with an undo; the balance is computed in Python |
| Live orders `runtime/services/binance_usdm_manual_live_service.py`, readonly and reconciliation services | order rows with their protective children, a local book, synchronisations | submit, query, cancel, protect, synchronise, reconcile | an exchange whose answers are lost; whole rows saved from stale copies; crashes |
| Websocket owner `runtime/runtime/websocket_owner.py` and user-data stream | the persisted stream state, the connection | reconnect, keep alive, receive; start, refresh, close from the API | timeouts by age; late writes over a lost connection |
| Backfill `lib/market_data/binance/backfill.py`, storage, checkpoint, catalog | candle files, a checkpoint, a catalog | backfill a range, skip what is complete | failed requests and writes, a process that dies, files written in place |
| Agent orchestrator `tools/agent_orchestrator/` | the git tree, STOP files, the controller's loop | iterate, work, gate, revert, stop | the revert cleans the repository that also carries the stop signal; retries on leftovers |
| Outcome cache `alphaforge/src/alphaforge/outcome_cache/` | a buffer of outcomes, one file per symbol and flush, totals | append, flush, close, read | sizes and totals without the lock; a flush that fails half way |
| V7 policy `v7/`, AlphaForge lifecycle | tables of models and their states in memory | promote, roll back, evaluate gates | sequential, one caller |
| Numerical code, reports, UI, CLI | - | - | not for a model checker |

How they interact: the loop asks the circuit breaker and calls `run_scan`; the
scan fetches its market bundles through the cache, asks the control row before
each task, sends its analyses through the inference bus, mirrors its progress to
the event bus, and opens orders through the execution orchestrator, which asks
the gate chain and then the paper or live adapter.  The websocket owner tells
the live services what became of their orders.  The API thread pool reads and
writes the same rows and objects.  The backfill and the agent orchestrator are
processes of their own.

What makes each modelled component correct is the list of properties in
section 4; `hazards` in `PROJECT.json` ties each of them to the line where it
could go wrong.

## 2. Modules

| Module | What it is |
|---|---|
| `InferenceBus` | the inference bus in detail |
| `InferencePromise` | what `submit` promises its caller: the abstract specification |
| `ScanEventBus` | publishing, replay, delivery |
| `ScanControl` | the control row, the scan thread and the API routes, composed |
| `BundleCache` | the fetch tasks of one symbol and their single flight |
| `AutonomousLoop` | the loop threads and the API threads that trigger, start and stop them |
| `CircuitBreaker` | evaluations, the operator, the caches |
| `SafetyGates` | kill switch, drawdown gate, limits and the two ways to an order |
| `PaperExecution` | cash, orders and positions |
| `LiveOrder` | one entry order with its stop and take-profit, the exchange, synchronisation and reconciliation, composed |
| `UserStream` | the websocket owner, the persisted stream state and the API, composed |
| `Backfill` | candle files, checkpoint and catalog under failures and restarts |
| `AgentOrchestrator` | the iterations of a run over a git tree, the gate, the revert and the STOP files |
| `OutcomeCache` | the buffer of outcomes, its flushes and files |
| `Lists` | the list comprehensions and sums of the services: `Keep`, `Total` |
| `MC*` | the instances for TLC: constants as model values, sets and functions |
| `MCServices`, `MCParts` | sums: components that share no state, checked in one run, where `part` says which of them moves |
| `InferenceBusProofs` | theorems about `InferenceBus` |
| `ScanEventBusProofs`, `ScanControlProofs`, `LiveOrderProofs` | theorems about the module they are named after |
| `ServiceProofs` | theorems about `AutonomousLoop`, `BundleCache`, `UserStream` and their sum `MCServices` |
| `TradingProofs` | theorems about `CircuitBreaker`, `SafetyGates` and `PaperExecution` |
| `PartsProofs` | theorems about `AgentOrchestrator`, `Backfill`, `OutcomeCache` and the sum `MCParts` |
| `ListFacts` | lemmas about `Lists` and about sequences, cited by the proof modules |

Each module has one action per step of the code that another thread can see:
one section under a lock, one `queue.Queue` operation, one repository call
(every one commits by itself), one request to the exchange, one git command, one
file, or one read or write of an unlocked shared attribute.  Where a function
makes several of these, its actions share a program counter (`pc`, `at`,
`phase`, `step`) and what was read in between is kept in `job`, `snap`, `call`
or `reading`, so a stale read is stale in the model.
Definitions that start with `Bug:` are variants of the definition that follows
them, each with a plausible mistake; each property is shown to fail under one of
them.  They are used nowhere else.

### InferenceBus

`queue`, `limit`, `capacity`, `running`, `status`, `started` and `stats` are the
attributes of the bus; `done` and `failure` those of a queued job.  `Register`
to `Wake` are `submit`, in the order of the code; `Take` to `Answer` are the loop
of a worker.  `Configure` may come at any time and more than once.  `execute`
returns COMPLETED or TIMED_OUT or raises.

### ScanEventBus

`Publish` and `Subscribe` are the two sections under the lock.  What a thread
then has to deliver is its `todo`; `Put`, `Evict` and `Retry` are the three queue
operations of `_put_nonblocking`.  `replayed` and `live` record what a subscriber
is owed, `seen` what it read.

### ScanControl

An actor's `script` is the list of repository calls it still makes before its
next decision.  `Peek`, `Get` and `Set` are the sessions of a call: `request_stop`,
`request_force_stop` and `activate_run` look at the row before `update` reads it
again.  `CheckStop` to `Pop` are the points of `run_scan`; `Call` to `Serve` the
routes, with `ReadState` and `Settle` for `_reconcile_scan_state`.  A run may die
at any point (`Die`), progress may age by 300 seconds (`Age`).  The executors have
one worker, so a task is fetched or analysed before the next is submitted.
Among several listed runs the reconciliation takes any (the code takes the
newest).  The routes `trigger` and `retry` are made of calls that are modelled.

### BundleCache

A fetch task of an interval asks for the bundle of that interval and then, for
the trend, for that of the next higher one (`HigherOf`, the code's `HTF_MAP`).
`LookUp` to `Store` are the sections under `cache_lock` in
`_get_market_snapshot_cached`: whoever finds a key neither stored nor in flight
leads, the others wait for its event and look again.  `EndFetch` sets the event,
whether the request failed or not, and `Store` comes one section later.  A task
holds a thread of the pool from its start to its end (`PoolSize`).

### AutonomousLoop

`flag`, `wake` and `stop` are `_manual_scan_pending` and the two events; `latest`
is `_thread`.  `ReadSettings` to `ClearWake` are a turn of `run_forever`, with the
read of the flag (line 278) and its clear (301) apart; `DatabaseFails` and
`GiveUp` its two exits by an exception; `AskCircuit` to `SetWake` a trigger,
`AskAlive` to `Spawn` a start.  `owed` records a trigger that no `run_once()` has
followed.

### CircuitBreaker

`BeginEvaluation` to `Store` are an evaluation: the cache test, the reads of the
settings, the event and the trades, the decision, the second read of the event,
and the commits.  The loss streak and the timeout streak stand for the rules.
Time is a clock of coarse ticks.

### SafetyGates

`ResolveTarget` to `Adapter` are `open_order`.  `IsActive`/`Clear` are the two
halves of `is_active()`; `Compare` to `Assign` those of `update_equity()`.
Drawdowns are in permille, truncated.  `sure` marks a check that began under a
halt.

### PaperExecution

`ReadBalance`/`WriteBalance` are `update_balance`; `SaveOrder`, `SavePosition` and
`Finish` the commits that follow; `Fail` an exception in them, with the undo of
the cash.  `Mark`/`Rewrite`/`Remark` are the monitor's update of an order.  The
repository call that changes the balance does not itself raise in the model.
`Realized` and `Invested` are sums over the orders; any order of summation would
do, so `OrderList` takes one.  Fees are zero.

### LiveOrder

`row` is the order row with the children in its payload, `venue` what the
exchange knows, `book` the local copy of its positions and open orders, `rest`
the age of the last good synchronisation.  A `call` works on the copy of the row
that it loaded and saves it whole.  `CreateOrder` to `SaveSubmission` are a
submission, `LoadOrder` to `SaveCancel` a cancellation, `AskEntry` and what
follows a query that verifies the order and then checks its protection:
`PostKid`, `AskKid` and `CancelKid` are requests, each of which may fail, lose its
answer, or be the last thing the process does.  `Sync` to `SaveSync` copy the
account, `SettleFlat` is the reconciliation.  The exchange fills, ends and
flattens by itself.

### UserStream

`stream` is the persisted row, `link` the connection that the owner thread has,
`pending` whether the exchange has sent something that nobody received.  `Look`
is the decision of a tick; `CloseLink`, `RequestKey` and `Connect` a reconnect,
`Keepalive` and `Receive` the other outcomes.  `Ask`/`Answer` are the calls of the
API.  Ages count steps of 25 minutes: a keep-alive is due after 1500 s, a rotation
after 3000 s, and the stream is stale at the first age beyond 3300 s.

### Backfill

Candles are numbered, `newest` is the last that exists.  `AskFor` starts a
process with a range; `NextSeries` asks the checkpoint, `FetchPage` takes a page,
which has no upper end, as in the code, `WriteFile` writes the raw and then the
normalized file, named after the first and last candle, `AddEntry` keeps the
catalog entry in memory, `SaveCheckpoint` and `SaveCatalog` write the two JSON
files.  `Error` is an exception in any of these, `Die` the end of the process;
both may leave what was being written torn.

### AgentOrchestrator

`tree` gives each file its content in HEAD, index and working tree; `ctl` is the
controller's place with its loop counters.  `CheckStopFile` to `Gate` are an
iteration, `CleanTree` and `CheckOut` the git commands of the revert, each of
which may fail.  `git checkout -- .` restores the files that the index has and
leaves the others.  `AskToStop` is a STOP file by hand in the root of the
repository, or the first of the two files that the web interface writes;
`FinishAsking` is the second.  A run may be interrupted anywhere, and the next
one finds the tree as it is.

### OutcomeCache

`CheckThreshold` and `TestBuffer` are the two looks at the size without the lock,
`TakeBuffer` empties the buffer under it, `WriteSymbol` writes the file of a
symbol; `ReadTotal` and `CountWritten` are the two halves of the unlocked
increment.  `WriteFails` is an exception before or between the files, `NewProcess`
the end of a process and the start of the next, which writes to the same files.
A file is written whole or not at all, and `copies` counts in how many files an
outcome is.

## 3. Runs

Deadlock is not checked in any run: a state where every job has been answered,
every event read and nobody wants to trade is a normal end for each component.

| Run | What it shows |
|---|---|
| `inference_bus` | 3 submitters, up to 2 workers, a queue of 1, configured at any time: all properties of the bus |
| `scan_event_bus` | 2 publishers with 2 events each, 2 clients, queues of 2, 2 recent events: all properties of the event bus |
| `scan_control` | 1 run with a task in each stage, every kind of call, a death, a stall; and 2 overlapping runs with a force-stop of all: safety |
| `scan_control_live` | 2 calls, a death, a stall: liveness |
| `scan_control_stop_lost` | finding: a stop request is overwritten |
| `parts` | the circuit breaker, the gates and the paper account, each for one caller and an operator; the agent orchestrator; the backfill; the outcome cache |
| `circuit_breaker_cooldown` | finding: an overlapping evaluation ends a cooldown |
| `safety_gates_limits` | finding: the number of positions is not limited |
| `paper_execution_close_twice` | finding: two closes credit an order twice |
| `live_order` | two callers, a stop and a take-profit, one synchronisation, one fault |
| `services` | the user-data stream, the autonomous loop and the bundle cache: safety and liveness |
| `user_stream_livelock` | finding: a silent account makes the owner reconnect for ever |

`parts` and `services` are sums.  The components in them share no variable, so
nothing is to be learnt from interleaving them: an initial choice of `part` says
which one moves, the others stay in their initial states, and each invariant is
checked in the states of its own component.  In `services` the fairness
conditions are those of the modules, guarded by `part`.

Why the bounds are enough.

- *Inference bus.*  A queue of one with three jobs is full while one job runs and
  another waits; with two workers two jobs run beside a third that is refused.
- *Event bus.*  Queues of two with up to four events overflow and let two
  deliveries race for the room that one of them made; two recent events make
  `Trim` drop some.
- *Scan control.*  A lost update takes one run and one caller, an exchange of
  contexts two runs.  `OneScenario` in `MCScanControl` splits the instance in
  two: a run alone meets every call, a death and a stall; runs that overlap meet
  a force-stop of all.  What a stop does to overlapping runs is not checked.
- *Parts.*  Two ticks of cooldown are enough for a trip to be ended early, two
  losses or timeouts to trip; seven levels of equity surround the 30 % block and
  the 5 % hysteresis; two orders, one of them manual, with five operations and
  one exception.  Two iterations, a retry, two runs and two stops let a failed
  iteration clean the tree between a stop and its check, and a stop outlive its
  run.  Two series, three candles with pages of two, and two backfills with one
  failure let ranges overlap, a page end short, and a second process find what
  the first left.  Two threads, two symbols with two outcomes each and a
  threshold of two make flushes overlap and fail between two files.
- *Live orders.*  Two callers with three calls overlap a query with a
  cancellation and with another query; three posts are one more than the two
  children, so a second post shows; one lost answer, refusal or crash, in every
  request.  Calls beyond the third, two faults in one history and more than one
  synchronisation are out of reach.
- *Services.*  Two failures lose a connection and then the attempt to replace it;
  two loop threads are one more than there should be; three intervals in a chain
  with a pool of two let a waiter hold a thread that its leader's trend needs.

`MaxEvents`, `MaxOps`, `Horizon` and the other `Max...` constants bound counters
that the code does not; each is named in its module.

Fairness.  Operating-system threads that can run do run, so a worker, a delivery
under way, a scan thread, the loop and owner threads, a pool thread and a
request being served are weakly fair.  A request to the exchange ends, with or
without an answer, since the clients set timeouts; time passes.  Nobody has to
submit, publish, subscribe, read, start a run or send a request, nothing has to
fail, and the exchange has to send nothing.
`PolledSpec` adds that the interface polls the state
(`interface/src/hooks/useShellStatusQuery.ts:81` refetches it every 10 s), which is
what reconciles a dead run.  The circuit breaker, the gates, paper execution, live
orders, the backfill, the outcome cache and the orchestrator state no liveness: their calls are
straight-line code, or wait for somebody whom nothing obliges.

## 4. Properties

- **Inference bus.**  `OnePlacePerJob`: `execute` never runs twice for a job.
  `WaitingIsServed`: a submitter in `done.wait()` has its job on a queue that
  workers read, or with a worker, also across `configure`.
  `CountersMatchLedger`: nothing is counted twice or missed although status and
  counter are written apart, and the counter of running jobs is exact until a
  refusal and never too high afterwards (`RunningCountsExecutions`).
  `TerminalIsFinal`.  `PromiseSpec`: refinement of `InferencePromise`.
  `EverySubmitReturns`.
- **Event bus.**  `EachEventOnce`, `LostOnlyByOverflow`, `OrderedPerPublisher`,
  `DeliveryEnds` (a client that stops reading blocks nobody).
- **Scan control.**  `ForceStopBoundsWork`: after a force stop a run submits at
  most the task it was submitting.  `ContextIsLive`: no finished run is
  registered, and a force stop finds the run that started last.
  `StoppedWasAsked`.  `EveryRunEnds` unless it is left paused.
  `DeadRunIsCleared` by the polling.
- **Bundle cache.**  `OneFetchAtATime`: no key is fetched by two tasks at once.
  `FetchTasksEnd`: the pool never stops, whatever fails.
- **Autonomous loop.**  `OneLoop`.  `NoLostWakeup`: a thread never sleeps on a
  queued trigger.  `TriggerIsFollowed`: a queued trigger is followed by
  `run_once()`, unless the loop stops or fails.
- **Circuit breaker.**  `OneUnresolvedEvent`, `CooldownIsServed`,
  `CacheIsAsOldAsItsStamp`: a cached answer is never better than what held when
  its time to live began.
- **Gates.**  `BlocksInDrawdownOnly`: no order passes in a drawdown of the block
  threshold, and none is refused before there was one.  `NoOrderWhileHalted`.
- **Paper execution.**  `BooksBalance`: cash plus invested capital is what was paid
  in plus what was earned; positions follow their orders
  (`PositionFollowsOrder`), and the account is never overdrawn (`NeverOverdrawn`).
- **Live orders.**  `NoChildForgotten`: no lost answer makes the service post a
  protective order twice or lose sight of it.  `ProtectionIsTrue`: a confirmed
  protection was accepted by the exchange, even when calls overlap
  (`ConfirmedWasAccepted`), and one that is closed has nothing left at work
  (`ClosedLeavesNothing`).
  `FlatCloseIsFinal`: the reconciliation closes a row only when its position is
  gone, and for good.
- **User-data stream.**  `LinkIsRenewed`: a connection that is gone or mute is
  replaced in the end, although late writes say ACTIVE over it.
- **Backfill.**  `CompleteIsStored`: whatever failed or died, all candles of a range
  that the checkpoint calls complete are in files of both kinds.
- **Outcome cache.**  `OutcomesStoredOnce`: an outcome is in the buffer, with one
  flush or in one file, unless a failed write or the end of a process lost it; the
  totals never exceed what is stored.
- **Agent orchestrator.**  `NothingLeaks`: loose work of a failed iteration does
  not reach the next.  `InterfaceStopHalts`: a run that the interface stopped
  begins no further iteration.

Several of these are claimed with an exception that the code makes necessary
(calls that overlap, a crash between a request and the save): the comment above
each property names it, and the `note` of its hazard says what happens then.

### Findings

Five runs show that a statement of the docs, an error message or the interface
does not hold of the code; `findings` in `PROJECT.json` quotes each line.

| Run | Property | What happens |
|---|---|---|
| `scan_control_stop_lost` | `StopStandsUntilServed` | the scan thread's update, which read the row before the stop, writes `stop_requested` back to False |
| `circuit_breaker_cooldown` | `CooldownIsServed` | an evaluation that read the trades before another thread's trip resolves the new event |
| `safety_gates_limits` | `PositionsWithinLimit` | `open_order` asks the limiter without the open positions |
| `paper_execution_close_twice` | `CreditedOnce` | two callers find an order open and both credit its proceeds |
| `user_stream_livelock` | `EventsAreReceived` | an account silent for longer than the stale threshold reconnects at every tick and receives nothing |

### Behaviour that no run is about

These are in the models and were met while writing them.

- A refused inference job decrements `running_jobs` although it never incremented
  it, so the counter is too low until the pool is idle
  (`runtime/runtime/inference_bus.py:268`).
- The stop flag may outlive its run and stop the next one
  (`runtime/runtime/scan_control.py:97`); a paused run whose stop was overwritten
  does not see its `force_stop_event` (`scan_runtime.py:2209`); a run row of a
  thread that died while its control row said PAUSED or IDLE stays open.
- A waiter of the bundle cache that looks between the wake and the store fetches
  the bundle a second time (`scan_runtime.py:2689`).
- Two starts of the autonomous loop that overlap leave two loops
  (`autonomous_loop.py:66`); a trigger between the read and the clear of the flag
  is followed by a timed scan only, that is by none when the loop is disabled.
- The timeout streak of the circuit breaker is counted at the old end of the
  window (`circuit_breaker_service.py:228`), and the release time it shows moves
  with each evaluation.
- A kill-switch trigger is lost when a thread is just clearing an expired one; the
  hysteresis of the drawdown gate is measured against the last drawdown, not the
  threshold; all profiles share one peak; manual orders ask no gate.
- Paper trading: an undo gives cash back but leaves the rows that were saved; the
  monitor can reopen an order that was closed meanwhile; updating a closed manual
  order reopens it; the cash of a short order moves against its profit.
- Live orders: calls that overlap save whole rows from stale copies and take each
  other's children off the row; an entry that was partly filled and then canceled
  counts as ended, so its stop is canceled though the position remains; a failed
  child counts as ended though it may be at work; a process that dies between a
  post and the save leaves a protective order that no row names.
- A late event, a keep-alive or a start writes ACTIVE over the record of a lost
  connection; only the rotation by age then renews it (`LinkIsRenewed`).
- The backfill saves its checkpoint after each series and its catalog at the end:
  after a crash the series is skipped for good and never catalogued.  A file is
  written in place and named after its candles, so a failed write may spoil the
  file of a completed range.  The last candle of a range may still be open.
- A flush of the outcome cache empties the buffer before it writes: what a failed
  write has not stored yet is gone (`outcome_cache/writer.py:110`).  Overlapping
  flushes lose increments of the total, a new process starts it at zero, and
  nothing reads the flag that `close` sets.
- The revert of the orchestrator removes a STOP file in the root of the repository
  (the one its README tells the user to create), keeps what the worker staged or
  committed, and a stop of an ended run stops the next one.  The gate strips the
  lines of `git status`, which hides unstaged changes of denied paths
  (`gate.py:218`; not modelled).

## 5. Proofs

The runs check each property on a small instance; the theorems below hold for
every value of the constants that satisfies the assumption of the module.  Every
invariant and every action property of the passing runs is the statement of a
theorem.  `PROJECT.json` lists the theorems, with the property of a run where a
theorem states one.

### From which assumptions

The bounds are natural numbers; queues, pools and pages have room for one; clocks
have a first tick.  Beyond that:

| Module | Assumption | Why the code justifies it |
|---|---|---|
| `InferenceBus`, `BundleCache`, `ScanControl`, `CircuitBreaker` | `NoJob \notin Jobs`, `Nobody \notin Intervals`, `None \notin Runs`, `Api \notin Evaluators`, runs and callers differ | Python's `None` is no job, interval or run; the operator's thread is none of the evaluating ones |
| `ScanControl`, `LiveOrder`, `OutcomeCache`, `PaperExecution` | finitely many runs, callers, symbols and orders | a history creates finitely many |
| `CircuitBreaker` | `InstanceOf` gives each evaluator one of the instances | each thread reaches the service through one object |
| `SafetyGates` | `BlockAt` in 1..1000, `Hysteresis` in 0..1000 | permille of the peak |
| `PaperExecution` | prices and deposits are positive, `Orders # {}` | sizing gives no quantity at a price of zero (`paper_execution.py:1111`, `:1136`) and a deposit of nothing is rejected (`:1181`); without orders there is no account to balance |
| `LiveOrder` | a stop is among the children | `_validate_payload` rejects a submission without one |
| `UserStream` | `0 < KeepaliveEvery < RotateAfter <= StaleAfter` | 1500, 3000 and 3300 seconds |

Five theorems have a hypothesis of their own, since the code does not keep the
property without it.

- `OneEventAtATime`, `CooldownHolds`: one evaluator.  The run
  `circuit_breaker_cooldown` is the counterexample with two.
- `DrawdownIsBlocked`: one check at a time, for all profiles.  The peak and the
  state are written without a lock, so a second check may judge by an old peak.
  `DrawdownGateHolds` has one profile as well: the profiles share one peak, so an
  account may be refused for the drawdown of another.
- `PaperCorrect`, `BooksHold`: one thread.  `paper_execution_close_twice` is the
  counterexample with two.

`LiveOrder`, `AutonomousLoop` and `OutcomeCache` need no such hypothesis: where a
property is claimed only for calls that do not overlap, it says so itself, with
a variable that records the overlap (`upset`, `crossed`).

### Theorems and inductive invariants

| Component | Theorem | States |
|---|---|---|
| Inference bus | `TypeCorrect`, `OnePlace`, `Served`, `TerminalFinal` | `TypeOK`, `OnePlacePerJob`, `WaitingIsServed`, `TerminalIsFinal` |
| | `CountersCorrect` | `CountersMatchLedger` |
| | `KeepsPromise` | `PromiseSpec`, the refinement |
| | `PlacementCorrect` | the inductive invariant `Placement` |
| Event bus | `BusTypeCorrect`, `EachEventOnceHolds`, `LostOnlyByOverflowHolds`, `OrderedHolds` | `TypeOK`, `EachEventOnce`, `LostOnlyByOverflow`, `OrderedPerPublisher` |
| | `BusCorrect` | the inductive invariant `BusInv` |
| Scan control | `ScanTypeCorrect`, `ForceStopBounds`, `ContextHolds`, `StoppedHolds` | `TypeOK`, `ForceStopBoundsWork`, `ContextIsLive`, `StoppedWasAsked` |
| | `ScanCorrect` | the inductive invariant `ScanInv` |
| Bundle cache | `OneFetch`; `FlightsAgree` | `OneFetchAtATime`; the inductive invariant `FlightInv` |
| Autonomous loop | `OneLoopAtATime`, `NoWakeupLost`, `LoopTypeCorrect` | `OneLoop`, `NoLostWakeup`, the types |
| | `LoopCorrect` | the inductive invariant `LoopInv` |
| User-data stream | `StreamTypeCorrect` | `StreamTypeOK`: among other things, a refresh that was begun stays due |
| Circuit breaker | `CacheIsHonest`, `OneEventAtATime`, `CooldownHolds` | `CacheIsAsOldAsItsStamp`, `OneUnresolvedEvent`, `CooldownIsServed` |
| | `BreakerCorrect` | the inductive invariant `CacheInv` |
| Gates | `HaltHolds`, `DrawdownIsBlocked`, `DrawdownGateHolds` | `NoOrderWhileHalted`, `PassesNoDrawdown`, `BlocksInDrawdownOnly` |
| | `HaltCorrect` | the inductive invariant `HaltInv` |
| Paper execution | `PaperTypeCorrect`, `BooksHold` | `PaperTypeOK`, `BooksBalance` |
| | `PaperCorrect` | the inductive invariant `PaperInv` |
| Live orders | `LiveTypeCorrect`, `ConfirmedIsTrue`, `ProtectionHolds` | `LiveTypeOK`, `ConfirmedWasAccepted`, `ProtectionIsTrue` |
| | `FlatCloseHolds`, `ChildrenKeepTheirNames` | `FlatCloseIsFinal`, `NoChildForgotten` |
| | `LiveCorrect` | the inductive invariant `LiveTrue` |
| Orchestrator | `RevertIsComplete`, `InterfaceStopsRun` | `NothingLeaks`, `InterfaceStopHalts` |
| | `OrchestratorCorrect` | the inductive invariant `OrchestratorInv` |
| Backfill | `MarkedIsStored`; `BackfillCorrect` | `CompleteIsStored`; the inductive invariant `BackfillInv` |
| Outcome cache | `StoredOnce`; `OutcomeCorrect` | `OutcomesStoredOnce`; the inductive invariant `OutcomeInv` |
| Sums | `ServicesTypeCorrect`, `PartsTypeCorrect` | `TypeOK` of `MCServices` and of `MCParts` |

Few of the properties are inductive as they stand.  What was missing, and why:

- *Inference bus.*  A job could be taken twice if the queue held the job of a
  worker; whether it can depends on where the submitter is.  `Placement` has four
  parts: the types; `QueueInv` (no duplicates, empty while there is no worker,
  its jobs QUEUED and unanswered); `WorkerInv` (a busy worker holds one job that
  nobody else has, with the status and failure that its place implies);
  `SubmitterInv` (what each place in `submit` implies).  For the refinement,
  `VerdictIsStatus` shows that what `submit` returns or raises is what the ledger
  says; `PromiseStep` maps each action to a step of `InferencePromise` or to a
  stutter.  The counters need two more invariants over `Placement`: `StatsInv`
  (each counter is the number of jobs with that status that are past the section
  that counts them) and `RunningInv`; a step either leaves that set alone or adds
  the one job it counts (`CountedStays`, `CountedGrows`).
- *Event bus.*  The promises speak of queues and of what was read; `BusInv` says
  the same of the deliveries under way: what a thread still has to deliver was
  not delivered before (`TodoInv`, `GotInv`), comes later in the order of its
  publisher, and live events are younger than replayed ones (`NumbersInv`).
- *Scan control.*  A property of one step of `run_scan` depends on what each
  script may still write.  `ScriptType` ties a phase to the call it is in,
  `WorkInv` counts the task under way, `AskedInv` says that no row, no stale copy
  and no script says stop before somebody asked.
- *Bundle cache.*  `SingleFlight`: the map of flights names just the tasks that
  fetch, and whoever waits has one of them to wait for.
- *Autonomous loop.*  `LoneLoop`: a living thread is the latest one, and a start
  finds none.  `WakeFollows`: a flag that a thread has passed has the wake event
  with it.
- *User-data stream.*  `StreamInv` adds the types of the copy that a close keeps.
- *Circuit breaker.*  `LateReading`: an evaluation that began after the trip has
  read what holds and decides to open.  With one evaluator, `Knows`: the event it
  has read is the one that is unresolved.
- *Gates.*  `SwitchIsOn` and `SureIsStopped` say where a call that must be refused
  can be; `PeakIsHighest` relates each half of `update_equity` to the true peak,
  `BlockedIsHurt` the block to an account's own drawdown.
- *Paper execution.*  `PaperInv`: the rows are ones that an open or a close saved
  (`RowsTrue`), what the call has computed is what its order asks for (`JobTrue`),
  the cash and the invested capital differ from the books by what is on its way
  (`MoneyTrue`, `OnItsWay`), and only the order being saved is ahead of its
  position (`PositionsTrue`).
- *Live orders.*  `LiveTrue` relates the row and the stale copy of every call to
  the exchange by facts that cannot be undone there (an id was posted, an entry
  filled, a child is no longer new), which is why copies may be saved late.
  `ConfirmedInv`, `ClosedInv`, `FlatInv` and `NamesInv` add to it what each
  property needs.
- *Orchestrator.*  `TreeIsIndex`, `NothingUntracked` and `StopIsFiled` relate the
  tree and the STOP files to the place of the controller.
- *Backfill.*  `PagesAreWhole` and `WrittenSoFar`: what has been fetched of a
  range has no gap, and each kind is written before the range is marked.
- *Outcome cache.*  `HandsHeld` and `OnePlace` locate each outcome; `TotalsAgree`
  bounds the two counts by the number of outcomes counted.

`TradingProofs` is checked for an account with any number of orders, so it needs
sums and filtered lists of any length.  `Keep` and `Total` are recursive
functions, and the library's induction theorems cannot be instantiated here;
`ListFacts` uses the least number of a set instead (`LeastOf`): if one prefix of
a list were bad there would be a first bad one.

### What stays with TLC

Liveness (`EverySubmitReturns`, `DeliveryEnds`, `EveryRunEnds`,
`DeadRunIsCleared`, `LinkIsRenewed`, `TriggerIsFollowed`, `FetchTasksEnd`), since
TLAPS does not prove properties from fairness here, and the findings, which are
counterexamples.

## 6. Not modelled

Each component that is left out is listed in `PROJECT.json` with its reason.

- The bulk of the repository, about three quarters of its implementation lines,
  is the research code of `alphaforge/`, `simulation/`, the learning and evaluation
  parts of `v7/`, the scripts of `cli/` and the interface: features, labels, training, walk
  forward, statistics and reports over floating-point arrays.  It is sequential,
  keeps no state between calls and has no order of steps that could go wrong;
  what it computes is arithmetic over data that TLC cannot enumerate and that a
  model would only repeat.
- The lifecycle, promotion, rollback and shadow tables of `v7/` and the model
  lifecycle of `alphaforge/` keep state, but in memory and for one caller; a model
  would restate their transition tables.  `get_last_known_good`
  (`v7/rollback_manager.py:130`) may name the version that was rolled back.
- The HTTP routes parse a request and call the services above; the UI and the CLI
  are clients; the mapping to SQL is taken as one atomic step per repository
  call; analytics services only read.
- Within modelled components: event payloads, timings, wording, progress numbers,
  the arithmetic of the circuit breaker's other rules, fees, sizing, the close
  rules of the monitor, `reconcile_legacy_open_orders`, policy checks of profiles,
  quantities and filters of live orders, their amendment and recovery, what an
  event of the user-data stream does to orders and positions, funding rates, the
  rate limiter, the conversion of tables into outcomes and the reader of the outcome
  cache, the checks of the orchestrator's gate and its evidence files.

## 7. Plan

1. Proofs: the abstract specifications below, and the exceptions of section 5
   stated as refinements (an account whose calls do not overlap is an atomic
   one).
2. Abstract specifications worth stating: a breaker with atomic evaluations; an
   account with atomic opens and closes, which `PaperExecution` with one caller
   should refine; a cache that fills each key; a store of outcomes.
3. Composition: `SafetyGates` with `PaperExecution` behind one `open_order`; the
   user-data stream with `LiveOrder`.
