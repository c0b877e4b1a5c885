# Formal models of AnatoliaX Auto Trader Pro

TLA+ modules for the parts of this repository that keep state under
concurrency, failure and reordering, the TLC configurations that check them on
small instances, and proofs, checked by TLAPS, that the properties that matter
most hold for every value of the constants.

Paths such as `execution/order_state_machine.py` are below `src/PYTHON/`.

## 1. The system

The repository is a trading platform: about 80,000 lines of Python in
`PYTHON/`, with JavaScript and PowerShell tooling, deployment files and rule
documents around it. `docs/ARCHITECTURE.md` names the layers: clients (CLI,
dashboard, Telegram), an API gateway, the core (signal, risk and strategy
agents, execution engine), the event bus and the data layer. Much of the code
is numerics on price series. The parts with a protocol to get wrong are these:

| Component | State it keeps | Operations | What is hard | Correct when |
|---|---|---|---|---|
| Order state machine (`execution/order_state_machine.py`) | state, fill, age, retry count and key of each order; transition log; key set | create_order, transition, retry, evict_stale, failover, reconcile | no lock; retry sleeps between reading and spending its budget; late, repeated and lost broker reports; the sweep goes past the matrix; failover records nothing | FILLED is final and true, fills are not forgotten, the budget holds, an order is executed once |
| Event store and bus (`common/event_sourcing.py`) | SQLite tables of events and checkpoints, subscribers, the live state behind a subscriber | append, checkpoint, replay, publish, publish_batch | stamps are given at construction and order the log; crash between commit and callbacks; checkpoints hide what is stamped before them | replay gives the live state, at every moment |
| Messaging backbone (`infrastructure/messaging_backbone.py`) | shared table of idempotency keys; per process: queues, dead letters, counters, subscribers | publish, subscribe, cleanup | check, record and deliver are three steps; processes race; errors are swallowed; callbacks raise; crashes | no unpaid duplicate, no starved subscriber, failures on record as far as the record reaches |
| Asynchronous event bus (`common/async_event_bus.py`) | bounded asyncio queue, consumer task, subscribers | publish, subscribe, start, stop, reset, wait_until_empty | cancellation inside a handler, several starts, malformed events, full queue | delivered at most once, in order, urgent ones first, eventually; stop ends everything |
| Pre-trade gate (`risk/pre_trade_engine.py`, `risk/kill_switch.py`, `common/message_bus.py`) | order times, positions, kill switch latch, peak | _on_order, _on_position_update, update, reset | nested synchronous publications between check and verdict; stale positions | one verdict per order, rate limit, no acceptance after a trip |
| Execution engine, order managers (`execution/engine.py`, `order_manager*.py`) | orders, pending partials | place, submit, cancel, reconcile, sweeps | retry after a lost answer, answers that leave the status out, sweeps and second submissions against late fills, cancel during backoff | one order per submission, records are true of the broker, final states stay |
| Contingency orders (`execution/contingency_manager.py`) | OCO, bracket, iceberg, trailing records | submit_*, on_fill, update_trailing | fills of both legs, partial and repeated fills of a slice, calls that name the wrong side | one leg, one slice shown, a stop that never gives back |
| Gold mining strategy (`strategy/gold_mining/`, `risk/account.py`, `risk/kill_switch.py`) | cash, positions, tier, streaks, peak, latch | process_symbol, report_trade_result, manual_exit, auto_select_tier, to_dict and from_dict | streaks against changes of tier, one peak against a whole history, a restart that forgets | money conserved, fees charged, the switch exact and kept over a restart, tiers earned |
| Positions (`execution/position_lifecycle.py`, `risk/position.py`) | sizes, stops, take profits | open, update_price, pyramid, close, fill | gaps through several levels, over-closing | size conserved, stop only tightens |
| Order books (`execution/order_book.py`, `hft_pro/feed/book_reconstructor.py`) | levels, orders by id | add, modify, cancel, execute, snapshot | repeated ids, truncation | level total equals the sum of its orders |
| Ring buffers (`hft_pro/core/ring_buffer.py`, `infrastructure/shm_ring_buffer.py`) | head, tail, mapped file and its position | push, pop, write, read | both sides rewrite the whole header; wrap-around, exactly full | bounded FIFO |
| Crash recovery, backups (`execution/crash_recovery.py`, `infrastructure/backup_recovery.py`) | checkpoint files | set, checkpoint, prune, recover, self_heal | torn files, names with a resolution of one second | the newest whole state comes back |
| Supervision (`infrastructure/self_healing.py`, `scheduler/task_scheduler.py`, `broker/protocols/fix_session.py`) | service and job records, sequence numbers | check, restart, run, heartbeat | two loops after two starts, failure counters | one loop, restarts bounded |

How they interact: `strategy/institutional_flow_strategy.py` owns one order
state machine, one event store with its bus, and one messaging backbone, and
calls them one after the other for every signal (lines 275-307). The risk gate
and the event-driven backtest share a `MessageBus`. The gold mining
strategy owns an `Account` and a `KillSwitch`; the gate has a `KillSwitch` of
its own. The three order managers and the contingency manager are alternatives
for talking to a broker and know nothing of each other. `MultiMarketPool`
publishes market ticks on an `AsyncEventBus`. Everything else is direct calls.
`PROJECT.json` lists every part with its status, and under `hazards` what in
this code a test would hardly reach.

## 2. What is modelled

| Module | Models | Composes |
|---|---|---|
| `OrderStateMachine` | the order life cycle | |
| `OrderRouting` | that machine between a client and its brokers | extends `OrderStateMachine` |
| `AppendOnlyLog` | what an event log promises (abstract) | |
| `EventStore` | event store, event bus, crashes | implements `AppendOnlyLog` |
| `MessagingBackbone` | idempotent publication by several processes | |
| `AsyncEventBus` | queue, consumer tasks, handlers | |
| `Account` | cash account and positions | |
| `KillSwitch` | the latch on drawdown, daily loss and losing streak | |
| `GoldMining` | the strategy that climbs a ladder of tiers | extends `Account`, `KillSwitch` |
| `Broker` | a broker, as the code uses one (external) | |
| `OrderManagers` | `OrderManager`, `OrderManagerV2`, `UnifiedExecutionEngine` (live mode) | extends `Broker` |
| `Contingency` | bracket, OCO, iceberg, trailing stop | extends `Broker` |
| `LiveExecution` | one of these managers with its broker | extends `OrderManagers`, `Contingency` |
| `MessageBus` | synchronous publication as a stack of calls | |
| `PreTradeRisk` | the gate with its limits | extends `MessageBus`, `KillSwitch` |
| `RiskGate` | gate, simulated venue and an application on the bus | extends `PreTradeRisk` |
| `MC*` | constants for TLC that are records or sequences | extend what they are named after |
| `*Proofs` | theorems about the module they are named after; `OrderRoutingProofs` holds those of `OrderStateMachine` too | |
| `FoldLemmas` | what the folds of the models compute: sums over sets and sequences, filters, counts | |

Every module starts with what it leaves out. Operators named in a comment as
*mutants* are plausible bugs: each property of a passing run is violated when
the mutant takes the place of the definition that follows it. Below, *violated*
marks a property the code contradicts in a run of section 3, *false* one that
the code contradicts too, but that no run checks (section 3 quotes the words it
is taken from).

### OrderStateMachine

One action per method, except `retry`: `RetryBegin` is the code up to
`time.sleep` (lines 131-138), `RetryEnd` the rest, and any number of `Callers`
may be in between. The other methods wait for nothing and are one step each.
That is coarser than Python: the object has no lock, and a thread may lose the
processor between the test and the write of `transition` (109, 119) or of
`evict_stale` (148, 149). What the models say, they say of interleavings of
whole calls and sleeps. `RetryEnd` raises the
count of the record that was read before the sleep (`seen` is the key of that
record) but sends its event to whatever the id names by now, which is another
record if `create_order` overwrote it. `transition` is total: a pair outside
the matrix keeps the state, is logged, and still stores a fill payload if the
state it stays in is a filled one. `EvictStale` writes `EXPIRED` past the
matrix and the log. Prices are left out.

* `FilledIsFinal`: only `create_order`, with a new key, ends FILLED.
* `RetryBudget`: `retry_count` plus the callers still asleep on the order is at
  most `max_retries + callers - 1`. The code's `retry_count >= max_retries` test
  is not a bound of `max_retries`, because the test comes before the sleep and the
  increment after it; this is the bound it does give, and it is reached.
* `LogExplainsState`: the newest entry of the log ends in the state of the
  order, but for what `create_order` and `evict_stale` write without logging.

### OrderRouting

The machine is a library: its events come from a client and from brokers that
are not in the repository. `OrderRouting` supplies both. The client creates an
id once, submits a pending order, cancels, retries, resubmits; a request may
or may not arrive; each request that arrives is a copy a broker works on; the
broker executes it in steps and sends reports that are delivered in any order,
again, or not at all. `failover` is the machine's own: it gives a copy to the
backup in any state and records nothing.

* `NoPhantomFill`: FILLED means that one copy was executed in full;
  `filled_size` never exceeds what some copy has executed. It bounds the size
  from above only: a late report of a part on a FILLED order does overwrite
  `filled_size` with a smaller number (line 112), and no property forbids it.
* `FillsAreRemembered`: if a copy was executed in full and no report of it is on its
  way or lost, and the order was neither given up nor handed over, it is FILLED.
* `ExecutedOnce` (false): an order that never came back to PENDING, so that it
  was submitted once under one key, is executed in full once. `failover` breaks it.

### EventStore and AppendOnlyLog

An event is stamped when it is built (`Build`, line 54), committed to the table
by `append` (`Store`, 170-204), then shown to the subscriber that keeps the
live state (`Notify`, 439-460); a list given to `publish_batch` goes through
these steps one event at a time. `Checkpoint` saves the live state under the
timestamp of the event published last, as `tests/test_event_sourcing.py` does.
`Crash` may come between any two steps; the next process starts from `replay`.
A state is the number of times each event was applied: whatever `apply_fn`
computes, it is wrong if an event is missing or counted twice.

* `ReplayMatchesLive`: replay and the live state differ by exactly the event
  that is committed and about to be shown.
* `CheckpointsAreTrue`: the validation in the header of the file (line 12). The
  clock of the passing run moves between two events (`ClockSteps` is 1 and 2);
  two events of one microsecond, which the strict comparison of line 226 would
  confuse, are outside of it and of the theorems.
* `BatchesAreAtomic` (violated): a list is published as a whole or not at all.
* `LogIsChronological`: the order replay uses is the order of publication.
* `ReplayIsAppendOnly`: with `view <- Replayed`, the store implements
  `AppendOnlyLog`: crashes and checkpoints are invisible.

### MessagingBackbone

Each process has a backbone of its own; the key table is shared and survives.
`Check` is `has()`, `Record` is `add()` with the building of the message,
`CheckRaises` and `RecordRaises` are their swallowed errors, then one step per
subscriber callback, which returns or raises. `Cleanup` forgets old keys.
The queue and the dead letters are represented by their lengths; the dead
letters are a deque of at most 10000 (line 230), which drops its oldest entry
for the next one (`MaxDeadLetters`, `Appended`). With
`db_path=":memory:"`, as `institutional_flow_strategy.py:195` sets it, every
connection opens an empty database, and each publication takes the
`CheckRaises` path: nothing is deduplicated.

* `DeliveriesArePaidFor`: a key reaches a subscriber at most once per process
  and round of cleanup, plus once per swallowed error.
* `EverySubscriberIsCalled`: each message reaches each subscriber exactly once,
  whoever raises, unless a crash cuts the loop.
* `FailuresLeaveATrace`: every message and every failed callback puts one entry
  into the queue or the dead letters, and nothing else does; entries are missing
  only while the dead letters are full.
* `ExactlyOnce` (violated): a key that is recorded and not being published has
  reached each subscriber once.
* `FailedDeliveriesAreDead` (false): a message whose delivery failed is a dead
  letter when its publication is over. The file speaks of "after N retries"
  (line 10); nothing touches the message after that moment, so waiting longer
  does not help it.

### AsyncEventBus

One asyncio loop: an action is the code between two suspension points. The
consumer task is suspended in `wait_for(queue.get())` and inside a handler.
`start` makes a new task whatever is there; `stop` clears `_running` and
cancels the newest task. A cancellation that meets a handler goes past
`except Exception`: the event is lost without `task_done()`. One that meets a
`get()` that has already succeeded is swallowed by the `wait_for` of Python
3.11, one of the versions the project's CI uses, so `Take` is possible with a
cancellation pending. An event without an `event_type` kills the consumer.

* `JoinMeansHandled`: the open count is zero only if everything accepted was
  handled or thrown away by `reset`; `wait_until_empty` tells the truth.
* `AtMostOnce`: no handler sees an event twice.
* `InOrder`: any number of consumers take the events of one priority in the order in
  which they were accepted; while `start` does not meet a living consumer, they are
  also handled one at a time. It leaves open which of two priorities comes first.
* `EventuallyHandled`, `StopEndsConsumers`: liveness, see section 4.
  `EventuallyHandled` exempts a bus whose consumer was killed by an event
  without a type, which is what the code does with one; that this happens is
  in the model and held against nothing.
* `UrgentFirst` (false): the queue is a priority queue, as lines 2 and 16 say.
  `publish` stores the priority and the queue is first in, first out (22, 39, 43).

### GoldMining (Account, KillSwitch)

One action per public method of `GoldMiningOrchestrator`; there are no threads,
and `run_scan` is a sequence of `process_symbol`. A position is its quantity
and its cost, so that money stays an integer. `SettleTrade` is the whole of
what `report_trade_result` and `manual_exit` share: the sale, the kill switch,
the score, the ladder, in the order of lines 438-479. `Restart` is
`from_dict(to_dict())`: cash, profit and progress come back, positions do not,
and the kill switch starts anew whatever `kill_switch_alive` said.

* `MoneyIsConserved`: the books balance but for the fees. Cash, the cost of open
  positions and that of the positions a restart forgot are no less than the initial
  cash and the realized profit, and no more than these and the commissions of
  exits. The history variables `charged` and `forgotten` name the two terms. With
  the fees taken from the cash, as the rules want it, the lower end would hold; the
  code takes none and is at the upper end, which is what the proof shows.
* `KillSwitchIsExact`: the switch remembers one peak and one streak and returns
  early; it has tripped exactly when the trades closed by this process breach a
  limit, by the definition over all pairs and windows of trades. It judges by
  the numbers the switch is told.
* `ProgressMatchesHistory`: the record the ladder is judged by is the one the
  closed trades give: streaks since the last change of tier, totals and peak
  over everything.
* `TierMovesAreEarned`: after a trade the tier moves by one rung and for a
  reason that can be read off the trades.
* Four properties state the rules and are false: `FeesAreCollected` (half of
  the fee at entry, half at exit, `KURALLAR/GOLD_MINING.md` 6.4),
  `StopOutlivesRestart` (a tripped switch stops all orders, of the restored
  strategy too), `TripsAreLosses` (the switch stands for losses, not for money
  that is invested), `S1FallsByDrawdown` (the second tier does not fall back for a
  streak of losses, section 2 of the rules).

Seen while modelling, and held against nothing: every signal is bought, SELL too
(`orchestrator.py:400`); the limit on a position is judged for the new fill
alone (`account.py:41`). `scheduler/anatoliax_jobs.py:61` and
`anatoliax_grpc/server.py:75` call the kill switch with keywords it does not have.

### LiveExecution (Broker, OrderManagers, Contingency)

The broker works on copies of an order: it accepts, executes in steps, refuses
and cancels whenever it likes. `calls[t]` says where thread `t` is in
`submit()`: `waiting` for the broker, `arrived` when the request has reached it,
in `backoff`, or `idle`. No manager takes a lock, so everything else runs in
other threads in any of these states. The parts that are easily overlooked:

* *Answers* (`Recorded`, `RecordedSize`) need not name a status or a size. v1 and v2
  take an answer without a status for filled (`order_manager.py:41`,
  `order_manager_v2.py:68`); `silent` keeps the orders this happened to. The
  unified engine takes one that is neither filled nor partial for rejected,
  and puts in the order's size where filled comes without one (`engine.py:161`).
* *A second `submit()`* of an id puts a new record in the place of the old one
  (`order_manager.py:36`, `order_manager_v2.py:57`), from another thread too,
  while answers, timers and sweeps of the first are outstanding. The unified
  engine makes its ids itself.
* *Listeners*: `on_event` of v2 may raise after the answer was recorded, inside
  the `try` (`order_manager_v2.py:78`, `:83`): the attempt counts as failed and the
  order is sent again (`ListenerRaises`). `Raise` is every other exception: a
  request or an answer that was lost.
* *The stale sweep* reads the status (`JudgeStale`, line 130), writes STALE
  (`MarkStale`, 132) and asks the broker (`CancelStale`, 136) in three steps. A
  record that was replaced in between is written where nobody reads it, and
  the cancellation goes to the id. Sweeps may find a timer expired at any time.
* *Reconciliation* asks (`Ask`) and applies what it was told later (`Reconcile`).
  One answer per order is on its way at a time; from the answer on, `reconcile`,
  `check_partial_fills` and `cancel` are one step each.

The contingency manager keeps brackets, OCO pairs, icebergs and trailing stops
and is told of fills by `on_fill`. Reports come late, in pieces, or twice;
`on_broker_submit` may raise after the request arrived or before.
`update_trailing` takes the side from its caller, TRUE if he does not say
(`contingency_manager.py:174`), and so does the model, whatever the bracket's
side. Orders of different ids share nothing but a counter, so a session follows
one client: one of the three managers, a bracket, an OCO, an iceberg or a
trailing stop.

* `NoPhantomFill`: an order is FILLED only if a copy was executed in full, unless
  its last answer named no status; a filled size is one some copy has executed.
* `FinalStatusHolds`: a final status is left only by another `submit()` of the id
  (v1 and v2), by `cancel` (v2, which looks at no state) and by a cancellation of
  a rejected order (unified), once it is `Settled`: no call, answer, timer or
  sweep that has read the record is outstanding. Each premise is needed, since the
  code does overwrite FILLED from each of them.
* `SubmitReturns`: the retry loops end (section 4).
* `OneOrderPerSubmit` (violated): one call of `submit()` of v1 brings one order to
  the broker, as the idempotency keys would give that the class claims.
* `OneSliceShown`: an iceberg has one slice at work and sends none twice, if
  every report is for a whole slice and comes once. `OnlyDisplayShown` (false)
  is what `order_types.py:111` says without that premise: a fill of a part counts
  as a filled slice (`contingency_manager.py:117`).
* `FillsAreBacked`: the fills the manager counts on were executed: a bracket is
  active for no more than was, an OCO is FILLED only if its other leg has
  executed something, an iceberg is complete when all of it was executed.
* `OtherLegCancelled` (false): the leg that is noted as cancelled no longer
  works at the broker.
* `StopFollowsBest`: a trailing stop stands where some price it was told puts it, or
  where it began, and never gives back: once activated it is where the best price
  puts it, before that at least where it began. That is, as long as its callers name
  one side. Which side is right the manager cannot know; one call with the wrong
  one makes the stop give back.
* `TrailsOnlyAfterActivation` (false): `activation_price` means "Trail only after
  this price" (`order_types.py:79`); it is looked at after the stop has moved.

Seen while modelling, modelled as the code has it: the
first slice of an iceberg is sent before the iceberg is recorded, so that an
exception loses it; an order the broker has taken and still works on is
recorded as rejected by `engine.py:167`; a cancelled order is submitted again
when the backoff of its `submit()` ends; the request that advances an iceberg
carries no size.

### RiskGate (MessageBus, PreTradeRisk, KillSwitch)

`MessageBus.publish` calls its subscribers one after the other, and a
subscriber may publish in its turn; the calls in progress are a stack of
frames. `_on_order` checks, and then publishes its two verdicts one inside of
the other calls (`pre_trade_engine.py:118-134`): `Answers` puts both on the
stack, and whatever subscribers do to the first comes before the second. An
application may, from inside of any call, submit orders, report positions,
tell the kill switch of a trade, reset or disarm it, stop the gate or start it
again. The venue is the handler of accepted orders of
`backtest/event_engine.py`. The list of subscribers is the live one: leaving
it in the middle of a delivery shifts the others.

* `RateIsKept`: in any minute no more orders are approved than the limit allows.
* `OneVerdictEach`: an order gets one risk verdict and one order verdict that
  agree, in this order, once its publication is over, unless the gate was
  stopped or started in the middle of it.
* `TripStopsOrders`: once the switch has tripped, only what was approved before
  is still accepted.

The limit is compared with `datetime.now()`, which is taken to be monotone. A
list of positions that is empty is no update, and sales are judged like
purchases (`pre_trade_engine.py:61`, `:79`): the model has both, and nothing in
the repository says otherwise. `start()` is called only by who is not subscribed; a
second one would judge each order twice.

`TripStopsOrders` is weaker than `kill_switch.py:10`, which speaks of all orders: an order whose approval
is being published when the switch trips is still accepted, as in the code. A check that
raises (`exposure_limiter.py:29` reads a key a position may lack) is swallowed by
`message_bus.py:58` and leaves the order without any verdict; the positions of
the model are well formed, so `OneVerdictEach` says nothing of that.

## 3. Runs, bounds, and what they show

| Run | Instance | Shows |
|---|---|---|
| `order_life_cycle` | 1 id, 2 callers, 1 retry, 2 creations, 4 ticks | budget overrun by one is reached and not exceeded; re-creation during a sleep happens |
| `order_routing` | 1 order of 2 lots, 2 copies, 1 retry, 1 resubmission | partial fills, double copies, late and repeated reports, expiry against fill |
| `event_store` | 1 writer, 4 events, lists up to 3, clock steps 1 and 2 | batches cut by crashes, several checkpoints, replay after replay |
| `event_store_two_writers` | 2 writers, 3 events | violation of `CheckpointsAreTrue` |
| `event_store_batch` | 1 writer, 3 events, lists of 2 | violation of `BatchesAreAtomic` |
| `messaging` | 2 processes, 1 key, 2 subscribers, 2 retries, 2 dead letters, retention 0 | races, cleanup and republication, dead letters that push out older ones |
| `messaging_exactly_once` | 2 processes, 1 key | violation of `ExactlyOnce` |
| `async_event_bus` | 3 events (the second malformed, the third urgent), 2 handlers, queue of 2, 2 starts | drops, orphans, lost events, both liveness properties |
| `gold_mining` | 2 symbols, 3 tiers, prices 1 and 2, 10 of cash, 3 closed trades, 1 restart | every limit of the switch trips, tiers go up and down, a restart with positions open |
| `live_execution` | each manager with 1 order of 2 lots, 1 thread, 1 retry; each kind of contingency order with 3 slices, 3 prices, 1 repeated report; 2 copies per id | lost answers, answers without status or size, a second submission, also between the test and the write of a sweep, raising listeners, late snapshots against partial fills; late, partial and repeated reports, requests that raise, both sides of a stop |
| `order_managers_keys` | v1, 1 retry | violation of `OneOrderPerSubmit` |
| `risk_gate` | 2 orders, 1 per minute, a minute of 2 ticks, 3 portfolios, 2 acts of the application | nested orders, a trip between approval and acceptance, stop and start inside a delivery |

Why the bounds are enough. Orders, keys and topics do not interact inside
their modules, so one id or key shows everything an id can go through; two
threads, processes or consumers are the fewest that race, and a third adds
more of the same; two lots are the fewest with a partial fill; two copies are the fewest
that disagree; a list of three events has a first, a middle and a last. Three
closed trades are one more than the streaks of two, so that a window can slide,
and three tiers have one with both neighbours. One retry is enough to send an
order again and to give up; two copies of an id let two be at
work, and what is sent beyond them is lost and raises, so that the loops still
go to their end; contingency orders send an id at most once while
reports are whole and come once. `live_execution` has one thread, which may
submit its id again while sweeps and answers of the first submission are
outstanding; two calls of `submit()` at once are left to the theorems
(`LiveNoPhantomFill`, `FinalStatusLasts`, `SubmitWindsDown`), which hold for any
number of threads. Two dead letters are fewer than the failures of
the run, so that the oldest is dropped. Three slices
let an iceberg send one again while two are at work. Two ticks of the clock with a minute
of two show an attempt just inside and just outside of the window. Two orders
are interchangeable in `risk_gate`, which is run with their symmetry. Where
TLC agrees, the theorems of section 5 remove the bounds. Bounds on counters
are constants named `Max...` and stand in guards.

`CHECK_DEADLOCK FALSE` is set where the bounds, not the code, end the
behaviour: the order modules (no more keys and time), the asynchronous bus (no
more events and tasks), the gold mining strategy (no more trades), the live
sessions (the orders of a session are done) and the gate (no more orders, acts and
time).

The violations are disagreements between the code and its own words, and are
listed under `findings` of `PROJECT.json`:

* *Two writers* (`event_sourcing.py:12`, "Replay events from t=0, verify S(t)
  matches live state at checkpoint times"): the event stamped first is stored
  last; a checkpoint in between is dated after it and does not contain it.
* *Batches* (`event_sourcing.py:463`, "Publish multiple events atomically."): a crash or a
  raising callback leaves half a list.
* *Exactly once* (`messaging_backbone.py:2` and `:220`): a crash between the
  key and the delivery makes a message count as processed that never was.
* *Keys* (`order_manager.py:13`, "idempotency key destegi"): a lost answer becomes a
  second order at the broker.

Ten more were met. They have no run of their own; each is stated in its module, and
TLC finds it violated when it is put into the `.cfg` of the passing run of that module
(`TripsAreLosses` with `MaxDrawdownPct = 20`). The passing properties are worded so that
they hold of the code and do not contradict these words:

* `FailedDeliveriesAreDead` (`messaging_backbone.py:10`, "Dead letter queue after N retries with
  exponential backoff."): a failed callback is not called again, and the queue
  the copy goes to has no reader.
* `ExecutedOnce` (`order_state_machine.py:8` and `:42`, "failover, idempotency"): an order
  that was submitted once is handed to the backup while the first broker still
  works on it, and both execute it.
* `UrgentFirst` (`async_event_bus.py:2` and `:16`, "priority queue"): an urgent event is taken after the
  ordinary ones that wait.
* `FeesAreCollected` (`KURALLAR/GOLD_MINING.md:134`, "Girişte yarısı, çıkışta yarısı
  tahsil edilir"; `orchestrator.py:398`, "charge half on entry"): the half due at entry
  is charged nowhere, the half due at exit never leaves the cash.
* `StopOutlivesRestart` (`kill_switch.py:10`, "tum emirleri durdurur"): `to_dict` saves
  `kill_switch_alive`, `from_dict` does not read it.
* `TripsAreLosses` (`KURALLAR/GOLD_MINING.md:127`, "Max drawdown %10, günlük kayıp %5,
  üst üste 5 zarar"): the switch is told an equity without
  what is invested, and trips although no trade lost.
* `S1FallsByDrawdown` (`KURALLAR/GOLD_MINING.md:43`, "tier M1 ve üstü"): S1 falls back for a
  streak of losses too.
* `OnlyDisplayShown` (`order_types.py:111`, "Only 'display_qty' shown at a time"): a partial
  fill sends the next slice.
* `OtherLegCancelled` (`order_types.py:56`, `contingency_manager.py:109`, "Cancel the other leg"):
  nothing is sent that cancels it.
* `TrailsOnlyAfterActivation` (`order_types.py:79`, "Trail only after this price"): the stop moves at prices that never reached it.

## 4. Fairness and liveness

`AsyncEventBus` has weak fairness of each consumer task. The
asyncio loop runs every task that is ready, the wait of half a second ends,
and a handler returns, which is an assumption about handlers. Nothing is
assumed of publishers, starts and stops. Under it an accepted event is handled
unless the bus is stopped, reset, or a malformed event has killed a consumer; and a
stopped bus comes to rest, orphaned consumers included, because the loop looks
at `_running` again. `LiveExecution` has weak fairness of `CallStep` of each thread: a call of the
broker returns or raises, which is an assumption, as the code has no timeout of its own, and
`time.sleep` ends, so that a thread in
`submit()` goes on; nothing is assumed of the broker, the sweeps or `reconcile`. Under it
`submit()` returns or raises: the counter that ends the loop advances with every
exception, whatever other threads do to the order; each call of `submit()` has its own. The order machine has none: nothing in the repository
calls `retry`, `evict_stale` or `failover` on a schedule, so that no order is
certain to leave any state. The store and the backbone promise nothing that
must happen. The gold mining strategy and the gate run inside of the calls they get.

## 5. What is proved

All for every value of the constants (under the `ASSUME`s of the modules,
which the runs evaluate), by induction over the steps.

| Theorem | States | Inductive invariant and why |
|---|---|---|
| `TypeCorrect`, `RoutingTypeCorrect`, `EventStoreTypeCorrect`, `MessagingTypeCorrect` | the type invariants | themselves |
| `RetryBudgetHolds` | `RetryBudget` | with the type invariant: `retry_count` plus sleepers grows only in `RetryBegin`, whose guard leaves room for the other callers |
| `FilledStaysFilled`, `RoutingFilledStaysFilled` | `FilledIsFinal` | an action property: from the matrix, action by action |
| `LogIsFaithful` | `LogExplainsState` | itself, with the type invariant |
| `RoutingImplementsMachine`, `RoutingKeepsBudget`, `RoutingKeepsLog` | the composition with the brokers implements `OrderStateMachine!Spec`, so that `RetryBudget` and `LogExplainsState` hold in it as well | the type invariant; every step of `OrderRouting` is one of the machine or leaves it alone (`RoutingStepIsMachineStep`) |
| `NoPhantomFills` | `NoPhantomFill` | with `ReportsAreTrue`: every report on its way is backed by an execution, so that its delivery is |
| `CheckpointsTrue`, `LogChronological`, `ReplayMatches`, `ReplayImplementsLog` | the four properties of `EventStore`, the last a refinement | `LogInv`: stamps are below the clock, the queue is stamped in order and after everything stored, the live state is the log less the event in delivery, checkpoints are true. Assumes `Sequential`: one writer, and a clock that moves between two events. TLC shows that two writers break it |
| `FailuresTraced` | `FailuresLeaveATrace`, for any limit on the dead letters | itself, with the type invariant |
| `SubscribersCalled` | `EverySubscriberIsCalled` | itself; the set of messages on their way changes by the process that moves |
| `DeliveriesPaidFor` | `DeliveriesArePaidFor` | `BudgetInv`: deliveries, messages on their way and processes that have passed the check share the budget of processes and cleanups |
| `FillsRemembered` | `FillsAreRemembered` | `MemoryInv`: with the copies counted against returns to PENDING and the true reports, that only copies that were sent work, and that an order that was neither given up nor handed over has at most one copy and is not PENDING when it has one |
| `AsyncTypeCorrect`, `JoinTellsTruth`, `HandledAtMostOnce`, `HandledInOrder` | the safety of `AsyncEventBus` | `BusInv`: every accepted event is in one place (queue, hand of a consumer, over, lost or thrown away), the open count is the number of those not settled, a bus that was not started twice has one consumer, what waits was accepted after everything that was taken, and a handler has seen an event at most once and only at its turn |
| `StoppedBusWindsDown` | on a stopped bus no consumer can run for ever | `BusInv` and `PlacesInv`: a list of handlers has no repetitions, so that the place of a task in it is bounded. Assumes finitely many handlers (`HandlersAssumption`), as a program has |
| `LiveNoPhantomFill`, `FinalStatusLasts` | the safety of `OrderManagers` in `LiveExecution` | `ManagersInv`: on top of the types, what an order's record and the snapshot on its way say is true of a copy, and a call whose request arrived names a copy there is. What a copy says stays true while copies execute and arrive (`TruthStays`), whoever submits the id again. Assumes that managers and contingency orders have ids of their own (`LiveAssumption`), as the generators of ids make them |
| `SubmitWindsDown` | no call of `submit()` can retry for ever, whatever the other threads do | `ManagersInv`: a call counts `max_retries` failed attempts at most, so that it is never more than `3 * max_retries + 3` steps from its end |
| `LiveTypeCorrect` | `TypeOK` of `LiveExecution` | `RestTyped` with `ManagersInv`: what is left of a bracket stays within its size, retries within their bound, and the leg and the slices that are named are those of the order. Assumes that the two legs of an OCO have different ids, as the counter of the ids makes them |
| `StopNeverGivesBack` | `StopFollowsBest` | `TrailInv`: the stop is always where the best price puts it, activated or not (`AlwaysBest`); it only moves while the bracket is active, or the stop of its own is, by the prices and sides that were told, and where it began does not change |
| `TrippedStopsOrders` | `TripStopsOrders` | `WayInv` and `FlightInv`: what is on the stack or queued is about orders that were submitted, and while the switch is tripped every acceptance still to be published is one that was on the stack when it tripped |
| `KillSwitchExact` | `KillSwitchIsExact` | `SwitchInv`: before it trips no limit is breached, the peak is attained and the highest, and the streak is the longest run the trades end in. A drawdown from some height is one from every greater height, so the one peak stands for all |
| `GoldTypeCorrect`, `MoneyConserved` | `TypeOK` and `MoneyIsConserved` of `GoldMining` | `BooksInv` on top of the types: what was charged, forgotten and is invested are numbers, and cash, costs of open positions, realised gains and commissions add up (`CommissionsStay`). Opening, closing and forgetting a position change one term of the sum over the symbols (`SumExcept`, `SumSigns`). Assumes finitely many symbols |
| `ProgressCorrect`, `TierMovesEarned` | `ProgressMatchesHistory` and the action property `TierMovesAreEarned` | `ProgressInv`: counters, streaks and peak are those of the closed trades, the streaks of those since the tier last changed; a trade more shifts them as `update()` does |
| `GateTypeCorrect` | `TypeOK` of `RiskGate` | `TypesInv`: frames and queue hold typed events, a handler is in a list once, the attempts the gate remembers are of the last minute (a filter of a sequence, `FilterByPrefix`), the losing streak stays below its limit until the switch trips |
| `RateKept` | `RateIsKept` | `RateInv`: after every moment of the last minute there are at least as many remembered attempts as approvals, so that the limit on attempts is one on approvals, in the minute that ends now and in each that has ended. It needs the clock not to go back |
| `OneVerdict` | `OneVerdictEach` | Five parts. `CountInv`: an order is on its way at most once, and what is published or still waits on the stack has one order verdict per risk verdict. `OnceInv`: while it waits for the gate it has none, then one. `BegunInv` and `SequelInv`: of two events where one must follow the other, the later waits below the earlier on the stack until that is published. `DueInv`: an order the gate has to judge is judged or has the gate still ahead of it in the list. Counts along the stack are those of `FoldLemmas` |
| `FillsBacked` | `FillsAreBacked` | `ReportedInv` and `ToldInv`: no more is reported than was executed, the size of an active bracket was executed, and without a report that came twice an iceberg has left at least what was not reported of its slices. What is executed only grows (`ExecutedGrows`) |
| `IcebergShowsOneSlice` | `OneSliceShown` | `SliceInv`: while reports are whole and come once, what was sent of the slices is the current one or counted as filled, each once, and what is counted as filled was executed as a whole. A report of a whole order must then be about the current slice, and what is sent next was never sent. Assumes that the slices have ids of their own (`ContingencyAssumption`), as the counter in `_gen_id` makes them |

The folds of the community modules are recursive functions over data, and the
induction theorems of the library cannot be instantiated by the provers.
`FoldLemmas` does the induction itself: strict inclusion is well-founded on the
subsets of a finite set (`LeastSubset`), so a set of counterexamples has a
least element. From this come the existence of a fold (`FoldExists`), its
type, and what sums, filters, counts and totals do when one element changes.

Every safety invariant and every action property that a passing run checks is
proved. `CheckpointsTrue`, `LogChronological`, `ReplayMatches` and
`ReplayImplementsLog` are proved for the store with one writer, as the runs
check them. Only model-checked: the liveness properties `EventuallyHandled`,
`StopEndsConsumers` and `SubmitReturns` (ENABLED and fairness are beyond the
prover), and the violations, which are counterexamples. Of the last two
properties the part without fairness is proved: `StoppedBusWindsDown` and
`SubmitWindsDown` give a measure that every step of the task or thread lowers
and no step of anybody else raises. What is left to TLC is that the task or
thread can always take a step and, by fairness, does.
Prices other than small integers, floating point,
formatting and the contents of messages are not modelled.

## 6. Not modelled

`PROJECT.json` gives the reason for each part. In short:

* *Numerics* (indicators, strategies, options, AI, RL, optimization, backtest
  statistics): functions on floating point series, without state a protocol
  could break. This is most of the code, and why the lines mapped are a few
  percent of it.
* *I/O* (adapters, data feeds, interfaces, deployment): what they promise
  depends on servers that are not here.
* *Ring buffers*: `hft_pro/core/ring_buffer.py` keeps head and tail in one header
  that both sides rewrite, through a file position they share;
  `infrastructure/shm_ring_buffer.py` cannot tell full from empty when a record
  fills it exactly, and raises when it wraps. Both are listed as hazards; a module of them has
  to model the mapped file, and their tests use a constructor the class does
  not have, so that it is open which of the two is meant.
* *Order books* and the *position life cycle*: sequential code on
  floating point sizes. `book_reconstructor.py:92-98` subtracts an order that
  is cancelled twice from the total twice.
* *Crash recovery*: `execution/crash_recovery.py` uses `Tuple` without importing it
  (line 77), so that the module cannot be imported.
* *Of the modelled parts*: preemption inside a call that does not block (the order
  machine; `reconcile`, `check_partial_fills` and `cancel` of the order managers);
  more than one answer on its way for one order; `reset()` of the managers and of
  the bus of the gate; the engine's backtest mode and a live engine without an
  adapter; trailing distances in percent; checks of the gate that raise.
* The composition in `InstitutionalFlowStrategy`: it calls three modelled parts
  one after the other and reads nothing back from them.

## 7. Plan

Done: order life cycle and routing; event store against the append-only log;
messaging backbone; asynchronous bus, with its safety proved; gold mining with
account and kill switch; the order managers and contingency orders against one
broker; the risk gate on its bus. Every safety property of these is proved.

Next, in this order:

1. `BoundedQueue` (abstract) with `ShmRingBuffer` implementing it for one thread,
   the arithmetic of head and tail proved, and two threads on one header.
2. `PositionLedger` (life cycle, partial take profits, trailing stop: sizes
   conserved) and the level totals of the order books.
3. `CrashRecovery` (files, torn writes, prune, recover), once it can be imported,
   and the supervision loops.
4. To prove: the modules of 1 and 2, when they are there; of what is there, only
   liveness is left.
