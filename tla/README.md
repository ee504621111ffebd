# Verification of the execution core

TLA+ models, TLC runs and TLAPS proofs for the part of this repository that
decides about positions and talks to the exchange: `runtime/position`,
`runtime/arbitration`, `runtime/executor`, `runtime/exchange` (order executor,
fill tracker, position reconciler, trailing stops), `runtime/persistence`
(startup reconciler), `runtime/risk` (monitor, calculator, capital manager,
catastrophe handler, degradation manager, circuit breakers, kill switch) and
`runtime/governance` (capital governor, meta governor, operator gate).
Paths below are relative to `src/`.

`tlc -workers 2 -config <cfg> <MC module>` checks a run, `tlapm <module>.tla`
checks the proofs of a module.

## 1. The system and its parts

A cycle starts in `runtime/collector/service.py`: observations go through
`PolicyAdapter` and the external policies, which propose *mandates* (ENTRY,
EXIT, REDUCE, HOLD, BLOCK for a symbol). `ExecutionController.process_cycle`
adds the mandates of the risk monitor, lets `MandateArbitrator` choose one
action per symbol, and executes each as transitions of
`PositionStateMachine`, which saves every position. Orders at the exchange go
through `OrderExecutor`; `FillTracker` collects their fills.

| Part | State it keeps | Operations | What makes it hard | What makes it correct |
|---|---|---|---|---|
| Position machine `runtime/position/` | positions, CLOSING trackers, `positions` and `closing_timeouts` tables | `transition`, `check_closing_timeouts`, `force_close_timeout`, start | three writes per call, each able to fail or be the last; restarts | tables and memory agree; a closing keeps its age; nothing is held twice |
| Arbitration `runtime/arbitration/` | none | `arbitrate`, `arbitrate_all` | sets walked in hash order | EXIT and BLOCK win; a result without ties |
| Controller `runtime/executor/` | the cycle's prices | `process_cycle`, `execute_action` | exceptions half way; crashes between the two transitions of an action; symbols that depend on each other | a cycle settles; protective mandates take effect; leverage stays in bounds |
| Risk `runtime/risk/{monitor,calculator}.py` | none | `check_and_emit`, `validate_entry` | raises on a missing price | limits I-L1, I-L2, I-M1, I-LA1 |
| Fill tracker `runtime/exchange/fill_tracker.py` | tracked orders, fills, early-fill buffer, seen ids (also a table) | socket handlers, polling loop, timeouts | two channels, late, early, repeated; awaits inside a re-entrant lock; restarts | each fill once; none missed; no order tracked for ever |
| Order executor `runtime/exchange/order_executor.py` | pending orders, order updates, resubmit counts, stop placements and their lifecycle | submit, cancel, partial fills, stops | three coroutines, retries after lost answers, fills at any moment | no overfill; one stop per entry; failures announced |
| Position reconciler `runtime/exchange/position_reconciler.py` | book of local positions, counts of missing and of unknown positions | `reconcile` (loop and triggered), `set_local_position`, `clear_local_position` | stale and failed snapshots, two passes at once, a book that is empty after a restart | acts on repeated detections only; calm settles |
| Startup reconciler `runtime/persistence/startup_reconciler.py` | the `positions` table | `reconcile` | every save may fail or be the last; sign conventions of two modules | success means agreement, and is final |
| Execution state repository `runtime/persistence/` | stop, trailing-stop, fill-id and timeout tables | saves, `atomic` | partial commits | a restart finds a consistent state |
| Trailing stops `runtime/exchange/trailing_stop_manager.py` | one stop per entry, its pending price, its row | price updates, confirm, fail, reconcile, restart | answers late, lost or repeated while the next price asks again | claims only prices the exchange has had; never loosens; follows |
| Capital and drawdown `runtime/risk/{capital_manager,drawdown_tracker,position_sizer,risk_limits}.py` | losses, streaks, cooldowns, positions known to the limits | `validate_trade`, `record_trade_result`, resets | four checks that write one state; sizes replaced after the check | a broken limit halts trading; approvals fit |
| Catastrophe and degradation `runtime/risk/{catastrophe_handler,degradation}.py` | severity, failure counters, conditions; level, triggers | reports, recovery, operators' overrides | several ways down and back | recoveries leave nothing behind; the level covers its triggers |
| Circuit breakers, kill switch `runtime/risk/circuit_breaker.py` | trips; the switch and its row | trip, trigger, reset | restarts, swallowed database errors | what is latched stays so |
| Governance `runtime/governance/` | quarantine, freezes, trust, cooldowns of the gate | `evaluate`, forced commands, request and verify | two holds that hide each other, restarts, several operators | free only when calm; latches hold |
| Policy adapter, M6 `runtime/policy_adapter.py`, `runtime/m6_executor.py` | class-level `_entry_tracker` | proposals to mandates | grace period renewed by rejected entries | an EXIT is not kept out for ever |
| EP layer `execution/`, `external_policy/` | ghost positions, gates | an earlier execution path | shares `OrderExecutor` | as the controller |
| Observation, memory `observation/`, `memory/` | M1 to M5 stores, node lifecycle | ingest, advance time, query | time going backwards, decay | status and monotone time |
| Masterframe `masterframe/` | SLBRS and EFFCS machines, fail-safes | ticks | two strategies, one slot | mutual exclusion |
| Data collection, logging, analytics, replay, scripts, UI | files, databases, statistics | I/O | none of a protocol's kind | not a subject here |

`FillTracker`, `OrderExecutor`'s partial-fill and stop interfaces,
`force_close_timeout`, EMERGENCY_EXIT, the reconcilers, the trailing stops and
most gates of `runtime/risk` and `runtime/governance` are hardly called outside
of tests today; they are modelled from their own code, and the assumptions about their caller are listed in section 5.
`PROJECT.json` lists every component with its files and, under "hazards",
what is hard to test in this code, line by line, with the properties for it.

## 2. The modules

| Module | Models | Uses |
|---|---|---|
| `PositionContract` | what a position lifecycle promises, with no process, table or crash in it | |
| `PositionMachine` | `PositionStateMachine` with its two stores | implements `PositionContract` |
| `PositionMachineProofs` | its theorems | extends `PositionMachine` |
| `Arbitration` | `MandateArbitrator`, as operators | |
| `ExecutionController` | `process_cycle` with the risk monitor | extends `Arbitration`, drives an instance of `PositionMachine` on the same variables |
| `ExecutionControllerProofs` | its theorems | extends `ExecutionController`, `FiniteSums`, an instance of `PositionMachineProofs` |
| `FillTracker` | `FillTracker`, `seen_fill_ids`, and the exchange's fills | |
| `FillTrackerProofs` | its theorems | extends `FillTracker` and `FiniteSums` |
| `FiniteSums` | what proofs need to know of sums over finite sets | |
| `OrderExecutor` | `OrderExecutor` and the exchange's orders | |
| `OrderExecutorProofs` | its theorems | extends `OrderExecutor`, `FiniteSums` |
| `PositionReconciler` | `PositionReconciler` and the account it polls | |
| `StartupReconciler` | `StartupReconciler` over the `positions` table | |
| `AccountRecovery` | a process that starts, reconciles, runs and dies | extends `PositionReconciler`, an instance of `StartupReconciler` |
| `AccountRecoveryProofs` | its theorems | extends `AccountRecovery` |
| `TrailingStops` | `TrailingStopManager`, its row, its caller and the stop order | |
| `TrailingStopsProofs` | its theorems | extends `TrailingStops` |
| `DrawdownTracker` | `DrawdownTracker`, as operators on a record | |
| `CapitalManager` | `CapitalManager` with sizer, exposure and daily limits | extends `DrawdownTracker` |
| `CatastropheHandler`, `DegradationManager` | the classes of these names | |
| `CircuitBreakers` | `RapidLossBreaker`; the other breakers as trips | |
| `CapitalGovernor` | `SovereignCapitalGovernor`, `AntiEuphoriaEngine`, `QuarantineController` | |
| `OperatorLatches` | `PersistentKillSwitch`, `SovereignMetaGovernor`, `OperatorGate` | |
| `RiskGates` | the six gates above in one specification | extends them |
| `RiskGatesProofs` | their theorems | extends `RiskGates`, `FiniteSums` |
| `MC...` | the constants of the runs | extend the above |

**PositionMachine.** One action per row of `ALLOWED_TRANSITIONS`, named for its
handler. A call holds the RLock, so it is a step, but its tail is not atomic
for the disk: memory, then the `closing_timeouts` row, then the `positions`
row. `Install` is that tail: `Complete`, where a failing closing write is
swallowed and a failing `save` leaves the row behind, or `DieInTail`, where the
process dies in between. Which faults may happen is drawn once (`faults`), so that a property can
say which of them it tolerates. Timestamps are ages, advanced by
`Tick`, also while the process is down. `closingAge` is history: how long the position has really
been CLOSING. `timedOut` keeps what `check_closing_timeouts`
returned, since the caller acts on it after the lock is released.

**Arbitration.** A mandate set is walked in hash order and the first of several
strongest mandates survives; an operator therefore returns the *set* of
possible results.

**ExecutionController.** `StartCycle` is the risk check and the arbitration;
then each symbol's action is executed, one transition of the machine per step
(`BeginEntry`, `ConfirmEntry`, ...), in any order of symbols, with `Crash`
possible between any two. `RaiseCycle` and `Abort` are the exceptions of a
missing mark price. Exposure and leverage are computed as in the code (ratios
multiplied out, since prices are small integers); whether a position is near
its liquidation price or past a PnL threshold is a free choice at each check.

**FillTracker.** A socket handler is one step. The polling loop awaits inside its RLock, and as the lock
is re-entrant for the thread of the event loop it excludes nobody, so the loop
is cut at its awaits (`PollBegin`, `PollListed`, `PollAsk`, `PollFetched`,
`PollCheckTimeouts`, and the failures of both requests). Deliveries are
`HandleWsFill` of any fill that has happened, so they are late, repeated,
reordered or missing as the run chooses. `reported`, `received`, `overflowed`,
`overwritten`, `ended` and an entry's `checked` are history.

**OrderExecutor.** Three coroutines (`calls`): the client's own submission or
cancel, `handle_partial_fill`, and `place_stop_for_fill`. Each is cut at every
await. A request may not arrive (`Unreached`), be refused, or be accepted with
its answer lost; a repeat after that is a second order at the exchange. An
answer "ok" without an order in it (`OkWithoutOrder`) is a success to
`_submit_to_exchange`, which files the request under the client's own id
(`order_executor.py:504`): a *void* order, which is in `market` with the others
so that it has an id, and which never fills. Any "ok" to a cancel is a cancel
(line 680), also when the order was closed before. `known`, `accepted`, `lost`
and `announced` are history.

**PositionReconciler, StartupReconciler, AccountRecovery.** A periodic
`reconcile` is cut at its one await: `Fetch` takes a snapshot (`FailedFetch` an
empty one, as the code does), `Compare` is the rest, under the lock, against a
book and an account that may have moved. Two passes may be under way, the loop's
and a triggered one. `missed` and `untracked` are history, which counts by its
own rule: of the detections of one kind since the last that was acted on or
spoken against, how many there were (`total`), how many were in comparisons one
directly after the other (`streak`), and whether something the counters do not
notice came between (`broken`). At startup `Reconcile` compares the table with a
listing and rewrites rows one by one; every save may fail, and
`DieReconciling` stops among them. The two share the account, not the local
state, as in the code: the table survives a crash, the book does not. While the
process runs the table belongs to the position machine and is not followed;
after a crash it holds any rows the machine may save.

**TrailingStops.** `UpdatePrice` asks, the exchange accepts or refuses, the
caller hears of it and calls `confirm_stop_update` or `fail_stop_update`. The
faults a behaviour may have (overlapping requests, lost answers, a crash with a
request under way or in the middle of a call, failing writes of the row, a
failing load, a stale query) are drawn once in `setup`, so that a property says
which it tolerates. Closing a position takes two steps, as in
`unregister_stop`: the stop is forgotten, then its row is deleted.

**CapitalManager.** An approved trade is `granted` until the caller makes it a
position, which is what lies between `validate_trade` and `add_position`. The
tracker is a record and its methods are operators on it, composed in the order
of `_check_all_limits`.

**CatastropheHandler, DegradationManager.** One action per method. A time
window is a choice (over or not), a recovery time a Boolean. `errorRate` is
history: the last rate checked, as the level that the comments of
`DegradationConfig` give it.

**CircuitBreakers.** `RecordResult` keeps the order of the three checks and
their returns. `losing` is history: the losses recorded in a row since the
breaker was reset, which the code's streak is not.

**CapitalGovernor.** `Evaluate` asks quarantine, then freeze, then confidence,
as the code does, and what is not asked does not change. `riskAge` and
`announced` are history: how long no risk has been found, and the latest end of
a freeze announced since an operator last froze. An evaluation can only put
that end off; an operator's `force_freeze` sets it, because it replaces the
freeze there is.

**OperatorLatches.** Operators follow the documented order (request, verify,
reset) one step at a time. `standing` and `mislaid` are history: latches that
were closed and not released, and those a database error has lost.

**RiskGates.** These gates share no state and never call each other; a
behaviour follows one of them, its `subject`.

## 3. The runs

| Run | Expected | Shows |
|---|---|---|
| `position_lifecycle` | pass | types and record shapes; `RestartLosesNothing`; `ClosingIsTracked`; `ReportsExactlyTheLate`; `LifecycleContract` (the refinement) |
| `controller_cycles` | pass | `CyclesSettle`, `ExitsTakeEffect`, `BlocksPreventEntry`, `EntriesRespectLeverage` |
| `fill_tracking` | pass | `ReportedOnce`, `TrackedOrdersMissNothing`, `FilledIsWhatFillsSay`, `GivesUpOnlyInSilence`, and, live, `OverdueOrdersSettle` |
| `order_execution` | pass | `PendingIsLive`, `ResubmissionsFillTheRest`, `OneStopPerEntry`, `ListedIffAnnounced`, and, live, `StopPlacementSettles` |
| `recovery` | pass | `SuccessMeansAgreement`, `ActsOnRepeatedDetections`, and, live, `CalmSettles` |
| `trailing_stops` | pass | `ClaimsAreTrue`, `RestartFindsTheConfirmed`, `ExchangeNeverLoosens`, and, live, `StopsFollow` |
| `risk_gates` | pass | `BreachesHaltTrading`, `ApprovalsFitExposure`, `NormalStartsAfresh`, `LevelCoversTriggers`, `RunsOfLossesTrip`, `FreeOnlyWhenCalm`, `LatchesHold` |
| `closing_timeout_lost` | violation | a crash between two commits leaves a CLOSING position without a timeout, against "P4: CLOSING timeout persistence across restarts" |
| `reduce_wedges` | violation | every REDUCE ends in REDUCING, where nothing is valid, against Theorem 8.1 of `docs/POSITION_STATE_MACHINE_PROOFS.md` |
| `exits_not_local` | violation | one live symbol without a mark price suppresses the exits of all, against "Symbol-local execution" |
| `fills_missed` | violation | an order update overtakes the last fill, which is lost, against "Ensures no fills are missed" |
| `accepted_partial_uncovered` | violation | an accepted partial fill never gets its stop and is not listed as unprotected |

The five violations are disagreements of code and documentation; "findings" in
`PROJECT.json` quotes both sides.

**Bounds, and why they are enough.**

- `position_lifecycle`: one symbol, sizes -2..3, timeout 2 ticks, ages up to
  timeout + 1 (older ones are alike), three fault models. No action reads two
  symbols; sizes need two positive ones to shrink and a negative to pair with
  either sign. The theorems cover the rest.
- `controller_cycles`: two symbols (one to disturb the other), sizes 0..2,
  prices 0 (none) to 2, two accounts, up to two strategy mandates a cycle
  besides those of the risk monitor. With equity 2 and a limit of 2 a cycle
  can reach the leverage limit, exceed it with a second entry, or find itself
  over it after a move.
- `fill_tracking`: one order (orders share nothing but the table of ids and
  the loop's list), two fills, one with a tid and one without, a buffer of two.
  A fill counts as reported up to twice.
- `order_execution`: an entry of two units, two requests per submission, two
  submissions per stop, three orders at the exchange: the entry, one
  resubmission or duplicate, one stop. `CHECK_DEADLOCK FALSE`, because all
  orders may be done and the system then rests. The client cancels the entry,
not its resubmissions (`ClientCancels`): those are cancelled by
`handle_partial_fill`, which races with the client only over the entry.
- `recovery`: one symbol (none of the code reads two), sizes 1 and 2 with sign,
  the loop and one triggered pass, two detections required, four moves of the
  account, the callers or crashes before it is calm: enough to mislead both
  passes and to restart in between.
- `trailing_stops`: entry at 10000, four ticks around it that trigger break
  even, one step and two steps, two ATR values, two requests under way. Eight
  setups without faults (four modes, two directions) and five with different
  sets of faults, among them deaths in the middle of calls and failing loads
  with the row left alone.
- `risk_gates`: two correlated symbols (symmetric), one position limit, results
  of -40, -10 and 25 against a capital of 1000, so that three trades reach any
  limit; a behaviour has five results and no approval, two and one, or one and
  two (`Quotas`), since streaks need many results and exposure needs two
  approvals, and either alone is cheap. Values of prices up to 40. Storms of
  three and two failures, counted up to five. Six trades a session, a streak of
  three of at least four. Risks 2 and 4 (the second
  escalates a quarantine), a stability of two ticks, freezes of one to three;
  two operators, a cooldown of two.

**Fairness.** Where something must eventually happen, what is assumed is that
tasks of this program are run, and as little as possible of the exchange.

- `fill_tracking`, `order_execution`: `WF(PollStep)`, the event loop runs the
  polling task and aiohttp's `request_timeout` ends a silent request;
  `WF(StopPlacementStep)`, the same for `place_stop_for_fill`. Neither asks a
  request to succeed.
- `recovery`: weak fairness of the loop's `Fetches` and of every `Compares`
  (`_reconcile_loop` survives every exception, a triggered pass is a task that
  ends), and of `ClosesExecute`: a position whose close was sent is closed.
  `calm` stands for callers and an account that no longer move and fetches that
  succeed; `CalmSettles` is conditional on it.
- `trailing_stops`: strong fairness of `UpdatePrice` (ticks keep coming, although
  each is possible only between two requests), weak of `CallerHears`,
  `Reconcile` and `Restart`, and strong of `Accept`: the exchange does not refuse for ever.

The other modules have no liveness property: only their callers make them move.

## 4. The proofs

`PositionMachineProofs`, for every set of symbols, every set of sizes, timeout,
choice of stores and fault models, from the four named assumptions of
`PositionMachine`: `TypeCorrect`, `DurablePositions`, `ClosingTracked`,
`TimeoutsReported`, and `ImplementsContract`.

The invariant is `IndInv`. `TypeOK` and `RestartLosesNothing` are not inductive
alone: while the process is down nothing in memory says what the table holds,
so `RowsAreStored` says that rows are as `save` writes them (loading and saving
one changes nothing), and `RowsAgree` says that the `closing_timeouts` row is
the real age of the closing and exists exactly while the `positions` row says
CLOSING, which is what a restart needs. `StepsAreMoves` reduces the ten
handlers and the forced close to one fact, that they install a legal successor;
the three `InstallKeeps` lemmas then treat completion and death in the tail
once. The refinement needs no more: completed installs are contract steps,
everything else is invisible.

`ExecutionControllerProofs`: `ExitSupremacy`, `BlockPreventsEntry` and
`DeterministicWithoutTies` for every set of mandates (the last with the premise
that the code needs and `docs/MANDATE_ARBITRATION_PROOFS.md`, Theorem 3.1,
leaves out: authorities differ within a type).

`CyclesSettleAlways`, `ExitsAlwaysTakeEffect` and `BlocksAlwaysPreventEntry`
hold for every set of symbols, mandates, accounts and prices, with or without a
positions table. None of the
three properties is inductive: they speak of the end of a cycle. `CycleInv` says
what is true in its middle: the action in hand matches the state its symbol is
in (`WorkingOn`), anything half done is in hand or interrupted, and while the
process is down the same of the table it will load (`HalfDone`, `RowsFollow`),
a blocked symbol is FLAT with no entry to come (`Blocked`), and each demanded
exit is done, to come, in hand, or lost to a missing mark (`Exits`).
`HandlersMove` says once what a handler does to memory and table; `BeginKeeps`,
`ConfirmKeeps` and `DropKeeps` treat the three kinds of steps. That arbitration
honours the demands is `ExitSupremacy` and `BlockPreventsEntry`, cited in
`StartKeeps`.

`LeverageAlwaysRespected` needs a second invariant, `LeverageInv`: `validate_entry`
looks at an entry before its first transition, and its size is added only at the
second. `EntryFits` says that what was validated is still so in between: the
symbol in hand holds nothing yet, and the total exposure with the entry at the
price it was validated at is within `L_max`. `Snapshots` says that account, marks
and actions are typed, through arbitration and the protective mandates, and
`DownIsFlat` that a process that is down has no position, so that no restart
counts as an entry. `ExposureIsTotal` turns the sum of the code into the total of
`FiniteSums`, and `ExposureChanges` says what one symbol's step adds to it.

`PositionMachineProofs` is instantiated on the controller's variables;
`MachineIsShown` says that the machine inside the controller is the one it speaks
of, and the lemma `DrivesTheMachine` that the controller, as it is modelled,
reaches it only through its transitions. Three of its theorems are restated for the controller's `Spec`:
`RestartsFindThePositions`, `CyclesImplementTheContract` (the refinement of
`PositionContract` by the whole controller) and the types, which `TypeCorrect`
joins with what the two invariants say of the cycle. All theorems of the module rest on `MachineAssumption` (finitely
many symbols, sizes with 0 among them), `LimitsAssumption`, `MandatesAssumption`
and `MarksAssumption` (mandates are of the arbitrator's types, with numbers for
quantity and price; prices are not negative), `AccountsAssumption` and
`NobodyAssumption`.

`RiskGatesProofs`, each theorem of the specification of its own gate, from the
named assumptions on its limits. `GatesRunAlone` shows that a behaviour of
`RiskGates` is one of every gate, so that all of them hold of `RiskGates`, and
`TypeCorrect` puts the types of the six together:

- `NormalAlwaysStartsAfresh`, for all conditions and thresholds. The invariant
  adds only types; what carries it is `StormsAreNoticed`: a storm leaves NORMAL,
  so a counter at its threshold and NORMAL cannot meet.
- `LevelAlwaysCoversTriggers`, for each active trigger by itself
  (`DemandedCovers`: what they ask for together is no better).
  `RefusalsAreSafe`: a refused transition leaves a
  level no better than the one asked for; what an operator sets is excused until
  the level is computed again (`overridden`). Of error rates it claims REDUCED
  only, see section 5.
- `BreachesAlwaysHaltTrading`, over all sequences of results, balances and
  resets. `TrackerInvariant` says that a win and a loss streak do not stand
  together (`OneStreak`) and that amounts are numbers; then each of the four
  checks is shown to halt what it finds and to leave the halt of the ones before
  it, or to override it with the maximum drawdown.
- `ApprovalsAlwaysFit`, for all limits, correlations between symbols, positions and
  prices; that symbols are finitely many is assumed (`CapitalAssumption`). `CapitalTypes`
  is the invariant. An approval is of the value asked for, which `check_new_position`
  accepted, or of one it is not asked about: `AllowedFits` shows that
  `_calculate_max_allowed_size`, whose percentages round down and are cut at zero,
  returns nothing that the limits would refuse (`ShareRoundsDown`, `LeastOfThree`),
  and `FittedFits` that what is approved is one of the two.
- `RunsOfLossesAlwaysTrip`. The invariant: while the breaker is closed the run is
  no longer than the streak, because a loss that is not counted trips.
- `FreeAlwaysCalm`, for all periods, freezes and risks. `GovernorInv` relates what the code keeps to what happened:
  a quarantine has not been stable for longer than no risk was found, a released
  one has seen a full period, and the freeze there is lasts to the latest end
  announced since an operator last froze: evaluations that do not ask the engine
  do not change it, those that ask it find none running, a restart brings it back.
- `LatchesAlwaysHold`, for all cooldowns and operators. `LatchInv` relates memory and row: a latch that stands
  and is not mislaid is closed in both, because a crash keeps only the row and
  the next start only what it read.

`OrderExecutorProofs`, for every set of requests, number of retries and size:
`TypeCorrect`, `PendingOrdersAreLive`, `AtMostOneStop`,
`UnprotectedAreAnnounced` and `NeverMoreThanAskedFor`. None of these properties is
inductive. `IndInv`, for the first four:

- `MarketInv`, `UpdatesInv`, `CallsInv`: what each order, each record in
  `_order_updates` and each call in flight may be. A record knows at most what the
  order filled and that once more, since an order update may tell of fills that
  are then told one by one; a call that was answered holds the order it asked for.
- `ResubmitsInv`: what was cancelled, and what was resubmitted for that, is not
  open, and a rest is at most what was asked for.
- `StopsInv`: a stop has an order exactly from its placement on, the entry the
  call is placing is PENDING, and CANCELLED is the last event its order gets.
- `NoSecondStop`: while no answer was lost, an entry has no stop order, not even
  a void one, before its placement is answered. `OneStopPerEntry` alone is not inductive: it speaks of
  orders, and what makes it true is where the placement is.

`SharesInv`, for the fifth, holds beside `IndInv`:

- `IdsAreFresh`: the id a call was answered with is in no list yet and is no
  other call's; what was resubmitted does not become pending again, so what was
  `known` of it stays.
- `ResubmittedOnce`: `handle_partial_fill` takes on only what is pending, which
  what was resubmitted is not; this, and not what the exchange answers to a
  cancel, is why an order is not resubmitted twice.
- `AmountsFit`: the rest of an order and what was known to be executed of it are
  together at most its size.
- `BookedFits`: every order of an entry is booked with its size until it is
  resubmitted, then with the smaller of what it filled and what was known of it.
  These bookings and what is being asked for are at most the entry's size.

What was executed beyond the bookings is what the property excepts: the fills
that came after the remaining size was computed. The sums are those of `FiniteSums`.

`AccountRecoveryProofs`, for every set of symbols and sizes (closed under
difference, as a close may leave a rest: `SizesAssumption`), every threshold and
either choice of what a snapshot lists: `TypeCorrect`, `SuccessIsAgreement`
and `OnlyRepeatedDetectionsCount`. `CountsAreHistory`: the dictionaries of
counts are the totals of what was detected, over both passes and their awaits; a
total that is more than its streak was broken; and so was one that stands
although the position was cleared, or set, since. `RowsInv` says
which rows the machine or an earlier startup can have left; with it,
`ResolvedIsResolved` shows that what a reconcile writes a second comparison
agrees with, and `PhaseInv` that nothing moves while a verdict stands.

`TrailingStopsProofs`, for all prices, percentages, modes, directions and fault
models, from `PricesAssumption` and `PositiveStopsAssumption` (offsets and the
initial risk are less than the price, a step trails by no more than itself;
`trailing_stop_manager.py:37-53` has the defaults): `TypeCorrect`, which
says that no mode computes a stop of zero or less,
`ClaimsAreAlwaysTrue`, `RestartAlwaysFindsTheConfirmed` and `TheRatchetHolds`.
`PricesWereHad`: everything a price can be taken from (answers, queries, row) is
a price the stop order has had. `RowFollows`: a position that is closed to its
end has no row, and while the process runs the row says what the memory does.
That is claimed while writes of the row succeed; a death in the middle of
`unregister_stop` and a load that fails are in the theorem, with what they leave:
the one a row, which a restart takes up again, the other a row and no stop. `FaultFree`: without faults one request
or answer is under way, for a price that improves on the one at the exchange,
and only a confirmation under way is ahead of what the manager, or the row while
it is down, knows. The ratchet follows from that, not from the code that computes
the levels: a level is a request only if it is better than the stop.

`FillTrackerProofs`, for every set of orders, every finite set of fills, all
sizes, bounds of the buffer and fault models: `TypeCorrect`,
`ReportedAtMostOnce`, `TrackedMissNothing`, `FilledSizesAddUp` and
`GivenUpInSilence`. `FillIdAssumption` is what deduplication rests on: no two
fills share an id. The invariant is about books, the tracker's memory:

- `FillsAddUp`: the fills of an order were all seen, so that the next one
  processed is new to its list and adds its size; they are executed fills, of
  which the exchange has no more than the order's size, so that a list that
  reaches it is all there is.
- `NothingMissed`: what was received is reported, unless its order is not
  tracked, or waits in the buffer for an order not yet known. While a buffer is
  replayed the fills that are left of it are excused (`left`).
- `Once` relates reports and ids, in memory and in the table (`StoreInv`), and
  `FlaggedInSilence` the timeout flag and the list of fills.

`Processes` says what one `_process_fill` does to a book. The `ProcessKeeps`
lemmas show of each part that it is kept, `ProcessingInduction` carries them
over the loop of a replay or of a poll's answer, and the `...Keeps` lemmas after
it treat the other changes. `FiniteSums` has what is needed of sums over sets,
which the library defines by recursion over the subsets: that they do not
depend on the order of choice, and what they are when one member is added,
changed or removed. The library's induction theorems take an operator, so these
two inductions go by a least counterexample instead.

Every invariant and every safety property of the passing runs is a theorem; so
is the refinement of `PositionContract`. Only model-checked are the four liveness
properties (`OverdueOrdersSettle`, `StopPlacementSettles`, `CalmSettles`,
`StopsFollow`) and the five violations.
Liveness under fairness is out of the prover's reach.

## 5. What is assumed, and what is left out

- The client of `FillTracker` tracks an order once per process; a second
  `track_order` would reset the entry. Its `on_fill` does not raise.
- Fill ids are kept for as long as the run lasts; `load_recent_fill_ids` reads
  the last 24 hours only. No tid is given twice, and the synthetic id of a fill
  without one is unique (`FillIdAssumption`).
- An answer "ok" that is neither resting nor filled is assumed to mean that
  nothing was accepted. The exchange says "ok" to a cancel also of an order that
  is closed; whether it does is a free choice, as the other answer is.
- `OrderExecutor` is handed each fill at most once (what `FillTracker`
  promises), and a stop's events in the order they happened. The stop is
  registered once, for an order the client knows. Processes do not crash in
  that module: it persists nothing.
- In `ExecutionController` the writes of the positions table do not fail; failing
  writes, and the `closing_timeouts` table, which the controller never
  configures, are the subject of `PositionMachine`.
- Equity is positive. Prices, fees, latencies, logging, signing and rounding
  are left out, as is `check_timeouts` of `OrderExecutor`, which only reports.
- `_placed_stops` and `entry.seen_fill_ids` are not modelled: the first serves
  one getter, the second never decides.
- `PositionReconciler`'s callbacks do not raise; entry prices, and the stop a
  reported mismatch asks to adjust, are left out. In `TrailingStops` prices are
  integers and percentages in basis points.
- Money in `CapitalManager` is integral, a stop a percentage of the entry;
  volatility, event and regime factors are 1 and Kelly sizing, used by nobody,
  is left out. Callers of the gates are of one thread, except the operators.
- Trust and confidence scores, fractions of capital, the threat detector and
  trust-gated actions are left out: which range the lowest score is in, and
  whether a risk is found, are inputs.
- `atomic()` and the stop rows of the execution state repository, which only
  its tests use.
- The components listed as `not_modelled` in `PROJECT.json`, with their reasons:
  statistics, I/O and research, or planned in section 6. The largest files
  (`runtime/native_app`, `runtime/logging/execution_db.py`, the `m4` and `m5`
  files of `memory/`, the collectors) are user interface, append-only tables,
  numbers and sockets, with no protocol of their own to state properties of.

**What the models make visible**, and no property forbids because no statement
of the code does:

- Order executor: an answer "ok" with an error inside is a success. The order is
  filed under the client's own id and stays in `_pending_orders` for ever:
  nothing fills it, and `cancel_order` raises on its id (`int(order_id)`, line
  661). A stop answered so is PLACED, its entry has none, and neither
  `get_unprotected_entries` nor the failure callback says so: `PLACED` in
  `StopPlacementSettles` and `ListedIffAnnounced` is what the code records, not
  that the exchange has the stop. An "ok" to the cancel of an order that was
  filled meanwhile makes it CANCELED and submits its rest again: that is part of
  the excess `ResubmissionsFillTheRest` allows.
- Position reconciler: F4 says "consecutive detections"
  (`position_reconciler.py:307-309`, 370), and that is not what is counted.
  A snapshot without the symbol does not clear the count of an unknown position:
  found, absent, found is acted on at a requirement of two. Neither
  `set_local_position` nor `clear_local_position` clears a count.
  `ActsOnRepeatedDetections` claims consecutive comparisons where nothing of
  this came between, and no more than the number of detections where it did.
  One glitch seen by the loop and by a
  triggered pass counts twice. After a restart the book is empty and every live
  position is unknown until the callers set it. A close that is under way is sent
  again. A position on the wrong side gets its size corrected, not its side.
- Startup reconciler: the size of a SHORT, negative in the table, is never
  compared; a SHORT is written back positive and without entry price; an OPEN
  row listed with size zero is not seen.
- Trailing stops: with overlapping requests a second one may be looser than the
  first, and a late acknowledgement of an older price is believed.
  `pending_update_ns` is renewed by each tick, so that a divergence of 30 s never
  shows. A failed move of BREAK_EVEN_ONLY is not tried again. `unregister_stop`
  forgets the stop before it deletes the row (`trailing_stop_manager.py:385-391`): a
  death in between brings the stop of a closed position back at the next start.
  A load that raises is swallowed (162): the manager tracks nothing, and the
  rows stay for the start after.
- Capital: number of positions and heat are not asked about the adjusted size,
  which may exceed the one asked for. MAXIMUM_DRAWDOWN overrides a halt and
  trades on at a quarter. From WARNING, REDUCED_RISK is never entered. A
  DAILY_LOSS cooldown with ten losses or more is left by `reset_daily`;
  `reset_weekly` alone clears a halt while the day's loss is still beyond its
  limit. A result of zero is a loss to the sizer and none to the tracker.
- Catastrophe and degradation: every further rejection of a storm escalates;
  UNKNOWN is in no row of the table. `DegradationConfig` says "25% error rate ->
  EMERGENCY" and "50% error rate -> SHUTDOWN" (`degradation.py:46-47`), but the
  three thresholds of `check_error_rate` add one trigger, EXCESSIVE_ERRORS, to
  which `_recalculate_level` gives REDUCED: at an error rate of 50% the system
  goes on opening positions. The model has the four bands of rates; with
  `level >= errorRate` for the second conjunct of `LevelCoversTriggers` TLC
  refutes it in one step. A refused way back is not tried again;
  MANUAL_INTERVENTION also holds back an escalation.
- Circuit breakers: after a reset by hand the streak goes on, without the losses
  that tripped for another reason; `cooldown_seconds` and HALF_OPEN are used
  nowhere; nothing is counted before `set_capital`. Not modelled, but plain in the
  code: `AbnormalPriceBreaker` keeps two minutes of prices and compares with the
  oldest, and only if that is within one minute (`circuit_breaker.py:261-267`),
  so that with a steady feed it looks at no price after the first minute.
- Capital governor: `allows_scaling_up()` reads a state that neither FREEZE nor
  QUARANTINE updates. A freeze runs out unseen during a quarantine, and
  `force_freeze` replaces a longer one: an operator who freezes for an hour
  during the freeze after a new high ends that one early, and `FreeOnlyWhenCalm`
  leaves the replaced freeze out of its claim. After a restart the quarantine's trigger
  value is 0, so that any trigger escalates it; `force_activate(0.25)` loosens
  an escalated one.
- Latches: a switch that cannot be loaded is not triggered, and a failed save
  is not repeated. `verify_confirmation` looks neither for a pending request nor
  at the cooldown, so that two operators may be confirmed within it; one
  confirmed before a second trigger releases that too. The gate's cooldowns are
  lost in a crash.

## 6. Plan

In this order; each step adds what the one before it makes checkable.

1. Policy adapter and M6 in front of the controller: the grace period kept in a
   class variable, and the exits it holds back.
2. Masterframe's controller with SLBRS and EFFCS: after a change of regime the
   strategy that is no longer routed to keeps its position and state, while
   `masterframe/controller/master_controller.py:8` promises mutual exclusion.
3. `atomic()` and the stop rows of the execution state repository.
