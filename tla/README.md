# Verification of mg-market-maker

mg-market-maker runs market-making engines on crypto venues. A central
**controller** decides which **agents** may trade and what they run; an agent
hosts **engines**, one per symbol, that quote, manage inventory and obey a
**kill switch**. This directory holds TLA+ models of the parts whose mistakes
cost money and hide from tests: what a kill does to the orders, what the
order manager knows of the venue's book, when the engine quotes, what a flatten and a
hedged pair do to the positions, whether the inventory is what the wallet says, and who
holds trading authority when messages race, links break and processes die.

## 1. Inventory

| Part | State it keeps | Operations | Hard because |
|---|---|---|---|
| Kill switch (`risk/kill_switch.rs`) | level L0-L5, error streak, messages this second | `escalate`, `manual_trigger`, `reset`, `on_error`, `on_message_sent`, `tick_second` | many callers, some of which assign the level instead of raising it; memory only |
| Engine run loop (`engine/market_maker.rs`) | connected/severed, executors, drivers, emulator, pause flags | one `select!` over user stream, refresh, one-second tick, reconcile, lifecycle poll, overrides, SOR, shutdown | gates in a fixed order with side channels ahead of them; kills arrive between any two steps |
| Order manager (`engine/order_manager.rs`) | `live_orders`, `price_index` | `execute_diff` (amend, cancel, place), `cancel_all`, unwind slices, `on_fill` | cancels, placements, amends and queries fail one by one; answers get lost; one index slot per side and price |
| Book keeper (`engine/book_keeper.rs`) | book, last sequence number, resync flag, last update | snapshot, delta, resync | updates lost, repeated, out of order; a start-up snapshot that goes round it |
| Circuit breaker, lifecycle, pauses (`risk/circuit_breaker.rs`, `engine/pair_lifecycle.rs`) | one trip reason; last spec, delisting latch; pause flags | check and trip; poll and diff; operator pause | the first reason hides the others; one flag with several owners |
| Inventory and drift (`risk/inventory.rs`, `inventory_drift.rs`, `reconciliation.rs`) | signed inventory, totals, average entry, realized PnL; baseline wallet | `on_fill`, `force_reset_inventory_to`, `check` | fills that are never announced, a baseline taken at the wrong moment, a restart |
| Flatten executor (`strategy/twap.rs`), waterfall (`dashboard/state.rs`) | target, executed, slice number, start time; drawdown by symbol | `next_slice`, `on_fill`, register, rank | fills arrive later than the next slice; integer casts and lot rounding |
| Paired unwind (`strategy/paired_unwind.rs`) | two targets, two counts, one schedule | `next_slice`, `on_primary_fill`, `on_hedge_fill` | two venues with their own lag; one leg misses |
| Pair drivers (`strategy/funding_arb*.rs`, `stat_arb/driver.rs`, `persistence/funding.rs`) | open sides, ledger, attached or dropped | tick, dispatch, compensate, leg fills | the second leg fails after the first traded; answers differ from effects |
| Atomic bundles (`dashboard/state.rs`, `engine/market_maker.rs`) | in-flight table, shared ack map | emit, sweep, ack, watchdog | two engine threads, acks by id, re-emission under the same id |
| Controller session (`controller/lib.rs`) | cached approval, current lease, channels | register, lifecycle event, refresh, command, disconnect | one task per connection, two of which may belong to one agent |
| Approval store, HTTP handlers, agent registry, fleet | approval record, sender by agent id, approval by agent id | accept, reject, revoke, pre-approve, delete, deploy | check then act between store, registry and session; persist may fail |
| Agent lease client (`agent/lib.rs`, `reconnect.rs`) | lease, asked-for lease, credentials, running engines | pump with deadlines, five commands, reconnect | expiry on its own clock, one refresh request per issuance, teardown races |
| Strategy registry (`agent/registry.rs`) | running tasks by deployment | `reconcile`, `abort_all` | aborting a task leaves its orders |
| FIX session, WS-RPC | sequence numbers, waiting requests | send, receive, resend | reconnects and out-of-order answers |
| Persistence, audit | checkpoint file, hash chain | write, rename, restore, append | crash between two of them |
| DCA, XEMM, emulator triggers, other guards | windows, thresholds, schedules | update, check | feed the kill switch and the quote gates |
| Strategies, signals, graph evaluator, backtester, dashboard views, frontend | numbers, read models | pure computation, I/O | not protocols |

**Interactions.** HTTP handlers change the approval store, then send to a session
through the registry. A session sends commands to its agent over one WebSocket
and receives telemetry on it. The agent's lease client starts and aborts engine
tasks. Engines talk to the venue by requests that may fail and by a user stream
that lags; engines of one process share the flatten waterfall and the
atomic-bundle map through `DashboardState`. News, sentiment, arbitrage drivers, the strategy graph, the
per-client loss circuit and the operator all reach the kill switch.

**What makes each part correct.** Kill switch: a kill holds until the operator says
otherwise; from L2 on the engine quotes nothing new, at L3 the book empties, L4 starts from
an empty book. Order manager: its index never lies, its picture is exact while calls
succeed, and what is wanted gets quoted after they failed. Quote gates: no price from
a book out of sync, no breach quoted through for long, every pause ends. Ledger: each
unit is counted once, and a loss surfaces. Flatten and paired unwind: they end near
zero, a perp flatten never on the other side, and "done" means done. Pair drivers: a
naked leg stops them. Bundles: complete only if both legs were live. Authority: none
before acceptance, none for long after a denial, none lost without cause.
`PROJECT.json` lists the hazards these answer to, and those nothing covers yet.

## 2. Modules

| Module | Models | Proofs |
|---|---|---|
| `KillLadder` | one engine: kill switch, run loop, order ids, venue | `KillLadderProofs` |
| `OrderTable`, implementing `OrderSets` | the order manager and its two maps | `OrderTableProofs` |
| `QuoteGates`, extending `BookSync` | the gate chain of `refresh_quotes`, the book keeper, breaker, lifecycle, pauses | `QuoteGatesProofs` |
| `FillLedger` | inventory, wallet, drift and delta checks, restarts | `FillLedgerProofs` |
| `Flatten` | the L4 unwind of several engines sharing the waterfall | `DashboardProofs` |
| `PairedUnwind` | the L4 unwind of a two-legged engine | `PairedUnwindProofs` |
| `PairDrivers` | funding and statistical arbitrage drivers | `PairDriversProofs` |
| `AtomicBundle` | a graph's atomic bundle between two engines | `DashboardProofs` |
| `LeaseAuthority`, implementing `Authority` | controller, sessions, wire and one agent | `LeaseAuthorityProofs` |

The `MC...` modules are the ones TLC runs; the `.cfg` files give the constants.
`OrderSets` is the level of detail at which `KillLadder` treats orders (ids that are
tracked, ids that rest). `OrderTable` is proved to implement it, and every handler of
`KillLadder` is proved to do to the orders what at most three of its calls do.

### KillLadder

State: `level`, `errors`, `msgs` are the fields of `KillSwitch`; `tracked` is
`OrderManager.live_orders` (ids only), `venue` what rests at the venue, `fills`
the undelivered user stream, `inv` the inventory the engine believes, `twap` the
signed quantity left to the unwind executor, `drivers` the arbitrage drivers still
attached, `stops` the emulated stop orders, `disconnected` the L5 flag. `operator`
is history: it changes with every kill command of the operator, so that the properties can
tell such a step from a source that assigns the same level.

One action per arm of the run loop; arms that change nothing here (market data) are left
out. `FundingArbTick` and `StatArbTick` are the two driver arms whole: `tick_once`, then the
handling of its event. The funding arm asks no kill switch, and its executor posts a maker
order on the engine's own symbol that the order manager does not know of. So three side
channels bring orders to rest whatever the level is: emulated stops (`Stops`), maker legs of
the inline SOR (`Sor`) and maker legs of the funding driver. `EnterDisconnect`/`LeaveDisconnect` are the
loop head, which runs before every `select!`: the predicates `Connected` and
`Severed` keep any arm from being taken while flag and level disagree.
`refresh_quotes` is five actions, one per way it ends: at the kill check or a gate
ahead of it (`RefreshKilled`), with the client circuit tripped (`ClientCircuit`),
at a later gate (`RefreshGated`), at the venue-scoped kill (`RefreshVenueKilled`),
or through `execute_diff` (`RefreshQuotes`); each contains the emulator's tick that
precedes the check, and the ones past it the market-resilience update and the kill
sinks of the graph. `TickSecond` is the whole one-second handler: counter reset, risk
inputs, margin slice, executor slice, `cancel_all` at L3, flatten at L4. `CancelAll`
is the set of outcomes of `cancel_all`: which cancels land, and whether the first,
the second or no query fails. Because every await inside a handler belongs to one
`&mut self` task, handlers are atomic to each other; the venue is not, and a fill
during a handler is a fill just before or after it.

Abstractions: an order is for one unit, so a fill removes it; prices, amends and
`price_index` are in `OrderTable`; the thresholds that make a risk input ask for a level are
a free choice of level. IOC orders of DCA, XEMM and the statistical driver never rest and are
left out; what the drivers do to the positions is in `PairDrivers`; the paired unwind is in `PairedUnwind`. After a restart inventory starts at zero, since
`with_checkpoint_restore` has no caller outside the tests.

### Flatten

For each symbol: `perp` (linear or inverse perp, or spot), the venue's `position`, the engine's `inventory`, `pending` fills,
the executor `twap`, and the shared `priorities`. `StartFlatten` is the L4 branch of
`tick_second` (register, rank, delay), `TickSlice` one later tick (`next_slice`, lot
rounding, IOC, any fill up to it), `OnFill` the booking, which counts any fill as
executor progress and drops a complete executor; L4 then creates the next one.
`ExpectedSlice` keeps the casts: `as u64`, product modulo 2^64, `as u32` (`U64` and
`U32` are smaller moduli in the runs, large enough that nothing but the negative
elapsed time wraps). Time is kept relative to `started_at`; `Normal` moves both
schedule counters back by one period to keep the state space finite. Positions and
fills are whole lots, which is what a venue deals in.

### LeaseAuthority

One agent (one fingerprint), any number of its connections. Controller side: `store`
(approval record), `named` (the record carries the agent's id), `http` (requests
between their store half and their send half), `fleet`, `registry`. Session `s`:
`phase`, the cached `approval`, `current` lease, `life` (lifecycle channel), `cmd`.
Wire: `link`, `up`, `down`; a break loses a suffix of each direction, and a send on a
broken link is lost silently or fails. Agent: `mode` of the reconnect loop, `lease`,
`asked`, `creds`, `slot` (the deployment's entry in `running`), `detached` (an engine
left behind by a dropped registry), `resting` (its orders).

Two-step code is two actions: `accept_agent` changes the store (`Decide`) and later
looks the session up (`SendLifecycle`); `on_register` reads the store (`OnRegister`)
and later enters the registry (`FinishRegister`). `Timeout` is the timer branch of the
pump (refresh request, then the expiry check at the loop head); `Applied` is what the
loop does after a command: acknowledge, check expiry. Time is counted in ticks; the
agent's clock is `Skew` ticks ahead, and `late` remembers whether any tick passed with a
message or a timer outstanding. A lease is its id and issue time. Signatures,
sequence cursors, telemetry and the commands that change no authority are left out.

`Authority` is what all of this promises, with sessions, wire and handlers forgotten: a
clock, whether an operator ever accepted the agent, the instant its authority runs `until`,
the `tools` it trades with (credential, engine), and whether the process `ended`. Nothing is
handed out before acceptance; `until` lies ahead when it is set, at most a TTL after the
controller's clock, and moves only forward while a session lasts; a process that gave up
keeps nothing. The mapping is `clock <- AgentNow`, `accepted <- everAccepted`,
`until <- Until` (expiry of the held lease), `tools <- Equipment`, `ended <- mode = "dead"`.
`lease.rs` says of `issued_seq` that agents can reject out-of-order issuances; the agent
compares it with nothing when it installs a lease, so it is the order of one connection that
keeps `until` from moving back (`Rising` in the proof).

### OrderTable and OrderSets

`live` is `live_orders`, `index` is `price_index`, `venue` the venue's own record of our
orders, `owed` filled lots whose event is undelivered, `want` the quotes handed to
`execute_diff`. `RemoveOrders`, `TrackOrders`, `RepriceOrders` and `Filled` are the four
operations on the two maps, with the slot semantics of the code: removing an order
empties the slot at its key whichever order it names, tracking overwrites it. `Pairing`
states the greedy amend pairing as the function it computes. `Execute` is one diff: amends,
then cancels, then placements, any of which may fail, take effect silently, or, after a
failed batch, be sent twice. `OrderSets` forgets all but ids.

An amend sends what is left of the order as its quantity, and both connectors with a native
amend pass that on in the venue's field for the order's size. `Resized` reads it as the new
size, filled part included, and `Applies` lets the venue refuse a size it has already filled;
the repository says nothing on this, so the reading is an assumption about the venues. Under
it a partly filled order shrinks when it is amended while `reprice_order` keeps its size,
and `FaultFreeIsExact` can only bound the size. Such an amend takes an order of three lots,
more than the run has; the theorem `FaultFreePicture` has no such bound.

What it shows beyond its properties: two orders at one price share a slot, so one of them
is invisible to every later diff (`StaleReaped` below). `used` counts faults, so that
liveness is about what happens once calls succeed.

### QuoteGates and BookSync

`BookSync` abstracts a book to the set of the venue's updates it reflects: it is a real book
as of update n exactly when it reflects `1 .. n`. Nothing is assumed of delivery. `blind`
marks the two holes `on_event` does not look for: the first delta after start-up, whose
snapshot goes round the keeper, and a jump of 1000 or more.
`QuoteGates` has one action per way out of `refresh_quotes`, in the order of the gates, and
one per handler that changes what the gates read. Time stamps are "never", "fresh" or
"stale"; which orders rest is one bit, as is which the manager tracks.

Noted on the way: `PauseQuoting` cancels nothing and shares `lifecycle_paused` with the
lifecycle manager, so a `Resumed` event ends an operator's pause and `ResumeQuoting` starts
a delisted pair again; the cancels of a halt and of a stale book are one-shot; the lifecycle
and stale-book gates return before the kill-switch cancel, and the soft spread gate before a
tripped breaker cancels (hence the premise of `TrippedDrains`); `Connected` clears every
trip reason; a reason that heals can hide a wide spread for one refresh. The margin
projection gate, the protections lock and the gates behind the resync are left out.

### FillLedger

`wallet` is the venue; `stream` the undelivered events (a fill, then a balance snapshot);
`book` the `InventoryManager` with average entry and realized PnL as exact fractions;
`baseline`/`based` the drift reconciler; `drift` and `delta` the verdicts of the last
reconcile. `Missed` is a fill without an event, `Unattended` one of an order whose process
is dead. `start`, `sent`, `applied`, `lost`, `away` (the net of what filled while no process
ran), `adj`, `cash` are history.

Noted: a failed start-up query makes the baseline 0, and auto-correct then turns the whole
wallet into inventory; fills in flight when the baseline is taken read as drift for ever;
the position-delta check compares two figures that one function moves, so it never sees a
lost fill (`MissedFillFlagged`, refuted) and fires for ever after a correction; a correction
leaves entry price and PnL as they were (hence `~touched`). Fees, deposits and
deduplication by trade id are not in the model; the last is not in the code either.

### PairedUnwind

One executor, two legs, two lagging streams. The schedule is reduced to what `next_slice`
asks of it (`due`); the hedge target is the primary inventory times the multiplier, a
fraction `MultNum / MultDen`, whatever the hedge really holds (`Tilts`), and both legs use the
primary's lot. Quantities are in units fine enough to make every hedge target whole. Neither
slice is reduce-only, so a leg may be turned around: `OvershootBounded` says by how much. A
maker fill in flight at L4 counts as progress, which is why three properties ask for a `clean`
start.

Rounding is what stops an unwind. `Spent` says that the slice left to a leg is below one lot;
an executor that is spent on a leg is not complete, neither trades nor goes away, and keeps
another from being created. With the code's ten slices this is the normal case of a target
below ten lots, and of any hedge target that is not a whole number of lots. After a clean
start little is left behind; a stray maker fill that the hung executor did not know of leaves
any amount. `PrimaryUnwinds` says that nothing else stops it: the primary ends flat, or both
legs are spent.

### PairDrivers

One lot per dispatch. `Dispatch` is the set of outcomes of the funding executor: taker leg,
maker leg, up to four compensations, each of which may take effect behind an error. The
statistical driver sends two IOC legs. `unseen` is what the venues did differently from
their answers, `alarm` that a break tripped L2. Noted: a break on exit is compensated
reduce-only against a hedge that is flat, so it never is; the maker leg is unknown to the
order manager and is cancelled by the next diff after a reconcile adopts it; `PairDrivers`
does not gate ticks by the kill level because the code does not.

### AtomicBundle

Two engines and one bundle id. `RefreshOriginator` is the originator's sweep, watchdog,
graph tick and quote; the sibling's sweep is two actions, `LookUp` and `RefreshSibling`,
because it takes the shared lock twice. Prices are in units of which `Tick` make a tick: legs
are registered at the graph's price and quoted at the floored one, so a price more than half
a tick above its grid point is never acked. Noted: re-emission resets the watchdog's clock; a
leg that fills before a sweep sees it is never acked; a rollback does not recall the
sibling's mailed leg.

## 3. Runs

Passing runs:

| Run | Shows | Bounds |
|---|---|---|
| `kill_ladder` | `TypeOK`, `KillStopsQuoting`, `KillHolds`, `FlattenAfterCancel`, `KilledDrains` | 1 emulated stop buy, 1 sell, SOR on, every source (the graph too), a position and a fill lag of one, two errors and one message to the limits, one restart. Sources assign levels below the one in force; stops, SOR and funding legs come to rest at every level, and an order that leaves the book may be placed again by them, or its answer lost; partial failures of `cancel_all` need no second order, since each order and each query fails by itself |
| `flatten_unwind` | `TypeOK`, `NeverFlips`, `EventuallySmall` | positions of up to 8 lots of 2 units, 3 slices in 3 s, two undelivered fills, perp and spot: a late fill overlaps two slices, an executor ends early, a target is below one lot per slice |
| `lease_admission` | `TypeOK`, `ImplementsAuthority` | two connections, two decisions, one deploy, one tick: a reconnect overlaps the old session, an acceptance is followed by a denial, and a refresh moves the lease on |
| `lease_clock` | `RevocationBoundedByTtl`, `NoSpuriousExpiry` | TTL 2, refresh at 1, five ticks, three decisions, failing disk: two refreshes and a denial in between |
| `order_table` | `TypeOK`, `IndexSound`, `FaultFreeIsExact`, `ImplementsOrderSets`, `WantedGetsQuoted` | 4 ids, one side, 2 prices, partial fills of 2-lot orders, one faulty handler, one venue event, two moves of the quotes: enough for an amend, a duplicate after a batch and a shared slot. A second side adds only independent keys |
| `pair_drivers` | `TypeOK`, `NakedIsAlarmed`, `NoDispatchAfterAlarm` | both drivers, 5 dispatches, one order that does not do what its answer says, two own fills, three fills of lag |
| `quote_gates` | `TypeOK`, `TrustedIsInSync`, `QuotesInSync`, `DelistedStaysDown`, `BreachHaltsNextQuote`, `QuotingResumes`, `TrippedDrains` | 2 book updates in any order and number, 2 outside events, one fault. A hole of one update and the hole before the first event occur; a jump beyond the ceiling needs a longer stream and is covered by the theorem |
| `fill_ledger` | `TypeOK`, `Conserved`, `PnlIsCashFlow`, `LossesSurface`, `DriftHeals` | 3 fills of 1 or 2 units at two prices, two of them lost, one failed query, one crash, auto-correct on and off: positions are averaged, reduced, closed and turned around, and two losses below tolerance add up |
| `paired_unwind` | `TypeOK`, `OvershootBounded`, `DoneMeansUnwound`, `PrimaryUnwinds` | lots of 2 units, primary of 1, -4 or 5 lots, multiplier 1/2, a hedge off by half a lot, two slices, two fills of lag, a stray of -1, 0 or 5 lots. One lot is below a lot per slice and hangs at once, also with a stray five times its size; four unwind in whole lots; five leave half a lot of the hedge, so that a finished primary waits on it for ever |
| `atomic_bundle` | `BundleTypeOK`, `CompletedWasLive`, `BundleSettles` | three emissions at a price on the grid, one just above it and one nearer the next, time-out 2 |

`CHECK_DEADLOCK FALSE` is set where the system may stop: an engine after shutdown, an
executor whose fills do not come, an agent after losing authority, a dropped driver, or a
bound that is exhausted.

Violation runs, each of one sentence of the repository that the code contradicts:

| Run | Property | What TLC finds |
|---|---|---|
| `kill_assigns` | `OnlyEscalates` | the level reaches L3, a critical headline sets it to L2 |
| `fill_offline` | `CarriedPositionFlagged` | the process dies, an order it left fills, the next process starts, takes the wallet as its baseline at its first check and reports nothing. It carries a position it does not know of |

Every property of a passing run is also run against a mutated definition
(`Mut_...`, next to the definition it replaces) that it must refute.

### Promises the code does not keep

The modules also state sentences of the repository that the code contradicts. TLC refutes
each one, in the violation runs above or when it is put into the named `.cfg` in place of the
properties there:

| Property | In | Sentence, and what happens |
|---|---|---|
| `OnlyEscalates` | run `kill_assigns` | `docs/risk.md:5` "It can only **escalate**". `manual_trigger` assigns: a critical headline takes L3 or L4 down to L2 |
| `NoNewOrders` | `Kill_ladder.cfg` | `kill_switch.rs:13` "no new orders, let existing expire". The funding driver, the emulator and the inline SOR place resting orders at L2 and above |
| `MissedFillFlagged` | `Fill_ledger.cfg`, as an invariant | `market_maker.rs:6976` "flags a mismatch that slipped under both", `inventory.rs:52` "detect silent WS-level fill drops". A dropped fill is in neither figure of the check |
| `CarriedPositionFlagged` | run `fill_offline` | `market_maker.rs:6002` "will flag any inventory mismatch on the next cycle". What filled between two processes is inside the new one's baseline |
| `FlattenFindsBookClear` | `Kill_ladder.cfg` | `order_manager.rs:907` "every tracked order is confirmed cancelled". A failed first query clears the tracking and reports Ok |
| `DelayHonoured` | `Flatten_unwind.cfg`, two symbols, `StaggerSecs = 2`, as an invariant | `twap.rs:74` "defer the first slice by `delay_secs`". The negative elapsed time wraps in the cast to `u64` |
| `RevokedHoldsNoAuthority` | `Lease_clock.cfg` | `controller/lib.rs:139` "hold no authority". A revocation between the halves of `on_register` reaches nobody |
| `RegistryReachesAgent` | `Lease_admission.cfg` | `controller/lib.rs:563` "so HTTP handlers can reach this session". The old session's clean-up removes the new one's entry |
| `LossCancelsOrders` | `Lease_admission.cfg` | `market_maker_runner.rs:14` "cancels orders, unwinds inventory". `abort_all` races the engine's own cancel |
| `StaleReaped` | `Order_table.cfg` | `market_maker.rs:6910` "so the next diff can cancel them". An adopted order that shares a slot is not seen by any diff |
| `ClosedIsFlat` | `Pair_drivers.cfg` | `stat_arb/driver.rs:604` "an accidental flip is caught by the pair-break detector". Two failed entry legs still record a position, whose exit opens the reverse |
| `LedgerInSync` | `Pair_drivers.cfg` | `funding_arb_driver.rs:274` "bookkeeping stays in sync with actual exchange-side position". The entry sets the ledger and the fills are added again |
| `HaltedNeverQuotes` | `Quote_gates.cfg` | `market_maker.rs:308` "the engine never quotes against a halted symbol". The first poll has nothing to compare with, and an operator's resume clears the same flag |

For several of them the part that the code does keep is a theorem (section 5):
`KillHoldsUntilCommand` and `OnlyOperatorUnwinds` for the first, `KilledEngineQuotesNothing`
for `NoNewOrders`, `SilentCheckBoundsLoss` (the balance check does see a dropped fill) for
`MissedFillFlagged`, `FlattenStartsAfterCancel` for `FlattenFindsBookClear`, `DenialArrives`,
`OnlyOlderSessionsEvict`, `DiffDoesItsJob`, `BreakLeavesOneLot` for `ClosedIsFlat` and
`HaltKeepsPause` for the last.

What the same models show without a property:

- No automatic input takes the level to L4: `docs/risk.md:13` gives Flatten All as an
  "Escalation from L3", but only the operator or a graph sink reaches it
  (`OnlyOperatorUnwinds`).
- The flatten does not reach zero (`docs/risk.md`, "TWAP to zero inventory"): a target below
  `num_slices` lots rounds every slice to nothing, and such an executor stays and keeps another
  from being created. A fill it did not make grows the position behind it, which is why
  `EventuallySmall` promises two lots per slice and not one.
- A restart returns a killed engine to Normal; a reset keeps a running executor.
- At L5 one `cancel_all` is tried and its result dropped (`EnterDisconnect`).
- The message counter counts refreshes and the error streak counts failed refreshes, while
  `execute_diff` swallows failing calls (`RefreshQuotes`).
- A finished unwind keeps its waterfall registration: `clear_flatten_priority` has no caller.
- A session that ends by an error stays in the registry; a `LeaseRevoke` ends an agent without
  a lease; a deploy starts an engine without one.
- With the agent's clock ahead by the refresh margin, a refresh request is ignored as too soon
  and never repeated (`lease_clock` with `Skew = 1` refutes `NoSpuriousExpiry`).
- The summary of `Out.AtomicBundle` (`catalog.rs`, "both legs fill or both roll back within
  timeout_ms") is not what the watchdog does: it drops the override of the originator only.

## 4. Fairness

`KillLadder!Fairness`: the run loop is one task that never returns before shutdown, so
startup and the loop head are weakly fair. `Reconcile` and `CancelsLand` (a tick whose
cancels all reach the venue) are strongly fair: timers fire for ever, and a request that
is repeated for ever succeeds some time. Without the second assumption a venue that
refuses every cancel would keep the book full, and no code could help. Operators, sources
and the venue's fills have no fairness.

`Flatten!Fairness`: ticks and deliveries are weakly fair (`tokio` timers, a stream that is
drained); an aggressively priced IOC that is sent again and again fills some time.

`LeaseAuthority` has no fairness: its results are safety, including the dead-man bound,
which is stated against the clock.

`OrderTable!FairSpec`, `QuoteGates!FairSpec`: the interval arms of the run loop (refresh,
reconcile, lifecycle poll) and the delivery of fills are weakly fair; failures are bounded by
`MaxFaults`, so a call succeeds in the end. `QuotingResumes` and `TrippedDrains` put the
market's behaviour into their premises instead of assuming it.

`FillLedger!FairSpec`: a dead process is started again (`restart: unless-stopped` in
`docker-compose.yml`, `Restart=on-failure` in `deploy/systemd/mm.service`), the loop drains its
stream, and the balance query that is repeated at every reconcile answers.

`PairedUnwind!FairSpec`: ticks, both streams and the return of the hedge feed are weakly fair;
an IOC offered again and again fills some time, on each leg (strong fairness of `FilledLeg`).

`AtomicBundle!FairBundleSpec`: refreshes of the originator and the clock. The sibling has no
fairness: a bundle settles without it. `PairDrivers` has none.

## 5. Proofs

All theorems hold for every value of the constants allowed by the `ASSUME` of the module
(finite order sets, positive bounds), plus the hypotheses named here.

- `KillLadderTypeCorrect`, `FlattenTypeCorrect`, `LeaseTypeCorrect`: the type invariants, by
  one step per action. In `LeaseAuthority` the conjunct "an agent in a session has a session
  number" is what makes every `phase[cur]` defined.
- `KilledEngineQuotesNothing`: `Spec => KillStopsQuoting`, without hypotheses. Everything the
  order manager places passes `allow_new_orders`; what comes to rest beside it is listed by the
  property. The invariant `StopsApart` (a stop the emulator holds neither rests nor is tracked)
  is what makes a triggered stop recognisable as one.
- `FlattenStartsAfterCancel`: the outcomes of `CancelAll` with `ok` have nothing tracked.
- `KillHoldsUntilCommand`: `Spec => KillHolds`, for any set of sources and any restarts. Each
  action either escalates or assigns the level of its source; that a driver which trips the
  switch is a configured source (`DriversAreSources`) puts its level into `SourceLevels`, and a
  graph sink is only reached below L2.
- `PerpNeverFlips`: for every engine that trades a perp; a fill of a reduce-only slice is cut at
  the position it reduces, whatever the executor believes.
- `NothingBeforeAcceptance`: `~everAccepted` says nothing about messages in flight, so the
  inductive invariant `Admission` follows authority upstream: the store is not accepted, no
  session caches an acceptance after registering, no "granted" event is in any handler or
  channel, and no lease or credential is on any wire.
- `DenialEndsAuthority`: the invariant `Dated` says that every lease on the wire or held by the
  agent was issued no later than now and, where the session does not accept the agent, no
  later than `deniedAt`; the admission and refresh gates keep it so, and expiry does the rest.
- `LapseHasCause`: under `RefreshInTime`, that is `Skew < RefreshAt < Ttl` and
  `MinRefresh <= RefreshAt - Skew`. With the code's defaults (TTL 120 s, refresh at a third of
  it, rate limit 3 s) this says that the agent's clock is at most 37 s ahead, and
  `lease_clock` with `Skew = 1` shows that the property fails without it. The invariant
  `Punctual` follows one lease round the loop, as long as nothing was late on a working link:
  the held lease is not overdue for its refresh (`OnTime`); session and agent agree on it, or
  the wire is bringing it (`InStep`); and a refresh that was asked for is on its way to the
  session or answered. Asking once per issuance is enough because no answer is ever refused.
- `LeaseRefines`: `Spec => Promise!Spec`. Each action of the agent is one of `Authority` or a
  stutter, everything else a stutter, an acceptance or a tick. Three invariants carry it:
  `Admission` (nothing before acceptance), `Dated` (no lease carries an issue time after
  the controller's clock), and `Rising`, that the leases on the current connection are in order
  of issue and none is older than the one held. A reconnect starts from an empty wire
  (`Unopened`), which is what allows `Rising` to survive it.
- `IndexNeverDangles`, `FaultFreePicture`: one invariant, `Inv`, carries both. While nothing has
  failed the index must also be complete (`Full`: every live order owns its slot), or an amend
  could take a slot another order still needs. A lemma per map operation (`RemoveTable`,
  `TrackTable`, `RepriceTable`, `FilledTable`) says what it preserves; `TableAfterDiff` and
  `VenueAfterDiff` put them together for a diff.
- `TableRefines`: `Spec => Sets!Spec`. Every action is one of `OrderSets` or a stutter under
  `tracked <- DOMAIN live`, `venue <- DOMAIN venue`; that a diff tracks only what rests and
  withdraws only what it forgets follows from the shape of the plan (`PlanShape`).
- `LadderCallsOrderSets`: every step of `KillLadder` but a restart changes tracked and resting
  orders as at most three consecutive calls of `OrderSets` would (the emulator's stop, an unwind
  slice, a `cancel_all` or a diff). The states between the calls are not states of `KillLadder`,
  whose handlers are atomic, so this is not a refinement step by step but a chain
  per handler. By `StopsApart`, triggering a stop is a placement of a fresh id.
- `Trusted`, `QuotesOnSyncedBook`: `BookInv` adds that the keeper's number is never ahead of the
  book's, so a delta that is next for the keeper is next for the book. A quoting refresh has
  resynced (`QuotingInv`).
- `DelistedFinal`: the latch implies the pause until `ResumeQuoting` (`DelistedInv`).
- `NeverTwiceThrough`: after a refresh that quoted through a breach the breaker holds no reason
  other than a stale book (`BreachInv`), and then every reason that is checked is found.
- `FillsConserved`, `SilentCheckBoundsLoss`, `DeltaBlindToLoss`: each event on the stream carries
  the running total it was sent with, so that the stream is a path from `applied` to `sent`
  (`StreamOK`); with the verdict of the last check (`Verdict`) the loss bound is arithmetic.
  `DeltaBlindToLoss` says of the position-delta check that it fires only after a correction: why
  `MissedFillFlagged` fails, whatever the tolerance.
- `PnlMatchesCash`: realized PnL is the cash flow plus the position at cost, as long as no
  correction touched the inventory. With average and PnL as fractions this is a polynomial
  identity (`Balanced`), kept with positive denominators; one lemma of algebra for each way a
  fill moves the position (`GrowAlgebra`, `ShrinkAlgebra`, `CloseAlgebra`) shows that `on_fill`
  keeps it, for every quantity and price.
- `OvershootWithinLag`, `CompletionIsReal`: for each leg the undelivered fills lead from what
  is booked to what has filled in steps of at most one slice (`Account`); a stream of bounded
  length is then a bound on the difference.
- `NakedPairAlarms`, `AlarmStopsDriver`: every outcome of a dispatch that is not an alarm
  balances to its `unseen` part (`OutcomeBalance`), and an alarm detaches the driver.
- `BreakLeavesOneLot`: how naked a pair gets. `Bounded` adds to the invariant of
  `NakedPairAlarms` that the exposure is within one lot of `unseen`, and `unseen` within the
  number of orders that slipped; that the driver is gone after an alarm is what keeps a
  second break from adding a second lot.
- `BundleTypeCorrect`, `RetiredBundleWasLive`: about `AtomicBundle`, whose definitions are
  named apart from `Flatten`'s (`BundleSpec`, `BundleTypeOK`) so that one module proves about
  both protocols of the state that engines share. `BundleInv` says that the originator's table
  and the shared ack map hold the same bundle (`Paired`), that a leg live at the registered
  price has been seen (`LiveIsSeen`), and that an ack, or a match the sibling is about to ack,
  is of a leg that was seen (`AckedWasSeen`), unless the sibling's two-step ack raced a
  replacement, which `raced` records. The race itself is not excluded: property and theorem
  say that it is the only way to retire a bundle whose legs were not live.
- `RanksAreStrict`: a fact about `flatten_priority_rank` alone, from cardinalities: the engines
  before the first of two are a proper subset of those before the second.

What the code keeps of promises that section 3 shows broken:

- `DiffDoesItsJob` (of `StaleReaped`): a diff none of whose calls failed leaves exactly the
  wanted levels indexed, and while nothing has ever failed no order at another price rests
  after it. From the invariant of `FaultFreePicture`, since only a complete index shows every
  order to the diff.
- `DenialArrives` (of `RevokedHoldsNoAuthority`): an agent that has received what its
  connection carries and holds authority is one its session accepts. The invariant
  `Notified` says that a session that does not accept its agent has sent a revocation that is
  still on the wire, or that no lease is held or on its way. What is left of the broken promise
  is the window of `on_register` between the store and the session.
- `OnlyOlderSessionsEvict` (of `RegistryReachesAgent`): the entry of a connected agent is lost
  only to a step of an older session. From the type invariant and `Unopened`: sessions after
  the current one have not started.
- `OnlyOperatorUnwinds` (of `OnlyEscalates`), with no graph among the sources: only the
  operator takes the level to L4 or above, an unwind starts only there, and the engine
  disconnects only at L5 (`docs/risk.md:14`, "Manual only").
- `PausedForCause`, `HaltKeepsPause` (of `HaltedNeverQuotes`): a pause has a cause that is
  still on record, and behind the first poll a halt sets the pause, which only the operator's
  resume or a poll that sees trading clears. One lemma, `PauseSteps`, lists how any step may
  touch the flag.

**Only model-checked:** the liveness properties (`KilledDrains`, `EventuallySmall`,
`WantedGetsQuoted`, `QuotingResumes`, `TrippedDrains`, `DriftHeals`, `PrimaryUnwinds`,
`BundleSettles`), since fairness is outside what the prover handles, and everything that is
refuted. Every invariant and every action property of the passing runs has a theorem.

## 6. Not modelled, and the plan

Next, in this order:

1. `StrategyRegistry`: several deployments and their signatures. `reconcile` never asks whether
   a task has finished, although `running_count` says the next one re-spawns it, and
   `patch_variables` changes variables without the signature; redeploy against orders left
   behind; composes with `LeaseAuthority` through `slot`.
2. `WsRpc` and `FixSession`: correlation of answers after a reconnect; sequence numbers, gap
   fill, resend.
3. `Checkpoint`: write, rename, restore, crash in between; a durable cell as the abstract
   specification and the file protocol shown to implement it.
4. An abstract specification of the kill level, one that only rises until the operator speaks,
   for the configurations in which the engine implements it.
5. Reservations of the balance cache, once `reserve` has a caller; DCA and XEMM beside the
   gates; the fail ladder.

Theorems worth adding: the refinements of items 3 and 4.

Left out for good: numeric strategies, indicators and signals (decimal formulas without a
protocol), the exchange connectors' HTTP and signing (I/O), dashboard read models, client API
and configuration parsing (data shapes without state transitions), the graph's source and
strategy nodes (pure functions of market data), frontend, backtester, hyperopt, on-chain
pollers, deployment scripts. They are most of the repository's lines.
