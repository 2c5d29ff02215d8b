---------------------------- MODULE KillLadder ----------------------------
(***************************************************************************)
(* One market-maker engine under its kill switch.                          *)
(*                                                                         *)
(* The kill switch is a level, Normal (0) to Disconnect (5).  Automatic    *)
(* risk inputs raise it, the operator sets and resets it, and news,        *)
(* sentiment, the arbitrage drivers and the strategy graph set it through  *)
(* manual_trigger.  The run loop turns the level into what happens to the  *)
(* orders: quoting stops at L2, everything is cancelled at L3, an unwind   *)
(* executor starts at L4 once nothing tracked is left, and at L5 the loop  *)
(* is severed after one cancel_all.                                        *)
(*                                                                         *)
(* The venue is the truth about resting orders; the OrderManager tracks    *)
(* what it believes is live.  Cancels fail, acknowledgements are lost and  *)
(* open-order queries fail, so the two sets drift apart, and reconcile     *)
(* brings them together again.  An order is for one unit; the schedule and    *)
(* the quantities of the unwind are the business of module Flatten.        *)
(***************************************************************************)
EXTENDS Integers, Sequences, FiniteSets

CONSTANTS Buys, Sells,    \* the ids the venue hands out to buys and to sells
          Stops,          \* stop-limit orders registered with the OrderEmulator
          Sor,            \* sor_inline_enabled
          Sources,        \* attached callers of manual_trigger besides the operator
          MaxErrors,      \* max_consecutive_errors
          MaxMessageRate, \* max_message_rate
          MaxInv,         \* bound: the largest position
          MaxLag,         \* bound: fills the user stream may hold undelivered
          MaxRestarts     \* bound: process restarts

Orders == Buys \cup Sells
AllSources == {"news", "sentiment", "funding_arb", "stat_arb", "graph", "client"}
Drivers == {"funding_arb", "stat_arb"}

ASSUME KillLadderAssumption ==
  /\ IsFiniteSet(Buys) /\ IsFiniteSet(Sells) /\ Buys \cap Sells = {}
  /\ Stops \subseteq Orders /\ Sor \in BOOLEAN
  /\ Sources \subseteq AllSources
  /\ MaxErrors \in Nat \ {0} /\ MaxMessageRate \in Nat \ {0}
  /\ MaxInv \in Nat /\ MaxLag \in Nat /\ MaxRestarts \in Nat

VARIABLES phase,         \* "boot", "run" or "stopped"
          level,         \* KillSwitch.current_level
          errors,        \* KillSwitch.consecutive_errors
          msgs,          \* KillSwitch.message_count_this_second
          disconnected,  \* the run loop's L5 flag
          tracked,       \* OrderManager.live_orders
          venue,         \* the orders resting at the venue
          fills,         \* fills on the user stream, in order, by order id
          inv,           \* InventoryManager.inventory()
          twap,          \* signed quantity left to the unwind executor, 0: none
          drivers,       \* arbitrage drivers still attached
          stops,         \* emulated stop orders not yet triggered
          restarts,      \* restarts so far
          operator       \* history: 0 or 1, changed by every kill command of
                         \* the operator

kill   == <<level, errors, msgs>>
vars == <<phase, level, errors, msgs, disconnected, tracked, venue, fills, inv,
          twap, drivers, stops, restarts, operator>>

Side(o)      == IF o \in Buys THEN 1 ELSE -1
Sign(n)      == IF n > 0 THEN 1 ELSE -1
Larger(a, b) == IF a > b THEN a ELSE b
Capped(n, m) == IF n > m THEN m ELSE n

\* The venue's ids are new: none is in use anywhere, t and f included.
Fresh(t, f) == Orders \ (t \cup venue \cup stops \cup {f[i] : i \in DOMAIN f})

\* What the venue holds for us, once every fill of stream f is booked.
Position(f) == inv + Cardinality({i \in DOMAIN f : f[i] \in Buys})
                   - Cardinality({i \in DOMAIN f : f[i] \in Sells})

Fits(o, f) == Len(f) < MaxLag /\ Position(f) + Side(o) \in -MaxInv .. MaxInv

-----------------------------------------------------------------------------
(* The operations of KillSwitch and OrderManager the handlers call.         *)

\* Mutant: the level follows the latest reading, up or down.
Mut_Escalated_Follows(l) == IF l = 0 THEN level ELSE l

\* escalate: only upwards; 0 stands for no finding.
Escalated(l) == IF l > level THEN l ELSE level

\* Mutant: StopNewOrders itself still lets quotes through.
Mut_AllowNewOrders_AtL2 == level <= 2

\* allow_new_orders
AllowNewOrders == level < 2

\* cancel_all from tracked orders t and resting orders v.  The two cancel
\* passes take `gone` off the book.  A failed first query clears the tracking
\* and reports Ok; a failed second one keeps what the first still saw.
CancelAll(t, v) ==
  IF t = {} THEN {[tracked |-> {}, venue |-> v, ok |-> TRUE]}
  ELSE UNION {LET left == v \ gone IN
                {[tracked |-> {}, venue |-> left, ok |-> TRUE],
                 [tracked |-> t \cap left, venue |-> left, ok |-> t \cap left = {}]}
                \cup {[tracked |-> seen, venue |-> left, ok |-> FALSE] :
                        seen \in {s \in SUBSET (t \cap v) : s # {} /\ t \cap left \subseteq s}}
              : gone \in SUBSET (t \cap v)}

\* The OrderEmulator's tick at the head of refresh_quotes: triggered stops are
\* sent straight to the connector and never tracked.
EmulatorTick ==
  UNION {{[venue |-> venue \cup placed, stops |-> stops \ fired] :
            placed \in SUBSET fired} : fired \in SUBSET stops}

\* The kill sinks a strategy-graph tick emits go to manual_trigger in turn: the
\* last one decides; 0 stands for none.
GraphSinks == {0} \cup (IF "graph" \in Sources THEN 1 .. 5 ELSE {})

\* The level after update_market_resilience, which asks for at most WidenSpreads,
\* and a graph tick.
Sunk == {IF g = 0 THEN Escalated(l) ELSE g : l \in 0 .. 1, g \in GraphSinks}

-----------------------------------------------------------------------------
\* The process starts with whatever an earlier one left resting.
Init ==
  /\ phase = "boot" /\ level = 0 /\ errors = 0 /\ msgs = 0
  /\ disconnected = FALSE
  /\ tracked = {} /\ venue \in SUBSET (Orders \ Stops)
  /\ fills = <<>> /\ inv = 0 /\ twap = 0
  /\ drivers = Drivers \cap Sources /\ stops = Stops /\ restarts = 0
  /\ operator = 0

\* run_with_hedge: reconcile and cancel_all before the first tick.
Startup ==
  /\ phase = "boot"
  /\ \E t \in {tracked, venue} : \E r \in CancelAll(t, venue) :
       tracked' = r.tracked /\ venue' = r.venue
  /\ phase' = "run"
  /\ UNCHANGED <<kill, disconnected, fills, inv, twap, drivers, stops, restarts, operator>>

\* The loop head runs before every select: an arm of either select sees the
\* flag agree with the level.
Connected == phase = "run" /\ ~disconnected /\ level # 5
Severed   == phase = "run" /\ disconnected /\ level = 5

\* Loop head, rising edge: one cancel_all, whose result is dropped.
EnterDisconnect ==
  /\ phase = "run" /\ level = 5 /\ ~disconnected
  /\ disconnected' = TRUE
  /\ \E r \in CancelAll(tracked, venue) : tracked' = r.tracked /\ venue' = r.venue
  /\ UNCHANGED <<phase, kill, fills, inv, twap, drivers, stops, restarts, operator>>

\* Loop head, falling edge.
LeaveDisconnect ==
  /\ phase = "run" /\ level # 5 /\ disconnected
  /\ disconnected' = FALSE
  /\ UNCHANGED <<phase, kill, tracked, venue, fills, inv, twap, drivers, stops,
                 restarts, operator>>

\* What refresh_quotes does to the book when it returns early: nothing, or a
\* cancel_all whose survivors are only logged (the kill check at L3, a stale
\* book, a breaker, a divergence).
EarlyReturn ==
  \E e \in EmulatorTick :
    /\ stops' = e.stops
    /\ \/ tracked' = tracked /\ venue' = e.venue
       \/ \E r \in CancelAll(tracked, e.venue) :
            tracked' = r.tracked /\ venue' = r.venue

\* refresh_quotes at L2 and above: the kill check, or a protection, a lifecycle
\* pause or a stale book ahead of it, returns.
RefreshKilled ==
  /\ Connected /\ ~AllowNewOrders
  /\ EarlyReturn
  /\ UNCHANGED <<phase, kill, disconnected, fills, inv, twap, drivers, restarts, operator>>

\* refresh_quotes when the per-client loss circuit is found tripped: the level is
\* set to L3, whatever it was, and a gate behind it returns.
ClientCircuit ==
  /\ Connected /\ "client" \in Sources
  /\ level' = 3
  /\ EarlyReturn
  /\ UNCHANGED <<phase, errors, msgs, disconnected, fills, inv, twap, drivers,
                 restarts, operator>>

\* refresh_quotes below L2 stopped by another gate.
RefreshGated ==
  /\ Connected /\ AllowNewOrders
  /\ level' \in Sunk
  /\ EarlyReturn
  /\ UNCHANGED <<phase, errors, msgs, disconnected, fills, inv, twap, drivers,
                 restarts, operator>>

\* refresh_quotes up to the venue-scoped kill gate at L3: orders are cancelled
\* and survivors make the refresh fail, which the loop counts as an error.
RefreshVenueKilled ==
  /\ Connected /\ AllowNewOrders
  /\ \E e \in EmulatorTick, k \in Sunk :
     \E r \in CancelAll(tracked, e.venue) :
       LET m == msgs + 1
           runaway == m > MaxMessageRate
           n == IF r.ok THEN errors ELSE Capped(errors + 1, MaxErrors)
           asked == Larger(IF runaway THEN 3 ELSE 0,
                           IF ~r.ok /\ n >= MaxErrors THEN 2 ELSE 0)
       IN /\ stops' = e.stops
          /\ tracked' = r.tracked /\ venue' = r.venue
          /\ msgs' = Capped(m, MaxMessageRate + 1) /\ errors' = n
          /\ level' = Larger(k, asked)
  /\ UNCHANGED <<phase, disconnected, fills, inv, twap, drivers, restarts, operator>>

\* cancel_orders_batched: every order it tries to cancel is dropped from the
\* tracking; the cancel of some of them lands.
Cancels == UNION {{[dropped |-> d, landed |-> c] : c \in SUBSET d} : d \in SUBSET tracked}

\* place_quotes_batched: what is acknowledged is tracked; other placements are
\* refused, or rest although their answer was lost.
Placements ==
  LET free == Fresh(tracked, fills)
  IN UNION {{[acked |-> a, lost |-> l] : l \in SUBSET (free \ a)} : a \in SUBSET free}

\* refresh_quotes to the end: on_message_sent once for the whole diff, then
\* execute_diff, whose failing calls are only logged.
RefreshQuotes ==
  /\ Connected /\ AllowNewOrders
  /\ \E e \in EmulatorTick, k \in Sunk, c \in Cancels, p \in Placements :
       LET m == msgs + 1
           asked == IF m > MaxMessageRate THEN 3 ELSE 0
       IN /\ stops' = e.stops
          /\ tracked' = (tracked \ c.dropped) \cup p.acked
          /\ venue' = (e.venue \ c.landed) \cup p.acked \cup p.lost
          /\ msgs' = Capped(m, MaxMessageRate + 1)
          /\ level' = Larger(k, asked)
  /\ UNCHANGED <<phase, errors, disconnected, fills, inv, twap, drivers, restarts, operator>>

\* An unwind slice against position q (0: none is due), from tracked orders t
\* and stream f: an IOC is tracked, fills or evaporates, and never rests; the
\* venue may refuse it.
Slices(q, t, f) ==
  {[tracked |-> t, fills |-> f]} \cup
  (IF q = 0 THEN {}
   ELSE LET ioc == {o \in Fresh(t, f) : Side(o) = -Sign(q)} IN
        {[tracked |-> t \cup {o}, fills |-> f] : o \in ioc} \cup
        {[tracked |-> t \cup {o}, fills |-> Append(f, o)] : o \in {p \in ioc : Fits(p, f)}})

\* The slices of one tick: execute_margin_reduce_slice, then the executor's.
TickSlices == UNION {Slices(twap, m.tracked, m.fills) : m \in Slices(inv, tracked, fills)}

\* Mutant: the flatten starts without looking at the cancel_all result.
Mut_Flatten_Unchecked(lv, ok) == lv >= 4 /\ twap = 0

\* tick_second creates an executor at L4, when there is none and cancel_all
\* reported every tracked order gone.
Flatten(lv, ok) == ok /\ lv >= 4 /\ twap = 0

\* tick_second: the counter is reset; the no-fill timeout, PnL, position value
\* and margin ratio ask for l; the margin guard and a running executor send
\* their slices; then L3 cancels everything and L4 starts the flatten.
TickSecond ==
  /\ Connected
  /\ \E l \in 0 .. 3, s \in TickSlices :
       /\ level' = Escalated(l)
       /\ fills' = s.fills
       /\ IF Escalated(l) < 3
          THEN tracked' = s.tracked /\ UNCHANGED <<venue, twap>>
          ELSE \E r \in CancelAll(s.tracked, venue) :
                 /\ tracked' = r.tracked /\ venue' = r.venue
                 /\ twap' = IF Flatten(Escalated(l), r.ok) THEN inv ELSE twap
  /\ msgs' = 0
  /\ UNCHANGED <<phase, errors, disconnected, inv, drivers, stops, restarts, operator>>

\* run_sor_dispatch_tick, which asks no kill switch: a taker leg is an IOC slice
\* of the OrderManager, a maker leg a post-only order that nobody tracks.
SorDispatch ==
  /\ Connected /\ Sor
  /\ \/ \E q \in {1, -1} : \E s \in Slices(q, tracked, fills) :
          tracked' = s.tracked /\ fills' = s.fills /\ UNCHANGED venue
     \/ \E o \in Fresh(tracked, fills) :
          venue' = venue \cup {o} /\ UNCHANGED <<tracked, fills>>
  /\ UNCHANGED <<phase, kill, disconnected, inv, twap, drivers, stops, restarts, operator>>

\* Mutant: orders found only at the venue are not taken over.
Mut_Reconcile_GhostsOnly ==
  /\ Connected
  /\ tracked' = tracked \cap venue
  /\ UNCHANGED <<phase, kill, disconnected, venue, fills, inv, twap, drivers,
                 stops, restarts, operator>>

\* reconcile with an answer from the venue: ghosts go, phantoms are tracked.
Reconcile ==
  /\ Connected
  /\ tracked' = venue
  /\ UNCHANGED <<phase, kill, disconnected, venue, fills, inv, twap, drivers,
                 stops, restarts, operator>>

\* A resting order is filled at the venue.
VenueFill ==
  /\ \E o \in venue : /\ Fits(o, fills)
                      /\ venue' = venue \ {o}
                      /\ fills' = Append(fills, o)
  /\ UNCHANGED <<phase, kill, disconnected, tracked, inv, twap, drivers, stops,
                 restarts, operator>>

\* handle_ws_event(Fill): inventory, tracking, the error streak, and the
\* executor, which counts every fill as its own.
OnFill ==
  /\ Connected /\ fills # <<>>
  /\ LET o == Head(fills) IN
       /\ inv' = inv + Side(o)
       /\ tracked' = tracked \ {o}
  /\ fills' = Tail(fills)
  /\ twap' = IF twap = 0 THEN 0 ELSE twap - Sign(twap)
  /\ errors' = 0
  /\ UNCHANGED <<phase, level, msgs, disconnected, venue, drivers, stops,
                 restarts, operator>>

\* manual_trigger(StopNewOrders) by a source; the level it finds does not matter.
StopNewOrders == level' = 2

\* A critical headline; overrides are drained at L5 as well.
OnNewsHeadline ==
  /\ Connected \/ Severed
  /\ "news" \in Sources
  /\ StopNewOrders
  /\ UNCHANGED <<phase, errors, msgs, disconnected, tracked, venue, fills, inv,
                 twap, drivers, stops, restarts, operator>>

\* A sentiment tick over both kill thresholds.
OnSentimentTick ==
  /\ Connected \/ Severed
  /\ "sentiment" \in Sources
  /\ StopNewOrders
  /\ UNCHANGED <<phase, errors, msgs, disconnected, tracked, venue, fills, inv,
                 twap, drivers, stops, restarts, operator>>

\* An uncompensated break of the funding pair trips L2 and drops the driver.
HandleDriverEvent(broken) ==
  \/ broken /\ StopNewOrders /\ drivers' = drivers \ {"funding_arb"}
  \/ ~broken /\ UNCHANGED <<level, drivers>>

\* So does a stat-arb dispatch one leg of which failed.
HandleStatArbEvent(broken) ==
  \/ broken /\ StopNewOrders /\ drivers' = drivers \ {"stat_arb"}
  \/ ~broken /\ UNCHANGED <<level, drivers>>

\* The funding-arb arm, which asks no kill switch: the driver's dispatch may post
\* a maker leg on the engine's symbol, acknowledged or not, that nobody tracks; the
\* taker leg and its compensation are orders of the hedge venue (PairDrivers).
FundingArbTick ==
  /\ Connected /\ "funding_arb" \in drivers
  /\ \E posted \in {{}} \cup {{o} : o \in Fresh(tracked, fills)} : venue' = venue \cup posted
  /\ \E broken \in BOOLEAN : HandleDriverEvent(broken)
  /\ UNCHANGED <<phase, errors, msgs, disconnected, tracked, fills, inv, twap,
                 stops, restarts, operator>>

\* The stat-arb arm, gated by nothing either: its leg on the engine's symbol is an
\* IOC that nobody tracks; it fills or evaporates.
StatArbTick ==
  /\ Connected /\ "stat_arb" \in drivers
  /\ fills' \in {fills} \cup {Append(fills, o) : o \in {p \in Fresh(tracked, fills) : Fits(p, fills)}}
  /\ \E broken \in BOOLEAN : HandleStatArbEvent(broken)
  /\ UNCHANGED <<phase, errors, msgs, disconnected, tracked, venue, inv, twap,
                 stops, restarts, operator>>

\* Mutant: the level of the override is not validated.
Mut_ManualKill_Unvalidated ==
  /\ Connected \/ Severed
  /\ \E l \in 0 .. 6 : level' = l
  /\ operator' = 1 - operator
  /\ UNCHANGED <<phase, errors, msgs, disconnected, tracked, venue, fills, inv,
                 twap, drivers, stops, restarts>>

\* apply_config_override(ManualKillSwitch): the operator sets any level.
ManualKill ==
  /\ Connected \/ Severed
  /\ \E l \in 1 .. 5 : level' = l
  /\ operator' = 1 - operator
  /\ UNCHANGED <<phase, errors, msgs, disconnected, tracked, venue, fills, inv,
                 twap, drivers, stops, restarts>>

\* apply_config_override(ManualKillSwitchReset): level and error streak only.
ManualReset ==
  /\ Connected \/ Severed
  /\ level' = 0 /\ errors' = 0 /\ operator' = 1 - operator
  /\ UNCHANGED <<phase, msgs, disconnected, tracked, venue, fills, inv, twap,
                 drivers, stops, restarts>>

\* shutdown: cancel_all once more, survivors are logged.
Shutdown ==
  /\ Connected \/ Severed
  /\ \E r \in CancelAll(tracked, venue) : tracked' = r.tracked /\ venue' = r.venue
  /\ phase' = "stopped"
  /\ UNCHANGED <<kill, disconnected, fills, inv, twap, drivers, stops, restarts, operator>>

\* The process dies and is started again: everything it held in memory, the
\* kill level included, starts over; the stream does not replay.
Restart ==
  /\ phase # "boot" /\ restarts < MaxRestarts
  /\ phase' = "boot" /\ restarts' = restarts + 1
  /\ level' = 0 /\ errors' = 0 /\ msgs' = 0 /\ disconnected' = FALSE
  /\ tracked' = {} /\ fills' = <<>> /\ inv' = 0 /\ twap' = 0
  /\ drivers' = Drivers \cap Sources /\ stops' = {}
  /\ UNCHANGED <<venue, operator>>

Next == \/ Startup \/ EnterDisconnect \/ LeaveDisconnect
        \/ RefreshKilled \/ ClientCircuit \/ RefreshGated \/ RefreshVenueKilled
        \/ RefreshQuotes \/ TickSecond \/ SorDispatch \/ Reconcile \/ VenueFill \/ OnFill
        \/ OnNewsHeadline \/ OnSentimentTick \/ FundingArbTick \/ StatArbTick
        \/ ManualKill \/ ManualReset
        \/ Shutdown \/ Restart

Spec == Init /\ [][Next]_vars

\* A tick whose cancels all reach the venue.
CancelsLand == TickSecond /\ tracked \cap venue # {} /\ tracked \cap venue' = {}

\* The run loop keeps serving its timers; a query and a round of cancels that
\* are tried again and again get through some time.
Fairness ==
  /\ WF_vars(Startup) /\ WF_vars(EnterDisconnect) /\ WF_vars(LeaveDisconnect)
  /\ SF_vars(Reconcile) /\ SF_vars(CancelsLand)

FairSpec == Spec /\ Fairness

-----------------------------------------------------------------------------
\* The kill switch, the run loop and the order sets are well formed.
TypeOK ==
  /\ phase \in {"boot", "run", "stopped"}
  /\ level \in 0 .. 5
  /\ errors \in 0 .. MaxErrors /\ msgs \in 0 .. MaxMessageRate + 1
  /\ disconnected \in BOOLEAN
  /\ tracked \subseteq Orders /\ venue \subseteq Orders
  /\ fills \in Seq(Orders)
  /\ inv \in Int /\ twap \in Int
  /\ drivers \subseteq Drivers /\ stops \subseteq Stops
  /\ restarts \in 0 .. MaxRestarts /\ operator \in 0 .. 1

\* "No new orders" at L2 and above (kill_switch.rs, docs/risk.md): a step from such
\* a level adds no resting order.  The code does not keep this; KillStopsQuoting is
\* what it does keep.
NoNewOrders == [][level >= 2 => venue' \subseteq venue]_vars

\* From L2 upwards nothing the OrderManager tracks comes to rest, also not in the
\* step after a graph sink raised the level in the middle of a refresh: what still
\* appears is a stop the emulator held, a maker leg of the inline SOR or of the
\* funding driver, none of which ask allow_new_orders.
KillStopsQuoting ==
  [][level >= 2 =>
       LET new == venue' \ venue IN
       /\ tracked' \cap new = {}
       /\ new \subseteq stops \/ SorDispatch \/ FundingArbTick]_vars

\* tick_second starts the L4 executor only in a tick that ends with nothing
\* tracked, so it never competes with an order the engine knows of.
FlattenAfterCancel == [][twap = 0 /\ twap' # 0 => tracked' = {} /\ level' >= 4]_vars

\* cancel_all's contract as the flatten uses it: Ok means that every order that
\* was tracked is confirmed cancelled or gone, so none rests when it starts.
FlattenFindsBookClear ==
  [][twap = 0 /\ twap' # 0 => tracked \cap venue' = {}]_vars

\* "It can only escalate - reset requires manual action" (docs/risk.md): in one
\* process the level falls by the operator's commands only.  The code does not keep
\* this; KillHolds is what it does keep.
OnlyEscalates ==
  [][operator' = operator /\ restarts' = restarts => level' >= level]_vars

\* The levels that attached sources assign with manual_trigger, whatever the level
\* is; a graph tick only runs below L2, so it never lowers one.
SourceLevels == {IF s = "client" THEN 3 ELSE 2 : s \in Sources \ {"graph"}}

\* A kill holds: outside the operator's commands and a restart the level falls only
\* to one that a source assigns, hence never below L2, and quoting stays off.
KillHolds ==
  [][operator' = operator /\ restarts' = restarts
       => level' >= level \/ level' \in SourceLevels]_vars

\* A kill held at L3 or L4 empties the book: orders that failed cancels and lost
\* answers hid from the OrderManager are found by reconcile and cancelled, each of
\* them; and for good once no side channel adds new ones.
KilledDrains ==
  <>[](phase = "run" /\ level \in {3, 4})
    => /\ \A o \in Orders : []<>(o \notin venue)
       /\ <>[][~SorDispatch /\ ~FundingArbTick]_vars => <>[](venue = {})
=============================================================================
