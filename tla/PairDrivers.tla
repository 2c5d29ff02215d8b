---------------------------- MODULE PairDrivers ----------------------------
(***************************************************************************)
(* The two drivers that trade a pair of instruments from inside an engine: *)
(* the funding arbitrage driver (strategy/src/funding_arb_driver.rs, its   *)
(* executor funding_arb.rs and its ledger persistence/src/funding.rs) and  *)
(* the statistical arbitrage driver (strategy/src/stat_arb/driver.rs),     *)
(* with what market_maker.rs does with their events and with the fills.    *)
(* One dispatch is one lot on each leg; the hedge multiplier is one.       *)
(***************************************************************************)
EXTENDS Integers, Sequences

CONSTANTS Kinds,      \* drivers an engine may have: subset of {"funding", "stat"}
          MaxSlips,   \* bound: orders whose effect differs from their answer
          MaxTicks,   \* bound: dispatching driver ticks
          MaxQuoted,  \* bound: fills of the engine's own quotes
          MaxLag      \* bound: undelivered fills per leg

ASSUME ConstantsOK ==
  /\ Kinds \subseteq {"funding", "stat"}
  /\ {MaxSlips, MaxTicks, MaxQuoted, MaxLag} \subseteq Nat

Legs == {"primary", "hedge"}
Directions == {1, -1}      \* 1: buy the primary leg, sell the hedge leg

VARIABLES kind,     \* the driver this engine has
          attached, \* funding_arb_driver / stat_arb_driver is Some
          alarm,    \* the driver's handler has raised the kill switch to L2
          pos,      \* positions the driver's orders made, at the venues
          makers,   \* the driver's post-only orders resting on the primary leg
          late,     \* fill events not yet delivered, per leg
          book,     \* FundingArbState.spot_position, perp_position
          open,     \* open_sides, or StatArbPosition: 0 or the direction
          unseen,   \* lots traded or withdrawn otherwise than the answers said
          slips,    \* how often that happened
          ticks, quoted

vars == <<kind, attached, alarm, pos, makers, late, book, open, unseen, slips, ticks,
          quoted>>

TypeOK ==
  /\ kind \in Kinds /\ attached \in BOOLEAN /\ alarm \in BOOLEAN
  /\ pos \in [Legs -> Int] /\ makers \in [Directions -> Nat]
  /\ late \in [Legs -> Seq(Directions)]
  /\ book \in [Legs -> Int] /\ open \in {0} \cup Directions
  /\ unseen \in Int /\ slips \in 0 .. MaxSlips
  /\ ticks \in 0 .. MaxTicks /\ quoted \in 0 .. MaxQuoted

Flat == [l \in Legs |-> 0]

Init ==
  /\ kind \in Kinds /\ attached = TRUE /\ alarm = FALSE
  /\ pos = Flat /\ book = Flat /\ open = 0
  /\ makers = [d \in Directions |-> 0]
  /\ late = [l \in Legs |-> << >>]
  /\ unseen = 0 /\ slips = 0 /\ ticks = 0 /\ quoted = 0

\* n orders did something else than their answers said, net lots in all.
Slip(n, net) ==
  /\ slips + n <= MaxSlips /\ slips' = slips + n
  /\ unseen' = unseen + net

-----------------------------------------------------------------------------
(* FundingArbExecutor::dispatch.                                            *)

\* Whether the venue takes a reduce-only order of d lots at hedge position h.
Reduces(h, d) == h * d < 0

Outcome(taken, reversed, rest, result, n, net) ==
  [taken |-> taken, reversed |-> reversed, rest |-> rest, result |-> result,
   slips |-> n, unseen |-> net]

\* Mutant: no compensation after the maker leg is refused.
Mut_Dispatch_NoCompensation(d) ==
  {Outcome(0, 0, 0, "rejected", 0, 0), Outcome(1, 0, d, "placed", 0, 0),
   Outcome(1, 0, 0, "compensated", 0, 0)}

\* What a dispatch in direction d can do: lots taken and reversed on the hedge leg,
\* the order left resting on the primary leg, the result.  The taker leg goes first;
\* if the maker leg is then refused, place_with_retry sends a reduce-only reversal up
\* to four times until one is answered.  An order answered with an error may have
\* taken effect.
Dispatch(d) ==
  LET rejected == {Outcome(t, 0, 0, "rejected", t, -d * t) : t \in 0 .. 1}
      placed   == {Outcome(1, 0, d, "placed", 0, 0)}
      broken   == {Outcome(1, n, r * d, "naked", n + r, (n + r) * d) :
                     n \in 0 .. 4, r \in 0 .. 1}
      repaired == {Outcome(1, n, r * d, "compensated", n - 1 + r, (n - 1 + r) * d) :
                     n \in 1 .. 4, r \in 0 .. 1}
  IN rejected \cup placed
       \cup {o \in broken \cup repaired :
              \A i \in 1 .. o.reversed : Reduces(pos["hedge"] - d + (i - 1) * d, d)}

\* n fills of d lots.
Fills(n, d) == [i \in 1 .. n |-> d]

\* Positions, resting orders and fill events after outcome o of a dispatch in d.
Dispatched(d, o) ==
  /\ Len(late["hedge"]) + o.taken + o.reversed <= MaxLag
  /\ pos' = [pos EXCEPT !["hedge"] = @ - d * o.taken + d * o.reversed]
  /\ makers' = IF o.rest = 0 THEN makers ELSE [makers EXCEPT ![o.rest] = @ + 1]
  /\ late' = [late EXCEPT !["hedge"] = @ \o Fills(o.taken, -d) \o Fills(o.reversed, d)]
  /\ Slip(o.slips, o.unseen)

\* Mutant: the kill switch is raised and the driver goes on.
Mut_OnBreak_StaysAttached(naked) == alarm' = (alarm \/ naked) /\ UNCHANGED attached

\* handle_driver_event, handle_stat_arb_event: an uncompensated break trips L2 and
\* drops the driver.
OnBreak(naked) ==
  /\ alarm' = (alarm \/ naked)
  /\ attached' = (attached /\ ~naked)

\* A driver tick on an Enter signal: FundingArbEngine::evaluate finds its ledger
\* empty and the rate high.
FundingEnter ==
  /\ attached /\ kind = "funding" /\ book = Flat
  /\ ticks < MaxTicks /\ ticks' = ticks + 1
  /\ \E d \in Directions : \E o \in Dispatch(d) :
       /\ Dispatched(d, o)
       /\ OnBreak(o.result = "naked")
       /\ IF o.result = "placed"
          THEN open' = d /\ book' = [l \in Legs |-> IF l = "primary" THEN d ELSE -d]
          ELSE UNCHANGED <<open, book>>
  /\ UNCHANGED <<kind, quoted>>

\* A driver tick on an Exit signal.  Without open_sides it is a Hold.
FundingExit ==
  /\ attached /\ kind = "funding" /\ book # Flat /\ open # 0
  /\ ticks < MaxTicks /\ ticks' = ticks + 1
  /\ \E o \in Dispatch(-open) :
       /\ Dispatched(-open, o)
       /\ OnBreak(o.result = "naked")
       /\ IF o.result = "placed" THEN open' = 0 /\ book' = Flat
          ELSE UNCHANGED <<open, book>>
  /\ UNCHANGED <<kind, quoted>>

-----------------------------------------------------------------------------
(* StatArbDriver: the position is recorded by evaluate_with_mids, before    *)
(* the two IOC legs are sent; one failed leg does not stop the other.       *)

\* place_ioc_leg: lots traded, and whether the leg reports success.  An accepted IOC
\* limit order may evaporate; a refused one may have traded.
Leg == [lots : 0 .. 1, ok : BOOLEAN]
Reported(leg) == IF leg.ok THEN 1 ELSE 0
Slipped(leg) == IF leg.lots = Reported(leg) THEN 0 ELSE 1

\* partial_failure of handle_stat_arb_event.
Partial(y, x) == y.ok # x.ok

TradeLegs(d) ==
  \E y \in Leg, x \in Leg :
    /\ pos' = [l \in Legs |-> pos[l] + (IF l = "primary" THEN d * y.lots ELSE -d * x.lots)]
    /\ Slip(Slipped(y) + Slipped(x),
            d * (y.lots - Reported(y)) - d * (x.lots - Reported(x)))
    /\ OnBreak(Partial(y, x))

StatEnter ==
  /\ attached /\ kind = "stat" /\ open = 0
  /\ ticks < MaxTicks /\ ticks' = ticks + 1
  /\ \E d \in Directions : open' = d /\ TradeLegs(d)
  /\ UNCHANGED <<kind, makers, late, book, quoted>>

StatExit ==
  /\ attached /\ kind = "stat" /\ open # 0
  /\ ticks < MaxTicks /\ ticks' = ticks + 1
  /\ open' = 0 /\ TradeLegs(-open)
  /\ UNCHANGED <<kind, makers, late, book, quoted>>

-----------------------------------------------------------------------------
(* The venues and the fill events.                                          *)

\* The maker leg fills.
MakerFill ==
  \E d \in Directions :
    /\ makers[d] > 0 /\ Len(late["primary"]) < MaxLag
    /\ makers' = [makers EXCEPT ![d] = @ - 1]
    /\ pos' = [pos EXCEPT !["primary"] = @ + d]
    /\ late' = [late EXCEPT !["primary"] = Append(@, d)]
    /\ UNCHANGED <<kind, attached, alarm, book, open, unseen, slips, ticks, quoted>>

\* Mutant: an order that has filled since the reconcile is counted as cancelled.
Mut_ReapMaker_Filled ==
  /\ \E d \in Directions : makers' = [makers EXCEPT ![d] = @ - 1] /\ Slip(1, -d)
  /\ UNCHANGED <<kind, attached, alarm, pos, late, book, open, ticks, quoted>>

\* The order manager does not know the maker order: reconcile adopts it as a
\* phantom and the next diff cancels what no quote wants.
ReapMaker ==
  /\ \E d \in Directions : /\ makers[d] > 0 /\ makers' = [makers EXCEPT ![d] = @ - 1]
                           /\ Slip(1, -d)
  /\ UNCHANGED <<kind, attached, alarm, pos, late, book, open, ticks, quoted>>

\* A quote of the engine itself fills on the primary leg.
QuoteFill ==
  /\ quoted < MaxQuoted /\ quoted' = quoted + 1 /\ Len(late["primary"]) < MaxLag
  /\ \E d \in Directions : late' = [late EXCEPT !["primary"] = Append(@, d)]
  /\ UNCHANGED <<kind, attached, alarm, pos, makers, book, open, unseen, slips, ticks>>

\* handle_ws_event and handle_hedge_event: every fill of a leg is added to the
\* ledger of an attached funding driver (apply_spot_fill, apply_perp_fill).
OnFill ==
  \E l \in Legs :
    /\ late[l] # << >>
    /\ late' = [late EXCEPT ![l] = Tail(@)]
    /\ book' = IF attached /\ kind = "funding"
               THEN [book EXCEPT ![l] = @ + Head(late[l])] ELSE book
    /\ UNCHANGED <<kind, attached, alarm, pos, makers, open, unseen, slips,
                   ticks, quoted>>

Next == \/ FundingEnter \/ FundingExit \/ StatEnter \/ StatExit
        \/ MakerFill \/ ReapMaker \/ QuoteFill \/ OnFill

Spec == Init /\ [][Next]_vars

-----------------------------------------------------------------------------
Resting == makers[1] - makers[-1]

\* The exposure the pair trade must not have: positions and the resting leg do not
\* add up to zero.  As long as the handler has not tripped L2, what they add up to is
\* what the answers did not say: orders that traded or evaporated behind an answer,
\* and maker legs the engine's own diff withdrew.
NakedIsAlarmed == alarm \/ pos["primary"] + Resting + pos["hedge"] = unseen

\* After the alarm the drivers send nothing any more: the kill level itself does not
\* gate their tick, dropping the driver does.
NoDispatchAfterAlarm == [][alarm => ticks' = ticks]_vars

\* "an accidental flip is caught by the pair-break detector": with no position on
\* record and no alarm, the driver holds nothing on either leg.
ClosedIsFlat ==
  open = 0 /\ ~alarm /\ makers[1] = 0 /\ makers[-1] = 0 => pos = Flat

\* The funding driver's "bookkeeping stays in sync with actual exchange-side position":
\* with every fill delivered and no own quote filled, the ledger is the position.
LedgerInSync ==
  attached /\ kind = "funding" /\ quoted = 0 /\ Resting = 0
    /\ (\A l \in Legs : late[l] = << >>) => book = pos

=============================================================================
