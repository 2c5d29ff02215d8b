---------------------------- MODULE PairedUnwind ----------------------------
(***************************************************************************)
(* The kill-switch L4 flatten of a two-legged engine (basis, funding arb): *)
(* one PairedUnwindExecutor cuts both legs into slices of the same         *)
(* fraction (strategy/src/paired_unwind.rs), tick_second sends them as     *)
(* IOCs to two venues, and the fills come back on two streams, each with a *)
(* lag of its own.  A slice may fill on one leg and miss on the other.     *)
(*                                                                         *)
(* Quantities are whole units, Lot to the lot, of a size at which a        *)
(* multiplier below one still gives whole hedge targets.  The schedule is  *)
(* reduced to what next_slice asks of it: due says                         *)
(* current_slice < expected_slice.  Only the primary inventory is known to *)
(* the engine; the hedge target is the primary one times pair.multiplier.  *)
(***************************************************************************)
EXTENDS Integers, Sequences

CONSTANTS NumSlices,    \* slices of an unwind
          MultNum,      \* pair.multiplier is MultNum / MultDen
          MultDen,
          Lot,          \* lot of the primary product, used for both legs
          Opening,      \* primary positions L4 may find, in units
          Tilts,        \* what the hedge may be off -multiplier * primary, in units
          Strays,       \* maker fills in flight on the primary leg at L4; 0 for none
          MaxLag        \* bound: fills a stream may hold undelivered

ASSUME UnwindAssumption ==
  /\ NumSlices \in Nat \ {0} /\ Lot \in Nat \ {0}
  /\ MultNum \in Nat \ {0} /\ MultDen \in Nat \ {0}
  /\ Opening \subseteq Int /\ Tilts \subseteq Int /\ Strays \subseteq Int
  /\ MaxLag \in Nat \ {0}

\* The unit is small enough to state every hedge target as a whole number.
ASSUME UnitAssumption == \A q \in Opening \cup Strays \cup {Lot} : q % MultDen = 0

VARIABLES pos,        \* the venues: position of each leg
          inventory,  \* InventoryManager.inventory() of the primary leg
          pending,    \* fills of each leg that the engine has not seen
          exec,       \* paired_unwind, or NoExec
          stale,      \* the hedge feed is older than HEDGE_STALE_MS, or has no mid
          from,       \* history: the positions when the executor was created
          filled,     \* history: what the venues have executed for the executor
          clean       \* history: nothing was in flight when it was created

vars == <<pos, inventory, pending, exec, stale, from, filled, clean>>

Legs   == {"primary", "hedge"}
NoExec == [target |-> 0]

Abs(n)      == IF n < 0 THEN -n ELSE n
MinOf(a, b) == IF a < b THEN a ELSE b
RoundQty(q) == (q \div Lot) * Lot

\* The hedge quantity of n units of the primary.
Hedged(n) == (n * MultNum) \div MultDen

\* target_primary, target_hedge
Target(x, l) == IF l = "primary" THEN x.target ELSE Hedged(x.target)

\* The side of the position that the leg reverses: long 1, short -1.
Dir(x, l) == IF l = "primary" THEN x.side ELSE -x.side

\* slice_primary, slice_hedge
Slice(x, l) == Target(x, l) \div NumSlices

\* Mutant: every slice is a full one.
Mut_SliceQty_Full(x, l) == RoundQty(Slice(x, l))

\* Mutant: the legs are only cut together.
Mut_SliceQty_Lockstep(x, l) ==
  IF \E k \in Legs : Target(x, k) <= x.done[k] THEN 0
  ELSE RoundQty(MinOf(Slice(x, l), Target(x, l) - x.done[l]))

\* What next_slice offers on a leg, after execute_unwind_slice_flagged rounds it.
SliceQty(x, l) ==
  LET q == MinOf(Slice(x, l), Target(x, l) - x.done[l])
  IN IF q > 0 THEN RoundQty(q) ELSE 0

\* Mutant: one finished leg is enough.
Mut_Complete_Either(x) == \E l \in Legs : x.done[l] >= Target(x, l)

\* is_complete
Complete(x) == \A l \in Legs : x.done[l] >= Target(x, l)

\* Mutant: the signed quantity of the fill is booked.
Mut_Booked_Signed(x, l, n) ==
  [target |-> x.target, side |-> x.side, due |-> x.due,
   done |-> [k \in Legs |-> IF k = l THEN x.done[k] + n ELSE x.done[k]]]

\* on_primary_fill, on_hedge_fill: quantities carry no side.
Booked(x, l, n) ==
  [target |-> x.target, side |-> x.side, due |-> x.due,
   done |-> [k \in Legs |-> IF k = l THEN x.done[k] + Abs(n) ELSE x.done[k]]]

Scheduled(x, d) == [target |-> x.target, side |-> x.side, due |-> d, done |-> x.done]

-----------------------------------------------------------------------------
\* L4 with a position the engine knows, up to one maker fill that is in flight.
Init ==
  /\ \E p \in Opening, t \in Tilts, s \in Strays :
       /\ inventory = p
       /\ pos = [l \in Legs |-> IF l = "primary" THEN p + s ELSE t - Hedged(p)]
       /\ pending = [l \in Legs |-> IF l = "primary" /\ s # 0
                                    THEN <<[qty |-> s, cum |-> 0]>> ELSE <<>>]
  /\ exec = NoExec /\ stale \in BOOLEAN
  /\ from = pos /\ filled = [l \in Legs |-> 0] /\ clean = FALSE

\* tick_second at L4, the primary's cancel_all verified, and no executor.
StartUnwind ==
  /\ exec = NoExec /\ inventory # 0
  /\ exec' = [target |-> Abs(inventory), side |-> IF inventory > 0 THEN 1 ELSE -1,
              due |-> FALSE, done |-> [l \in Legs |-> 0]]
  /\ from' = pos /\ filled' = [l \in Legs |-> 0]
  /\ clean' = (\A l \in Legs : pending[l] = <<>>)
  /\ UNCHANGED <<pos, inventory, pending, stale>>

\* The clock passes the start of a slice.  Slices that were missed are not made up:
\* next_slice sets current_slice to the expected one.
ScheduleAdvances ==
  /\ exec # NoExec /\ ~exec.due
  /\ exec' = Scheduled(exec, TRUE)
  /\ UNCHANGED <<pos, inventory, pending, stale, from, filled, clean>>

\* tick_second with an executor: both legs go out, one after the other; either may be
\* refused or fill any number of lots.
DispatchSlice ==
  /\ exec # NoExec /\ exec.due /\ ~stale
  /\ \A l \in Legs : Len(pending[l]) < MaxLag
  /\ exec' = Scheduled(exec, FALSE)
  /\ \E p \in 0 .. SliceQty(exec, "primary"), h \in 0 .. SliceQty(exec, "hedge") :
       LET n == [l \in Legs |-> IF l = "primary" THEN p ELSE h] IN
       /\ \A l \in Legs : n[l] % Lot = 0
       /\ filled' = [l \in Legs |-> filled[l] + n[l]]
       /\ pos' = [l \in Legs |-> pos[l] - Dir(exec, l) * n[l]]
       /\ pending' = [l \in Legs |->
                        IF n[l] = 0 THEN pending[l]
                        ELSE Append(pending[l], [qty |-> -Dir(exec, l) * n[l],
                                                 cum |-> filled[l] + n[l]])]
  /\ UNCHANGED <<inventory, stale, from, clean>>

\* A fill of either stream; a complete executor is dropped.
OnFill(l) ==
  /\ pending[l] # <<>>
  /\ LET e == Head(pending[l]) IN
     /\ pending' = [pending EXCEPT ![l] = Tail(@)]
     /\ inventory' = IF l = "primary" THEN inventory + e.qty ELSE inventory
     /\ exec' = IF exec = NoExec THEN NoExec
                ELSE LET x == Booked(exec, l, e.qty) IN IF Complete(x) THEN NoExec ELSE x
  /\ UNCHANGED <<pos, stale, from, filled, clean>>

\* The hedge feed stops or recovers.
HedgeFeed ==
  /\ stale' = ~stale
  /\ UNCHANGED <<pos, inventory, pending, exec, from, filled, clean>>

Next == StartUnwind \/ ScheduleAdvances \/ DispatchSlice \/ HedgeFeed
        \/ \E l \in Legs : OnFill(l)

Spec == Init /\ [][Next]_vars

\* An IOC that is offered again and again fills some time.
FilledLeg(l) == DispatchSlice /\ filled'[l] # filled[l]

\* The engine ticks and drains both streams; the hedge feed comes back.
FairSpec ==
  /\ Spec /\ WF_vars(StartUnwind) /\ WF_vars(ScheduleAdvances) /\ WF_vars(stale /\ HedgeFeed)
  /\ \A l \in Legs : WF_vars(OnFill(l)) /\ SF_vars(FilledLeg(l))

-----------------------------------------------------------------------------
Fills == [qty : Int, cum : Nat]

Execs == [target : Nat \ {0}, side : {1, -1}, due : BOOLEAN, done : [Legs -> Nat]]

\* The executor counts non-negative quantities; positions and fills are signed.
TypeOK ==
  /\ pos \in [Legs -> Int] /\ inventory \in Int /\ pending \in [Legs -> Seq(Fills)]
  /\ exec \in {NoExec} \cup Execs /\ stale \in BOOLEAN
  /\ from \in [Legs -> Int] /\ filled \in [Legs -> Nat] /\ clean \in BOOLEAN

\* What the venue has really taken off a leg since the executor was created.
Unwound(x, l) == Dir(x, l) * (from[l] - pos[l])

\* "both legs have hit their target": when on_primary_fill or on_hedge_fill drops a
\* completed executor, the venues have executed at least both targets, although a slice
\* may fill on one leg and miss on the other and the fills of the two streams interleave
\* freely.  It needs a start with nothing in flight: a stray fill counts as progress.
DoneMeansUnwound ==
  [][exec # NoExec /\ exec' = NoExec /\ clean =>
       \A l \in Legs : Unwound(exec, l) >= Target(exec, l)]_vars

\* A slice is cut from what is booked, not from what has filled, and neither leg is sent
\* reduce-only: a leg may be turned around, by at most one slice for every fill that its
\* stream is behind; never, when fills arrive before the next slice.
OvershootBounded ==
  exec # NoExec /\ clean =>
    \A l \in Legs :
      Unwound(exec, l) <= Target(exec, l) + (MaxLag - 1) * Slice(exec, l)

\* The executor has done on a leg what its schedule allows: the target is booked, or
\* the slice that is left rounds to nothing.
Spent(x, l) ==
  LET left == Target(x, l) - x.done[l] IN left <= 0 \/ MinOf(Slice(x, l), left) < Lot

\* Flatten all: in the end the primary leg is flat, or the last executor is spent on both
\* legs.  Rounding is the only thing that stops it: no missed slice, stale feed, late
\* fill, finished other leg or stray does.  What a clean start can leave behind is then
\* less than a lot per slice and the overshoot of the lag; a stray leaves what it likes,
\* since a spent executor is not complete and keeps the next one from being created.
PrimaryUnwinds ==
  <>[](\/ exec = NoExec /\ pos["primary"] = 0
       \/ /\ exec # NoExec /\ \A l \in Legs : Spent(exec, l)
          /\ clean => Abs(pos["primary"]) < NumSlices * Lot + (MaxLag - 1) * Slice(exec, "primary"))

=============================================================================
