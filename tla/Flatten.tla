------------------------------ MODULE Flatten ------------------------------
(***************************************************************************)
(* The kill-switch L4 flatten of several engines of one process.           *)
(*                                                                         *)
(* Every engine that reaches FlattenAll with an open position registers    *)
(* its drawdown in the shared waterfall, takes a start delay from its rank *)
(* and creates a TwapExecutor.  Each later one-second tick asks the        *)
(* executor for a slice, rounds it to the lot and sends it as an IOC; the  *)
(* fill comes back on the user stream, possibly several ticks later, and   *)
(* is booked against the inventory and the executor.                       *)
(*                                                                         *)
(* Quantities are integers in the smallest unit, Lot units to the lot; the *)
(* venue fills whole lots, so positions are made of them.                  *)
(* Time is kept per executor as the whole seconds since started_at, which  *)
(* is negative while a start delay runs.                                   *)
(***************************************************************************)
EXTENDS Integers, Sequences, FiniteSets

CONSTANTS Symbols,       \* the engines, named by numbers (ties go to the smaller)
          NumSlices,     \* execution.num_slices
          DurationSecs,  \* execution.duration_secs
          StaggerSecs,   \* WATERFALL_STAGGER_SECS
          Lot,           \* product.lot_size in units
          U64, U32,      \* the moduli of u64 and u32 (release builds wrap)
          MaxPosition,   \* bound: the largest opening position, in lots
          MaxLag         \* bound: fills the user stream may hold undelivered

ASSUME FlattenAssumption ==
  /\ Symbols \subseteq Nat /\ IsFiniteSet(Symbols)
  /\ NumSlices \in Nat \ {0} /\ DurationSecs \in Nat \ {0}
  /\ StaggerSecs \in Nat /\ Lot \in Nat \ {0}
  /\ U64 \in Nat \ {0} /\ U32 \in Nat \ {0}
  /\ MaxPosition \in Nat /\ MaxLag \in Nat

VARIABLES perp,        \* does the engine trade a perp, linear or inverse
          position,    \* what the venue holds for each symbol
          inventory,   \* InventoryManager.inventory()
          pending,     \* signed fills the venue made and the engine has not seen
          twap,        \* the engine's executor, or NoTwap
          priorities,  \* DashboardState.flatten_priorities (0: not registered)
          sliceAt      \* history: seconds since started_at of the last slice, or NoSlice

vars == <<perp, position, inventory, pending, twap, priorities, sliceAt>>

NoTwap  == [target |-> 0]
NoSlice == -1000

Abs(n)     == IF n < 0 THEN -n ELSE n
MinOf(a, b) == IF a < b THEN a ELSE b

\* ProductSpec::round_qty
RoundQty(q) == (q \div Lot) * Lot

-----------------------------------------------------------------------------
(* The slice schedule.                                                      *)

\* `num_seconds() as u64`, the product in u64, `checked_div`, `as u32`.
ExpectedSlice(elapsed) ==
  ((((elapsed % U64) * NumSlices) % U64) \div DurationSecs) % U32

Remaining(x) == x.target - x.executed

\* Mutant: a fully executed target is not yet complete.
Mut_Complete_Strict(x) == x.executed > x.target

\* is_complete
Complete(x) == x.executed >= x.target

\* The quantity next_slice offers, after execute_unwind_slice_flagged rounds it.
SliceQty(x) == RoundQty(MinOf(x.target \div NumSlices, Remaining(x)))

\* The executor x with its schedule at slice c after e seconds.
At(x, c, e) == [target |-> x.target, side |-> x.side, executed |-> x.executed,
                current |-> c, elapsed |-> e]

\* on_fill: the executor x with n more executed.
Booked(x, n) == [target |-> x.target, side |-> x.side, executed |-> x.executed + n,
                 current |-> x.current, elapsed |-> x.elapsed]

\* Once elapsed and current_slice both passed a whole schedule, both are moved
\* back by one: the schedule is periodic, so the slices to come are the same.
Normal(x) ==
  IF x.elapsed >= 2 * DurationSecs /\ x.current >= 2 * NumSlices
  THEN At(x, x.current - NumSlices, x.elapsed - DurationSecs)
  ELSE x

\* Mutant: every slice goes out through execute_unwind_slice, without the flag.
Mut_ReduceOnly_Never(s) == FALSE

\* Perp slices go through execute_reduce_slice and carry the reduce_only flag.
ReduceOnly(s) == perp[s]

\* What an IOC for q may fill: any lots up to q; a reduce-only order is cut at
\* the position p it reduces, and is refused when there is none on that side.
Fillable(reduce, p, side, q) ==
  LET most == IF ~reduce THEN q ELSE IF side * p > 0 THEN MinOf(q, Abs(p)) ELSE 0
  IN {n \in 0 .. most : n % Lot = 0}

-----------------------------------------------------------------------------
Positions == {Lot * k : k \in -MaxPosition .. MaxPosition}

\* The kill switch reaches L4 with a position that the engine knows, or with
\* one maker fill still on its way.
Init ==
  /\ perp \in [Symbols -> BOOLEAN]
  /\ inventory \in [Symbols -> Positions]
  /\ position \in [Symbols -> Positions]
  /\ pending = [s \in Symbols |-> IF position[s] = inventory[s] THEN <<>>
                                  ELSE <<position[s] - inventory[s]>>]
  /\ twap = [s \in Symbols |-> NoTwap]
  /\ priorities = [s \in Symbols |-> 0]
  /\ sliceAt = [s \in Symbols |-> NoSlice]

\* flatten_priority_rank over a map that already holds this engine's drawdown
Rank(prio, s) ==
  Cardinality({o \in Symbols \ {s} :
                 /\ prio[o] > 0
                 /\ prio[o] > prio[s] \/ (prio[o] = prio[s] /\ o < s)})

\* Mutant: a signed inventory is registered as the drawdown.
Mut_StartFlatten_Signed(s) ==
  /\ twap[s] = NoTwap
  /\ inventory[s] # 0
  /\ priorities' = [priorities EXCEPT ![s] = inventory[s]]
  /\ UNCHANGED <<perp, position, inventory, pending, twap, sliceAt>>

\* tick_second at L4 with no executor: register, rank, create with the delay.
StartFlatten(s) ==
  LET inv == inventory[s]
      prio == [priorities EXCEPT ![s] = Abs(inv)]
  IN /\ twap[s] = NoTwap
     /\ inv # 0
     /\ priorities' = prio
     /\ twap' = [twap EXCEPT ![s] =
                   [target |-> Abs(inv), side |-> IF inv > 0 THEN 1 ELSE -1,
                    executed |-> 0, current |-> 0,
                    elapsed |-> -(Rank(prio, s) * StaggerSecs)]]
     /\ sliceAt' = [sliceAt EXCEPT ![s] = NoSlice]
     /\ UNCHANGED <<perp, position, inventory, pending>>

\* tick_second with an executor: one second passes, next_slice, dispatch.  The
\* placement may be refused; an accepted IOC fills n.
TickSlice(s) ==
  LET x == twap[s]
      now == x.elapsed + 1
      expected == ExpectedSlice(now)
      due == x.current < expected
      qty == SliceQty(x)
  IN /\ twap[s] # NoTwap
     /\ Len(pending[s]) < MaxLag
     /\ twap' = [twap EXCEPT ![s] =
                   Normal(At(x, IF due THEN expected ELSE x.current, now))]
     /\ IF due /\ qty > 0
        THEN /\ sliceAt' = [sliceAt EXCEPT ![s] = now]
             /\ \E n \in Fillable(ReduceOnly(s), position[s], x.side, qty) :
                  /\ position' = [position EXCEPT ![s] = @ - x.side * n]
                  /\ pending' = IF n = 0 THEN pending
                                ELSE [pending EXCEPT ![s] = Append(@, -x.side * n)]
        ELSE UNCHANGED <<position, pending, sliceAt>>
     /\ UNCHANGED <<perp, inventory, priorities>>

\* handle_ws_event(Fill): every fill counts as executor progress, whichever
\* order and side it came from; a complete executor is dropped.
OnFill(s) ==
  LET n == Head(pending[s])
      x == Booked(twap[s], Abs(n))
  IN /\ pending[s] # <<>>
     /\ pending' = [pending EXCEPT ![s] = Tail(@)]
     /\ inventory' = [inventory EXCEPT ![s] = @ + n]
     /\ twap' = IF twap[s] = NoTwap THEN twap
                ELSE [twap EXCEPT ![s] = IF Complete(x) THEN NoTwap ELSE x]
     /\ UNCHANGED <<perp, position, priorities, sliceAt>>

Next == \E s \in Symbols : StartFlatten(s) \/ TickSlice(s) \/ OnFill(s)

\* A slice that reaches the venue and fills.
FilledSlice(s) ==
  /\ TickSlice(s)
  /\ position'[s] # position[s]

\* The engine keeps ticking and keeps draining its stream; an aggressively
\* priced IOC that is offered again and again is filled some time.
Fairness ==
  \A s \in Symbols : /\ WF_vars(StartFlatten(s))
                     /\ WF_vars(TickSlice(s))
                     /\ SF_vars(FilledSlice(s))
                     /\ WF_vars(OnFill(s))

Spec == Init /\ [][Next]_vars
FairSpec == Spec /\ Fairness

-----------------------------------------------------------------------------
Twaps == {NoTwap} \cup [target : Nat, side : {1, -1}, executed : Nat,
                        current : Nat, elapsed : Int]

\* The state of tick_second, TwapExecutor and the waterfall map is well formed.
TypeOK ==
  /\ perp \in [Symbols -> BOOLEAN]
  /\ position \in [Symbols -> Int]
  /\ inventory \in [Symbols -> Int]
  /\ pending \in [Symbols -> Seq(Int)]
  /\ twap \in [Symbols -> Twaps]
  /\ priorities \in [Symbols -> Nat]
  /\ sliceAt \in [Symbols -> Int]

\* The reduce-only slices of a perp flatten (execute_reduce_slice) never turn
\* the position around, however late the fills of earlier slices are booked.
NeverFlips ==
  [][\A s \in Symbols : perp[s] => position[s] * position'[s] >= 0]_vars

\* Flatten all: a slice is the target over num_slices, rounded down to
\* the lot, so an executor whose target is below one lot per slice never trades,
\* and a fill it did not make may double the position behind it.  Nothing larger
\* is ever left, although IOCs miss, fills arrive late, slices overshoot, and
\* maker fills are booked as progress of the executor.
EventuallySmall ==
  \A s \in Symbols : <>[](Abs(position[s]) < 2 * NumSlices * Lot)

\* What with_start_delay promises: no slice leaves before the delay has run.
DelayHonoured ==
  \A s \in Symbols : sliceAt[s] = NoSlice \/ sliceAt[s] >= 0
=============================================================================
