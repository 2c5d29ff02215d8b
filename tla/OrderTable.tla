----------------------------- MODULE OrderTable -----------------------------
(***************************************************************************)
(* The order manager (engine/src/order_manager.rs): the two maps it keeps, *)
(* live_orders and price_index, the diff that turns desired quotes into    *)
(* amends, cancels and placements, the emergency cancel, unwind slices and *)
(* the reconcile of market_maker.rs, against a venue whose answers may be  *)
(* lost and whose fills arrive late.                                       *)
(***************************************************************************)
EXTENDS Naturals, FiniteSets, Functions

CONSTANTS Ids,       \* order ids
          Sides,     \* order sides
          Prices,    \* prices, in ticks
          MaxQty,    \* largest order, in lots
          Sizes,     \* quantities the strategy asks for
          MaxLevels, \* most quotes the strategy wants at once
          Eps,       \* amend_epsilon_ticks; 0 turns amends off
          Batch,     \* the venue takes batches (max_batch_size >= MIN_BATCH_SIZE)
          MaxLeft,   \* bound: orders an earlier process left
          MaxFaults, \* bound: handlers in which a call fails or an answer is lost
          MaxEvents, \* bound: fills and expiries at the venue, and unwind slices
          MaxMoves   \* bound: changes of the desired quotes, and cancel_alls

ASSUME ConstantsOK ==
  /\ Prices \subseteq Nat /\ {MaxQty, MaxLevels, Eps} \subseteq Nat /\ MaxQty > 0
  /\ Sizes \subseteq 1 .. MaxQty /\ Batch \in BOOLEAN
  /\ {MaxLeft, MaxFaults, MaxEvents, MaxMoves} \subseteq Nat

Keys  == Sides \X Prices
Order == {o \in [key : Keys, qty : 1 .. MaxQty, filled : 0 .. MaxQty] : o.filled < o.qty}
PartialFunctions(S, T) == UNION {[D -> T] : D \in SUBSET S}

VARIABLES live,    \* live_orders: id -> order
          index,   \* price_index: (side, price) -> id
          venue,   \* the venue's own book of our orders
          owed,    \* filled lots whose user-stream event is not delivered
          want,    \* the quotes refresh_quotes hands to execute_diff
          used     \* how much of each bound is spent

vars == <<live, index, venue, owed, want, used>>

Wanted == {w \in PartialFunctions(Keys, Sizes) : Cardinality(DOMAIN w) <= MaxLevels}

TypeOK ==
  /\ DOMAIN live \subseteq Ids /\ live \in [DOMAIN live -> Order]
  /\ DOMAIN index \subseteq Keys /\ index \in [DOMAIN index -> Ids]
  /\ DOMAIN venue \subseteq Ids /\ venue \in [DOMAIN venue -> Order]
  /\ owed \in [Ids -> Nat]
  /\ DOMAIN want \subseteq Keys /\ want \in [DOMAIN want -> Sizes]
  /\ used \in [faults : Nat, events : Nat, moves : Nat, slices : Nat]

Bump(u, what) == [u EXCEPT ![what] = @ + 1]
Spend(what, bound) == used[what] < bound /\ used' = Bump(used, what)

\* The venue's ids are new: nothing refers to them.
Fresh == {id \in Ids : /\ id \notin DOMAIN live \cup DOMAIN venue
                       /\ owed[id] = 0}

Remaining(o) == o.qty - o.filled

-----------------------------------------------------------------------------
(* The operations on the two maps.                                          *)

Table(l, x) == [live |-> l, index |-> x]
Without(f, S) == [e \in DOMAIN f \ S |-> f[e]]

\* Mutant: the slot is left pointing at the removed order.
Mut_RemoveOrders_SlotStays(t, S) == Table(Without(t.live, S), t.index)

\* remove_order for every id of S: the slot at the order's key goes, whichever
\* order it names.
RemoveOrders(t, S) ==
  Table(Without(t.live, S),
        Without(t.index, {t.live[id].key : id \in S \cap DOMAIN t.live}))

\* track_order for every order of `new` (id -> order): each takes the slot at
\* its key; of several at one key the last to be inserted keeps it.
TrackOrders(t, new) ==
  LET taken == {new[id].key : id \in DOMAIN new}
      slots == {f \in [taken -> DOMAIN new] : \A k \in taken : new[f[k]].key = k}
  IN {Table([id \in DOMAIN new \cup DOMAIN t.live |->
               IF id \in DOMAIN new THEN new[id] ELSE t.live[id]],
            [k \in taken \cup DOMAIN t.index |->
               IF k \in taken THEN f[k] ELSE t.index[k]]) : f \in slots}

\* reprice_order for every amend: moves maps the new key to the order.
RepriceOrders(t, moves) ==
  LET moved == {moves[k] : k \in DOMAIN moves}
      left  == {t.live[id].key : id \in moved}
  IN Table([id \in DOMAIN t.live |->
              IF id \in moved
              THEN [t.live[id] EXCEPT !.key = CHOOSE k \in DOMAIN moves : moves[k] = id]
              ELSE t.live[id]],
           [k \in DOMAIN moves \cup (DOMAIN t.index \ left) |->
              IF k \in DOMAIN moves THEN moves[k] ELSE t.index[k]])

\* Mutant: a partial fill ends the order.
Mut_Filled_Always(t, id, n) == RemoveOrders(t, {id})

\* Mutant: the comparison is strict, a completely filled order stays.
Mut_Filled_Strict(t, id, n) ==
  IF id \notin DOMAIN t.live THEN t
  ELSE IF t.live[id].filled + n > t.live[id].qty THEN RemoveOrders(t, {id})
  ELSE Table([t.live EXCEPT ![id].filled = @ + n], t.index)

\* OrderManager::on_fill
Filled(t, id, n) ==
  IF id \notin DOMAIN t.live THEN t
  ELSE IF t.live[id].filled + n >= t.live[id].qty THEN RemoveOrders(t, {id})
  ELSE Table([t.live EXCEPT ![id].filled = @ + n], t.index)

-----------------------------------------------------------------------------
(* diff_orders: which indexed orders to amend, cancel, and what to place.   *)

Stale == {k \in DOMAIN index : k \notin DOMAIN want /\ index[k] \in DOMAIN live}

\* Mutant: quotes are compared by side alone.
Mut_New_BySide == {k \in DOMAIN want : \A s \in DOMAIN index : s[1] # k[1]}

New == DOMAIN want \ DOMAIN index

Distance(n, s) == IF n[2] > s[2] THEN n[2] - s[2] ELSE s[2] - n[2]

\* A stale order can be amended into a new quote: same side, what is left of it
\* is the quantity wanted, and the price is near.
Amendable(n, s) ==
  /\ n[1] = s[1]
  /\ Remaining(live[index[s]]) = want[n]
  /\ Distance(n, s) <= Eps

\* Stale orders new quote n may still take: the quotes before it, in price order,
\* have had their choice.
Free(m, n) ==
  {s \in Stale : /\ Amendable(n, s)
                 /\ \A q \in DOMAIN m : q[1] = n[1] /\ q[2] < n[2] => m[q] # s}

Nearer(n, s, t) == \/ Distance(n, s) < Distance(n, t)
                   \/ Distance(n, s) = Distance(n, t) /\ s[2] < t[2]

\* The greedy pairing, as the one function m (new key -> stale key) in which every
\* quote has taken the nearest order left to it.
Pairing(m) ==
  \A n \in New :
    IF Free(m, n) = {} THEN n \notin DOMAIN m
    ELSE /\ n \in DOMAIN m /\ m[n] \in Free(m, n)
         /\ \A s \in Free(m, n) \ {m[n]} : Nearer(n, m[n], s)

Plans == {m \in PartialFunctions(New, Stale) : Pairing(m)}

-----------------------------------------------------------------------------
\* A new process knows nothing.  What an earlier one left resting, at most
\* MaxLeft orders, is a fault of that process.
Init ==
  /\ live = << >> /\ index = << >>
  /\ venue \in PartialFunctions(Ids, Order) /\ Cardinality(DOMAIN venue) <= MaxLeft
  /\ owed = [id \in Ids |-> 0]
  /\ want = << >>
  /\ used = [faults |-> IF venue = << >> THEN 0 ELSE 1, events |-> 0, moves |-> 0,
             slices |-> 0]

\* The strategy wants other quotes.
Move ==
  /\ want' \in Wanted /\ want' # want
  /\ Spend("moves", MaxMoves)
  /\ UNCHANGED <<live, index, venue, owed>>

\* At most this many requests are sent for one quote: a batch, then the order on
\* its own when the batch failed or answered for fewer orders.
Attempts(placed) == IF Batch /\ Cardinality(placed) >= 2 THEN 2 ELSE 1

\* Mutant: only the error branch forgets the order.
Mut_Dropped_OnlyFailed(cancel, landed) == cancel \ landed

\* cancel_orders_batched forgets every order it tried to cancel.
Dropped(cancel, landed) == cancel

\* The orders a diff cancels and the quotes it places, when of the amends of m only
\* `done` are confirmed: what is not confirmed is cancelled and placed anew.
ToCancel(m, done) == {index[s] : s \in (Stale \ Range(m)) \cup {m[n] : n \in DOMAIN m \ done}}
ToPlace(m, done)  == (New \ DOMAIN m) \cup (DOMAIN m \ done)

Moves(m, amended) == [n \in amended |-> index[m[n]]]
Made(k) == [key |-> k, qty |-> want[k], filled |-> 0]

\* The orders that ack (key -> id) names.
Acked(ack) == [id \in Range(ack) |-> Made(CHOOSE k \in DOMAIN ack : ack[k] = id)]

\* The amend that turns an order into quote n names n's quantity as the size of the
\* order (Bybit's qty, Binance's quantity).  The venue can apply it to an order that
\* rests and has not filled that much.
Applies(m, n) == index[m[n]] \in DOMAIN venue /\ venue[index[m[n]]].filled < want[n]

Resized(o, n) == [key |-> n, qty |-> want[n], filled |-> o.filled]

\* The venue's orders after the amends that took effect.
Repriced(moves) ==
  [id \in DOMAIN venue |->
     IF id \in Range(moves)
     THEN Resized(venue[id], CHOOSE n \in DOMAIN moves : moves[n] = id)
     ELSE venue[id]]

\* What is left after a diff: amends first, then the cancels, then the placements.
TableAfter(m, done, landed, ack) ==
  TrackOrders(RemoveOrders(RepriceOrders(Table(live, index), Moves(m, done)),
                           Dropped(ToCancel(m, done), landed)),
              Acked(ack))

VenueAfter(m, done, silent, landed, ack, lost) ==
  [id \in (DOMAIN venue \ landed) \cup Range(ack) \cup DOMAIN lost |->
     IF id \in Range(ack) THEN Acked(ack)[id]
     ELSE IF id \in DOMAIN lost THEN Made(lost[id])
     ELSE Repriced(Moves(m, done \cup silent))[id]]

\* execute_diff, the end of refresh_quotes.  Of the amends of m, `done` are confirmed
\* and `silent` took effect though the answer was lost; of the cancels `landed` take
\* effect; `ack` (key -> id) are the acknowledged placements and `lost` (id -> key)
\* the orders that rest although no answer named them.
Execute(m, done, silent, landed, ack, lost) ==
  LET cancel == ToCancel(m, done)
      place  == ToPlace(m, done)
      faulty == \/ done # DOMAIN m \/ DOMAIN ack # place \/ DOMAIN lost # {}
                \/ landed # cancel \cap DOMAIN venue
  IN /\ \A k \in place :
          Cardinality({id \in DOMAIN lost : lost[id] = k})
            + (IF k \in DOMAIN ack THEN 1 ELSE 0) <= Attempts(place)
     /\ \E t \in TableAfter(m, done, landed, ack) : live' = t.live /\ index' = t.index
     /\ venue' = VenueAfter(m, done, silent, landed, ack, lost)
     /\ IF faulty THEN Spend("faults", MaxFaults) ELSE UNCHANGED used

ExecuteDiff ==
  /\ \E m \in Plans :
     LET applicable == {n \in DOMAIN m : Applies(m, n)}
     IN \E done \in SUBSET applicable, silent \in SUBSET applicable :
        /\ done \cap silent = {}
        /\ \E landed \in SUBSET (ToCancel(m, done) \cap DOMAIN venue),
              acked \in SUBSET ToPlace(m, done) :
           \E ack \in Injection(acked, Fresh) :
           \E lost \in PartialFunctions(Fresh \ Range(ack), ToPlace(m, done)) :
             Execute(m, done, silent, landed, ack, lost)
  /\ UNCHANGED <<owed, want>>

\* reconcile: ghosts out, phantoms in, as the venue reports them.
Reconcile ==
  /\ \E t \in TrackOrders(RemoveOrders(Table(live, index), DOMAIN live \ DOMAIN venue),
                          [id \in DOMAIN venue \ DOMAIN live |-> venue[id]]) :
       live' = t.live /\ index' = t.index
  /\ UNCHANGED <<venue, owed, want, used>>

\* cancel_all: two passes of cancels take `gone` off the venue.  A failed first
\* query forgets everything; a failed second one keeps what the first saw.
CancelAll ==
  /\ DOMAIN live # {}
  /\ \E gone \in SUBSET (DOMAIN live \cap DOMAIN venue) :
     \E keep \in SUBSET (DOMAIN live \cap DOMAIN venue) :
       LET rest == DOMAIN venue \ gone
           t == RemoveOrders(Table(live, index), DOMAIN live \ keep)
       IN /\ keep = {} \/ DOMAIN live \cap rest \subseteq keep
          /\ live' = t.live /\ index' = t.index
          /\ venue' = [id \in rest |-> venue[id]]
          /\ LET faulty == gone # DOMAIN live \cap DOMAIN venue \/ keep # {}
             IN /\ used.moves < MaxMoves /\ (faulty => used.faults < MaxFaults)
                /\ used' = Bump(IF faulty THEN Bump(used, "faults") ELSE used, "moves")
  /\ UNCHANGED <<owed, want>>

\* One new order.
One(id, k, q) == [i \in {id} |-> [key |-> k, qty |-> q, filled |-> 0]]

\* execute_unwind_slice: an IOC order is tracked like a quote, fills now or
\* evaporates.
UnwindSlice ==
  /\ used.events < MaxEvents
  /\ used' = Bump(Bump(used, "events"), "slices")
  /\ \E id \in Fresh, k \in Keys, q \in Sizes, n \in 0 .. MaxQty :
       /\ n <= q
       /\ \E t \in TrackOrders(Table(live, index), One(id, k, q)) :
            live' = t.live /\ index' = t.index
       /\ owed' = [owed EXCEPT ![id] = n]
  /\ UNCHANGED <<venue, want>>

\* The venue fills n lots of an order, or takes an order off the book.
VenueFill ==
  /\ Spend("events", MaxEvents)
  /\ \E id \in DOMAIN venue : \E n \in 1 .. Remaining(venue[id]) :
       /\ venue' = IF n = Remaining(venue[id]) THEN Without(venue, {id})
                   ELSE [venue EXCEPT ![id].filled = @ + n]
       /\ owed' = [owed EXCEPT ![id] = @ + n]
  /\ UNCHANGED <<live, index, want>>

VenueExpire ==
  /\ Spend("events", MaxEvents)
  /\ \E id \in DOMAIN venue : venue' = Without(venue, {id})
  /\ UNCHANGED <<live, index, owed, want>>

\* A Fill event: on_fill.
OnFill ==
  /\ \E id \in Ids : \E n \in 1 .. owed[id] :
       LET t == Filled(Table(live, index), id, n)
       IN /\ live' = t.live /\ index' = t.index
          /\ owed' = [owed EXCEPT ![id] = @ - n]
  /\ UNCHANGED <<venue, want, used>>

Next == \/ Move \/ ExecuteDiff \/ Reconcile \/ CancelAll \/ UnwindSlice
        \/ VenueFill \/ VenueExpire \/ OnFill

Spec == Init /\ [][Next]_vars

\* The loop's timers: refresh, reconcile and the user stream each get their turn;
\* the venue answers once the faults are spent.
FairSpec == Spec /\ WF_vars(ExecuteDiff) /\ WF_vars(Reconcile) /\ WF_vars(OnFill)

-----------------------------------------------------------------------------
\* price_index never dangles: every slot names a live order that is at the slot's
\* side and price.  diff_orders reads the book through it.
IndexSound ==
  \A k \in DOMAIN index : index[k] \in DOMAIN live /\ live[index[k]].key = k

\* As long as no call failed and no slice was sent, the engine's picture is exact
\* up to the fills under way: every resting order is tracked at its price and can
\* be found through the index, and the venue has filled what the engine booked plus
\* those fills.  The size is only an upper bound: an amend of a partly filled order
\* sends what is left as the new size, and reprice_order keeps the old one.
FaultFreeIsExact ==
  used.faults = 0 /\ used.slices = 0 =>
    \A id \in DOMAIN venue :
      /\ id \in DOMAIN live /\ live[id].key = venue[id].key
      /\ live[id].key \in DOMAIN index /\ index[live[id].key] = id
      /\ live[id].filled + owed[id] = venue[id].filled
      /\ venue[id].qty <= live[id].qty

Sets == INSTANCE OrderSets WITH tracked <- DOMAIN live, venue <- DOMAIN venue

\* Forgetting prices, quantities and the index, the order manager behaves like
\* OrderSets: the level at which the kill ladder is modelled loses nothing.
ImplementsOrderSets == Sets!Spec

\* Whatever failed before, once failures, fills and price moves stop every wanted
\* level rests at the venue: a ghost in the index does not block it for good.
WantedGetsQuoted ==
  <>[](\A k \in DOMAIN want : \E id \in DOMAIN venue : venue[id].key = k)

\* reconcile tracks phantoms "so the next diff can cancel them if they're not in
\* the desired set": in the end nothing rests at a price nobody wants.
StaleReaped ==
  <>[](\A id \in DOMAIN venue : venue[id].key \in DOMAIN want)

=============================================================================
