----------------------------- MODULE OrderSets -----------------------------
(***************************************************************************)
(* What the order manager promises about WHICH orders it knows and which   *)
(* rest at the venue, with everything else about an order forgotten: no    *)
(* price, no quantity, no price_index, no amends.  This is the level at    *)
(* which KillLadder reasons: each of its handlers makes a few of these     *)
(* calls.  OrderTable implements it.                                       *)
(*                                                                         *)
(* A book b is a record: b.tracked are the ids of OrderManager.live_orders *)
(* and b.venue those that rest.  Every call relates the book before it, b, *)
(* to the one after it, c.                                                 *)
(***************************************************************************)
CONSTANT Ids      \* order ids; an id nobody refers to any more may be reused

VARIABLES tracked,  \* OrderManager.live_orders, ids only
          venue     \* what rests at the venue

vars == <<tracked, venue>>

Books == [tracked : SUBSET Ids, venue : SUBSET Ids]
Book  == [tracked |-> tracked, venue |-> venue]

Init == tracked = {} /\ venue \in SUBSET Ids

\* Ids nobody refers to.
Fresh(b) == Ids \ (b.tracked \cup b.venue)

\* A diff may forget tracked orders and add new ones.  What it newly tracks rests;
\* what it takes off the venue it also forgets; a new order may rest untracked.
Diff(b, c) ==
  /\ c.tracked \subseteq b.tracked \cup Fresh(b)
  /\ c.venue \subseteq b.venue \cup Fresh(b)
  /\ c.tracked \cap Fresh(b) \subseteq c.venue
  /\ b.venue \ c.venue \subseteq b.tracked \ c.tracked

\* A reconcile leaves the engine knowing exactly what rests.
Reconcile(b, c) == c.tracked = b.venue /\ c.venue = b.venue

\* cancel_all takes some tracked orders off the venue.  It forgets everything,
\* or keeps at least the tracked orders that still rest.
CancelAll(b, c) ==
  /\ c.venue \subseteq b.venue /\ b.venue \ c.venue \subseteq b.tracked
  /\ c.tracked \subseteq b.tracked \cap b.venue
  /\ c.tracked = {} \/ b.tracked \cap c.venue \subseteq c.tracked

\* An unwind slice is tracked and never rests.
Slice(b, c) ==
  \E id \in Fresh(b) : c.tracked = b.tracked \cup {id} /\ c.venue = b.venue

\* The venue takes an order off the book, filled or expired.
VenueGone(b, c) ==
  \E id \in b.venue : c.venue = b.venue \ {id} /\ c.tracked = b.tracked

\* A delivered fill completes an order.
Completed(b, c) ==
  \E id \in b.tracked : c.tracked = b.tracked \ {id} /\ c.venue = b.venue

Call(b, c) ==
  \/ Diff(b, c) \/ Reconcile(b, c) \/ CancelAll(b, c) \/ Slice(b, c)
  \/ VenueGone(b, c) \/ Completed(b, c)

Next == Call(Book, Book')

Spec == Init /\ [][Next]_vars

=============================================================================
