------------------------------ MODULE BookSync ------------------------------
(***************************************************************************)
(* The local order book and the keeper that guards its sequence numbers    *)
(* (engine/src/book_keeper.rs, common/src/orderbook.rs).  What the book    *)
(* contains is abstracted to `have`, the numbers of the venue's updates it *)
(* reflects: it is the venue's book as of update n exactly when            *)
(* have = 1 .. n.  Nothing is assumed of the delivery: an update or a      *)
(* snapshot may arrive late, twice, in any order, or not at all; the       *)
(* venue's own position in the stream is no part of the state.             *)
(***************************************************************************)
EXTENDS Integers

CONSTANTS MaxSeq,   \* bound: the venue's updates
          Ceiling   \* a jump of this size or more is not a gap (1000)

ASSUME SeqAssumption == MaxSeq \in Nat /\ Ceiling \in Nat

VARIABLES have,     \* the updates the local book reflects
          bookSeq,  \* LocalOrderBook.sequence
          last,     \* BookKeeper.last_sequence, None or a number
          resync,   \* BookKeeper.needs_resync
          blind     \* history: since the last snapshot event, a delta after a hole
                    \* was applied that on_event does not look for

book_vars == <<have, bookSeq, last, resync, blind>>

None == -1

BookTypeOK ==
  /\ have \in SUBSET (1 .. MaxSeq)
  /\ bookSeq \in 0 .. MaxSeq /\ last \in {None} \cup 0 .. MaxSeq
  /\ resync \in BOOLEAN /\ blind \in BOOLEAN

\* BookKeeper::new, then the snapshot of run_with_hedge: it is applied to the book
\* behind the keeper's back, and a failed request leaves the book empty.
BookInit ==
  /\ \E s \in 0 .. MaxSeq : have = 1 .. s /\ bookSeq = s
  /\ last = None /\ resync = FALSE /\ blind = FALSE

\* Mutant: the keeper remembers the sequence number it expects next.
Mut_OnSnapshot_Expected(s) ==
  /\ have' = 1 .. s /\ bookSeq' = s
  /\ last' = s + 1 /\ resync' = FALSE /\ blind' = FALSE

\* on_event of a BookSnapshot.
OnSnapshot(s) ==
  /\ have' = 1 .. s /\ bookSeq' = s
  /\ last' = s /\ resync' = FALSE /\ blind' = FALSE

\* A delta that is dropped, or not.
Duplicate(n) == last # None /\ n <= last

\* Mutant: a hole of one update is let pass.
Mut_Gap_LargeOnly(n) == last # None /\ n - last > 2 /\ n - last < Ceiling

Gap(n) == last # None /\ n - last > 1 /\ n - last < Ceiling

\* The holes Gap does not see: before the first event, and the very large ones.
Unseen(n) == IF last = None THEN n > bookSeq + 1 ELSE n - last >= Ceiling

\* on_event of a BookDelta that is not dropped; apply_delta ignores an old one.
ApplyDelta(n) ==
  /\ resync' = (resync \/ Gap(n))
  /\ blind' = (blind \/ Unseen(n))
  /\ last' = n
  /\ IF n <= bookSeq THEN UNCHANGED <<have, bookSeq>>
     ELSE have' = have \cup {n} /\ bookSeq' = n

\* The book is what the venue's was, as of bookSeq.
InSync == have = 1 .. bookSeq

\* The keeper's promise.  The book is in sync, or marked for a resync, or behind one
\* of the two holes.
TrustedIsInSync == resync \/ blind \/ InSync

=============================================================================
