-------------------------- MODULE QuoteGatesProofs --------------------------
(***************************************************************************)
(* Proofs about the gates of refresh_quotes, for every number of updates   *)
(* and every bound.                                                        *)
(***************************************************************************)
EXTENDS QuoteGates, TLAPS

-----------------------------------------------------------------------------
(* The book keeper.                                                         *)

\* last_sequence never runs ahead of the book: the startup snapshot may put the book
\* ahead of it, no event puts it ahead of the book.
LastBehindBook == last # None => last <= bookSeq

\* The keeper's inductive invariant.
BookInv == BookTypeOK /\ LastBehindBook /\ TrustedIsInSync

\* A snapshot event re-establishes the invariant from any state.
LEMMA SnapshotKeepsBook ==
  ASSUME NEW s \in 0 .. MaxSeq, OnSnapshot(s)
  PROVE  BookInv'
<1>1. have' = 1 .. s /\ bookSeq' = s /\ last' = s /\ resync' = FALSE /\ blind' = FALSE
  BY DEF OnSnapshot
<1>2. 1 .. s \subseteq 1 .. MaxSeq
  BY SeqAssumption
<1>3. BookTypeOK'
  BY <1>1, <1>2 DEF BookTypeOK
<1>4. LastBehindBook' /\ TrustedIsInSync'
  BY <1>1, SeqAssumption DEF LastBehindBook, TrustedIsInSync, InSync
<1> QED BY <1>3, <1>4 DEF BookInv

\* A delta that is neither dropped, nor flagged, nor behind one of the two holes is
\* the next one.
LEMMA InOrderDelta ==
  ASSUME BookInv, NEW n \in 1 .. MaxSeq, ~Duplicate(n), ~Gap(n), ~Unseen(n), n > bookSeq
  PROVE  n = bookSeq + 1
<1>1. CASE last = None
  BY <1>1, SeqAssumption DEF Unseen, BookInv, BookTypeOK
<1>2. CASE last # None
  <2>1. last \in 0 .. MaxSeq /\ last <= bookSeq
    BY <1>2 DEF BookInv, BookTypeOK, LastBehindBook
  <2>2. n - last <= 1
    BY <1>2, <2>1, SeqAssumption DEF Gap, Unseen
  <2> QED BY <2>1, <2>2, SeqAssumption DEF BookInv, BookTypeOK
<1> QED BY <1>1, <1>2

\* An accepted delta preserves it.
LEMMA DeltaKeepsBook ==
  ASSUME BookInv, NEW n \in 1 .. MaxSeq, ~Duplicate(n), ApplyDelta(n)
  PROVE  BookInv'
<1>1. BookTypeOK'
  <2>1. have \subseteq 1 .. MaxSeq /\ bookSeq \in 0 .. MaxSeq
    BY DEF BookInv, BookTypeOK
  <2>3. last' \in 0 .. MaxSeq
    BY SeqAssumption DEF ApplyDelta
  <2>4. have' \subseteq 1 .. MaxSeq /\ bookSeq' \in 0 .. MaxSeq
    <3>1. CASE n <= bookSeq
      BY <2>1, <3>1 DEF ApplyDelta
    <3>2. CASE ~(n <= bookSeq)
      <4>1. have' = have \cup {n} /\ bookSeq' = n
        BY <3>2 DEF ApplyDelta
      <4>2. have \cup {n} \subseteq 1 .. MaxSeq
        BY <2>1
      <4>3. n \in 0 .. MaxSeq
        BY SeqAssumption
      <4> QED BY <4>1, <4>2, <4>3
    <3> QED BY <3>1, <3>2
  <2>2. resync' \in BOOLEAN /\ blind' \in BOOLEAN
    BY Zenon DEF ApplyDelta
  <2> QED BY <2>2, <2>3, <2>4 DEF BookTypeOK
<1>2. LastBehindBook'
  BY SeqAssumption DEF ApplyDelta, BookInv, BookTypeOK, LastBehindBook, None
<1>3. TrustedIsInSync'
  <2>1. CASE n <= bookSeq
    BY <2>1 DEF ApplyDelta, BookInv, TrustedIsInSync, InSync
  <2>2. CASE n > bookSeq
    <3>1. CASE resync \/ blind \/ Gap(n) \/ Unseen(n)
      BY <3>1 DEF ApplyDelta, TrustedIsInSync
    <3>2. CASE ~resync /\ ~blind /\ ~Gap(n) /\ ~Unseen(n)
      <4>1. n = bookSeq + 1 /\ have = 1 .. bookSeq
        BY <2>2, <3>2, InOrderDelta DEF BookInv, TrustedIsInSync, InSync
      <4>2. have' = (1 .. bookSeq) \cup {bookSeq + 1} /\ bookSeq' = bookSeq + 1
        BY <2>2, <4>1, SeqAssumption DEF ApplyDelta, BookInv, BookTypeOK
      <4>3. have' = 1 .. (bookSeq + 1)
        BY <4>2, SeqAssumption DEF BookInv, BookTypeOK
      <4> QED BY <4>2, <4>3 DEF TrustedIsInSync, InSync
    <3> QED BY <3>1, <3>2
  <2> QED BY <2>1, <2>2, SeqAssumption DEF BookInv, BookTypeOK
<1> QED BY <1>1, <1>2, <1>3 DEF BookInv

\* Whatever a step of the engine does to the book preserves it.
LEMMA NextKeepsBook ==
  ASSUME BookInv, [Next]_vars
  PROVE  BookInv'
<1>1. CASE UNCHANGED book_vars
  BY <1>1 DEF book_vars, BookInv, BookTypeOK, LastBehindBook, TrustedIsInSync, InSync
<1>2. CASE BookSnapshot
  BY <1>2, SnapshotKeepsBook DEF BookSnapshot
<1>3. CASE BookDelta
  BY <1>3, DeltaKeepsBook DEF BookDelta
<1>4. CASE RefreshQuotes
  BY <1>4, <1>1, SnapshotKeepsBook DEF RefreshQuotes, Resync
<1>5. CASE Age \/ LifecyclePoll \/ PollFails \/ Operator \/ Environment \/ Connection
           \/ Reconcile
  <2> UNCHANGED book_vars
    BY <1>5 DEF Age, LifecyclePoll, PollFails, Operator, Environment, Connection, Reconcile
  <2> QED BY <1>1
<1>6. CASE RefreshPaused \/ RefreshStale \/ RefreshKilled \/ RefreshGated
           \/ RefreshTripped \/ RefreshSkips
  <2> UNCHANGED book_vars
    BY <1>6 DEF RefreshPaused, RefreshStale, RefreshKilled, RefreshGated, RefreshTripped,
                RefreshSkips
  <2> QED BY <1>1
<1>7. CASE UNCHANGED vars
  BY <1>7, <1>1 DEF vars
<1> QED BY <1>1, <1>2, <1>3, <1>4, <1>5, <1>6, <1>7 DEF Next, Refresh

LEMMA BookInvariant == Spec => []BookInv
<1>1. Init => BookInv
  <2> SUFFICES ASSUME Init PROVE BookInv
    OBVIOUS
  <2>1. PICK s \in 0 .. MaxSeq : have = 1 .. s /\ bookSeq = s
    BY DEF Init, BookInit
  <2>2. 1 .. s \subseteq 1 .. MaxSeq
    BY SeqAssumption
  <2>3. last = None /\ resync = FALSE /\ blind = FALSE
    BY DEF Init, BookInit
  <2> QED BY <2>1, <2>2, <2>3
          DEF BookInv, BookTypeOK, LastBehindBook, TrustedIsInSync, InSync
<1> QED BY <1>1, NextKeepsBook, PTL DEF Spec

\* The keeper's promise holds whatever is lost, repeated or reordered: a book that is
\* not marked for a resync is the venue's, except behind the two holes on_event does
\* not look for.
THEOREM Trusted == Spec => []TrustedIsInSync
<1>1. BookInv => TrustedIsInSync
  BY DEF BookInv
<1> QED BY <1>1, BookInvariant, PTL

-----------------------------------------------------------------------------
(* The gates.                                                               *)

\* The state of the gates is well formed, variable group by variable group.
FreshTypeOK == update \in Ages /\ stamp \in Ages /\ stalePaused \in BOOLEAN
LifecycleTypeOK ==
  /\ status \in {"trading", "halted"} /\ spec \in {"none", "trading", "halted"}
  /\ delisted \in BOOLEAN /\ paused \in BOOLEAN /\ overruled \in BOOLEAN
  /\ operator \in {"none", "pause", "resume"}
RiskTypeOK ==
  /\ level \in {0, 2, 3} /\ gated \in BOOLEAN /\ spread \in 0 .. 2
  /\ breach \subseteq Limits
OrdersTypeOK == tracked \in BOOLEAN /\ resting \in BOOLEAN /\ faults \in 0 .. MaxFaults
HistoryTypeOK ==
  quoted \in BOOLEAN /\ through \subseteq Reasons /\ events \in 0 .. MaxEvents
GatesTypeOK ==
  /\ FreshTypeOK /\ LifecycleTypeOK /\ RiskTypeOK /\ OrdersTypeOK /\ HistoryTypeOK
  /\ reason \in Reasons

\* A group that does not change stays well formed.
LEMMA Frames ==
  ASSUME GatesTypeOK
  PROVE  /\ UNCHANGED freshness => FreshTypeOK'
         /\ UNCHANGED lifecycle => LifecycleTypeOK'
         /\ UNCHANGED risk => RiskTypeOK'
         /\ UNCHANGED <<orders, faults>> => OrdersTypeOK'
         /\ Between /\ UNCHANGED events => HistoryTypeOK'
         /\ Between /\ Event => HistoryTypeOK'
         /\ UNCHANGED reason => (reason \in Reasons)'
<1>1. UNCHANGED freshness => FreshTypeOK'
  BY DEF GatesTypeOK, FreshTypeOK, freshness
<1>2. UNCHANGED lifecycle => LifecycleTypeOK'
  BY DEF GatesTypeOK, LifecycleTypeOK, lifecycle
<1>3. UNCHANGED risk => RiskTypeOK'
  BY DEF GatesTypeOK, RiskTypeOK, risk
<1>4. UNCHANGED <<orders, faults>> => OrdersTypeOK'
  BY DEF GatesTypeOK, OrdersTypeOK, orders
<1>5. ASSUME Between PROVE quoted' \in BOOLEAN /\ through' \subseteq Reasons
  BY <1>5 DEF Between, GatesTypeOK, HistoryTypeOK
<1>6. UNCHANGED events => events' \in 0 .. MaxEvents
  BY DEF GatesTypeOK, HistoryTypeOK
<1>7. Event => events' \in 0 .. MaxEvents
  BY BoundsAssumption DEF Event, GatesTypeOK, HistoryTypeOK
<1>8. UNCHANGED reason => (reason \in Reasons)'
  BY DEF GatesTypeOK
<1> QED BY <1>1, <1>2, <1>3, <1>4, <1>5, <1>6, <1>7, <1>8 DEF HistoryTypeOK

LEMMA CheckType ==
  ASSUME NEW r \in Reasons, NEW why \in Reasons, NEW b
  PROVE  Check(r, why, b) \in Reasons
BY DEF Check, Trip, Reasons

LEMMA BreakerType ==
  ASSUME reason \in Reasons
  PROVE  Watched \in Reasons /\ Limited(Watched) \in Reasons
<1>1. {"stale", "spread", "drawdown", "exposure"} \subseteq Reasons
  BY DEF Reasons, Limits
<1>2. Watched \in Reasons
  BY <1>1, CheckType DEF Watched
<1>3. Check(Watched, "drawdown", "drawdown" \in breach) \in Reasons
  BY <1>1, <1>2, CheckType
<1> QED BY <1>1, <1>2, <1>3, CheckType DEF Limited

LEMMA CancelAllType ==
  ASSUME GatesTypeOK, CancelAll
  PROVE  OrdersTypeOK'
<1>1. tracked' \in BOOLEAN /\ resting' \in BOOLEAN
  BY Zenon DEF CancelAll, GatesTypeOK, OrdersTypeOK
<1>2. faults' \in 0 .. MaxFaults
  BY BoundsAssumption DEF CancelAll, Fault, GatesTypeOK, OrdersTypeOK
<1> QED BY <1>1, <1>2 DEF OrdersTypeOK

LEMMA PlaceType ==
  ASSUME GatesTypeOK, Place
  PROVE  OrdersTypeOK'
<1>1. tracked' \in BOOLEAN
  BY Zenon DEF Place, GatesTypeOK, OrdersTypeOK
<1>2. resting' = resting \/ resting' = TRUE
  BY Zenon DEF Place
<1>3. resting' \in BOOLEAN
  BY <1>2, Zenon DEF GatesTypeOK, OrdersTypeOK
<1>4. faults' \in 0 .. MaxFaults
  <2>1. UNCHANGED faults \/ Fault
    BY Zenon DEF Place
  <2> QED BY <2>1, BoundsAssumption DEF Fault, GatesTypeOK, OrdersTypeOK
<1> QED BY <1>1, <1>3, <1>4 DEF OrdersTypeOK

LEMMA ReturnsType ==
  ASSUME GatesTypeOK, NEW b \in BOOLEAN, Returns(b)
  PROVE  HistoryTypeOK' /\ LifecycleTypeOK' /\ RiskTypeOK'
<1>1. quoted' \in BOOLEAN
  BY DEF Returns
<1>2. UNCHANGED lifecycle /\ UNCHANGED risk /\ UNCHANGED events
  BY DEF Returns
<1>3. through' \subseteq Reasons
  BY DEF Returns, GatesTypeOK, RiskTypeOK, Reasons, Limits
<1>4. events' \in 0 .. MaxEvents
  BY <1>2 DEF GatesTypeOK, HistoryTypeOK
<1>5. HistoryTypeOK'
  BY <1>1, <1>3, <1>4 DEF HistoryTypeOK
<1> QED BY <1>2, <1>5, Frames

\* Each way out of a refresh keeps the gates well formed.
LEMMA RefreshKeepsTypes ==
  ASSUME GatesTypeOK, Refresh
  PROVE  GatesTypeOK'
<1>1. HistoryTypeOK' /\ LifecycleTypeOK' /\ RiskTypeOK'
  BY ReturnsType
     DEF Refresh, RefreshPaused, RefreshStale, RefreshKilled, RefreshGated, RefreshTripped,
         RefreshSkips, RefreshQuotes
<1>2. reason' \in Reasons
  <2>1. reason' = reason \/ reason' = Watched \/ reason' = Limited(Watched)
    BY DEF Refresh, RefreshPaused, RefreshStale, RefreshKilled, RefreshGated,
           RefreshTripped, RefreshSkips, RefreshQuotes
  <2> QED BY <2>1, BreakerType DEF GatesTypeOK
<1>3. FreshTypeOK'
  <2>1. stalePaused' \in BOOLEAN
    BY DEF Refresh, RefreshPaused, RefreshStale, RefreshKilled, RefreshGated, RefreshTripped,
           RefreshSkips, RefreshQuotes, Awake, freshness, GatesTypeOK, FreshTypeOK
  <2>2. UNCHANGED <<update, stamp>> \/ (update' = "fresh" /\ stamp' = "fresh")
    BY DEF Refresh, RefreshPaused, RefreshStale, RefreshKilled, RefreshGated, RefreshTripped,
           RefreshSkips, RefreshQuotes, Awake, freshness
  <2> QED BY <2>1, <2>2 DEF GatesTypeOK, FreshTypeOK, Ages
<1>4. OrdersTypeOK'
  <2>1. CASE UNCHANGED orders /\ Fault
    BY <2>1, BoundsAssumption DEF Fault, GatesTypeOK, OrdersTypeOK, orders
  <2>2. CancelAll \/ Place \/ UNCHANGED <<orders, faults>> \/ (UNCHANGED orders /\ Fault)
    BY DEF Refresh, RefreshPaused, RefreshStale, RefreshKilled, RefreshGated, RefreshTripped,
           RefreshSkips, RefreshQuotes
  <2> QED BY <2>1, <2>2, CancelAllType, PlaceType, Frames
<1> QED BY <1>1, <1>2, <1>3, <1>4 DEF GatesTypeOK

\* So does each handler.
LEMMA HandlersKeepTypes ==
  ASSUME GatesTypeOK, Next, ~Refresh
  PROVE  GatesTypeOK'
<1>1. CASE BookSnapshot \/ BookDelta
  <2>1. update' \in Ages /\ stamp' \in Ages /\ UNCHANGED stalePaused
    BY <1>1 DEF BookSnapshot, BookDelta, Ages, GatesTypeOK, FreshTypeOK
  <2>2. FreshTypeOK'
    BY <2>1 DEF GatesTypeOK, FreshTypeOK
  <2> QED BY <1>1, <2>2, Frames DEF BookSnapshot, BookDelta, GatesTypeOK
<1>3. CASE Age
  <2>1. update' \in Ages /\ stamp' \in Ages /\ UNCHANGED stalePaused
    BY <1>3 DEF Age, Ages, GatesTypeOK, FreshTypeOK
  <2>2. FreshTypeOK'
    BY <2>1 DEF GatesTypeOK, FreshTypeOK
  <2> QED BY <1>3, <2>2, Frames DEF Age, GatesTypeOK
<1>4. CASE LifecyclePoll
  <2>1. /\ spec' = spec \/ spec' = status
        /\ paused' = paused \/ paused' = TRUE \/ paused' = FALSE
        /\ UNCHANGED <<status, delisted, operator, overruled>>
    BY <1>4 DEF LifecyclePoll, LifecycleEvent
  <2>2. LifecycleTypeOK'
    BY <2>1 DEF GatesTypeOK, LifecycleTypeOK
  <2>3. CancelAll \/ UNCHANGED <<orders, faults>>
    BY <1>4 DEF LifecyclePoll, LifecycleEvent
  <2> QED BY <1>4, <2>2, <2>3, CancelAllType, Frames DEF LifecyclePoll, GatesTypeOK
<1>5. CASE PollFails
  <2>1. LifecycleTypeOK'
    BY <1>5 DEF PollFails, GatesTypeOK, LifecycleTypeOK
  <2> QED BY <1>5, <2>1, CancelAllType, Frames DEF PollFails, GatesTypeOK
<1>6. CASE Operator
  <2>1. /\ operator' \in {"none", "pause", "resume"} /\ paused' \in BOOLEAN
        /\ UNCHANGED <<status, spec, delisted>>
    BY <1>6 DEF Operator
  <2>2. overruled' \in BOOLEAN
    BY <1>6, Zenon DEF Operator, GatesTypeOK, LifecycleTypeOK
  <2>3. LifecycleTypeOK'
    BY <2>1, <2>2 DEF GatesTypeOK, LifecycleTypeOK
  <2> QED BY <1>6, <2>3, Frames DEF Operator, GatesTypeOK
<1>7. CASE Environment
  <2>1. /\ status' \in {"trading", "halted"}
        /\ UNCHANGED <<spec, delisted, paused, operator, overruled, gated>>
    BY <1>7 DEF Environment, GatesTypeOK, LifecycleTypeOK
  <2>2. LifecycleTypeOK'
    BY <2>1 DEF GatesTypeOK, LifecycleTypeOK
  <2>3. level' \in {0, 2, 3} /\ spread' \in 0 .. 2 /\ breach' \subseteq Limits
    BY <1>7 DEF Environment, Spreads, GatesTypeOK, RiskTypeOK
  <2>4. RiskTypeOK'
    BY <2>1, <2>3 DEF GatesTypeOK, RiskTypeOK
  <2> QED BY <1>7, <2>2, <2>4, Frames DEF Environment, GatesTypeOK
<1>8. CASE Connection
  <2>1. reason' \in Reasons
    BY <1>8 DEF Connection, Trip, Reasons, GatesTypeOK
  <2> QED BY <1>8, <2>1, Frames DEF Connection, GatesTypeOK
<1>9. CASE Reconcile
  <2>1. OrdersTypeOK'
    BY <1>9 DEF Reconcile, GatesTypeOK, OrdersTypeOK
  <2> QED BY <1>9, <2>1, Frames DEF Reconcile, GatesTypeOK
<1> QED BY <1>1, <1>3, <1>4, <1>5, <1>6, <1>7, <1>8, <1>9 DEF Next

LEMMA GatesTyped == Spec => []GatesTypeOK
<1>1. Init => GatesTypeOK
  <2> SUFFICES ASSUME Init PROVE GatesTypeOK
    OBVIOUS
  <2>1. FreshTypeOK
    BY DEF Init, FreshTypeOK, Ages
  <2>2. LifecycleTypeOK
    BY DEF Init, LifecycleTypeOK
  <2>3. RiskTypeOK /\ reason \in Reasons
    BY DEF Init, RiskTypeOK, Reasons
  <2>0. 0 \in 0 .. MaxFaults /\ 0 \in 0 .. MaxEvents
    BY BoundsAssumption
  <2>4. OrdersTypeOK
    BY <2>0 DEF Init, OrdersTypeOK
  <2>5. HistoryTypeOK
    BY <2>0 DEF Init, HistoryTypeOK
  <2> QED BY <2>1, <2>2, <2>3, <2>4, <2>5 DEF GatesTypeOK
<1>2. GatesTypeOK /\ [Next]_vars => GatesTypeOK'
  <2>1. CASE Refresh
    BY <2>1, RefreshKeepsTypes
  <2>2. CASE Next /\ ~Refresh
    BY <2>2, HandlersKeepTypes
  <2>3. CASE GatesTypeOK /\ UNCHANGED vars
    <3>1. UNCHANGED <<quoted, through, events>>
      BY <2>3 DEF vars
    <3>2. HistoryTypeOK'
      BY <2>3, <3>1 DEF GatesTypeOK, HistoryTypeOK
    <3> QED BY <2>3, <3>2, Frames DEF vars, GatesTypeOK
  <2> QED BY <2>1, <2>2, <2>3
<1> QED BY <1>1, <1>2, PTL DEF Spec

\* Type correctness of the book keeper, the breaker, the lifecycle manager and the
\* flags refresh_quotes reads.
THEOREM QuoteGatesTypeCorrect == Spec => []TypeOK
<1>1. BookInv /\ GatesTypeOK => TypeOK
  BY DEF BookInv, GatesTypeOK, FreshTypeOK, LifecycleTypeOK, RiskTypeOK, OrdersTypeOK,
         HistoryTypeOK, TypeOK
<1> QED BY <1>1, BookInvariant, GatesTyped, PTL

-----------------------------------------------------------------------------
(* What the gates guarantee.                                                *)

\* A refresh that quotes leaves a book that is not marked.
LEMMA QuotingResyncs ==
  ASSUME BookInv, [Next]_vars
  PROVE  quoted' /\ ~UNCHANGED vars => ~resync'
<1>1. CASE RefreshQuotes
  <2>1. CASE resync
    BY <1>1, <2>1 DEF RefreshQuotes, Resync, OnSnapshot
  <2>2. CASE ~resync
    BY <1>1, <2>2 DEF RefreshQuotes, Resync, book_vars
  <2> QED BY <2>1, <2>2
<1>2. CASE Next /\ ~RefreshQuotes
  <2>1. quoted' = FALSE
    BY <1>2 DEF Next, Refresh, BookSnapshot, BookDelta, Age, LifecyclePoll, PollFails, Operator,
                Environment, Connection, Reconcile, Between, RefreshPaused, RefreshStale,
                RefreshKilled, RefreshGated, RefreshTripped, RefreshSkips, Returns
  <2> QED BY <2>1
<1> QED BY <1>1, <1>2

\* Orders are placed on a book the keeper trusts.
QuotingInv == quoted => ~resync

\* Every refresh that places orders prices them on the venue's book as of some update,
\* unless the book is behind one of the two holes, whatever the stream does.
THEOREM QuotesOnSyncedBook == Spec => []QuotesInSync
<1>1. Init => QuotingInv
  BY DEF Init, QuotingInv
<1>2. BookInv /\ QuotingInv /\ [Next]_vars => QuotingInv'
  <2>1. CASE UNCHANGED vars
    BY <2>1 DEF vars, book_vars, QuotingInv
  <2> QED BY <2>1, QuotingResyncs DEF QuotingInv
<1>3. BookInv /\ QuotingInv => QuotesInSync
  BY DEF BookInv, QuotingInv, TrustedIsInSync, QuotesInSync
<1> QED BY <1>1, <1>2, <1>3, BookInvariant, PTL DEF Spec

\* A delisted pair is paused until the operator resumes it.
DelistedInv == /\ delisted /\ ~overruled => paused
               /\ DelistedStaysDown

\* No poll, event or refresh undoes a delisting.
THEOREM DelistedFinal == Spec => []DelistedStaysDown
<1>1. Init => DelistedInv
  BY DEF Init, DelistedInv, DelistedStaysDown
<1>2. DelistedInv /\ [Next]_vars => DelistedInv'
  <2> SUFFICES ASSUME DelistedInv, [Next]_vars PROVE DelistedInv'
    OBVIOUS
  <2>1. CASE UNCHANGED vars
    BY <2>1 DEF vars, lifecycle, DelistedInv, DelistedStaysDown
  <2>2. CASE RefreshQuotes
    BY <2>2 DEF RefreshQuotes, Blocked, Returns, lifecycle, DelistedInv, DelistedStaysDown
  <2>3. CASE RefreshPaused \/ RefreshStale \/ RefreshKilled \/ RefreshGated
             \/ RefreshTripped \/ RefreshSkips
    <3>1. quoted' = FALSE /\ UNCHANGED lifecycle
      BY <2>3 DEF RefreshPaused, RefreshStale, RefreshKilled, RefreshGated, RefreshTripped,
                  RefreshSkips, Returns
    <3> QED BY <3>1 DEF lifecycle, DelistedInv, DelistedStaysDown
  <2>4. CASE BookSnapshot \/ BookDelta \/ Age \/ Environment \/ Connection \/ Reconcile
    <3>1. quoted' = FALSE /\ UNCHANGED <<delisted, paused, overruled>>
      BY <2>4 DEF BookSnapshot, BookDelta, Age, Environment, Connection, Reconcile, Between,
                  lifecycle
    <3> QED BY <3>1 DEF DelistedInv, DelistedStaysDown
  <2>5. CASE LifecyclePoll
    <3>1. quoted' = FALSE /\ UNCHANGED <<delisted, overruled>>
      BY <2>5 DEF LifecyclePoll, Between
    <3>2. delisted => UNCHANGED paused
      BY <2>5 DEF LifecyclePoll, LifecycleEvent
    <3> QED BY <3>1, <3>2 DEF DelistedInv, DelistedStaysDown
  <2>6. CASE PollFails
    BY <2>6 DEF PollFails, Between, DelistedInv, DelistedStaysDown
  <2>7. CASE Operator
    BY <2>7 DEF Operator, Between, DelistedInv, DelistedStaysDown
  <2> QED BY <2>1, <2>2, <2>3, <2>4, <2>5, <2>6, <2>7 DEF Next, Refresh
<1>3. DelistedInv => DelistedStaysDown
  BY DEF DelistedInv
<1> QED BY <1>1, <1>2, <1>3, PTL DEF Spec

\* The one flag that halts, delistings and the operator share is set for a reason that
\* still stands: the poll last saw the pair halted, the operator's last word was pause,
\* or the pair is delisted.
PauseHasCause == paused => spec = "halted" \/ operator = "pause" \/ delisted

\* A halt of a pair that was seen trading sets the flag, and it is cleared only by the
\* operator's ResumeQuoting or by a poll that sees a halted pair trade again.
HaltPauses ==
  [][/\ spec = "trading" /\ spec' = "halted" => paused'
     /\ paused /\ ~paused' => \/ Operator /\ operator' = "resume"
                              \/ spec = "halted" /\ spec' = "trading" /\ ~delisted]_vars

\* Which steps touch the flag, and how.
LEMMA PauseSteps ==
  ASSUME spec \in {"none", "trading", "halted"}, status \in {"trading", "halted"}, [Next]_vars
  PROVE  \/ UNCHANGED <<paused, spec, operator, delisted>>
         \/ /\ UNCHANGED <<operator, delisted>> /\ ~delisted
            /\ \/ spec = "trading" /\ spec' = "halted" /\ paused'
               \/ spec = "halted" /\ spec' = "trading" /\ ~paused'
               \/ spec \in {"none", spec'} /\ paused' = paused
         \/ delisted' /\ paused' /\ UNCHANGED <<spec, operator>>
         \/ /\ Operator /\ UNCHANGED <<spec, delisted>>
            /\ \/ operator' = "pause" /\ paused'
               \/ operator' = "resume" /\ ~paused'
<1>1. CASE UNCHANGED vars  BY <1>1 DEF vars, lifecycle
<1>2. CASE Refresh
  BY <1>2 DEF Refresh, RefreshPaused, RefreshStale, RefreshKilled, RefreshGated,
     RefreshTripped, RefreshSkips, RefreshQuotes, Returns, lifecycle
<1>3. CASE BookSnapshot \/ BookDelta \/ Age \/ Environment \/ Connection \/ Reconcile
  BY <1>3 DEF BookSnapshot, BookDelta, Age, Environment, Connection, Reconcile, lifecycle
<1>4. CASE LifecyclePoll
  <2>1. CASE delisted
    BY <1>4, <2>1 DEF LifecyclePoll, LifecycleEvent
  <2>2. CASE ~delisted
    <3>1. spec' = status /\ UNCHANGED <<operator, delisted>>
      BY <1>4, <2>2 DEF LifecyclePoll
    <3>2. CASE spec = "none" \/ spec = status
      <4>1. LifecycleEvent = "none"  BY <3>2 DEF LifecycleEvent
      <4>2. paused' = paused  BY <1>4, <4>1 DEF LifecyclePoll
      <4> QED  BY <2>2, <3>1, <3>2, <4>2
    <3>3. CASE spec = "trading" /\ status = "halted"
      <4>1. LifecycleEvent = "halted"  BY <2>2, <3>3 DEF LifecycleEvent
      <4>2. paused'  BY <1>4, <4>1 DEF LifecyclePoll
      <4> QED  BY <2>2, <3>1, <3>3, <4>2
    <3>4. CASE spec = "halted" /\ status = "trading"
      <4>1. LifecycleEvent = "resumed"  BY <2>2, <3>4 DEF LifecycleEvent
      <4>2. ~paused'  BY <1>4, <4>1 DEF LifecyclePoll
      <4> QED  BY <2>2, <3>1, <3>4, <4>2
    <3> QED  BY <3>2, <3>3, <3>4
  <2> QED  BY <2>1, <2>2
<1>5. CASE PollFails  BY <1>5 DEF PollFails
<1>6. CASE Operator  BY <1>6 DEF Operator
<1> QED  BY <1>1, <1>2, <1>3, <1>4, <1>5, <1>6 DEF Next

\* The safety half of QuotingResumes: an engine that is paused has a reason to be, so a
\* pair that trades and is neither paused by the operator nor delisted is paused at most
\* until the next poll.
THEOREM PausedForCause == Spec => []PauseHasCause
<1>1. Init => PauseHasCause  BY DEF Init, PauseHasCause
<1>2. GatesTypeOK /\ PauseHasCause /\ [Next]_vars => PauseHasCause'
  <2> SUFFICES ASSUME GatesTypeOK, PauseHasCause, [Next]_vars PROVE PauseHasCause'
    OBVIOUS
  <2>1. spec \in {"none", "trading", "halted"} /\ status \in {"trading", "halted"}
    BY DEF GatesTypeOK, LifecycleTypeOK
  <2> QED  BY <2>1, PauseSteps, Zenon DEF PauseHasCause
<1> QED  BY <1>1, <1>2, GatesTyped, PTL DEF Spec

\* What the code keeps of HaltedNeverQuotes: behind the first poll, and until the
\* operator resumes, a halt that was seen keeps lifecycle_paused set.
THEOREM HaltKeepsPause == Spec => HaltPauses
<1> DEFINE Kept ==
      /\ spec = "trading" /\ spec' = "halted" => paused'
      /\ paused /\ ~paused' => \/ Operator /\ operator' = "resume"
                               \/ spec = "halted" /\ spec' = "trading" /\ ~delisted
<1>1. GatesTypeOK /\ [Next]_vars => [Kept]_vars
  <2> SUFFICES ASSUME GatesTypeOK, [Next]_vars PROVE Kept  OBVIOUS
  <2>1. spec \in {"none", "trading", "halted"} /\ status \in {"trading", "halted"}
    BY DEF GatesTypeOK, LifecycleTypeOK
  <2> QED  BY <2>1, PauseSteps
<1> QED  BY <1>1, GatesTyped, PTL DEF Spec, HaltPauses

\* While the last refresh quoted through a breach, the breaker holds no reason that
\* could hide it: a refresh that quotes leaves it reset, and only Disconnected trips
\* it between two refreshes.
BreachInv == through # {} => reason \in {"none", "stale"}

LEMMA NextKeepsBreach ==
  ASSUME BreachInv, [Next]_vars
  PROVE  BreachInv'
<1>1. CASE UNCHANGED vars
  BY <1>1 DEF vars, BreachInv
<1>2. CASE Refresh
  <2>1. CASE RefreshQuotes
    BY <2>1 DEF RefreshQuotes, BreachInv
  <2>2. CASE RefreshPaused \/ RefreshStale \/ RefreshKilled \/ RefreshGated
             \/ RefreshTripped \/ RefreshSkips
    <3>1. through' = {}
      BY <2>2 DEF RefreshPaused, RefreshStale, RefreshKilled, RefreshGated, RefreshTripped,
                  RefreshSkips, Returns
    <3> QED BY <3>1 DEF BreachInv
  <2> QED BY <1>2, <2>1, <2>2 DEF Refresh
<1>3. CASE Connection
  BY <1>3 DEF Connection, Between, Trip, BreachInv
<1>4. CASE BookSnapshot \/ BookDelta \/ Age \/ LifecyclePoll \/ PollFails \/ Operator
           \/ Environment \/ Reconcile
  <2>1. UNCHANGED <<through, reason>>
    BY <1>4 DEF BookSnapshot, BookDelta, Age, LifecyclePoll, PollFails, Operator, Environment,
                Reconcile, Between
  <2> QED BY <2>1 DEF BreachInv
<1> QED BY <1>1, <1>2, <1>3, <1>4 DEF Next

\* With no limit as its reason, the breaker comes out of a refresh's checks untripped
\* only if nothing is breached.
LEMMA BreakerSees ==
  ASSUME reason \in {"none", "stale"}, Ready, Limited(Watched) = "none"
  PROVE  breach \cap Limits = {} /\ spread # 2
<1> DEFINE w == Check(reason, "stale", stamp = "stale")
           d == Check(Watched, "drawdown", "drawdown" \in breach)
<1>1. w \in {"none", "stale"}
  BY DEF Check, Trip
<1>2. Watched = Check(w, "spread", spread = 2)
  BY DEF Watched
<1>3. Watched \in {"none", "stale", "spread"} /\ (spread = 2 => Watched # "none")
  BY <1>1, <1>2 DEF Check, Trip
<1>4. /\ d \in {"none", "stale", "spread", "drawdown"}
      /\ "drawdown" \in breach \/ Watched # "none" => d # "none"
  BY <1>3 DEF Check, Trip
<1>5. Limited(Watched) = Check(d, "exposure", "exposure" \in breach)
  BY DEF Limited
<1>6. "exposure" \in breach \/ d # "none" => Limited(Watched) # "none"
  <2> HIDE DEF d
  <2> QED BY <1>4, <1>5 DEF Check, Trip
<1> QED BY <1>3, <1>4, <1>6 DEF Limits

\* A breach the breaker overlooked once, because another reason healed in the same
\* refresh, stops the next refresh that still finds it.
THEOREM NeverTwiceThrough == Spec => BreachHaltsNextQuote
<1>1. Init => BreachInv
  BY DEF Init, BreachInv
<1>2. ASSUME BreachInv, GatesTypeOK, [Next]_vars
      PROVE  [quoted' => through \cap through' = {}]_vars
  <2>1. CASE RefreshQuotes /\ quoted'
    <3>1. Ready /\ Limited(Watched) = "none"
      BY <2>1 DEF RefreshQuotes
    <3>2. through' = breach \cup (IF spread = 2 THEN {"spread"} ELSE {})
      BY <2>1 DEF RefreshQuotes, Returns
    <3>3. breach \subseteq Limits
      BY <1>2 DEF GatesTypeOK, RiskTypeOK
    <3>4. through = {} \/ through' = {}
      BY <1>2, <3>1, <3>2, <3>3, BreakerSees DEF BreachInv
    <3> QED BY <3>4
  <2>2. CASE RefreshQuotes /\ ~quoted'
    BY <2>2
  <2>3. CASE Next /\ ~RefreshQuotes
    <3>1. quoted' = FALSE
      BY <2>3 DEF Next, Refresh, BookSnapshot, BookDelta, Age, LifecyclePoll, PollFails,
                  Operator, Environment, Connection, Reconcile, Between, RefreshPaused,
                  RefreshStale, RefreshKilled, RefreshGated, RefreshTripped, RefreshSkips,
                  Returns
    <3> QED BY <3>1
  <2>4. CASE UNCHANGED vars
    BY <2>4
  <2> QED BY <1>2, <2>1, <2>2, <2>3, <2>4
<1> QED BY <1>1, <1>2, NextKeepsBreach, GatesTyped, PTL DEF Spec, BreachHaltsNextQuote

=============================================================================
