----------------------------- MODULE QuoteGates -----------------------------
(***************************************************************************)
(* When the engine quotes: the chain of early returns of refresh_quotes    *)
(* (engine/src/market_maker.rs), with the state each gate reads, and the   *)
(* handlers that change that state between two refreshes: book events      *)
(* (BookSync), the lifecycle poll, connection events, operator overrides,  *)
(* reconcile.  Which orders rest is abstracted to whether one does.        *)
(***************************************************************************)
EXTENDS BookSync

CONSTANTS MaxEvents,  \* bound: changes of the market, the risk figures, the operator
          MaxFaults   \* bound: failed calls

ASSUME BoundsAssumption == MaxEvents \in Nat /\ MaxFaults \in Nat

VARIABLES
  update,      \* BookKeeper.last_update: never, fresh, stale
  stamp,       \* LocalOrderBook.last_update_ms: never, fresh, stale
  stalePaused, \* stale_book_paused
  status,      \* the venue's trading status of the pair
  spec,        \* PairLifecycleManager.last_spec: none or the status last seen
  delisted,    \* delisted_latched
  paused,      \* lifecycle_paused
  level,       \* kill switch: 0, 2 StopNewOrders, 3 CancelAll
  gated,       \* max_spread_to_quote_bps is configured
  spread,      \* 0 normal, 1 above max_spread_to_quote_bps, 2 above max_spread_bps
  breach,      \* the limits ExposureManager finds breached
  reason,      \* CircuitBreaker.reason; "none": not tripped
  tracked,     \* the order manager knows an order
  resting,     \* an order rests at the venue
  quoted,      \* history: the last step was a refresh that quoted
  through,     \* history: breaches under which the last refresh quoted
  operator,    \* history: the last of PauseQuoting, ResumeQuoting
  overruled,   \* history: ResumeQuoting after the delisting
  events, faults

freshness == <<update, stamp, stalePaused>>
lifecycle == <<status, spec, delisted, paused, operator, overruled>>
risk      == <<level, gated, spread, breach>>
orders    == <<tracked, resting>>
vars == <<book_vars, freshness, lifecycle, risk, reason, orders, quoted, through,
          events, faults>>

Ages    == {"never", "fresh", "stale"}
Spreads == IF gated THEN 0 .. 2 ELSE {0, 2}
Limits  == {"drawdown", "exposure"}
Reasons == {"none", "stale", "spread"} \cup Limits

TypeOK ==
  /\ BookTypeOK
  /\ {update, stamp} \subseteq Ages /\ stalePaused \in BOOLEAN
  /\ status \in {"trading", "halted"} /\ spec \in {"none", "trading", "halted"}
  /\ {delisted, paused, overruled, gated, tracked, resting} \subseteq BOOLEAN
  /\ operator \in {"none", "pause", "resume"}
  /\ level \in {0, 2, 3} /\ spread \in 0 .. 2 /\ breach \subseteq Limits
  /\ reason \in Reasons
  /\ quoted \in BOOLEAN /\ through \subseteq Reasons
  /\ events \in 0 .. MaxEvents /\ faults \in 0 .. MaxFaults

Init ==
  /\ BookInit
  /\ update = "never" /\ stamp = (IF have = {} THEN "never" ELSE "fresh")
  /\ stalePaused = FALSE
  /\ status \in {"trading", "halted"} /\ spec = "none" /\ delisted = FALSE
  /\ paused = FALSE /\ operator = "none" /\ overruled = FALSE
  /\ level = 0 /\ gated \in BOOLEAN /\ spread = 0 /\ breach = {} /\ reason = "none"
  /\ tracked = FALSE /\ resting = FALSE
  /\ quoted = FALSE /\ through = {} /\ events = 0 /\ faults = 0

Event == events < MaxEvents /\ events' = events + 1
Fault == faults < MaxFaults /\ faults' = faults + 1

\* A step that is not a refresh.
Between == quoted' = FALSE /\ UNCHANGED through

-----------------------------------------------------------------------------
(* The circuit breaker: one reason, and the first one wins.                 *)

Trip(r, why) == IF r = "none" THEN why ELSE r

\* Mutant: a condition that cleared is not forgotten.
Mut_Check_Sticky(r, why, breached) == IF breached THEN Trip(r, why) ELSE r

\* check_stale_book, check_spread, check_condition
Check(r, why, breached) ==
  IF breached THEN Trip(r, why) ELSE IF r = why THEN "none" ELSE r

\* Both sides of the book are there: is_ready, mid_price and spread_bps are Some.
Ready == have # {}

\* Mutant: a wide spread is left to the soft gate.
Mut_Watched_NoSpread == Check(reason, "stale", stamp = "stale")

\* The breaker after check_stale_book and check_spread.
Watched ==
  LET r == Check(reason, "stale", stamp = "stale")
  IN IF Ready THEN Check(r, "spread", spread = 2) ELSE r

\* and after the drawdown and the exposure checks.
Limited(r) ==
  IF Ready THEN Check(Check(r, "drawdown", "drawdown" \in breach),
                      "exposure", "exposure" \in breach)
  ELSE r

-----------------------------------------------------------------------------
(* The handlers between two refreshes.                                      *)

\* handle_ws_event with a book event.  Only what on_event does not drop counts as
\* an update; an old first delta does not touch last_update_ms.
BookSnapshot ==
  /\ \E s \in 0 .. MaxSeq : OnSnapshot(s)
  /\ update' = "fresh" /\ stamp' = "fresh"
  /\ Between
  /\ UNCHANGED <<stalePaused, lifecycle, risk, reason, orders, events, faults>>

BookDelta ==
  /\ \E n \in 1 .. MaxSeq :
       /\ ~Duplicate(n) /\ ApplyDelta(n)
       /\ update' = "fresh" /\ stamp' = (IF n > bookSeq THEN "fresh" ELSE stamp)
  /\ Between
  /\ UNCHANGED <<stalePaused, lifecycle, risk, reason, orders, events, faults>>

\* stale_book_timeout_secs pass without an update; last_update_ms may be the older.
Age ==
  /\ stamp = "fresh" \/ update = "fresh"
  /\ stamp' = (IF stamp = "fresh" THEN "stale" ELSE stamp)
  /\ update' \in IF update = "fresh" THEN {"fresh", "stale"} ELSE {update}
  /\ <<stamp, update>>' # <<stamp, update>>
  /\ Between
  /\ UNCHANGED <<book_vars, stalePaused, lifecycle, risk, reason, orders, events,
                 faults>>

\* cancel_all on what the order manager knows; survivors are a fault.
CancelAll ==
  \/ tracked' = FALSE /\ resting' = (resting /\ ~tracked) /\ UNCHANGED faults
  \/ tracked /\ resting /\ Fault /\ tracked' \in BOOLEAN /\ UNCHANGED resting

\* Mutant: the latch is not consulted.
Mut_LifecycleEvent_NoLatch ==
  IF spec = "none" \/ spec = status THEN "none"
  ELSE IF status = "trading" THEN "resumed" ELSE "halted"

\* PairLifecycleManager::diff: the event of a poll that sees `status`.
LifecycleEvent ==
  IF delisted \/ spec = "none" \/ spec = status THEN "none"
  ELSE IF status = "trading" THEN "resumed" ELSE "halted"

\* refresh_pair_lifecycle with an answer: handle_lifecycle_event sets the flag, a
\* halt also cancels everything, once.
LifecyclePoll ==
  /\ spec' = (IF delisted THEN spec ELSE status)
  /\ CASE LifecycleEvent = "halted"  -> paused' = TRUE /\ CancelAll
       [] LifecycleEvent = "resumed" -> paused' = FALSE /\ UNCHANGED <<orders, faults>>
       [] LifecycleEvent = "none"    -> UNCHANGED <<paused, orders, faults>>
  /\ Between
  /\ UNCHANGED <<book_vars, freshness, status, delisted, operator, overruled, risk,
                 reason, events>>

\* refresh_pair_lifecycle when get_product_spec fails: treated as delisted.
PollFails ==
  /\ Event /\ ~delisted
  /\ delisted' = TRUE /\ paused' = TRUE /\ overruled' = FALSE
  /\ CancelAll
  /\ Between
  /\ UNCHANGED <<book_vars, freshness, status, spec, operator, risk, reason>>

\* apply_config_override: PauseQuoting and ResumeQuoting set the same flag, and
\* cancel nothing.
Operator ==
  /\ Event
  /\ \/ operator' = "pause" /\ paused' = TRUE /\ UNCHANGED overruled
     \/ operator' = "resume" /\ paused' = FALSE /\ overruled' = (overruled \/ delisted)
  /\ Between
  /\ UNCHANGED <<book_vars, freshness, status, spec, delisted, risk, reason, orders,
                 faults>>

\* The market, the venue and the risk figures move.
Environment ==
  /\ Event
  /\ \/ status' = (IF status = "trading" THEN "halted" ELSE "trading")
        /\ UNCHANGED <<level, spread, breach>>
     \/ level' \in {0, 2, 3} \ {level} /\ UNCHANGED <<status, spread, breach>>
     \/ spread' \in Spreads /\ breach' \in SUBSET Limits
        /\ <<spread, breach>>' # <<spread, breach>> /\ UNCHANGED <<status, level>>
  /\ Between
  /\ UNCHANGED <<book_vars, freshness, spec, delisted, paused, operator, overruled,
                 gated, reason, orders, faults>>

\* Connected resets the breaker whatever tripped it, Disconnected trips it.
Connection ==
  /\ reason' \in {"none", Trip(reason, "stale")} \ {reason}
  /\ Event /\ Between
  /\ UNCHANGED <<book_vars, freshness, lifecycle, risk, orders, faults>>

\* reconcile
Reconcile ==
  /\ tracked' = resting
  /\ Between
  /\ UNCHANGED <<book_vars, freshness, lifecycle, risk, reason, resting, events,
                 faults>>

-----------------------------------------------------------------------------
(* refresh_quotes, one action for each way out of it.                       *)

StaleBook == update = "stale"
Blocked   == paused \/ StaleBook

\* The gates every later return has passed, and the end of the stale pause.
Awake == ~Blocked /\ stalePaused' = FALSE /\ UNCHANGED <<update, stamp>>

Returns(quoting) ==
  /\ quoted' = quoting
  /\ through' = IF quoting
                THEN breach \cup (IF spread = 2 THEN {"spread"} ELSE {}) ELSE {}
  /\ UNCHANGED <<lifecycle, risk, events>>

\* The lifecycle gate: returns and changes nothing.
RefreshPaused ==
  /\ paused
  /\ Returns(FALSE)
  /\ UNCHANGED <<book_vars, freshness, reason, orders, faults>>

\* The stale-book watchdog cancels when it trips, and not again.
RefreshStale ==
  /\ ~paused /\ StaleBook
  /\ stalePaused' = TRUE
  /\ IF stalePaused THEN UNCHANGED <<orders, faults>> ELSE CancelAll
  /\ Returns(FALSE)
  /\ UNCHANGED <<book_vars, update, stamp, reason>>

\* The kill switch: nothing at L2, cancel_all on every refresh from L3 on.
RefreshKilled ==
  /\ Awake /\ level >= 2
  /\ IF level >= 3 THEN CancelAll ELSE UNCHANGED <<orders, faults>>
  /\ Returns(FALSE)
  /\ UNCHANGED <<book_vars, reason>>

\* The soft spread gate returns before the limits are looked at and before a
\* tripped breaker cancels.
SpreadGate == gated /\ Ready /\ spread >= 1

RefreshGated ==
  /\ Awake /\ level < 2
  /\ reason' = Watched /\ SpreadGate
  /\ Returns(FALSE)
  /\ UNCHANGED <<book_vars, orders, faults>>

\* Mutant: only the refresh that trips the breaker cancels.
Mut_RefreshTripped_Edge ==
  /\ Awake /\ level < 2 /\ ~SpreadGate
  /\ reason' = Limited(Watched) /\ reason' # "none"
  /\ Returns(FALSE)
  /\ IF reason = "none" THEN CancelAll ELSE UNCHANGED <<orders, faults>>
  /\ UNCHANGED <<book_vars>>

\* The breaker is tripped: cancel_all on every refresh.
RefreshTripped ==
  /\ Awake /\ level < 2 /\ ~SpreadGate
  /\ reason' = Limited(Watched) /\ reason' # "none"
  /\ Returns(FALSE) /\ CancelAll
  /\ UNCHANGED <<book_vars>>

\* No book yet, or the snapshot request of a resync fails.
RefreshSkips ==
  /\ Awake /\ level < 2 /\ ~SpreadGate
  /\ reason' = Limited(Watched) /\ reason' = "none"
  /\ \/ ~Ready /\ UNCHANGED faults
     \/ Ready /\ resync /\ Fault
  /\ Returns(FALSE)
  /\ UNCHANGED <<book_vars, orders>>

\* Mutant: the resync is left to the stream's next snapshot.
Mut_Resync_Later == UNCHANGED book_vars

\* A resync fetches a snapshot, possibly an old one, and feeds it to the keeper.
Resync ==
  IF resync THEN \E s \in 0 .. MaxSeq : OnSnapshot(s)
  ELSE UNCHANGED book_vars

\* execute_diff: orders rest, unless the call fails or its answer is lost.
Place ==
  \/ tracked' = TRUE /\ resting' = TRUE /\ UNCHANGED faults
  \/ Fault /\ resting' \in {resting, TRUE} /\ UNCHANGED tracked

\* All gates passed.  After a resync the book may be empty again.
RefreshQuotes ==
  /\ ~Blocked /\ stalePaused' = FALSE
  /\ level < 2 /\ ~SpreadGate
  /\ reason' = Limited(Watched) /\ reason' = "none"
  /\ Ready /\ Resync
  /\ IF resync THEN update' = "fresh" /\ stamp' = "fresh" ELSE UNCHANGED <<update, stamp>>
  /\ IF have' = {} THEN Returns(FALSE) /\ UNCHANGED <<orders, faults>>
     ELSE Returns(TRUE) /\ Place

Refresh == \/ RefreshPaused \/ RefreshStale \/ RefreshKilled \/ RefreshGated
           \/ RefreshTripped \/ RefreshSkips \/ RefreshQuotes

Next == \/ BookSnapshot \/ BookDelta \/ Age \/ LifecyclePoll \/ PollFails
        \/ Operator \/ Environment \/ Connection \/ Reconcile \/ Refresh

Spec == Init /\ [][Next]_vars

\* The interval arms of the run loop come up again and again.
FairSpec == Spec /\ WF_vars(Refresh) /\ WF_vars(Reconcile) /\ WF_vars(LifecyclePoll)

-----------------------------------------------------------------------------
\* "Quoting against an out-of-sync book is how phantom inventory shows up": a refresh
\* that places orders prices them on a book that is the venue's, as of some update;
\* the only books it cannot judge are behind the two holes.
QuotesInSync == quoted => InSync \/ blind

\* A delisting is final: "refuses to ever requote for the rest of the process lifetime".
\* Polls that find the symbol again do not undo it; only ResumeQuoting does.
DelistedStaysDown == quoted /\ delisted => overruled

\* The breaker holds one reason, and one that heals may hide a breach found while it
\* was held: a refresh can quote through it.  Never twice in a row.
BreachHaltsNextQuote == [][quoted' => through \cap through' = {}]_vars

Calm == /\ status = "trading" /\ operator # "pause" /\ ~delisted /\ level = 0
        /\ spread = 0 /\ breach = {} /\ update = "fresh" /\ stamp = "fresh" /\ Ready

\* Every gate opens again: when the pair trades, nothing is breached and updates
\* arrive, the engine comes back to quoting, whatever paused it before.
QuotingResumes == <>[]Calm => <>[]resting

\* A tripped breaker cancels on every refresh: what survives a failed cancel_all is
\* taken down in the end, if no gate before it returns first.
TrippedDrains ==
  <>[](~Blocked /\ level < 2 /\ ~SpreadGate /\ Limited(Watched) # "none")
    => <>[]~resting

\* "the engine never quotes against a halted symbol".
HaltedNeverQuotes == quoted => spec # "halted"

=============================================================================
