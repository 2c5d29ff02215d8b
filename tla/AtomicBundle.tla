---------------------------- MODULE AtomicBundle ----------------------------
(***************************************************************************)
(* A strategy graph's Out.AtomicBundle: the originating engine quotes the  *)
(* maker leg itself and mails the hedge leg to the engine of the other     *)
(* symbol.  Each engine looks for the leg among its own live orders and    *)
(* sets an ack in the map they share on DashboardState; the originator     *)
(* retires the bundle when both legs are acked, or rolls it back after     *)
(* timeout_ms.  There is one bundle id for a pair of symbols, and a graph  *)
(* that emits again replaces what was registered under it.                 *)
(*                                                                         *)
(* An engine is named by the leg it quotes.  The two run on different      *)
(* threads: the sibling looks a match up under one lock and acks it, by    *)
(* id, under another.                                                      *)
(***************************************************************************)
EXTENDS Integers, Sequences

CONSTANTS Prices,          \* prices a graph may ask for, in units
          StrategyPrices,  \* what the hand-wired strategy quotes on the same side
          Tick,            \* tick_size in units
          Timeout,         \* timeout_ms, in steps of the clock
          MaxEmits         \* bound: bundles emitted

ASSUME BundleAssumption ==
  /\ Prices \subseteq Nat /\ StrategyPrices \subseteq Nat
  /\ Tick \in Nat \ {0} /\ Timeout \in Nat /\ MaxEmits \in Nat

Roles == {"maker", "hedge"}
None  == -1

VARIABLES
  inflight,   \* the originator's InflightAtomicBundle; on = FALSE when there is none
  legs,       \* DashboardState.atomic_bundle_legs of the bundle
  override,   \* graph_quotes_override of each engine
  mail,       \* ExternalVenueQuotes sent to the sibling
  live,       \* the live order of each engine on the leg's side
  sweeping,   \* the sibling is between look-up and ack
  found,      \* its look-up matched
  emits,
  completed,  \* history: bundles retired as fully acked
  seen,       \* history: legs that were live since the bundle was registered
  raced       \* history: it was registered while the sibling held an older match

bundleVars == <<inflight, legs, override, mail, live, sweeping, found, emits, completed, seen, raced>>

NoBundle == [on |-> FALSE, price |-> 0, age |-> 0, acked |-> {}]
NoLegs   == [on |-> FALSE, price |-> 0, acked |-> {}]

\* Mutant: the quote keeps the graph's price.
Mut_RoundPrice_Raw(p) == p

\* ProductSpec::round_price
RoundPrice(p) == (p \div Tick) * Tick

\* Within half a tick of the registered price, which is not rounded.
Near(order, p) ==
  order # None /\ 2 * (order - p) <= Tick /\ 2 * (p - order) <= Tick

BundleInit ==
  /\ inflight = NoBundle /\ legs = NoLegs
  /\ override = [r \in Roles |-> None] /\ mail = <<>> /\ live = [r \in Roles |-> None]
  /\ sweeping = FALSE /\ found = FALSE /\ emits = 0
  /\ completed = 0 /\ seen = {} /\ raced = FALSE

-----------------------------------------------------------------------------
\* The originator

\* sweep_atomic_bundle_acks, its own look-up and the merge with the shared map.
Acked ==
  inflight.acked \cup legs.acked \cup {r \in {"maker"} : Near(live[r], inflight.price)}

\* Mutant: a leg that is acked keeps the bundle from the watchdog.
Mut_Expired(acks) == inflight.age >= Timeout /\ acks = {}

\* tick_atomic_bundle_watchdog
Expired(acks) == inflight.age >= Timeout /\ acks # Roles

\* What sweep and watchdog leave: retired, or with the acks merged.
Retired == inflight.on /\ (Acked = Roles \/ Expired(Acked))

Swept ==
  IF Retired THEN NoBundle
  ELSE IF inflight.on
       THEN [on |-> TRUE, price |-> inflight.price, age |-> inflight.age, acked |-> Acked]
       ELSE inflight

SweptLegs ==
  IF Retired THEN NoLegs
  ELSE IF legs.on
       THEN [on |-> TRUE, price |-> legs.price,
             acked |-> legs.acked \cup {r \in {"maker"} : Near(live[r], legs.price)}]
       ELSE legs

\* Mutant: registering keeps the acks of the entry it finds.
Mut_Registered(p) == [on |-> TRUE, price |-> p, acked |-> SweptLegs.acked]

\* register_atomic_bundle_leg for both legs: a plain insert.
Registered(p) == [on |-> TRUE, price |-> p, acked |-> {}]

\* The override of the originator after sweep and watchdog: a rollback drops it.
Pending == IF Retired /\ Acked # Roles THEN None ELSE override["maker"]

\* The graph tick emits a bundle at p, or nothing.
EmitBundle(p) ==
  IF p = None
  THEN /\ inflight' = Swept /\ legs' = SweptLegs
       /\ UNCHANGED <<mail, emits, raced>>
  ELSE /\ emits < MaxEmits /\ emits' = emits + 1
       /\ inflight' = [on |-> TRUE, price |-> p, age |-> 0, acked |-> {}]
       /\ legs' = Registered(p)
       /\ mail' = Append(mail, p)
       /\ raced' = found

\* The quote of an engine: its override, else what its strategy says, or nothing when
\* a later filter or the venue drops it.
Quoted(o) == {None} \cup (IF o = None THEN {RoundPrice(p) : p \in StrategyPrices} ELSE {o})

\* The legs that are live at the registered price after a step.
SeenNow(was) ==
  was \cup {r \in Roles : inflight'.on /\ Near(live'[r], inflight'.price)}

\* refresh_quotes: the sweep and the watchdog; then a gate returns, or the graph ticks;
\* then the divergence guard returns, or the override is taken and quoted.
RefreshOriginator ==
  /\ completed' = IF inflight.on /\ Acked = Roles THEN completed + 1 ELSE completed
  /\ \E p \in Prices \cup {None} :
       LET o == IF p = None THEN Pending ELSE RoundPrice(p) IN
       /\ EmitBundle(p)
       /\ \/ /\ override' = [override EXCEPT !["maker"] = o]
             /\ UNCHANGED live
          \/ \E q \in Quoted(o) :
               /\ override' = [override EXCEPT !["maker"] = None]
               /\ live' = [live EXCEPT !["maker"] = q]
       /\ seen' = SeenNow(IF p = None THEN seen ELSE {})
  /\ UNCHANGED <<sweeping, found>>

-----------------------------------------------------------------------------
\* The sibling

\* apply_config_override(ExternalVenueQuotes)
Deliver ==
  /\ mail # <<>> /\ mail' = Tail(mail)
  /\ override' = [override EXCEPT !["hedge"] = RoundPrice(Head(mail))]
  /\ UNCHANGED <<inflight, legs, live, sweeping, found, emits, completed, seen, raced>>

\* pending_bundle_leg_matches
LookUp ==
  /\ ~sweeping /\ sweeping' = TRUE
  /\ found' = (legs.on /\ "hedge" \notin legs.acked /\ Near(live["hedge"], legs.price))
  /\ UNCHANGED <<inflight, legs, override, mail, live, emits, completed, seen, raced>>

\* ack_atomic_bundle_leg, by id, and the rest of the sibling's refresh_quotes.
RefreshSibling ==
  /\ sweeping /\ sweeping' = FALSE /\ found' = FALSE
  /\ legs' = IF found /\ legs.on
             THEN [on |-> TRUE, price |-> legs.price, acked |-> legs.acked \cup {"hedge"}]
             ELSE legs
  /\ UNCHANGED <<inflight, mail, emits, completed, raced>>
  /\ \/ UNCHANGED <<override, live>>
     \/ \E q \in Quoted(override["hedge"]) :
          /\ override' = [override EXCEPT !["hedge"] = None]
          /\ live' = [live EXCEPT !["hedge"] = q]
  /\ seen' = SeenNow(seen)

-----------------------------------------------------------------------------
\* A leg fills, or is cancelled by someone else.
Gone(r) ==
  /\ live[r] # None /\ live' = [live EXCEPT ![r] = None]
  /\ UNCHANGED <<inflight, legs, override, mail, sweeping, found, emits, completed, seen, raced>>

Elapse ==
  /\ inflight.on /\ inflight.age < Timeout
  /\ inflight' = [inflight EXCEPT !.age = @ + 1]
  /\ UNCHANGED <<legs, override, mail, live, sweeping, found, emits, completed, seen, raced>>

BundleNext == RefreshOriginator \/ Deliver \/ LookUp \/ RefreshSibling \/ Elapse
        \/ \E r \in Roles : Gone(r)

BundleSpec == BundleInit /\ [][BundleNext]_bundleVars

\* The originator's refreshes reach the sweep again and again, and time passes.
FairBundleSpec == BundleSpec /\ WF_bundleVars(RefreshOriginator) /\ WF_bundleVars(Elapse)

-----------------------------------------------------------------------------
OnTick == {None} \cup {k \in Nat : k % Tick = 0}

\* Acks are kept for a bundle that exists; overrides and orders are on the tick.
BundleTypeOK ==
  /\ inflight \in [on : BOOLEAN, price : Nat, age : 0 .. Timeout, acked : SUBSET Roles]
  /\ legs \in [on : BOOLEAN, price : Nat, acked : SUBSET Roles]
  /\ override \in [Roles -> OnTick] /\ live \in [Roles -> OnTick]
  /\ mail \in Seq(Nat) /\ sweeping \in BOOLEAN /\ found \in BOOLEAN
  /\ emits \in 0 .. MaxEmits /\ completed \in Nat /\ seen \subseteq Roles /\ raced \in BOOLEAN

\* "fully acknowledged when both legs have been observed on the live-orders map of their
\* respective engine": a bundle is retired as complete only if both legs were live at its
\* own prices since it was registered, and no ack of a bundle that was replaced, rolled
\* back or completed under the same id counts for it.  The exception is the window between
\* the sibling's look-up and its ack, in which the id may have come to mean another bundle.
CompletedWasLive ==
  [][completed' # completed => seen = Roles \/ raced]_bundleVars

\* Every bundle is completed or rolled back, once the graph stops emitting it anew.
BundleSettles == <>[](~inflight.on /\ ~legs.on)

=============================================================================
