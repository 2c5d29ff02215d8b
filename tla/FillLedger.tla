----------------------------- MODULE FillLedger -----------------------------
(***************************************************************************)
(* What the engine believes it holds: the InventoryManager fed by the fill *)
(* stream (risk/src/inventory.rs), the wallet figure of the balance cache, *)
(* and the two checks of reconcile that compare them: the drift of the     *)
(* inventory against the wallet (risk/src/inventory_drift.rs), with its    *)
(* optional correction, and the inventory against the cumulative fills     *)
(* (risk/src/reconciliation.rs).  The venue executes fills on its own; a   *)
(* fill that executes while the user-data socket is down has no event.     *)
(* An engine may crash: its orders stay at the venue and go on filling.    *)
(***************************************************************************)
EXTENDS Integers, Sequences

CONSTANTS Trades,      \* <<quantity, price>> of one fill; a sell has a negative quantity
          Wallet0,     \* base asset held before the first start
          Tol,         \* inventory_drift_tolerance
          AutoModes,   \* values of inventory_drift_auto_correct considered
          MaxFills,    \* bound: executions
          MaxLost,     \* bound: executions without an event
          MaxFails,    \* bound: failed balance queries
          MaxCrashes   \* bound: crashes

ASSUME LedgerAssumption ==
  /\ Trades \subseteq (Int \ {0}) \X Nat
  /\ Wallet0 \in Nat /\ Tol \in Nat /\ AutoModes \subseteq BOOLEAN
  /\ {MaxFills, MaxLost, MaxFails, MaxCrashes} \subseteq Nat

VARIABLES
  auto,      \* inventory_drift_auto_correct
  phase,     \* down; starting: subscribed, not yet reconciled; running: in the loop
  wallet,    \* the venue: base asset held
  stream,    \* events subscribed to and not yet handled
  cache,     \* BalanceCache total of the base asset; 0 before the first answer
  based,     \* InventoryDriftReconciler has its baseline_wallet
  baseline,  \* baseline_wallet; 0 before the first check
  book,      \* InventoryManager
  drift,     \* the last reconcile found the inventory off the wallet
  delta,     \* the last reconcile found the inventory off the cumulative fills
  fills, losses, fails, crashes,
  checked,   \* history: the last step was a periodic reconcile with fresh balances
  start,     \* history: the wallet when this process subscribed
  sent,      \* history: net quantity of the fills put on the stream
  applied,   \* history: net quantity of the fills handled
  lost,      \* history: net quantity of the fills without an event
  away,      \* history: net quantity filled while no process ran
  adj,       \* history: what corrections have added to the inventory
  touched,   \* history: a correction was made
  cash       \* history: quote asset received for the fills handled

bounds  == <<fills, losses, fails, crashes>>
history == <<checked, start, sent, applied, lost, away, adj, touched, cash>>
vars == <<auto, phase, wallet, stream, cache, based, baseline, book, drift, delta,
          bounds, history>>

Abs(x)    == IF x < 0 THEN -x ELSE x
Sign(x)   == IF x > 0 THEN 1 ELSE IF x < 0 THEN -1 ELSE 0
Less(x, y) == IF x < y THEN x ELSE y

\* Averages are exact fractions n / d.
Frac == [n : Int, d : Int]
Whole(x) == [n |-> x, d |-> 1]

EmptyBook ==
  [inv |-> 0, bought |-> 0, sold |-> 0, avg |-> Whole(0), realized |-> Whole(0)]

Books == [inv : Int, bought : Nat, sold : Nat, avg : Frac, realized : Frac]

\* A fill carries a signed quantity: positive for a buy.
Event == [kind : {"fill", "balance"}, qty : Int, price : Nat, total : Int, cum : Int]

TypeOK ==
  /\ auto \in AutoModes /\ phase \in {"down", "starting", "running"}
  /\ wallet \in Nat /\ stream \in Seq(Event)
  /\ cache \in Int /\ based \in BOOLEAN /\ baseline \in Int
  /\ book \in Books /\ drift \in BOOLEAN /\ delta \in BOOLEAN
  /\ fills \in 0 .. MaxFills /\ losses \in 0 .. MaxLost
  /\ fails \in 0 .. MaxFails /\ crashes \in 0 .. MaxCrashes
  /\ checked \in BOOLEAN
  /\ start \in Nat /\ sent \in Int /\ applied \in Int /\ lost \in Int
  /\ away \in Int /\ adj \in Int /\ touched \in BOOLEAN /\ cash \in Int

Init ==
  /\ auto \in AutoModes /\ phase = "down"
  /\ wallet = Wallet0 /\ stream = <<>>
  /\ cache = 0 /\ based = FALSE /\ baseline = 0 /\ book = EmptyBook
  /\ drift = FALSE /\ delta = FALSE
  /\ fills = 0 /\ losses = 0 /\ fails = 0 /\ crashes = 0
  /\ checked = FALSE
  /\ start = Wallet0 /\ sent = 0 /\ applied = 0 /\ lost = 0 /\ away = 0
  /\ adj = 0 /\ touched = FALSE /\ cash = 0

-----------------------------------------------------------------------------
\* The venue executes q at p.

\* Our order fills: the fill event, and the balance snapshot that follows it.
Heard(q, p) ==
  /\ phase # "down"
  /\ stream' = stream \o << [kind |-> "fill", qty |-> q, price |-> p, total |-> 0,
                             cum |-> sent + q],
                            [kind |-> "balance", qty |-> 0, price |-> 0,
                             total |-> wallet + q, cum |-> sent + q] >>
  /\ sent' = sent + q
  /\ UNCHANGED <<lost, losses, away>>

\* The user-data socket is reconnecting: what executes meanwhile is not sent again.
Missed(q) ==
  /\ phase # "down" /\ losses < MaxLost
  /\ lost' = lost + q /\ losses' = losses + 1
  /\ UNCHANGED <<stream, sent, away>>

\* Orders of the previous process fill while none runs.
Unattended(q) ==
  /\ phase = "down" /\ crashes > 0
  /\ away' = away + q
  /\ UNCHANGED <<stream, sent, lost, losses>>

Execute ==
  \E t \in Trades :
    LET q == t[1]
        p == t[2] IN
    /\ fills < MaxFills /\ fills' = fills + 1
    /\ wallet + q >= 0 /\ wallet' = wallet + q
    /\ Heard(q, p) \/ Missed(q) \/ Unattended(q)
    /\ checked' = FALSE
    /\ UNCHANGED <<auto, phase, cache, based, baseline, book, drift, delta, fails, crashes,
                   start, applied, adj, touched, cash>>

-----------------------------------------------------------------------------
\* InventoryManager

\* reducing * (price - avg) for a long, reducing * (avg - price) for a short.
Realize(b, q, p) ==
  LET closes == Sign(b.inv) * Sign(q) < 0
      r == IF closes THEN Sign(b.inv) * Less(Abs(q), Abs(b.inv)) ELSE 0
  IN [n |-> b.realized.n * b.avg.d + r * (p * b.avg.d - b.avg.n) * b.realized.d,
      d |-> b.realized.d * b.avg.d]

Weighted(b, q, p) ==
  [n |-> Abs(b.inv) * b.avg.n + Abs(q) * p * b.avg.d, d |-> b.avg.d * Abs(b.inv + q)]

\* Mutant: turning the position around keeps averaging with the closed side's price.
Mut_Entry_NoFlip(b, q, p) ==
  IF b.inv + q = 0 THEN Whole(0)
  ELSE IF Sign(b.inv + q) = Sign(q) THEN Weighted(b, q, p) ELSE b.avg

\* The average entry price: zero when flat, the fill's price after a change of sign,
\* the weighted average when the position grows, unchanged when it shrinks.
Entry(b, q, p) ==
  IF b.inv + q = 0 THEN Whole(0)
  ELSE IF Sign(b.inv) # Sign(b.inv + q) THEN Whole(p)
  ELSE IF Sign(b.inv + q) = Sign(q) THEN Weighted(b, q, p) ELSE b.avg

\* Mutant: a sell is booked with the sign of its signed quantity.
Mut_OnFill_SoldSigned(b, q, p) ==
  [inv |-> b.inv + q, bought |-> IF q > 0 THEN b.bought + q ELSE b.bought,
   sold |-> IF q < 0 THEN b.sold + q ELSE b.sold,
   avg |-> Entry(b, q, p), realized |-> Realize(b, q, p)]

\* Mutant: a fill that closes the position is cut at flat.
Mut_OnFill_StopsAtFlat(b, q, p) ==
  [inv |-> IF Sign(b.inv) * Sign(b.inv + q) < 0 THEN 0 ELSE b.inv + q,
   bought |-> IF q > 0 THEN b.bought + q ELSE b.bought,
   sold |-> IF q < 0 THEN b.sold - q ELSE b.sold,
   avg |-> Entry(b, q, p), realized |-> Realize(b, q, p)]

OnFill(b, q, p) ==
  [inv      |-> b.inv + q,
   bought   |-> IF q > 0 THEN b.bought + q ELSE b.bought,
   sold     |-> IF q < 0 THEN b.sold - q ELSE b.sold,
   avg      |-> Entry(b, q, p),
   realized |-> Realize(b, q, p)]

\* Only the quantity: the entry price, the PnL and the totals stay.
ForceResetTo(b, x) ==
  [inv |-> x, bought |-> b.bought, sold |-> b.sold, avg |-> b.avg,
   realized |-> b.realized]

-----------------------------------------------------------------------------
\* The run loop

\* A fill goes to the inventory, a balance snapshot to the cache.
Handle ==
  /\ phase = "running" /\ stream # <<>>
  /\ stream' = Tail(stream) /\ checked' = FALSE
  /\ LET e == Head(stream) IN
     \/ /\ e.kind = "fill"
        /\ book' = OnFill(book, e.qty, e.price)
        /\ applied' = applied + e.qty /\ cash' = cash - e.qty * e.price
        /\ UNCHANGED cache
     \/ /\ e.kind = "balance"
        /\ cache' = e.total
        /\ UNCHANGED <<book, applied, cash>>
  /\ UNCHANGED <<auto, phase, wallet, based, baseline, drift, delta, bounds,
                 start, sent, lost, away, adj, touched>>

\* Mutant: every check compares with the previous one instead of the first.
Mut_Rebase(now) == now

\* The baseline of the first check is kept.
Rebase(now) == IF based THEN baseline ELSE now

\* check: the first one has nothing to compare with.
Drifted(now) == based /\ Abs((now - baseline) - book.inv) > Tol

\* Mutant: the correction is a latch.
Mut_Corrects_Once(off) == off /\ auto /\ ~touched

Corrects(off) == off /\ auto

\* reconcile: refresh the balances (ok: the query answers), compare, correct, and
\* compare the inventory with the cumulative fills.
Check(ok) ==
  LET now == IF ok THEN wallet ELSE cache
      off == Drifted(now)
      fix == Corrects(off)
      new == IF fix THEN now - baseline ELSE book.inv
  IN /\ cache' = now
     /\ based' = TRUE /\ baseline' = Rebase(now)
     /\ drift' = off
     /\ book' = ForceResetTo(book, new)
     /\ adj' = adj + (new - book.inv) /\ touched' = (touched \/ fix)
     /\ delta' = (Abs(new - (book.bought - book.sold)) > 2 * Tol)

Query(ok) ==
  \/ ok /\ UNCHANGED fails
  \/ ~ok /\ fails < MaxFails /\ fails' = fails + 1

Reconcile(ok) ==
  /\ phase = "running" /\ Query(ok) /\ Check(ok) /\ checked' = ok
  /\ UNCHANGED <<auto, phase, wallet, stream, fills, losses, crashes,
                 start, sent, applied, lost, away, cash>>

\* The runner subscribes to the streams before it runs the engine.
Subscribe ==
  /\ phase = "down" /\ phase' = "starting"
  /\ start' = wallet
  /\ UNCHANGED <<auto, wallet, stream, cache, based, baseline, book, drift, delta, bounds,
                 checked, sent, applied, lost, away, adj, touched, cash>>

\* The startup reconcile captures the baseline; the startup fill recovery only logs.
Start(ok) ==
  /\ phase = "starting" /\ phase' = "running"
  /\ Query(ok) /\ Check(ok) /\ checked' = FALSE
  /\ UNCHANGED <<auto, wallet, stream, fills, losses, crashes,
                 start, sent, applied, lost, away, cash>>

\* What the process knew is gone: no caller restores the checkpoint.
Crash ==
  /\ phase # "down" /\ phase' = "down"
  /\ crashes < MaxCrashes /\ crashes' = crashes + 1
  /\ stream' = <<>> /\ cache' = 0 /\ based' = FALSE /\ baseline' = 0
  /\ book' = EmptyBook /\ drift' = FALSE /\ delta' = FALSE
  /\ checked' = FALSE /\ start' = 0 /\ sent' = 0 /\ applied' = 0 /\ lost' = 0
  /\ adj' = 0 /\ touched' = FALSE /\ cash' = 0
  /\ UNCHANGED <<auto, wallet, fills, losses, fails, away>>

Next == \/ Execute \/ Handle \/ Subscribe \/ Crash
        \/ \E ok \in BOOLEAN : Reconcile(ok) \/ Start(ok)

Spec == Init /\ [][Next]_vars

\* The engine is started and its loop runs; the balance query answers again and again.
FairSpec == Spec /\ WF_vars(Subscribe) /\ WF_vars(Handle)
                 /\ WF_vars(Start(TRUE)) /\ WF_vars(Reconcile(TRUE))

-----------------------------------------------------------------------------
\* Every unit the wallet has gained or lost since the process subscribed is in the
\* inventory, on the stream, or was never announced, once; what corrections did to the
\* inventory comes on top.
Conserved ==
  phase # "down" =>
    wallet - start = (book.inv - adj) + (sent - applied) + lost

\* "If the fill stream drops a message ... this module detects that drift": losses add
\* up against the first baseline, so a check that stays silent while nothing is in
\* flight leaves at most Tol uncorrected, however the losses were spread over cycles.
\* It needs a baseline that was taken before anything filled.
LossesSurface ==
  checked /\ ~drift /\ stream = <<>> /\ baseline = start => Abs(lost - adj) <= Tol

\* "flags a mismatch that slipped under both ... tight enough to catch a genuine missed
\* fill": the position-delta check reports a loss beyond its tolerance.  The code does
\* not keep this: a lost fill is in neither of the two figures it compares.
MissedFillFlagged ==
  checked /\ stream = <<>> /\ ~touched /\ Abs(lost) > 2 * Tol => delta

\* Until a correction overwrites the quantity, the average cost accounting agrees with
\* the cash: realized PnL is the cash of the fills plus the open position at cost.
PnlIsCashFlow ==
  ~touched =>
    book.realized.n * book.avg.d
      = (cash * book.avg.d + book.inv * book.avg.n) * book.realized.d

\* When the fills stop, the inventory comes to within Tol of what the wallet says, or,
\* with auto-correct off, the drift stays on the incident feed.
DriftHeals ==
  <>[](/\ phase = "running"
       /\ \/ Abs((wallet - baseline) - book.inv) <= Tol
          \/ ~auto /\ drift)

\* "the wallet-side drift check in reconcile() will flag any inventory mismatch on the
\* next cycle": what filled while no process ran is not in the inventory of the next
\* one, and its periodic checks report it.  The code does not keep this.
CarriedPositionFlagged ==
  checked /\ stream = <<>> /\ lost = 0 /\ ~touched /\ Abs(away) > Tol => drift

=============================================================================
