------------------------- MODULE FillLedgerProofs -------------------------
(***************************************************************************)
(* Proofs about FillLedger.  The invariant follows every unit of base      *)
(* asset: what the wallet moved was announced or lost, what was announced  *)
(* is on the stream or handled, what was handled is in the inventory.  The *)
(* stamps of the stream's events (cum) make the middle part a statement    *)
(* about neighbours instead of a sum over the stream.                      *)
(***************************************************************************)
EXTENDS FillLedger, SequenceTheorems, TLAPS

\* Neighbouring events differ by the quantity of the later one; the first one follows
\* what was handled, the last one what was announced.
StreamOK ==
  /\ stream = <<>> => sent = applied
  /\ stream # <<>> => /\ stream[1].cum = applied + stream[1].qty
                      /\ stream[Len(stream)].cum = sent
  /\ \A i \in 1 .. Len(stream) :
       /\ stream[i].kind = "balance" => stream[i].qty = 0
       /\ i > 1 => stream[i].cum = stream[i - 1].cum + stream[i].qty

\* Between the wallet and the announcements, and between those handled and the book.
Flow ==
  /\ phase # "down" => wallet = start + sent + lost
  /\ book.inv = applied + adj
  /\ book.bought - book.sold = applied

\* A process that is gone, or has not begun, knows nothing.
Idle ==
  /\ phase = "down" => /\ stream = <<>> /\ sent = 0 /\ applied = 0 /\ lost = 0
                       /\ adj = 0 /\ cash = 0
  /\ phase = "running" <=> based
  /\ phase = "down" => ~checked

\* What the last fresh check found.
Verdict == checked /\ ~drift => Abs((wallet - baseline) - book.inv) <= Tol

\* The position-delta check compares two figures that on_fill moves together: it fires
\* only on what a correction did, never on a lost fill.
DeltaSeesCorrections == delta => adj # 0

Inv == TypeOK /\ StreamOK /\ Flow /\ Idle /\ Verdict /\ DeltaSeesCorrections

\* TypeOK in two parts: each is within the reach of one prover.
TypeFlags ==
  /\ auto \in AutoModes /\ phase \in {"down", "starting", "running"}
  /\ based \in BOOLEAN /\ drift \in BOOLEAN /\ delta \in BOOLEAN
  /\ checked \in BOOLEAN /\ touched \in BOOLEAN

TypeFigures ==
  /\ wallet \in Nat /\ stream \in Seq(Event) /\ cache \in Int /\ baseline \in Int
  /\ book \in Books
  /\ fills \in 0 .. MaxFills /\ losses \in 0 .. MaxLost
  /\ fails \in 0 .. MaxFails /\ crashes \in 0 .. MaxCrashes
  /\ start \in Nat /\ sent \in Int /\ applied \in Int /\ lost \in Int
  /\ away \in Int /\ adj \in Int /\ cash \in Int

LEMMA TypeSplit == TypeOK <=> TypeFlags /\ TypeFigures
BY Zenon DEF TypeOK, TypeFlags, TypeFigures

LEMMA TypeSplitPrime == TypeOK' <=> TypeFlags' /\ TypeFigures'
BY Zenon DEF TypeOK, TypeFlags, TypeFigures

-----------------------------------------------------------------------------
\* The denominators and numerators stay integers.
LEMMA FracClosed ==
  ASSUME NEW b \in Books, NEW q \in Int, NEW p \in Nat
  PROVE  Realize(b, q, p) \in Frac /\ Entry(b, q, p) \in Frac
<1> DEFINE r == IF Sign(b.inv) * Sign(q) < 0
                THEN Sign(b.inv) * Less(Abs(q), Abs(b.inv)) ELSE 0
<1>1. /\ b.inv \in Int /\ b.avg \in Frac /\ b.realized \in Frac
      /\ b.avg.n \in Int /\ b.avg.d \in Int /\ b.realized.n \in Int /\ b.realized.d \in Int
  BY DEF Books, Frac
<1>2. /\ Abs(q) \in Int /\ Abs(b.inv) \in Int /\ Abs(b.inv + q) \in Int
      /\ Sign(b.inv) \in Int
  BY <1>1 DEF Abs, Sign
<1>3. Less(Abs(q), Abs(b.inv)) \in Int
  BY <1>2 DEF Less
<1>4. r \in Int
  <2>1. Sign(b.inv) * Less(Abs(q), Abs(b.inv)) \in Int
    BY <1>2, <1>3
  <2> QED BY <2>1
<1> HIDE DEF r
<1>5. Realize(b, q, p) \in Frac
  <2>1. p * b.avg.d - b.avg.n \in Int
    BY <1>1
  <2>2. r * (p * b.avg.d - b.avg.n) \in Int
    BY <2>1, <1>4
  <2>3. r * (p * b.avg.d - b.avg.n) * b.realized.d \in Int
    BY <2>2, <1>1
  <2>4. b.realized.n * b.avg.d \in Int /\ b.realized.d * b.avg.d \in Int
    BY <1>1
  <2>5. b.realized.n * b.avg.d + r * (p * b.avg.d - b.avg.n) * b.realized.d \in Int
    BY <2>3, <2>4
  <2> QED BY <2>4, <2>5 DEF Realize, Frac, r
<1>6. Weighted(b, q, p) \in Frac
  <2>1. Abs(b.inv) * b.avg.n \in Int /\ Abs(q) * p \in Int
    BY <1>1, <1>2
  <2>2. Abs(q) * p * b.avg.d \in Int /\ b.avg.d * Abs(b.inv + q) \in Int
    BY <1>1, <1>2, <2>1
  <2>3. Abs(b.inv) * b.avg.n + Abs(q) * p * b.avg.d \in Int
    BY <2>1, <2>2
  <2> QED BY <2>2, <2>3 DEF Weighted, Frac
<1>7. Whole(0) \in Frac /\ Whole(p) \in Frac
  BY DEF Whole, Frac
<1>8. Entry(b, q, p) \in Frac
  BY <1>1, <1>6, <1>7 DEF Entry
<1> QED BY <1>5, <1>8

\* on_fill moves the quantity and the totals together.
LEMMA OnFillMoves ==
  ASSUME NEW b \in Books, NEW q \in Int, NEW p \in Nat
  PROVE  /\ OnFill(b, q, p) \in Books
         /\ OnFill(b, q, p).inv = b.inv + q
         /\ OnFill(b, q, p).bought - OnFill(b, q, p).sold = (b.bought - b.sold) + q
<1>1. Realize(b, q, p) \in Frac /\ Entry(b, q, p) \in Frac
  BY FracClosed
<1>2. b.inv \in Int /\ b.bought \in Nat /\ b.sold \in Nat
  BY DEF Books
<1>3. /\ (IF q > 0 THEN b.bought + q ELSE b.bought) \in Nat
      /\ (IF q < 0 THEN b.sold - q ELSE b.sold) \in Nat
      /\ b.inv + q \in Int
  BY <1>2
<1>4. OnFill(b, q, p) \in Books
  BY <1>1, <1>3 DEF OnFill, Books
<1>5. /\ OnFill(b, q, p).inv = b.inv + q
      /\ OnFill(b, q, p).bought = (IF q > 0 THEN b.bought + q ELSE b.bought)
      /\ OnFill(b, q, p).sold = (IF q < 0 THEN b.sold - q ELSE b.sold)
  BY DEF OnFill
<1> QED BY <1>2, <1>4, <1>5

\* force_reset_inventory_to moves the quantity only.
LEMMA ForceResetMoves ==
  ASSUME NEW b \in Books, NEW x \in Int
  PROVE  /\ ForceResetTo(b, x) \in Books
         /\ ForceResetTo(b, x).inv = x
         /\ ForceResetTo(b, x).bought = b.bought /\ ForceResetTo(b, x).sold = b.sold
BY DEF ForceResetTo, Books

LEMMA EmptyBookFacts ==
  EmptyBook \in Books /\ EmptyBook.inv = 0 /\ EmptyBook.bought = 0 /\ EmptyBook.sold = 0
BY DEF EmptyBook, Books, Frac, Whole

-----------------------------------------------------------------------------
LEMMA InitInv == Init => Inv
<1> SUFFICES ASSUME Init PROVE Inv
  OBVIOUS
<1> USE LedgerAssumption, EmptyBookFacts
<1>1. TypeOK
  <2>1. TypeFlags
    BY DEF Init, TypeFlags
  <2>2. TypeFigures
    BY DEF Init, TypeFigures
  <2> QED BY <2>1, <2>2, TypeSplit
<1>2. StreamOK
  BY DEF Init, StreamOK
<1>3. Flow /\ Idle /\ Verdict /\ DeltaSeesCorrections
  BY DEF Init, Flow, Idle, Verdict, DeltaSeesCorrections
<1> QED BY <1>1, <1>2, <1>3 DEF Inv

\* A fill and its snapshot at the end of the stream.
LEMMA AppendKeepsStream ==
  ASSUME NEW e1 \in Event, NEW e2 \in Event, Inv,
         e1.cum = sent + e1.qty, e1.kind = "fill",
         e2.kind = "balance", e2.qty = 0, e2.cum = e1.cum,
         stream' = stream \o <<e1, e2>>, sent' = e1.cum, applied' = applied
  PROVE  stream' \in Seq(Event) /\ StreamOK'
<1>1. stream \in Seq(Event) /\ sent \in Int /\ applied \in Int
  BY DEF Inv, TypeOK
<1>2. <<e1, e2>> \in Seq(Event) /\ Len(<<e1, e2>>) = 2
  OBVIOUS
<1> DEFINE n == Len(stream)
<1>3. n \in Nat
  BY <1>1
<1>4. stream' \in Seq(Event) /\ Len(stream') = n + 2
  BY <1>1, <1>2
<1>5. /\ \A i \in 1 .. n : stream'[i] = stream[i]
      /\ stream'[n + 1] = e1 /\ stream'[n + 2] = e2
  BY <1>1, <1>2, <1>3
<1>6. e1.qty \in Int /\ e1.cum \in Int
  BY DEF Event
<1>7. stream'[1].cum = applied + stream'[1].qty
  <2>1. CASE stream = <<>>
    <3>1. n = 0 /\ sent = applied
      BY <2>1 DEF Inv, StreamOK
    <3> QED BY <3>1, <1>5
  <2>2. CASE stream # <<>>
    <3>1. n > 0
      BY <2>2, <1>1, <1>3
    <3> QED BY <3>1, <2>2, <1>3, <1>5 DEF Inv, StreamOK
  <2> QED BY <2>1, <2>2
<1>8. ASSUME NEW i \in 1 .. n + 2
      PROVE  /\ stream'[i].kind = "balance" => stream'[i].qty = 0
             /\ i > 1 => stream'[i].cum = stream'[i - 1].cum + stream'[i].qty
  <2>1. CASE i \in 1 .. n
    <3>1. i > 1 => i - 1 \in 1 .. n
      BY <1>3, <2>1
    <3>2. /\ stream[i].kind = "balance" => stream[i].qty = 0
          /\ i > 1 => stream[i].cum = stream[i - 1].cum + stream[i].qty
      BY <2>1 DEF Inv, StreamOK
    <3> QED BY <3>1, <3>2, <2>1, <1>5
  <2>2. CASE i = n + 1
    <3>1. i > 1 => /\ n \in 1 .. n /\ i - 1 = n /\ stream # <<>>
      BY <2>2, <1>3
    <3>2. i > 1 => stream'[n].cum = sent
      BY <3>1, <1>5 DEF Inv, StreamOK
    <3> QED BY <3>1, <3>2, <2>2, <1>5
  <2>3. CASE i = n + 2
    <3>1. i - 1 = n + 1
      BY <2>3, <1>3
    <3> QED BY <3>1, <2>3, <1>5, <1>6
  <2> QED BY <2>1, <2>2, <2>3, <1>3
<1>9. stream' # <<>>
  BY <1>3, <1>4
<1> QED BY <1>3, <1>4, <1>5, <1>7, <1>8, <1>9 DEF StreamOK

LEMMA StepExecute ==
  ASSUME Inv, Execute PROVE Inv'
<1> USE LedgerAssumption
<1>1. PICK t \in Trades :
        /\ fills < MaxFills /\ fills' = fills + 1
        /\ wallet + t[1] >= 0 /\ wallet' = wallet + t[1]
        /\ Heard(t[1], t[2]) \/ Missed(t[1]) \/ Unattended(t[1])
        /\ checked' = FALSE
        /\ UNCHANGED <<auto, phase, cache, based, baseline, book, drift, delta, fails, crashes,
                       start, applied, adj, touched, cash>>
  BY DEF Execute
<1>2. t[1] \in Int /\ t[2] \in Nat
  OBVIOUS
<1>3. wallet \in Nat /\ sent \in Int /\ lost \in Int /\ away \in Int /\ start \in Nat /\ TypeOK
  BY DEF Inv, TypeOK
<1>4. /\ stream' \in Seq(Event) /\ StreamOK'
      /\ sent' \in Int /\ lost' \in Int /\ away' \in Int /\ losses' \in 0 .. MaxLost
      /\ phase # "down" => sent' + lost' = sent + lost + t[1]
      /\ phase = "down" => UNCHANGED <<stream, sent, lost>>
  <2>1. CASE Heard(t[1], t[2])
    <3> DEFINE e1 == [kind |-> "fill", qty |-> t[1], price |-> t[2], total |-> 0,
                      cum |-> sent + t[1]]
               e2 == [kind |-> "balance", qty |-> 0, price |-> 0,
                      total |-> wallet + t[1], cum |-> sent + t[1]]
    <3>1. e1 \in Event /\ e2 \in Event
      BY <1>2, <1>3 DEF Event
    <3>2. stream' = stream \o <<e1, e2>> /\ sent' = e1.cum
      BY <2>1 DEF Heard
    <3>3. /\ e1.cum = sent + e1.qty /\ e1.kind = "fill"
          /\ e2.kind = "balance" /\ e2.qty = 0 /\ e2.cum = e1.cum
      OBVIOUS
    <3>4. applied' = applied
      BY <1>1
    <3> HIDE DEF e1, e2
    <3>5. stream' \in Seq(Event) /\ StreamOK'
      BY <3>1, <3>2, <3>3, <3>4, AppendKeepsStream
    <3>6. phase # "down" /\ sent' = sent + t[1] /\ lost' = lost /\ losses' = losses
          /\ away' = away
      BY <2>1 DEF Heard
    <3>7. losses \in 0 .. MaxLost
      BY <1>3 DEF TypeOK
    <3> QED BY <3>5, <3>6, <3>7, <1>2, <1>3
  <2>2. CASE Missed(t[1]) \/ Unattended(t[1])
    <3>1. stream' = stream /\ sent' = sent /\ applied' = applied
      BY <2>2, <1>1 DEF Missed, Unattended
    <3>2. StreamOK'
      BY <3>1 DEF Inv, StreamOK
    <3>3. losses \in 0 .. MaxLost /\ MaxLost \in Nat /\ stream \in Seq(Event)
      BY <1>3 DEF TypeOK
    <3>4. CASE Missed(t[1])
      <4>1. phase # "down" /\ losses < MaxLost /\ lost' = lost + t[1] /\ losses' = losses + 1
            /\ away' = away
        BY <3>4 DEF Missed
      <4> QED BY <4>1, <3>1, <3>2, <3>3, <1>2, <1>3
    <3>5. CASE Unattended(t[1])
      <4>1. phase = "down" /\ lost' = lost /\ losses' = losses /\ away' = away + t[1]
        BY <3>5 DEF Unattended
      <4> QED BY <4>1, <3>1, <3>2, <3>3, <1>2, <1>3
    <3> QED BY <2>2, <3>4, <3>5
  <2> QED BY <1>1, <2>1, <2>2
<1>5. TypeOK'
  <2>1. TypeFlags /\ TypeFigures
    BY <1>3, TypeSplit
  <2>2. TypeFlags'
    BY <2>1, <1>1, Zenon DEF TypeFlags
  <2>3. wallet' \in Nat /\ fills' \in 0 .. MaxFills
    BY <2>1, <1>1, <1>2 DEF TypeFigures
  <2>4. TypeFigures'
    BY <2>1, <2>3, <1>1, <1>4 DEF TypeFigures
  <2> QED BY <2>2, <2>4, TypeSplitPrime
<1>6. Flow'
  <2>1. phase' = phase /\ start' = start /\ book' = book /\ applied' = applied /\ adj' = adj
    BY <1>1
  <2>2. Flow
    BY DEF Inv
  <2>3. phase # "down" => wallet' = start + sent' + lost'
    <3> SUFFICES ASSUME phase # "down" PROVE wallet' = start + sent' + lost'
      OBVIOUS
    <3>1. wallet = start + sent + lost /\ wallet' = wallet + t[1]
      BY <2>2, <1>1 DEF Flow
    <3>2. sent' + lost' = sent + lost + t[1] /\ sent' \in Int /\ lost' \in Int
      BY <1>4
    <3>3. t[1] \in Int /\ start \in Int /\ sent \in Int /\ lost \in Int
      BY <1>2, <1>3
    <3> HIDE LedgerAssumption
    <3> QED BY <3>1, <3>2, <3>3
  <2> QED BY <2>1, <2>2, <2>3 DEF Flow
<1>7. Idle' /\ Verdict' /\ DeltaSeesCorrections'
  BY <1>1, <1>4 DEF Inv, Idle, Verdict, DeltaSeesCorrections
<1> QED BY <1>4, <1>5, <1>6, <1>7 DEF Inv

LEMMA StepHandle ==
  ASSUME Inv, Handle PROVE Inv'
<1> USE LedgerAssumption
<1> DEFINE e == Head(stream)
           n == Len(stream)
<1>1. /\ stream \in Seq(Event) /\ stream # <<>> /\ book \in Books
      /\ applied \in Int /\ cash \in Int /\ TypeOK
  BY DEF Inv, TypeOK, Handle
<1>2. n \in Nat /\ n > 0 /\ e = stream[1] /\ e \in Event
  BY <1>1
<1>3. e.qty \in Int /\ e.price \in Nat /\ e.total \in Int /\ e.kind \in {"fill", "balance"}
  BY <1>2 DEF Event
<1>4. /\ applied' = applied + e.qty /\ applied' \in Int
      /\ book' \in Books /\ book'.inv = book.inv + e.qty
      /\ book'.bought - book'.sold = (book.bought - book.sold) + e.qty
      /\ cache' \in Int /\ cash' \in Int
  <2>1. CASE e.kind = "fill"
    <3>1. /\ book' = OnFill(book, e.qty, e.price) /\ applied' = applied + e.qty
          /\ cash' = cash - e.qty * e.price /\ cache' = cache
      BY <2>1 DEF Handle
    <3>2. /\ OnFill(book, e.qty, e.price) \in Books
          /\ OnFill(book, e.qty, e.price).inv = book.inv + e.qty
          /\ OnFill(book, e.qty, e.price).bought - OnFill(book, e.qty, e.price).sold
               = (book.bought - book.sold) + e.qty
      BY <1>1, <1>3, OnFillMoves
    <3>3. e.qty * e.price \in Int
      BY <1>3
    <3>4. cash' \in Int /\ applied' \in Int /\ cache' \in Int
      <4>1. cash' \in Int
        BY <3>1, <3>3, <1>1
      <4>2. applied' \in Int
        BY <3>1, <1>1, <1>3
      <4>3. cache' \in Int
        BY <3>1, <1>1 DEF TypeOK
      <4> QED BY <4>1, <4>2, <4>3
    <3> QED BY <3>1, <3>2, <3>4
  <2>2. CASE e.kind = "balance"
    <3>1. book' = book /\ applied' = applied /\ cash' = cash /\ cache' = e.total
      BY <2>2 DEF Handle
    <3>2. e.qty = 0
      BY <2>2, <1>2 DEF Inv, StreamOK
    <3>3. book.inv \in Int /\ book.bought \in Nat /\ book.sold \in Nat
      BY <1>1 DEF Books
    <3> QED BY <3>1, <3>2, <3>3, <1>1, <1>3
  <2> QED BY <1>3, <2>1, <2>2
<1>5. /\ stream' \in Seq(Event) /\ Len(stream') = n - 1
      /\ \A i \in 1 .. n - 1 : stream'[i] = stream[i + 1]
  BY <1>1, <1>2 DEF Handle
<1>6. sent' = sent /\ stream[1].cum = applied + e.qty /\ stream[n].cum = sent
  BY <1>1, <1>2 DEF Inv, StreamOK, Handle
<1>7. StreamOK'
  <2>1. CASE n = 1
    <3>1. Len(stream') = 0
      BY <2>1, <1>5
    <3>2. stream' = <<>>
      BY <3>1, <1>5
    <3>3. sent' = applied'
      BY <2>1, <1>4, <1>6
    <3> QED BY <3>1, <3>2, <3>3 DEF StreamOK
  <2>2. CASE n > 1
    <3>1. stream' # <<>>
      BY <2>2, <1>2, <1>5
    <3>2. stream'[1] = stream[2] /\ stream[2].cum = stream[1].cum + stream[2].qty
      BY <2>2, <1>2, <1>5 DEF Inv, StreamOK
    <3>3. stream'[Len(stream')] = stream[n]
      <4>1. n - 1 \in 1 .. n - 1 /\ (n - 1) + 1 = n
        BY <2>2, <1>2
      <4> QED BY <4>1, <1>5
    <3>4. ASSUME NEW i \in 1 .. n - 1
          PROVE  /\ stream'[i].kind = "balance" => stream'[i].qty = 0
                 /\ i > 1 => stream'[i].cum = stream'[i - 1].cum + stream'[i].qty
      <4>1. i + 1 \in 1 .. n /\ i + 1 > 1 /\ (i + 1) - 1 = i /\ stream'[i] = stream[i + 1]
        BY <1>2, <1>5
      <4>2. i > 1 => i - 1 \in 1 .. n - 1 /\ (i - 1) + 1 = i
        BY <1>2
      <4>3. i > 1 => stream'[i - 1] = stream[i]
        BY <4>2, <1>5
      <4>4. /\ stream[i + 1].kind = "balance" => stream[i + 1].qty = 0
            /\ stream[i + 1].cum = stream[(i + 1) - 1].cum + stream[i + 1].qty
        BY <4>1 DEF Inv, StreamOK
      <4> QED BY <4>1, <4>3, <4>4
    <3> QED BY <3>1, <3>2, <3>3, <3>4, <1>4, <1>5, <1>6 DEF StreamOK
  <2> QED
    <3>1. n = 1 \/ n > 1
      <4>1. n \in Nat /\ n > 0
        BY <1>2
      <4> HIDE DEF n
      <4> QED BY <4>1
    <3> QED BY <3>1, <2>1, <2>2
<1>8. /\ phase = "running" /\ checked' = FALSE
      /\ UNCHANGED <<auto, phase, wallet, based, baseline, drift, delta, fills, losses, fails,
                     crashes, start, sent, lost, away, adj, touched>>
  BY DEF Handle, bounds
<1>9. TypeOK'
  <2>1. TypeFlags /\ TypeFigures
    BY <1>1, TypeSplit
  <2>2. TypeFlags'
    BY <2>1, <1>8, Zenon DEF TypeFlags
  <2>3. TypeFigures'
    BY <2>1, <1>4, <1>5, <1>8 DEF TypeFigures
  <2> QED BY <2>2, <2>3, TypeSplitPrime
<1>10. Flow'
  <2>1. book.inv \in Int /\ book.bought \in Nat /\ book.sold \in Nat /\ adj \in Int
    BY <1>1 DEF Books, TypeOK
  <2>2. Flow
    BY DEF Inv
  <2>3. phase' = phase /\ wallet' = wallet /\ start' = start /\ sent' = sent /\ lost' = lost
        /\ adj' = adj
    BY <1>8
  <2>4. book'.inv = applied' + adj
    BY <2>1, <2>2, <1>1, <1>3, <1>4 DEF Flow
  <2>5. book'.bought - book'.sold = applied'
    BY <2>2, <1>4 DEF Flow
  <2>6. phase # "down" => wallet = start + sent + lost
    BY <2>2 DEF Flow
  <2> QED BY <2>3, <2>4, <2>5, <2>6 DEF Flow
<1>11. Idle' /\ Verdict' /\ DeltaSeesCorrections'
  BY <1>8 DEF Inv, Idle, Verdict, DeltaSeesCorrections
<1> QED BY <1>7, <1>9, <1>10, <1>11 DEF Inv

\* A reconcile: the correction goes to the inventory and to adj alike.
LEMMA CheckFacts ==
  ASSUME Inv, NEW ok \in BOOLEAN, Check(ok)
  PROVE  /\ cache' \in Int /\ baseline' \in Int /\ based' = TRUE
         /\ drift' \in BOOLEAN /\ delta' \in BOOLEAN /\ touched' \in BOOLEAN
         /\ book' \in Books /\ adj' \in Int
         /\ book'.inv = applied + adj'
         /\ book'.bought - book'.sold = applied
         /\ delta' => adj' # 0
         /\ ok /\ based /\ ~drift' => Abs((wallet - baseline') - book'.inv) <= Tol
<1> USE LedgerAssumption
<1> DEFINE now == IF ok THEN wallet ELSE cache
           off == Drifted(now)
           fix == Corrects(off)
           new == IF fix THEN now - baseline ELSE book.inv
<1>1. /\ TypeOK /\ book \in Books /\ book.inv \in Int /\ book.bought \in Nat
      /\ book.sold \in Nat /\ book.inv = applied + adj /\ book.bought - book.sold = applied
  BY DEF Inv, TypeOK, Flow, Books
<1>2. now \in Int /\ baseline \in Int
  BY <1>1 DEF TypeOK
<1>3. new \in Int
  BY <1>1, <1>2
<1>4. /\ cache' = now /\ based' = TRUE /\ baseline' = Rebase(now) /\ drift' = off
      /\ book' = ForceResetTo(book, new) /\ adj' = adj + (new - book.inv)
      /\ touched' = (touched \/ fix)
      /\ delta' = (Abs(new - (book.bought - book.sold)) > 2 * Tol)
  BY DEF Check
<1>5. off \in BOOLEAN /\ fix \in BOOLEAN
  <2>1. off = (based /\ Abs((now - baseline) - book.inv) > Tol)
    BY DEF Drifted
  <2>2. off \in BOOLEAN
    BY <2>1
  <2>3. fix = (off /\ auto)
    BY DEF Corrects
  <2> QED BY <2>2, <2>3
<1>6. ~off => ~fix
  BY DEF Corrects
<1>7. ~off /\ based => Abs((now - baseline) - book.inv) <= Tol
  BY <1>1, <1>2 DEF Drifted, Abs
<1> HIDE DEF off, fix
<1>8. /\ book' \in Books /\ book'.inv = new /\ book'.bought = book.bought
      /\ book'.sold = book.sold
  BY <1>1, <1>3, <1>4, ForceResetMoves
<1>9. adj' \in Int /\ new = applied + adj'
  BY <1>1, <1>3, <1>4 DEF TypeOK
<1>10. delta' => adj' # 0
  <2> SUFFICES ASSUME adj' = 0 PROVE ~delta'
    OBVIOUS
  <2>1. applied \in Int /\ Tol \in Nat
    BY <1>1 DEF TypeOK
  <2>2. new - (book.bought - book.sold) = 0
    BY <1>1, <1>9, <2>1
  <2>3. ~(Abs(new - (book.bought - book.sold)) > 2 * Tol)
    BY <2>1, <2>2 DEF Abs
  <2> QED BY <1>4, <2>3
<1>11. baseline' \in Int /\ (based => baseline' = baseline)
  BY <1>2, <1>4 DEF Rebase
<1>12. touched' \in BOOLEAN /\ drift' \in BOOLEAN /\ delta' \in BOOLEAN
  BY <1>1, <1>4, <1>5 DEF TypeOK
<1>13. ASSUME ok, based, ~drift'
       PROVE  Abs((wallet - baseline') - book'.inv) <= Tol
  <2>1. now = wallet /\ ~off /\ new = book.inv
    BY <1>13, <1>4, <1>6
  <2> QED BY <2>1, <1>13, <1>7, <1>8, <1>11
<1> QED BY <1>1, <1>2, <1>4, <1>8, <1>9, <1>10, <1>11, <1>12, <1>13

LEMMA StepReconcile ==
  ASSUME Inv, NEW ok \in BOOLEAN, Reconcile(ok) \/ Start(ok) PROVE Inv'
<1> USE LedgerAssumption
<1>1. Check(ok) /\ Query(ok)
  BY DEF Reconcile, Start
<1>2. /\ cache' \in Int /\ baseline' \in Int /\ based' = TRUE
      /\ drift' \in BOOLEAN /\ delta' \in BOOLEAN /\ touched' \in BOOLEAN
      /\ book' \in Books /\ adj' \in Int
      /\ book'.inv = applied + adj'
      /\ book'.bought - book'.sold = applied
      /\ delta' => adj' # 0
      /\ ok /\ based /\ ~drift' => Abs((wallet - baseline') - book'.inv) <= Tol
  BY <1>1, CheckFacts
<1>3. /\ phase # "down" /\ phase' = "running"
      /\ UNCHANGED <<auto, wallet, stream, fills, losses, crashes, start, sent, applied, lost,
                     away, cash>>
      /\ checked' \in BOOLEAN
      /\ checked' => phase = "running" /\ ok
  <2>1. CASE Reconcile(ok)
    <3>1. phase = "running" /\ checked' = ok
      BY <2>1 DEF Reconcile
    <3>2. phase' = "running"
      BY <2>1, <3>1 DEF Reconcile
    <3>3. UNCHANGED <<auto, wallet, stream, fills, losses, crashes, start, sent, applied,
                      lost, away, cash>>
      BY <2>1 DEF Reconcile
    <3>4. checked' \in BOOLEAN /\ (checked' => ok)
      BY <3>1, Zenon
    <3> QED BY <3>1, <3>2, <3>3, <3>4
  <2>2. CASE Start(ok)
    <3>1. phase = "starting" /\ checked' = FALSE
      BY <2>2 DEF Start
    <3> QED BY <2>2, <3>1, Zenon DEF Start
  <2> QED BY <2>1, <2>2
<1>4. fails' \in 0 .. MaxFails
  BY <1>1 DEF Query, Inv, TypeOK
<1>5. TypeOK'
  <2>1. TypeFlags /\ TypeFigures
    BY TypeSplit DEF Inv
  <2>2. TypeFlags'
    BY <2>1, <1>2, <1>3, Zenon DEF TypeFlags
  <2>3. TypeFigures'
    BY <2>1, <1>2, <1>3, <1>4 DEF TypeFigures
  <2> QED BY <2>2, <2>3, TypeSplitPrime
<1>6. StreamOK'
  BY <1>3 DEF Inv, StreamOK
<1>7. Flow' /\ Idle' /\ DeltaSeesCorrections'
  BY <1>2, <1>3 DEF Inv, Flow, Idle, DeltaSeesCorrections
<1>8. Verdict'
  <2>1. checked' => based
    BY <1>3 DEF Inv, Idle
  <2> QED BY <2>1, <1>2, <1>3 DEF Verdict
<1> QED BY <1>5, <1>6, <1>7, <1>8 DEF Inv

LEMMA StepProcess ==
  ASSUME Inv, Subscribe \/ Crash PROVE Inv'
<1> USE LedgerAssumption, EmptyBookFacts
<1>1. CASE Subscribe
  <2>1. TypeOK'
    <3>1. TypeFlags /\ TypeFigures
      BY TypeSplit DEF Inv
    <3>2. TypeFlags'
      BY <3>1, <1>1, Zenon DEF TypeFlags, Subscribe
    <3>3. TypeFigures'
      BY <3>1, <1>1 DEF TypeFigures, Subscribe, bounds
    <3> QED BY <3>2, <3>3, TypeSplitPrime
  <2>2. StreamOK'
    BY <1>1 DEF Inv, StreamOK, Subscribe
  <2>3. Flow'
    BY <1>1 DEF Inv, TypeOK, Flow, Idle, Subscribe
  <2>4. Idle' /\ Verdict' /\ DeltaSeesCorrections'
    BY <1>1 DEF Inv, Idle, Verdict, DeltaSeesCorrections, Subscribe
  <2> QED BY <2>1, <2>2, <2>3, <2>4 DEF Inv
<1>2. CASE Crash
  <2>1. TypeOK'
    <3>1. TypeFlags /\ TypeFigures
      BY TypeSplit DEF Inv
    <3>2. TypeFlags'
      BY <3>1, <1>2, Zenon DEF TypeFlags, Crash
    <3>3. crashes' \in 0 .. MaxCrashes
      BY <3>1, <1>2 DEF TypeFigures, Crash
    <3>4. TypeFigures'
      BY <3>1, <3>3, <1>2 DEF TypeFigures, Crash
    <3> QED BY <3>2, <3>4, TypeSplitPrime
  <2>2. StreamOK'
    BY <1>2 DEF StreamOK, Crash
  <2>3. Flow' /\ Idle' /\ Verdict' /\ DeltaSeesCorrections'
    BY <1>2 DEF Flow, Idle, Verdict, DeltaSeesCorrections, Crash
  <2> QED BY <2>1, <2>2, <2>3 DEF Inv
<1> QED BY <1>1, <1>2

LEMMA StepStutter ==
  ASSUME Inv, UNCHANGED vars PROVE Inv'
<1>1. /\ TypeOK' /\ StreamOK' /\ Flow'
  BY DEF Inv, TypeOK, StreamOK, Flow, vars, bounds, history
<1>2. Idle' /\ Verdict' /\ DeltaSeesCorrections'
  BY DEF Inv, Idle, Verdict, DeltaSeesCorrections, vars, bounds, history
<1> QED BY <1>1, <1>2 DEF Inv

\* The accounting of FillLedger, for every set of trades, tolerance and bound.
THEOREM LedgerInvariant == Spec => []Inv
<1>1. Inv /\ [Next]_vars => Inv'
  <2> SUFFICES ASSUME Inv, [Next]_vars PROVE Inv'
    OBVIOUS
  <2> QED BY StepExecute, StepHandle, StepReconcile, StepProcess, StepStutter DEF Next
<1> QED BY <1>1, InitInv, PTL DEF Spec

-----------------------------------------------------------------------------
\* The state of the ledger is well typed (TypeOK) in every reachable state.
THEOREM LedgerTypeCorrect == Spec => []TypeOK
BY LedgerInvariant, PTL DEF Inv

\* No fill is counted twice and none disappears without being lost (Conserved).
THEOREM FillsConserved == Spec => []Conserved
<1>1. Inv => Conserved
  BY DEF Inv, Flow, TypeOK, Books, Conserved
<1> QED BY <1>1, LedgerInvariant, PTL

\* A silent check leaves at most the tolerance uncorrected (LossesSurface).
THEOREM SilentCheckBoundsLoss == Spec => []LossesSurface
<1>1. Inv => LossesSurface
  <2> SUFFICES ASSUME Inv, checked, ~drift, stream = <<>>, baseline = start
               PROVE  Abs(lost - adj) <= Tol
    BY DEF LossesSurface
  <2>1. /\ Abs((wallet - baseline) - book.inv) <= Tol
        /\ sent = applied /\ book.inv = applied + adj
    BY DEF Inv, Verdict, StreamOK, Flow
  <2>2. phase # "down"
    <3>1. checked => phase # "down"
      BY DEF Inv, Idle
    <3> QED BY <3>1
  <2>3. wallet = start + sent + lost
    BY <2>2 DEF Inv, Flow
  <2>4. /\ wallet \in Nat /\ start \in Nat /\ sent \in Int /\ lost \in Int /\ adj \in Int
        /\ applied \in Int
    BY DEF Inv, TypeOK
  <2>5. (wallet - baseline) - book.inv = lost - adj
    BY <2>1, <2>3, <2>4
  <2> QED BY <2>1, <2>5
<1> QED BY <1>1, LedgerInvariant, PTL

\* Why MissedFillFlagged fails: the position-delta check of reconcile fires only after
\* an auto-correction, for every tolerance and any number of lost fills.
THEOREM DeltaBlindToLoss == Spec => []DeltaSeesCorrections
BY LedgerInvariant, PTL DEF Inv

-----------------------------------------------------------------------------
(* Average cost accounting.  The fractions are exact, so a fill is a polynomial     *)
(* identity over the integers: one for a fill that closes (and maybe turns around)  *)
(* the position, one for a fill that adds to it, one for a fill that reduces it.    *)

\* What the accounting promises of one book, given the cash its fills moved.
Balanced(b, c) ==
  /\ b.avg.d > 0 /\ b.realized.d > 0
  /\ b.realized.n * b.avg.d = (c * b.avg.d + b.inv * b.avg.n) * b.realized.d

\* Closing i at p: cost and proceeds of the closed part cancel.
LEMMA CloseAlgebra ==
  ASSUME NEW R \in Int, NEW D \in Int, NEW n \in Int, NEW d \in Int, NEW i \in Int,
         NEW c \in Int, NEW p \in Int,
         R * d = (c * d + i * n) * D
  PROVE  R * d + i * (p * d - n) * D = (c + i * p) * (D * d)
<1>1. (c * d + i * n) * D + i * (p * d - n) * D = (c + i * p) * (D * d)
  OBVIOUS
<1> QED BY <1>1

\* Adding q at p on the side s of the position: the weighted average absorbs the cash.
LEMMA GrowAlgebra ==
  ASSUME NEW R \in Int, NEW D \in Int, NEW n \in Int, NEW d \in Int, NEW i \in Int,
         NEW c \in Int, NEW p \in Int, NEW q \in Int, NEW s \in Int,
         R * d = (c * d + i * n) * D
  PROVE  (R * d) * (d * (s * (i + q)))
           = ((c - q * p) * (d * (s * (i + q)))
                + (i + q) * ((s * i) * n + (s * q) * p * d)) * (D * d)
<1>1. ((c - q * p) * (d * (s * (i + q)))
                + (i + q) * ((s * i) * n + (s * q) * p * d)) * (D * d)
      = ((c * d + i * n) * D) * (d * (s * (i + q)))
  OBVIOUS
<1> QED BY <1>1

\* Reducing by q at p: the rest stays at cost.
LEMMA ShrinkAlgebra ==
  ASSUME NEW R \in Int, NEW D \in Int, NEW n \in Int, NEW d \in Int, NEW i \in Int,
         NEW c \in Int, NEW p \in Int, NEW q \in Int,
         R * d = (c * d + i * n) * D
  PROVE  (R * d + (-q) * (p * d - n) * D) * d
           = ((c - q * p) * d + (i + q) * n) * (D * d)
<1>1. (c * d + i * n) * D + (-q) * (p * d - n) * D = ((c - q * p) * d + (i + q) * n) * D
  OBVIOUS
<1>2. (R * d + (-q) * (p * d - n) * D) * d = (((c - q * p) * d + (i + q) * n) * D) * d
  BY <1>1
<1> QED BY <1>2

\* What on_fill realizes: all of the position when it is closed or turned around,
\* nothing when it grows, the quantity of the fill when it shrinks.
Reduced(i, q) ==
  IF Sign(i) * Sign(q) < 0 THEN Sign(i) * Less(Abs(q), Abs(i)) ELSE 0

LEMMA ReducedQty ==
  ASSUME NEW i \in Int, NEW q \in Int
  PROVE  /\ i + q = 0 \/ Sign(i) # Sign(i + q) => Reduced(i, q) = i
         /\ i + q # 0 /\ Sign(i) = Sign(i + q) /\ Sign(i + q) = Sign(q)
              => Reduced(i, q) = 0
         /\ i + q # 0 /\ Sign(i) = Sign(i + q) /\ Sign(i + q) # Sign(q)
              => Reduced(i, q) = -q
BY DEF Reduced, Sign, Abs, Less

\* A book that balances still balances after on_fill, with the cash of the fill.
LEMMA OnFillBalances ==
  ASSUME NEW b \in Books, NEW q \in Int, NEW p \in Nat, NEW c \in Int, Balanced(b, c)
  PROVE  Balanced(OnFill(b, q, p), c - q * p)
<1> DEFINE R == b.realized.n
           D == b.realized.d
           n == b.avg.n
           d == b.avg.d
           i == b.inv
           r == Reduced(i, q)
           f == OnFill(b, q, p)
<1>1. R \in Int /\ D \in Int /\ n \in Int /\ d \in Int /\ i \in Int
  BY DEF Books, Frac
<1>2. d > 0 /\ D > 0 /\ R * d = (c * d + i * n) * D
  BY DEF Balanced
<1>3. /\ f.inv = i + q /\ f.avg = Entry(b, q, p)
      /\ f.realized.n = R * d + r * (p * d - n) * D /\ f.realized.d = D * d
  BY DEF OnFill, Realize, Reduced
<1>4. D * d > 0
  BY <1>1, <1>2
<1> SUFFICES /\ f.avg.d > 0
             /\ (R * d + r * (p * d - n) * D) * f.avg.d
                  = ((c - q * p) * f.avg.d + (i + q) * f.avg.n) * (D * d)
  BY <1>3, <1>4 DEF Balanced
<1> HIDE DEF R, D, n, d, r, f
<1>5. CASE i + q = 0 \/ Sign(i) # Sign(i + q)
  <2>1. r = i
    BY <1>1, <1>5, ReducedQty DEF r
  <2>2. R * d + i * (p * d - n) * D = (c + i * p) * (D * d)
    BY <1>1, <1>2, CloseAlgebra
  <2>3. CASE i + q = 0
    <3>1. f.avg.n = 0 /\ f.avg.d = 1
      BY <2>3, <1>3 DEF Entry, Whole
    <3>2. c + i * p = c - q * p
      <4>1. q = -i
        BY <2>3, <1>1
      <4> QED BY <4>1, <1>1
    <3>3. D * d \in Int /\ c - q * p \in Int
      BY <1>1
    <3>4. (c - q * p) * (D * d) = ((c - q * p) * 1 + (i + q) * 0) * (D * d)
      BY <3>3, <1>1
    <3>5. (R * d + i * (p * d - n) * D) * 1 = R * d + i * (p * d - n) * D
      BY <1>1
    <3> QED BY <2>1, <2>2, <3>1, <3>2, <3>4, <3>5
  <2>4. CASE i + q # 0
    <3>1. f.avg.n = p /\ f.avg.d = 1
      BY <2>4, <1>3, <1>5 DEF Entry, Whole, i
    <3>2. c + i * p = (c - q * p) * 1 + (i + q) * p
      BY <1>1
    <3>3. (R * d + i * (p * d - n) * D) * 1 = R * d + i * (p * d - n) * D
      BY <1>1
    <3> QED BY <2>1, <2>2, <3>1, <3>2, <3>3
  <2> QED BY <2>3, <2>4
<1>6. CASE i + q # 0 /\ Sign(i) = Sign(i + q) /\ Sign(i + q) = Sign(q)
  <2> DEFINE s == Sign(q)
  <2>1. /\ s \in Int /\ Abs(i) = s * i /\ Abs(q) = s * q /\ Abs(i + q) = s * (i + q)
        /\ s * (i + q) > 0
    BY <1>1, <1>6 DEF Sign, Abs
  <2> HIDE DEF s
  <2>2. r = 0
    BY <1>1, <1>6, ReducedQty DEF r
  <2>3. f.avg.n = (s * i) * n + (s * q) * p * d /\ f.avg.d = d * (s * (i + q))
    <3>1. f.avg = Weighted(b, q, p)
      BY <1>3, <1>6 DEF Entry, i
    <3> QED BY <3>1, <2>1 DEF Weighted, n, d, i
  <2>4. (R * d) * (d * (s * (i + q)))
           = ((c - q * p) * (d * (s * (i + q)))
                + (i + q) * ((s * i) * n + (s * q) * p * d)) * (D * d)
    BY <1>1, <1>2, <2>1, GrowAlgebra
  <2>5. R * d + r * (p * d - n) * D = R * d
    BY <1>1, <2>2
  <2>6. d * (s * (i + q)) > 0
    <3>1. s * (i + q) \in Int
      BY <1>1, <2>1
    <3> QED BY <1>1, <1>2, <2>1, <3>1
  <2> QED BY <2>3, <2>4, <2>5, <2>6
<1>7. CASE i + q # 0 /\ Sign(i) = Sign(i + q) /\ Sign(i + q) # Sign(q)
  <2>1. r = -q
    BY <1>1, <1>7, ReducedQty DEF r
  <2>2. f.avg.n = n /\ f.avg.d = d
    BY <1>3, <1>7 DEF Entry, n, d, i
  <2>3. (R * d + (-q) * (p * d - n) * D) * d
           = ((c - q * p) * d + (i + q) * n) * (D * d)
    <3>1. p \in Int
      OBVIOUS
    <3> HIDE DEF i
    <3> QED BY <3>1, <1>1, <1>2, ShrinkAlgebra, SMTT(60)
  <2> QED BY <1>2, <2>1, <2>2, <2>3
<1> QED BY <1>5, <1>6, <1>7

LEMMA EmptyBookBalances == Balanced(EmptyBook, 0)
BY DEF Balanced, EmptyBook, Whole

\* Writing the quantity it already has into a book changes nothing.
LEMMA ResetToSame ==
  ASSUME NEW b \in Books PROVE ForceResetTo(b, b.inv) = b
BY DEF ForceResetTo, Books

\* Realized PnL is the cash of the fills plus the open position at cost, for every
\* sequence of fills that close, turn around, add to or reduce the position, until a
\* correction overwrites the quantity (PnlIsCashFlow).
THEOREM PnlMatchesCash == Spec => []PnlIsCashFlow
<1> DEFINE CashInv == ~touched => Balanced(book, cash)
<1>1. Init => CashInv
  BY EmptyBookBalances DEF Init
<1>2. Inv /\ CashInv /\ [Next]_vars => CashInv'
  <2> SUFFICES ASSUME Inv, CashInv, [Next]_vars, ~touched'
               PROVE  Balanced(book', cash')
    OBVIOUS
  <2>1. CASE Execute
    BY <2>1 DEF Execute
  <2>2. CASE Handle
    <3> DEFINE e == Head(stream)
    <3>0. /\ stream \in Seq(Event) /\ stream # <<>> /\ book \in Books /\ cash \in Int
          /\ ~touched
      BY <2>2 DEF Inv, TypeOK, Handle
    <3>1. e \in Event
      BY <3>0
    <3>2. e.qty \in Int /\ e.price \in Nat
      BY <3>1 DEF Event
    <3>3. CASE book' = OnFill(book, e.qty, e.price) /\ cash' = cash - e.qty * e.price
      BY <3>0, <3>2, <3>3, OnFillBalances
    <3>4. CASE book' = book /\ cash' = cash
      BY <3>0, <3>4
    <3> QED BY <2>2, <3>3, <3>4 DEF Handle
  <2>3. ASSUME NEW ok \in BOOLEAN, Reconcile(ok) \/ Start(ok)
        PROVE  Balanced(book', cash')
    <3> DEFINE now == IF ok THEN wallet ELSE cache
               fix == Corrects(Drifted(now))
    <3>1. /\ book' = ForceResetTo(book, IF fix THEN now - baseline ELSE book.inv)
          /\ touched' = (touched \/ fix) /\ cash' = cash
      BY <2>3 DEF Reconcile, Start, Check
    <3>2. ~fix /\ ~touched
      BY <3>1
    <3>3. book' = book
      BY <3>1, <3>2, ResetToSame DEF Inv, TypeOK
    <3> QED BY <3>1, <3>2, <3>3
  <2>4. CASE Subscribe
    BY <2>4 DEF Subscribe
  <2>5. CASE Crash
    BY <2>5, EmptyBookBalances DEF Crash
  <2>6. CASE UNCHANGED vars
    BY <2>6 DEF vars, history
  <2> QED BY <2>1, <2>2, <2>3, <2>4, <2>5, <2>6 DEF Next
<1>3. CashInv => PnlIsCashFlow
  BY DEF Balanced, PnlIsCashFlow
<1> QED BY <1>1, <1>2, <1>3, LedgerInvariant, PTL DEF Spec

=============================================================================
