------------------------ MODULE PairedUnwindProofs ------------------------
(***************************************************************************)
(* Proofs about PairedUnwind for every number of slices, multiplier, lot   *)
(* and lag.  For an executor that started with nothing in flight, what a   *)
(* venue has executed is what is booked plus what its stream holds; the    *)
(* stamps of the fills (cum) say so without a sum over the stream.         *)
(***************************************************************************)
EXTENDS PairedUnwind, SequenceTheorems, TLAPS

\* The stream s of a leg with d booked, f executed and slices of at most c.
Trail(s, d, f, c) ==
  /\ s = <<>> => f = d
  /\ s # <<>> => s[1].cum = d + Abs(s[1].qty)
  /\ \A i \in 1 .. Len(s) :
       /\ s[i].cum <= f /\ f - s[i].cum <= (Len(s) - i) * c
       /\ Abs(s[i].qty) <= c
  /\ \A i \in 2 .. Len(s) : s[i].cum = s[i - 1].cum + Abs(s[i].qty)

\* The account of a leg under an executor that started with nothing in flight.
LegOK(x, l) ==
  /\ pos[l] = from[l] - Dir(x, l) * filled[l]
  /\ Trail(pending[l], x.done[l], filled[l], Slice(x, l))
  /\ filled[l] <= Target(x, l) + (MaxLag - 1) * Slice(x, l)

Account == exec # NoExec /\ clean => \A l \in Legs : LegOK(exec, l)

Inv == TypeOK /\ Account

-----------------------------------------------------------------------------
LEMMA OneMore ==
  ASSUME NEW k \in Int, NEW c \in Nat
  PROVE  (k + 1) * c = k * c + c /\ k * c \in Int
OBVIOUS

LEMMA TimesMonotone ==
  ASSUME NEW j \in Int, NEW k \in Int, NEW c \in Nat, j <= k
  PROVE  j * c <= k * c
OBVIOUS

LEMMA RoundQtyBounds ==
  ASSUME NEW q \in Nat PROVE RoundQty(q) \in Nat /\ RoundQty(q) <= q
<1>1. Lot \in Nat /\ Lot > 0
  BY UnwindAssumption
<1>2. q \div Lot \in Nat
  BY <1>1
<1>3. q = Lot * (q \div Lot) + (q % Lot) /\ q % Lot \in Nat
  BY <1>1
<1>4. (q \div Lot) * Lot = Lot * (q \div Lot)
  BY <1>1, <1>2
<1>5. (q \div Lot) * Lot \in Nat
  BY <1>1, <1>2
<1> QED BY <1>3, <1>4, <1>5 DEF RoundQty

\* The figures of an executor.
LEMMA ExecFacts ==
  ASSUME NEW x \in Execs, NEW l \in Legs
  PROVE  /\ x.done[l] \in Nat /\ Target(x, l) \in Nat /\ Slice(x, l) \in Nat
         /\ Dir(x, l) \in {1, -1}
         /\ SliceQty(x, l) \in Nat /\ SliceQty(x, l) <= Slice(x, l)
         /\ SliceQty(x, l) > 0 => SliceQty(x, l) <= Target(x, l) - x.done[l]
<1>1. x.target \in Nat /\ x.side \in {1, -1} /\ x.done \in [Legs -> Nat]
  BY DEF Execs
<1>2. x.done[l] \in Nat
  BY <1>1
<1>3. Target(x, l) \in Nat
  <2>1. x.target * MultNum \in Nat
    BY <1>1, UnwindAssumption
  <2>2. Hedged(x.target) \in Nat
    BY <2>1, UnwindAssumption DEF Hedged
  <2> QED BY <2>2, <1>1 DEF Target
<1>4. Slice(x, l) \in Nat
  BY <1>3, UnwindAssumption DEF Slice
<1>5. Dir(x, l) \in {1, -1}
  BY <1>1 DEF Dir
<1> DEFINE q == MinOf(Slice(x, l), Target(x, l) - x.done[l])
<1>6. q \in Int /\ q <= Slice(x, l) /\ q <= Target(x, l) - x.done[l]
  BY <1>2, <1>3, <1>4 DEF MinOf
<1>7. SliceQty(x, l) = IF q > 0 THEN RoundQty(q) ELSE 0
  BY DEF SliceQty
<1> HIDE DEF q
<1>8. CASE q > 0
  <2>1. RoundQty(q) \in Nat /\ RoundQty(q) <= q
    BY <1>6, <1>8, RoundQtyBounds
  <2> QED BY <2>1, <1>2, <1>3, <1>4, <1>5, <1>6, <1>7, <1>8
<1>9. CASE ~(q > 0)
  BY <1>9, <1>2, <1>3, <1>4, <1>5, <1>7
<1> QED BY <1>8, <1>9

-----------------------------------------------------------------------------
LEMMA FillFacts ==
  ASSUME NEW s \in Seq(Fills), NEW i \in 1 .. Len(s)
  PROVE  s[i].cum \in Nat /\ s[i].qty \in Int
<1>1. s[i] \in Fills
  OBVIOUS
<1> QED BY <1>1 DEF Fills

\* A fill of n at the end of the stream.
LEMMA TrailAppend ==
  ASSUME NEW s \in Seq(Fills), NEW d \in Nat, NEW f \in Nat, NEW c \in Nat,
         NEW n \in Nat, n <= c, NEW e \in Fills, Abs(e.qty) = n, e.cum = f + n,
         Trail(s, d, f, c)
  PROVE  Trail(Append(s, e), d, f + n, c)
<1> DEFINE t == Append(s, e)
           k == Len(s)
<1>1. k \in Nat /\ t \in Seq(Fills) /\ Len(t) = k + 1 /\ t # <<>>
  OBVIOUS
<1>2. t[k + 1] = e /\ \A i \in 1 .. k : t[i] = s[i]
  OBVIOUS
<1>3. \A i \in 1 .. k : s[i].cum \in Nat /\ s[i].qty \in Int
  BY FillFacts
<1>4. \A i \in 1 .. k : /\ s[i].cum <= f /\ f - s[i].cum <= (k - i) * c
                        /\ Abs(s[i].qty) <= c
  BY DEF Trail
<1>5. k > 0 => s[k].cum = f
  <2> SUFFICES ASSUME k > 0 PROVE s[k].cum = f
    OBVIOUS
  <2>1. k \in 1 .. k /\ (k - k) * c = 0
    BY <1>1
  <2>2. s[k].cum <= f /\ f - s[k].cum <= 0
    BY <2>1, <1>4
  <2> QED BY <2>1, <2>2, <1>3
<1> HIDE DEF t, k
<1>6. t[1].cum = d + Abs(t[1].qty)
  <2>1. CASE k = 0
    <3>1. f = d
      BY <2>1 DEF Trail, k
    <3> QED BY <2>1, <3>1, <1>2
  <2>2. CASE k > 0
    <3>1. s # <<>> /\ t[1] = s[1]
      BY <2>2, <1>1, <1>2 DEF k
    <3> QED BY <3>1 DEF Trail
  <2> QED BY <2>1, <2>2, <1>1
<1>7. ASSUME NEW i \in 1 .. k + 1
      PROVE  /\ t[i].cum <= f + n /\ (f + n) - t[i].cum <= ((k + 1) - i) * c
             /\ Abs(t[i].qty) <= c
  <2>1. CASE i = k + 1
    <3>1. ((k + 1) - i) * c = 0
      BY <2>1, <1>1
    <3> QED BY <2>1, <3>1, <1>1, <1>2
  <2>2. CASE i \in 1 .. k
    <3>1. t[i] = s[i] /\ s[i].cum \in Nat /\ s[i].cum <= f /\ f - s[i].cum <= (k - i) * c
          /\ Abs(s[i].qty) <= c
      BY <2>2, <1>2, <1>3, <1>4
    <3>2. k - i \in Int /\ (k + 1) - i = (k - i) + 1
      BY <1>1
    <3>3. ((k + 1) - i) * c = (k - i) * c + c /\ (k - i) * c \in Int
      BY <3>2, OneMore
    <3> QED BY <3>1, <3>3
  <2> QED BY <2>1, <2>2, <1>1
<1>8. ASSUME NEW i \in 2 .. k + 1
      PROVE  t[i].cum = t[i - 1].cum + Abs(t[i].qty)
  <2>1. CASE i = k + 1
    <3>1. k > 0 /\ i - 1 = k /\ k \in 1 .. k
      BY <2>1, <1>1
    <3>2. t[i - 1] = s[k] /\ s[k].cum = f
      BY <3>1, <1>2, <1>5
    <3> QED BY <2>1, <3>2, <1>2
  <2>2. CASE i \in 2 .. k
    <3>1. i \in 1 .. k /\ i - 1 \in 1 .. k
      BY <2>2, <1>1
    <3>2. s[i].cum = s[i - 1].cum + Abs(s[i].qty)
      BY <2>2 DEF Trail, k
    <3> QED BY <3>1, <3>2, <1>2
  <2> QED BY <2>1, <2>2, <1>1
<1> QED BY <1>1, <1>6, <1>7, <1>8 DEF Trail, t

\* The first fill is booked.
LEMMA TrailTail ==
  ASSUME NEW s \in Seq(Fills), NEW d \in Nat, NEW f \in Nat, NEW c \in Nat,
         s # <<>>, Trail(s, d, f, c)
  PROVE  Trail(Tail(s), d + Abs(Head(s).qty), f, c)
<1> DEFINE t == Tail(s)
           k == Len(s)
           b == d + Abs(Head(s).qty)
<1>1. k \in Nat /\ k > 0 /\ t \in Seq(Fills) /\ Len(t) = k - 1 /\ Head(s) = s[1]
  OBVIOUS
<1>2. \A i \in 1 .. k - 1 : t[i] = s[i + 1]
  OBVIOUS
<1>3. \A i \in 1 .. k : /\ s[i].cum <= f /\ f - s[i].cum <= (k - i) * c
                        /\ Abs(s[i].qty) <= c /\ s[i].cum \in Nat
  BY FillFacts DEF Trail
<1>4. s[1].cum = b
  BY <1>1 DEF Trail
<1>5. \A i \in 2 .. k : s[i].cum = s[i - 1].cum + Abs(s[i].qty)
  BY DEF Trail
<1> HIDE DEF t, k, b
<1>6. t = <<>> => f = b
  <2> SUFFICES ASSUME t = <<>> PROVE f = b
    OBVIOUS
  <2>1. k = 1
    BY <1>1
  <2>2. s[1].cum <= f /\ f - s[1].cum <= (k - 1) * c /\ s[1].cum \in Nat
    BY <2>1, <1>3
  <2>3. (k - 1) * c = 0
    BY <2>1
  <2> QED BY <2>2, <2>3, <1>4
<1>7. t # <<>> => t[1].cum = b + Abs(t[1].qty)
  <2> SUFFICES ASSUME t # <<>> PROVE t[1].cum = b + Abs(t[1].qty)
    OBVIOUS
  <2>1. k > 1
    BY <1>1
  <2>2. 2 \in 2 .. k /\ 1 \in 1 .. k - 1 /\ 2 - 1 = 1
    BY <2>1, <1>1
  <2>3. t[1] = s[2] /\ s[2].cum = s[1].cum + Abs(s[2].qty)
    BY <2>2, <1>2, <1>5
  <2> QED BY <2>3, <1>4
<1>8. ASSUME NEW i \in 1 .. k - 1
      PROVE  /\ t[i].cum <= f /\ f - t[i].cum <= ((k - 1) - i) * c /\ Abs(t[i].qty) <= c
  <2>1. i + 1 \in 1 .. k /\ k - (i + 1) = (k - 1) - i /\ t[i] = s[i + 1]
    BY <1>1, <1>2
  <2> QED BY <2>1, <1>3
<1>9. ASSUME NEW i \in 2 .. k - 1
      PROVE  t[i].cum = t[i - 1].cum + Abs(t[i].qty)
  <2>1. /\ i + 1 \in 2 .. k /\ (i + 1) - 1 = i /\ i \in 1 .. k - 1 /\ i - 1 \in 1 .. k - 1
        /\ (i - 1) + 1 = i
    BY <1>1
  <2>2. t[i] = s[i + 1] /\ t[i - 1] = s[i]
    BY <2>1, <1>2
  <2> QED BY <2>1, <2>2, <1>5
<1> QED BY <1>1, <1>6, <1>7, <1>8, <1>9 DEF Trail, t, b

\* What is in flight: nothing negative, and at most a slice for every fill.
LEMMA TrailBounds ==
  ASSUME NEW s \in Seq(Fills), NEW d \in Nat, NEW f \in Nat, NEW c \in Nat,
         Trail(s, d, f, c)
  PROVE  /\ d <= f /\ f - d <= Len(s) * c
         /\ s # <<>> => d + Abs(Head(s).qty) <= f
<1> DEFINE k == Len(s)
<1>1. k \in Nat
  OBVIOUS
<1>2. CASE s = <<>>
  <2>1. f = d /\ k = 0
    BY <1>2 DEF Trail
  <2> QED BY <2>1, <1>2
<1>3. CASE s # <<>>
  <2>1. k > 0 /\ 1 \in 1 .. k /\ Head(s) = s[1] /\ s[1] \in Fills
    BY <1>3
  <2>2. /\ s[1].cum = d + Abs(s[1].qty) /\ s[1].cum <= f /\ Abs(s[1].qty) <= c
        /\ f - s[1].cum <= (k - 1) * c
    BY <2>1, <1>3 DEF Trail
  <2>3. s[1].cum \in Nat /\ s[1].qty \in Int /\ Abs(s[1].qty) \in Nat
    BY <2>1 DEF Fills, Abs
  <2>4. k * c = (k - 1) * c + c /\ (k - 1) * c \in Int
    <3>1. k - 1 \in Int /\ (k - 1) + 1 = k
      BY <1>1
    <3> QED BY <3>1, OneMore
  <2> QED BY <2>1, <2>2, <2>3, <2>4
<1> QED BY <1>2, <1>3

-----------------------------------------------------------------------------
LEMMA NoExecIsNone == NoExec \notin Execs
BY DEF NoExec, Execs

LEMMA ScheduledFacts ==
  ASSUME NEW x \in Execs, NEW d \in BOOLEAN, NEW l \in Legs
  PROVE  /\ Scheduled(x, d) \in Execs /\ Scheduled(x, d).done[l] = x.done[l]
         /\ Target(Scheduled(x, d), l) = Target(x, l) /\ Dir(Scheduled(x, d), l) = Dir(x, l)
         /\ Slice(Scheduled(x, d), l) = Slice(x, l)
BY DEF Scheduled, Execs, Target, Dir, Slice

LEMMA BookedFacts ==
  ASSUME NEW x \in Execs, NEW k \in Legs, NEW n \in Int, NEW l \in Legs
  PROVE  /\ Booked(x, k, n) \in Execs
         /\ Booked(x, k, n).done[l] = IF l = k THEN x.done[l] + Abs(n) ELSE x.done[l]
         /\ Target(Booked(x, k, n), l) = Target(x, l) /\ Dir(Booked(x, k, n), l) = Dir(x, l)
         /\ Slice(Booked(x, k, n), l) = Slice(x, l)
<1>1. x.done \in [Legs -> Nat] /\ Abs(n) \in Nat
  BY DEF Execs, Abs
<1>2. [j \in Legs |-> IF j = k THEN x.done[j] + Abs(n) ELSE x.done[j]] \in [Legs -> Nat]
  BY <1>1
<1>3. Booked(x, k, n) \in Execs
  BY <1>2 DEF Booked, Execs
<1>4. Booked(x, k, n).done[l] = IF l = k THEN x.done[l] + Abs(n) ELSE x.done[l]
  BY DEF Booked
<1>5. Booked(x, k, n).target = x.target /\ Booked(x, k, n).side = x.side
  BY DEF Booked
<1>6. /\ Target(Booked(x, k, n), l) = Target(x, l)
      /\ Dir(Booked(x, k, n), l) = Dir(x, l)
  BY <1>5 DEF Target, Dir
<1>7. Slice(Booked(x, k, n), l) = Slice(x, l)
  BY <1>6 DEF Slice
<1> QED BY <1>3, <1>4, <1>6, <1>7

LEMMA DirTimes ==
  ASSUME NEW d \in {1, -1}, NEW a \in Int, NEW b \in Int
  PROVE  /\ d * (a + b) = d * a + d * b /\ d * a \in Int /\ d * b \in Int
         /\ d * (d * a) = a
         /\ Abs(-d * a) = Abs(a)
<1>1. CASE d = 1
  BY <1>1 DEF Abs
<1>2. CASE d = -1
  BY <1>2 DEF Abs
<1> QED BY <1>1, <1>2

-----------------------------------------------------------------------------
LEMMA InitInv == Init => Inv
<1> SUFFICES ASSUME Init PROVE Inv
  OBVIOUS
<1>1. PICK p \in Opening, t \in Tilts, s \in Strays :
        /\ inventory = p
        /\ pos = [l \in Legs |-> IF l = "primary" THEN p + s ELSE t - Hedged(p)]
        /\ pending = [l \in Legs |-> IF l = "primary" /\ s # 0
                                     THEN <<[qty |-> s, cum |-> 0]>> ELSE <<>>]
  BY DEF Init
<1>2. p \in Int /\ t \in Int /\ s \in Int
  BY UnwindAssumption
<1>h. Hedged(p) \in Int
  <2>1. p * MultNum \in Int
    BY <1>2, UnwindAssumption
  <2> QED BY <2>1, UnwindAssumption DEF Hedged
<1>3. pos \in [Legs -> Int]
  <2>1. p + s \in Int /\ t - Hedged(p) \in Int
    BY <1>2, <1>h
  <2> QED BY <2>1, <1>1
<1>4. pending \in [Legs -> Seq(Fills)]
  <2>1. [qty |-> s, cum |-> 0] \in Fills
    BY <1>2 DEF Fills
  <2>2. <<[qty |-> s, cum |-> 0]>> \in Seq(Fills) /\ <<>> \in Seq(Fills)
    BY <2>1
  <2> QED BY <2>2, <1>1
<1>5. exec = NoExec /\ stale \in BOOLEAN /\ clean = FALSE /\ from = pos
      /\ filled = [l \in Legs |-> 0]
  BY DEF Init
<1>6. TypeOK
  BY <1>1, <1>2, <1>3, <1>4, <1>5 DEF TypeOK
<1> QED BY <1>5, <1>6 DEF Inv, Account

\* A new executor.
LEMMA StepStart == ASSUME Inv, StartUnwind PROVE Inv'
<1>1. inventory \in Int /\ inventory # 0 /\ TypeOK
  BY DEF Inv, TypeOK, StartUnwind
<1>2. exec' \in Execs
  <2>1. Abs(inventory) \in Nat \ {0}
    BY <1>1 DEF Abs
  <2>2. (IF inventory > 0 THEN 1 ELSE -1) \in {1, -1}
    OBVIOUS
  <2>3. [l \in Legs |-> 0] \in [Legs -> Nat]
    OBVIOUS
  <2> QED BY <2>1, <2>2, <2>3 DEF StartUnwind, Execs
<1>3. clean' \in BOOLEAN
  BY Zenon DEF StartUnwind
<1>4. /\ from' = pos /\ filled' = [l \in Legs |-> 0]
      /\ pos' = pos /\ inventory' = inventory /\ pending' = pending /\ stale' = stale
      /\ \A l \in Legs : exec'.done[l] = 0
  BY DEF StartUnwind
<1>5. TypeOK'
  BY <1>1, <1>2, <1>3, <1>4 DEF TypeOK
<1>6. ASSUME clean', NEW l \in Legs PROVE LegOK(exec, l)'
  <2>1. pending[l] = <<>>
    BY <1>6 DEF StartUnwind
  <2>2. /\ Target(exec', l) \in Nat /\ Slice(exec', l) \in Nat /\ Dir(exec', l) \in {1, -1}
    BY <1>2, ExecFacts
  <2>3. pos[l] \in Int /\ filled'[l] = 0 /\ from'[l] = pos[l] /\ exec'.done[l] = 0
    BY <1>1, <1>4 DEF TypeOK
  <2>4. Trail(<<>>, 0, 0, Slice(exec', l))
    BY DEF Trail
  <2>5. 0 <= Target(exec', l) + (MaxLag - 1) * Slice(exec', l)
    <3>1. MaxLag - 1 \in Nat
      BY UnwindAssumption
    <3>2. (MaxLag - 1) * Slice(exec', l) \in Nat
      BY <3>1, <2>2
    <3> QED BY <3>2, <2>2
  <2>6. pos[l] = pos[l] - Dir(exec', l) * 0
    BY <2>2, <2>3
  <2> QED BY <1>4, <2>1, <2>3, <2>4, <2>5, <2>6 DEF LegOK
<1> QED BY <1>5, <1>6 DEF Inv, Account

LEMMA StepSchedule == ASSUME Inv, ScheduleAdvances PROVE Inv'
<1>1. exec \in Execs /\ TypeOK
  BY DEF Inv, TypeOK, ScheduleAdvances
<1>2. /\ exec' = Scheduled(exec, TRUE) /\ exec # NoExec
      /\ UNCHANGED <<pos, inventory, pending, stale, from, filled, clean>>
  BY DEF ScheduleAdvances
<1>3. exec' \in Execs
  <2>1. "primary" \in Legs
    BY DEF Legs
  <2> QED BY <2>1, <1>1, <1>2, ScheduledFacts
<1>4. TypeOK'
  BY <1>1, <1>2, <1>3 DEF TypeOK
<1>5. ASSUME clean', NEW l \in Legs PROVE LegOK(exec, l)'
  <2>1. LegOK(exec, l)
    BY <1>2, <1>5 DEF Inv, Account
  <2>2. /\ exec'.done[l] = exec.done[l] /\ Target(exec', l) = Target(exec, l)
        /\ Dir(exec', l) = Dir(exec, l) /\ Slice(exec', l) = Slice(exec, l)
    BY <1>1, <1>2, ScheduledFacts
  <2> QED BY <2>1, <2>2, <1>2 DEF LegOK
<1> QED BY <1>4, <1>5 DEF Inv, Account

\* Both legs go out; one leg at a time.
LEMMA StepDispatch == ASSUME Inv, DispatchSlice PROVE Inv'
<1>1. exec \in Execs /\ TypeOK
  BY DEF Inv, TypeOK, DispatchSlice
<1>2. PICK p \in 0 .. SliceQty(exec, "primary"), h \in 0 .. SliceQty(exec, "hedge") :
        LET n == [l \in Legs |-> IF l = "primary" THEN p ELSE h] IN
        /\ \A l \in Legs : n[l] % Lot = 0
        /\ filled' = [l \in Legs |-> filled[l] + n[l]]
        /\ pos' = [l \in Legs |-> pos[l] - Dir(exec, l) * n[l]]
        /\ pending' = [l \in Legs |->
                         IF n[l] = 0 THEN pending[l]
                         ELSE Append(pending[l], [qty |-> -Dir(exec, l) * n[l],
                                                  cum |-> filled[l] + n[l]])]
  BY DEF DispatchSlice
<1> DEFINE n == [l \in Legs |-> IF l = "primary" THEN p ELSE h]
           ev(l) == [qty |-> -Dir(exec, l) * n[l], cum |-> filled[l] + n[l]]
<1>3. /\ filled' = [l \in Legs |-> filled[l] + n[l]]
      /\ pos' = [l \in Legs |-> pos[l] - Dir(exec, l) * n[l]]
      /\ pending' = [l \in Legs |-> IF n[l] = 0 THEN pending[l] ELSE Append(pending[l], ev(l))]
  BY <1>2
<1>4. /\ exec' = Scheduled(exec, FALSE) /\ exec # NoExec
      /\ UNCHANGED <<inventory, stale, from, clean>>
      /\ \A l \in Legs : Len(pending[l]) < MaxLag
  BY DEF DispatchSlice
<1>5. ASSUME NEW l \in Legs PROVE n[l] \in 0 .. SliceQty(exec, l)
  <2>1. l = "primary" \/ l = "hedge"
    BY DEF Legs
  <2> QED BY <2>1
<1> HIDE DEF n
<1>6. ASSUME NEW l \in Legs
      PROVE  /\ n[l] \in Nat /\ filled[l] \in Nat /\ pos[l] \in Int /\ from[l] \in Int
             /\ pending[l] \in Seq(Fills) /\ Dir(exec, l) \in {1, -1}
             /\ ev(l) \in Fills /\ Abs(ev(l).qty) = n[l] /\ ev(l).cum = filled[l] + n[l]
             /\ Dir(exec, l) * n[l] \in Int
  <2>1. SliceQty(exec, l) \in Nat /\ Dir(exec, l) \in {1, -1}
    BY <1>1, ExecFacts
  <2>2. n[l] \in Nat
    BY <2>1, <1>5
  <2>3. filled[l] \in Nat /\ pos[l] \in Int /\ from[l] \in Int /\ pending[l] \in Seq(Fills)
    BY <1>1 DEF TypeOK
  <2>4. Dir(exec, l) * n[l] \in Int /\ Abs(-Dir(exec, l) * n[l]) = Abs(n[l])
    BY <2>1, <2>2, DirTimes
  <2>5. Abs(n[l]) = n[l]
    BY <2>2 DEF Abs
  <2>6. -Dir(exec, l) * n[l] \in Int /\ filled[l] + n[l] \in Nat
    BY <2>1, <2>2, <2>3
  <2>7. ev(l) \in Fills
    BY <2>6 DEF Fills
  <2>8. ev(l).qty = -Dir(exec, l) * n[l] /\ ev(l).cum = filled[l] + n[l]
    OBVIOUS
  <2> QED BY <2>1, <2>2, <2>3, <2>4, <2>5, <2>7, <2>8
<1> HIDE DEF ev
<1>7. TypeOK'
  <2>1. filled' \in [Legs -> Nat] /\ pos' \in [Legs -> Int]
    BY <1>3, <1>6
  <2>2. pending' \in [Legs -> Seq(Fills)]
    <3>1. ASSUME NEW l \in Legs PROVE Append(pending[l], ev(l)) \in Seq(Fills)
      BY <1>6, AppendProperties
    <3> QED BY <3>1, <1>3, <1>6
  <2>3. exec' \in Execs
    <3>1. "primary" \in Legs
      BY DEF Legs
    <3> QED BY <3>1, <1>1, <1>4, ScheduledFacts
  <2> QED BY <2>1, <2>2, <2>3, <1>1, <1>4 DEF TypeOK
<1>8. ASSUME clean', NEW l \in Legs PROVE LegOK(exec, l)'
  <2> DEFINE d == exec.done[l]
             f == filled[l]
             c == Slice(exec, l)
             g == Target(exec, l)
  <2>1. LegOK(exec, l)
    BY <1>4, <1>8 DEF Inv, Account
  <2>2. /\ exec'.done[l] = d /\ Target(exec', l) = g
        /\ Dir(exec', l) = Dir(exec, l) /\ Slice(exec', l) = c
    BY <1>1, <1>4, ScheduledFacts
  <2>3. /\ d \in Nat /\ g \in Nat /\ c \in Nat /\ f \in Nat
        /\ n[l] \in Nat /\ n[l] <= c /\ (n[l] > 0 => n[l] <= g - d)
    <3>1. /\ d \in Nat /\ g \in Nat /\ c \in Nat /\ SliceQty(exec, l) \in Nat
          /\ SliceQty(exec, l) <= c
          /\ SliceQty(exec, l) > 0 => SliceQty(exec, l) <= g - d
      BY <1>1, ExecFacts
    <3>2. n[l] \in Nat /\ n[l] <= SliceQty(exec, l) /\ f \in Nat
      BY <3>1, <1>5, <1>6
    <3> HIDE DEF d, f, c, g
    <3> QED BY <3>1, <3>2
  <2>4. Trail(pending[l], d, f, c) /\ f <= g + (MaxLag - 1) * c
    BY <2>1 DEF LegOK
  <2>5. Trail(pending'[l], d, f + n[l], c)
    <3>1. CASE n[l] = 0
      <4>1. pending'[l] = pending[l] /\ f + n[l] = f
        BY <3>1, <1>3, <2>3
      <4> QED BY <4>1, <2>4
    <3>2. CASE n[l] # 0
      <4>1. pending'[l] = Append(pending[l], ev(l))
        BY <3>2, <1>3
      <4> HIDE DEF d, c
      <4>2. Trail(Append(pending[l], ev(l)), d, f + n[l], c)
        BY <2>3, <2>4, <1>6, TrailAppend
      <4> QED BY <4>1, <4>2
    <3> QED BY <3>1, <3>2
  <2>6. f + n[l] <= g + (MaxLag - 1) * c
    <3>1. CASE n[l] = 0
      BY <3>1, <2>3, <2>4
    <3>2. CASE n[l] > 0
      <4>1. Len(pending[l]) \in Nat /\ pending[l] \in Seq(Fills)
        BY <1>6
      <4>2. f - d <= Len(pending[l]) * c
        <5> HIDE DEF d, f, c
        <5> QED BY <2>3, <2>4, <4>1, TrailBounds
      <4>3. Len(pending[l]) <= MaxLag - 1 /\ MaxLag - 1 \in Int
        BY <4>1, <1>4, UnwindAssumption
      <4>4. Len(pending[l]) * c <= (MaxLag - 1) * c
        BY <4>1, <4>3, <2>3, TimesMonotone
      <4>5. Len(pending[l]) * c \in Int /\ (MaxLag - 1) * c \in Int
        BY <4>1, <4>3, <2>3
      <4> HIDE DEF d, f, c, g
      <4> QED BY <3>2, <4>2, <4>4, <4>5, <2>3
    <3> QED BY <3>1, <3>2, <2>3
  <2>7. pos'[l] = from[l] - Dir(exec, l) * (f + n[l])
    <3>1. pos[l] = from[l] - Dir(exec, l) * f
      BY <2>1 DEF LegOK
    <3>2. pos'[l] = pos[l] - Dir(exec, l) * n[l]
      BY <1>3
    <3>3. /\ Dir(exec, l) * (f + n[l]) = Dir(exec, l) * f + Dir(exec, l) * n[l]
          /\ Dir(exec, l) * f \in Int /\ Dir(exec, l) * n[l] \in Int
      <4>1. Dir(exec, l) \in {1, -1} /\ f \in Int /\ n[l] \in Int
        BY <1>6, <2>3
      <4> HIDE DEF f
      <4> QED BY <4>1, DirTimes
    <3> QED BY <3>1, <3>2, <3>3, <1>6
  <2>8. filled'[l] = f + n[l] /\ from' = from
    BY <1>3, <1>4
  <2> QED BY <2>2, <2>5, <2>6, <2>7, <2>8 DEF LegOK
<1> QED BY <1>7, <1>8 DEF Inv, Account

\* The first fill of a stream is booked, and may complete the executor.
LEMMA StepFill == ASSUME Inv, NEW k \in Legs, OnFill(k) PROVE Inv'
<1> DEFINE e == Head(pending[k])
<1>1. /\ pending[k] \in Seq(Fills) /\ pending[k] # <<>> /\ TypeOK
  BY DEF Inv, TypeOK, OnFill
<1>2. e \in Fills /\ Tail(pending[k]) \in Seq(Fills)
  BY <1>1, HeadTailProperties
<1>3. e.qty \in Int
  BY <1>2 DEF Fills
<1>4. /\ pending' = [pending EXCEPT ![k] = Tail(@)]
      /\ inventory' = IF k = "primary" THEN inventory + e.qty ELSE inventory
      /\ UNCHANGED <<pos, stale, from, filled, clean>>
  BY DEF OnFill
<1>5. exec' = IF exec = NoExec THEN NoExec
              ELSE IF Complete(Booked(exec, k, e.qty)) THEN NoExec ELSE Booked(exec, k, e.qty)
  BY DEF OnFill
<1> HIDE DEF e
<1>6. exec' # NoExec => exec \in Execs /\ exec' = Booked(exec, k, e.qty)
  BY <1>1, <1>5 DEF TypeOK
<1>7. exec' \in {NoExec} \cup Execs
  <2>1. exec \in Execs => Booked(exec, k, e.qty) \in Execs
    BY <1>3, BookedFacts
  <2> QED BY <2>1, <1>6
<1>8. TypeOK'
  <2>1. inventory' \in Int
    BY <1>1, <1>3, <1>4 DEF TypeOK
  <2>2. pending' \in [Legs -> Seq(Fills)]
    BY <1>1, <1>2, <1>4 DEF TypeOK
  <2> QED BY <2>1, <2>2, <1>1, <1>4, <1>7 DEF TypeOK
<1>9. ASSUME exec' # NoExec, clean', NEW l \in Legs PROVE LegOK(exec, l)'
  <2>1. exec \in Execs /\ exec' = Booked(exec, k, e.qty) /\ exec # NoExec
    BY <1>6, <1>9, NoExecIsNone
  <2>2. LegOK(exec, l)
    BY <2>1, <1>4, <1>9 DEF Inv, Account
  <2>3. /\ exec'.done[l] = IF l = k THEN exec.done[l] + Abs(e.qty) ELSE exec.done[l]
        /\ Target(exec', l) = Target(exec, l) /\ Dir(exec', l) = Dir(exec, l)
        /\ Slice(exec', l) = Slice(exec, l)
    BY <2>1, <1>3, BookedFacts
  <2>4. exec.done[l] \in Nat /\ Slice(exec, l) \in Nat /\ filled[l] \in Nat
    BY <2>1, <1>1, ExecFacts DEF TypeOK
  <2>5. Trail(pending[l], exec.done[l], filled[l], Slice(exec, l))
    BY <2>2 DEF LegOK
  <2>6. Trail(pending'[l], exec'.done[l], filled[l], Slice(exec, l))
    <3>1. CASE l = k
      <4>1. pending'[l] = Tail(pending[l]) /\ exec'.done[l] = exec.done[l] + Abs(Head(pending[l]).qty)
        BY <3>1, <1>1, <1>4, <2>3 DEF TypeOK, e
      <4>2. Trail(Tail(pending[l]), exec.done[l] + Abs(Head(pending[l]).qty), filled[l],
                  Slice(exec, l))
        BY <3>1, <1>1, <2>4, <2>5, TrailTail
      <4> QED BY <4>1, <4>2
    <3>2. CASE l # k
      <4>1. pending'[l] = pending[l] /\ exec'.done[l] = exec.done[l]
        BY <3>2, <1>1, <1>4, <2>3 DEF TypeOK
      <4> QED BY <4>1, <2>5
    <3> QED BY <3>1, <3>2
  <2>7. pos' = pos /\ from' = from /\ filled' = filled
    BY <1>4
  <2> QED BY <2>2, <2>3, <2>6, <2>7 DEF LegOK
<1> QED BY <1>8, <1>9 DEF Inv, Account

LEMMA StepFeed == ASSUME Inv, HedgeFeed \/ UNCHANGED vars PROVE Inv'
<1>1. /\ UNCHANGED <<pos, inventory, pending, exec, from, filled, clean>>
      /\ stale' = ~stale \/ stale' = stale
  BY DEF HedgeFeed, vars
<1>2. stale' \in BOOLEAN
  BY <1>1, Zenon DEF Inv, TypeOK
<1>3. TypeOK'
  BY <1>1, <1>2 DEF Inv, TypeOK
<1>4. Account'
  BY <1>1 DEF Inv, Account, LegOK
<1> QED BY <1>3, <1>4 DEF Inv

\* The account of both legs holds throughout, for every multiplier, lot and lag.
THEOREM UnwindInvariant == Spec => []Inv
<1>1. Inv /\ [Next]_vars => Inv'
  <2> SUFFICES ASSUME Inv, [Next]_vars PROVE Inv'
    OBVIOUS
  <2> QED BY StepStart, StepSchedule, StepDispatch, StepFill, StepFeed DEF Next
<1> QED BY <1>1, InitInv, PTL DEF Spec

-----------------------------------------------------------------------------
\* The state of PairedUnwindExecutor, its streams and its venues is well typed (TypeOK).
THEOREM UnwindTypeCorrect == Spec => []TypeOK
BY UnwindInvariant, PTL DEF Inv

\* What a venue has taken off a leg is what it has executed for the executor.
LEMMA UnwoundIsFilled ==
  ASSUME Inv, exec # NoExec, clean, NEW l \in Legs
  PROVE  Unwound(exec, l) = filled[l]
<1>1. exec \in Execs /\ pos[l] \in Int /\ from[l] \in Int /\ filled[l] \in Nat
  BY DEF Inv, TypeOK
<1>2. Dir(exec, l) \in {1, -1}
  BY <1>1, ExecFacts
<1>3. pos[l] = from[l] - Dir(exec, l) * filled[l]
  BY DEF Inv, Account, LegOK
<1>4. Dir(exec, l) * filled[l] \in Int /\ Dir(exec, l) * (Dir(exec, l) * filled[l]) = filled[l]
  BY <1>1, <1>2, DirTimes
<1>5. from[l] - pos[l] = Dir(exec, l) * filled[l]
  BY <1>1, <1>3, <1>4
<1> QED BY <1>4, <1>5 DEF Unwound

\* A leg overshoots by at most a slice for every fill its stream is behind
\* (OvershootBounded).
THEOREM OvershootWithinLag == Spec => []OvershootBounded
<1>1. Inv => OvershootBounded
  <2> SUFFICES ASSUME Inv, exec # NoExec, clean, NEW l \in Legs
               PROVE  Unwound(exec, l) <= Target(exec, l) + (MaxLag - 1) * Slice(exec, l)
    BY DEF OvershootBounded
  <2>1. Unwound(exec, l) = filled[l]
    BY UnwoundIsFilled
  <2> QED BY <2>1 DEF Inv, Account, LegOK
<1> QED BY <1>1, UnwindInvariant, PTL

\* A dropped executor has really unwound both legs (DoneMeansUnwound).
THEOREM CompletionIsReal == Spec => DoneMeansUnwound
<1>1. Inv /\ [Next]_vars => [exec # NoExec /\ exec' = NoExec /\ clean =>
         \A l \in Legs : Unwound(exec, l) >= Target(exec, l)]_vars
  <2> SUFFICES ASSUME Inv, Next, exec # NoExec, exec' = NoExec, clean, NEW l \in Legs
               PROVE  Unwound(exec, l) >= Target(exec, l)
    OBVIOUS
  <2>1. exec \in Execs /\ TypeOK /\ LegOK(exec, l)
    BY DEF Inv, TypeOK, Account
  <2>2. ASSUME NEW d \in BOOLEAN, exec' = Scheduled(exec, d) PROVE FALSE
    <3>1. exec' \in Execs
      BY <2>1, <2>2, ScheduledFacts
    <3> QED BY <3>1, NoExecIsNone
  <2>3. PICK k \in Legs : OnFill(k)
    <3>1. ~ScheduleAdvances
      BY <2>2 DEF ScheduleAdvances
    <3>2. ~DispatchSlice
      BY <2>2 DEF DispatchSlice
    <3>3. ~StartUnwind /\ ~HedgeFeed
      BY DEF StartUnwind, HedgeFeed
    <3> QED BY <3>1, <3>2, <3>3 DEF Next
  <2> DEFINE e == Head(pending[k])
  <2>4. pending[k] # <<>> /\ pending[k] \in Seq(Fills)
    BY <2>1, <2>3 DEF OnFill, TypeOK
  <2>5. e.qty \in Int
    <3>1. e \in Fills
      BY <2>4, HeadTailProperties
    <3> QED BY <3>1 DEF Fills
  <2>6. Complete(Booked(exec, k, e.qty))
    <3>1. exec' = IF Complete(Booked(exec, k, e.qty)) THEN NoExec ELSE Booked(exec, k, e.qty)
      BY <2>3 DEF OnFill
    <3>2. Booked(exec, k, e.qty) \in Execs
      BY <2>1, <2>5, BookedFacts
    <3> QED BY <3>1, <3>2, NoExecIsNone
  <2> HIDE DEF e
  <2>7. /\ Booked(exec, k, e.qty).done[l] >= Target(exec, l)
        /\ Booked(exec, k, e.qty).done[l]
             = IF l = k THEN exec.done[l] + Abs(e.qty) ELSE exec.done[l]
    BY <2>1, <2>5, <2>6, BookedFacts DEF Complete
  <2>8. /\ exec.done[l] \in Nat /\ Slice(exec, l) \in Nat /\ Target(exec, l) \in Nat
        /\ filled[l] \in Nat /\ pending[l] \in Seq(Fills)
    BY <2>1, ExecFacts DEF TypeOK
  <2>9. /\ exec.done[l] <= filled[l]
        /\ pending[l] # <<>> => exec.done[l] + Abs(Head(pending[l]).qty) <= filled[l]
    <3>1. Trail(pending[l], exec.done[l], filled[l], Slice(exec, l))
      BY <2>1 DEF LegOK
    <3> QED BY <3>1, <2>8, TrailBounds
  <2>10. Booked(exec, k, e.qty).done[l] <= filled[l]
    <3>1. CASE l = k
      BY <3>1, <2>4, <2>7, <2>9 DEF e
    <3>2. CASE l # k
      BY <3>2, <2>7, <2>9
    <3> QED BY <3>1, <3>2
  <2>11. filled[l] >= Target(exec, l)
    <3>1. Booked(exec, k, e.qty).done[l] \in Nat
      <4>1. Abs(e.qty) \in Nat
        BY <2>5 DEF Abs
      <4> QED BY <4>1, <2>7, <2>8
    <3> QED BY <3>1, <2>7, <2>8, <2>10
  <2> QED BY <2>11, UnwoundIsFilled
<1> QED BY <1>1, UnwindInvariant, PTL DEF Spec, DoneMeansUnwound

=============================================================================
