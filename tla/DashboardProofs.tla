-------------------------- MODULE DashboardProofs --------------------------
(***************************************************************************)
(* Proofs about the two protocols that engines run through maps shared on  *)
(* DashboardState: Flatten, for every number of engines, slices and lots,  *)
(* and AtomicBundle, for every price grid, timeout and number of bundles.  *)
(***************************************************************************)
EXTENDS Flatten, AtomicBundle, FiniteSetTheorems, TLAPS

\* The rank in the waterfall is a natural number.
LEMMA RankIsNat ==
  ASSUME NEW prio \in [Symbols -> Nat], NEW s \in Symbols
  PROVE  Rank(prio, s) \in Nat
<1> DEFINE R == {o \in Symbols \ {s} :
                   /\ prio[o] > 0
                   /\ prio[o] > prio[s] \/ (prio[o] = prio[s] /\ o < s)}
<1>1. IsFiniteSet(Symbols) BY FlattenAssumption
<1>2. IsFiniteSet(R) BY <1>1, FS_Subset
<1>3. Cardinality(R) \in Nat BY <1>2, FS_CardinalityType
<1> QED BY <1>3 DEF Rank

\* flatten_priority_rank is a strict ranking of the registered engines: of two of them, the
\* one with the larger drawdown comes first, the smaller name on a tie, so that no two
\* share a start delay that was taken from the same map.
THEOREM RanksAreStrict ==
  ASSUME NEW prio \in [Symbols -> Nat], NEW a \in Symbols, NEW b \in Symbols,
         prio[a] > 0, prio[a] > prio[b] \/ (prio[a] = prio[b] /\ a < b)
  PROVE  Rank(prio, a) < Rank(prio, b)
<1> DEFINE R(s) == {o \in Symbols \ {s} :
                      /\ prio[o] > 0
                      /\ prio[o] > prio[s] \/ (prio[o] = prio[s] /\ o < s)}
<1>1. IsFiniteSet(Symbols) /\ Symbols \subseteq Nat  BY FlattenAssumption
<1>2. \A o \in Symbols : o \in Nat /\ prio[o] \in Nat  BY <1>1
<1>3. IsFiniteSet(R(a)) /\ IsFiniteSet(R(b))  BY <1>1, FS_Subset
<1>4. a \notin R(a)  OBVIOUS
<1>5. a \in R(b)  BY <1>2
<1>6. \A o \in R(a) : o \in R(b)  BY <1>2
<1> HIDE DEF R
<1>7. IsFiniteSet(R(a) \cup {a}) /\ Cardinality(R(a) \cup {a}) = Cardinality(R(a)) + 1
  BY <1>3, <1>4, FS_AddElement
<1>8. R(a) \cup {a} \subseteq R(b)  BY <1>5, <1>6
<1>9. Cardinality(R(a) \cup {a}) <= Cardinality(R(b))  BY <1>3, <1>8, FS_Subset
<1>10. Cardinality(R(a)) \in Nat /\ Cardinality(R(b)) \in Nat
  BY <1>3, FS_CardinalityType
<1>11. Cardinality(R(a)) < Cardinality(R(b))  BY <1>7, <1>9, <1>10
<1> QED  BY <1>11 DEF Rank, R

\* Two integers on the same side of zero have a non-negative product.
LEMMA SameSign ==
  ASSUME NEW a \in Int, NEW b \in Int,
         (a >= 0 /\ b >= 0) \/ (a <= 0 /\ b <= 0)
  PROVE  a * b >= 0
OBVIOUS

\* An executor is a record with a side; NoTwap is not.
LEMMA ExecutorShape ==
  ASSUME NEW x \in Twaps, x # NoTwap
  PROVE  x \in [target : Nat, side : {1, -1}, executed : Nat,
                current : Nat, elapsed : Int]
BY DEF Twaps

\* The slice schedule yields a slice number, whatever the elapsed time.
LEMMA ExpectedSliceIsNat ==
  ASSUME NEW e \in Int
  PROVE  ExpectedSlice(e) \in Nat
<1>1. e % U64 \in Nat BY FlattenAssumption
<1>2. ((e % U64) * NumSlices) % U64 \in Nat BY <1>1, FlattenAssumption
<1>3. (((e % U64) * NumSlices) % U64) \div DurationSecs \in Nat
  BY <1>2, FlattenAssumption
<1> QED BY <1>3, FlattenAssumption DEF ExpectedSlice

\* A fill is a natural number, and a reduce-only one stays within the position.
LEMMA FillableBounds ==
  ASSUME NEW reduce \in BOOLEAN, NEW p \in Int, NEW side \in {1, -1}, NEW q \in Int,
         NEW n \in Fillable(reduce, p, side, q)
  PROVE  /\ n \in Nat
         /\ reduce /\ n > 0 => side * p > 0 /\ n <= Abs(p)
BY DEF Fillable, MinOf, Abs

\* The schedule reduction keeps an executor well formed.
LEMMA NormalShape ==
  ASSUME NEW x \in [target : Nat, side : {1, -1}, executed : Nat,
                    current : Nat, elapsed : Int]
  PROVE  Normal(x) \in [target : Nat, side : {1, -1}, executed : Nat,
                        current : Nat, elapsed : Int]
BY FlattenAssumption DEF Normal, At

\* Type correctness of the flatten path: tick_second, TwapExecutor and the
\* waterfall map keep well-formed state, for every number of engines.
THEOREM FlattenTypeCorrect == Spec => []TypeOK
<1>1. Init => TypeOK
  <2> SUFFICES ASSUME Init PROVE TypeOK OBVIOUS
  <2>1. Positions \subseteq Int
    <3>1. Lot \in Int /\ -MaxPosition .. MaxPosition \subseteq Int BY FlattenAssumption
    <3>2. ASSUME NEW k \in -MaxPosition .. MaxPosition PROVE Lot * k \in Int
      BY <3>1, <3>2
    <3> QED BY <3>2 DEF Positions
  <2>2. pending \in [Symbols -> Seq(Int)]
    <3>1. \A t \in Symbols : position[t] \in Int /\ inventory[t] \in Int BY <2>1 DEF Init
    <3> DEFINE first(t) == IF position[t] = inventory[t] THEN <<>>
                           ELSE <<position[t] - inventory[t]>>
    <3>2. ASSUME NEW t \in Symbols PROVE first(t) \in Seq(Int)
      <4>1. position[t] - inventory[t] \in Int BY <3>1
      <4> QED BY <4>1
    <3>3. pending = [t \in Symbols |-> first(t)] BY DEF Init
    <3>4. \A t \in Symbols : first(t) \in Seq(Int) BY <3>2
    <3> QED BY <3>3, <3>4, Zenon
  <2>3. position \in [Symbols -> Int] /\ inventory \in [Symbols -> Int]
    BY <2>1 DEF Init
  <2> QED BY <2>2, <2>3 DEF Init, TypeOK, Twaps, NoSlice
<1>2. TypeOK /\ [Next]_vars => TypeOK'
  <2> SUFFICES ASSUME TypeOK, [Next]_vars PROVE TypeOK' OBVIOUS
  <2>1. ASSUME NEW s \in Symbols, StartFlatten(s) PROVE TypeOK'
    <3> DEFINE inv == inventory[s]
               prio == [priorities EXCEPT ![s] = Abs(inv)]
               x == [target |-> Abs(inv), side |-> IF inv > 0 THEN 1 ELSE -1,
                     executed |-> 0, current |-> 0,
                     elapsed |-> -(Rank(prio, s) * StaggerSecs)]
    <3>1. inv \in Int /\ Abs(inv) \in Nat BY DEF TypeOK, Abs
    <3>2. prio \in [Symbols -> Nat] BY <3>1 DEF TypeOK
    <3> HIDE DEF prio
    <3>3. Rank(prio, s) \in Nat BY <3>2, RankIsNat
    <3>3a. -(Rank(prio, s) * StaggerSecs) \in Int BY <3>3, FlattenAssumption
    <3>4. x \in Twaps BY <3>1, <3>3a DEF Twaps
    <3>5. twap' = [twap EXCEPT ![s] = x] /\ priorities' = prio
      BY <2>1 DEF StartFlatten, prio
    <3> QED BY <2>1, <3>2, <3>4, <3>5 DEF StartFlatten, TypeOK, NoSlice
  <2>2. ASSUME NEW s \in Symbols, TickSlice(s) PROVE TypeOK'
    <3> DEFINE x == twap[s]
               now == x.elapsed + 1
               expected == ExpectedSlice(now)
               due == x.current < expected
               y == At(x, IF due THEN expected ELSE x.current, now)
               R == [target : Nat, side : {1, -1}, executed : Nat,
                     current : Nat, elapsed : Int]
    <3>1. twap[s] \in R BY <2>2, ExecutorShape DEF TickSlice, TypeOK
    <3>2. x.target \in Nat /\ x.side \in {1, -1} /\ x.executed \in Nat
          /\ x.current \in Nat /\ now \in Int BY <3>1
    <3>3. expected \in Nat BY <3>2, ExpectedSliceIsNat
    <3>4. y \in R BY <3>2, <3>3 DEF At
    <3>4a. Normal(y) \in R BY <3>4, NormalShape
    <3>5. twap' \in [Symbols -> Twaps]
      BY <2>2, <3>4a DEF TickSlice, TypeOK, Twaps
    <3>6. sliceAt' \in [Symbols -> Int] BY <2>2, <3>2 DEF TickSlice, TypeOK
    <3>7. position' \in [Symbols -> Int] /\ pending' \in [Symbols -> Seq(Int)]
      <4>1. CASE due /\ SliceQty(x) > 0
        <5>1. SliceQty(x) \in Int
          BY <3>2, FlattenAssumption DEF SliceQty, RoundQty, MinOf, Remaining
        <5>2. PICK n \in Fillable(ReduceOnly(s), position[s], x.side, SliceQty(x)) :
                /\ position' = [position EXCEPT ![s] = @ - x.side * n]
                /\ pending' = IF n = 0 THEN pending
                              ELSE [pending EXCEPT ![s] = Append(@, -x.side * n)]
          BY <2>2, <4>1 DEF TickSlice
        <5>3. n \in Nat BY <5>1, <5>2, <3>2, FillableBounds DEF TypeOK, ReduceOnly
        <5>4. x.side * n \in Int /\ -x.side * n \in Int BY <5>3, <3>2
        <5> QED BY <5>2, <5>4 DEF TypeOK
      <4>2. CASE ~(due /\ SliceQty(x) > 0)
        BY <2>2, <4>2 DEF TickSlice, TypeOK
      <4> QED BY <4>1, <4>2
    <3> QED BY <2>2, <3>5, <3>6, <3>7 DEF TickSlice, TypeOK
  <2>3. ASSUME NEW s \in Symbols, OnFill(s) PROVE TypeOK'
    <3> DEFINE n == Head(pending[s])
               x == Booked(twap[s], Abs(n))
    <3>1. n \in Int BY <2>3 DEF OnFill, TypeOK
    <3>2. Abs(n) \in Nat BY <3>1 DEF Abs
    <3>3. inventory' \in [Symbols -> Int] BY <2>3, <3>1 DEF OnFill, TypeOK
    <3>4. pending' \in [Symbols -> Seq(Int)] BY <2>3 DEF OnFill, TypeOK
    <3>5. twap[s] # NoTwap => x \in Twaps
      BY <3>2, ExecutorShape DEF TypeOK, Twaps, Booked
    <3>6. twap' \in [Symbols -> Twaps]
      BY <2>3, <3>5 DEF OnFill, TypeOK, Twaps
    <3> QED BY <2>3, <3>3, <3>4, <3>6 DEF OnFill, TypeOK
  <2>4. CASE UNCHANGED vars BY <2>4 DEF vars, TypeOK
  <2> QED BY <2>1, <2>2, <2>3, <2>4 DEF Next
<1> QED BY <1>1, <1>2, PTL DEF Spec

\* A perp flatten never turns a position around, for every number of engines,
\* every slice plan and every delay of the fills (execute_reduce_slice).
THEOREM PerpNeverFlips == Spec => NeverFlips
<1>1. TypeOK /\ [Next]_vars
      => [\A s \in Symbols : perp[s] => position[s] * position'[s] >= 0]_vars
  <2> SUFFICES ASSUME TypeOK, Next, NEW r \in Symbols, perp[r]
               PROVE  position[r] * position'[r] >= 0
    OBVIOUS
  <2>0. position[r] \in Int BY DEF TypeOK
  <2>0a. position[r] * position[r] >= 0 BY <2>0, SameSign
  <2>1. ASSUME NEW s \in Symbols, StartFlatten(s) PROVE position' = position
    BY <2>1 DEF StartFlatten
  <2>2. ASSUME NEW s \in Symbols, OnFill(s) PROVE position' = position
    BY <2>2 DEF OnFill
  <2>3. ASSUME NEW s \in Symbols, TickSlice(s)
        PROVE  position[r] * position'[r] >= 0
    <3> DEFINE x == twap[s]
    <3>0. twap[s] \in Twaps /\ twap[s] # NoTwap BY <2>3 DEF TickSlice, TypeOK
    <3>1. x \in [target : Nat, side : {1, -1}, executed : Nat,
                 current : Nat, elapsed : Int]
      BY <3>0, ExecutorShape
    <3>1a. x.side \in {1, -1} BY <3>1
    <3>2. CASE position' = position BY <3>2, <2>0a
    <3>3. CASE position' # position
      <4>1. SliceQty(x) \in Int
        BY <3>1, FlattenAssumption DEF SliceQty, RoundQty, MinOf, Remaining
      <4>2. PICK n \in Fillable(ReduceOnly(s), position[s], x.side, SliceQty(x)) :
              position' = [position EXCEPT ![s] = @ - x.side * n]
        BY <2>3, <3>3 DEF TickSlice
      <4>3. /\ n \in Nat
            /\ perp[s] /\ n > 0 => x.side * position[s] > 0 /\ n <= Abs(position[s])
        BY <4>1, <4>2, <3>1a, FillableBounds DEF TypeOK, ReduceOnly
      <4>4. CASE r # s BY <4>2, <4>4, <2>0a DEF TypeOK
      <4>5. CASE r = s
        <5> DEFINE p == position[s]
        <5>1. p \in Int /\ position'[s] = p - x.side * n
          BY <4>2, <4>3, <3>1a DEF TypeOK
        <5>2. CASE n = 0 BY <5>1, <5>2, <3>1a, <4>5, <2>0a
        <5>3. CASE n > 0
          <6>1. CASE x.side = 1
            <7>1. p > 0 /\ p - n >= 0 BY <4>3, <4>5, <5>1, <5>3, <6>1 DEF Abs
            <7>2. position'[s] = p - n BY <5>1, <6>1, <4>3
            <7> QED BY <7>1, <7>2, <4>5, <5>1, <4>3, SameSign
          <6>2. CASE x.side = -1
            <7>1. p < 0 /\ p + n =< 0 BY <4>3, <4>5, <5>1, <5>3, <6>2 DEF Abs
            <7>2. position'[s] = p + n BY <5>1, <6>2, <4>3
            <7> QED BY <7>1, <7>2, <4>5, <5>1, <4>3, SameSign
          <6> QED BY <6>1, <6>2, <3>1a
        <5> QED BY <5>2, <5>3, <4>3
      <4> QED BY <4>4, <4>5
    <3> QED BY <3>2, <3>3
  <2> QED BY <2>0a, <2>1, <2>2, <2>3 DEF Next
<1> QED BY <1>1, FlattenTypeCorrect, PTL DEF Spec, NeverFlips
-----------------------------------------------------------------------------
(* AtomicBundle.  The other protocol that two engines run through the         *)
(* dashboard's shared maps; it shares no constant and no variable with Flatten. *)

\* A multiple of t leaves no remainder.
LEMMA MultipleMod ==
  ASSUME NEW k \in Nat, NEW t \in Nat \ {0}
  PROVE  k * t \in Nat /\ (k * t) % t = 0
<1> DEFINE n == k * t
           d == n \div t
           m == n % t
<1>1. n \in Nat  OBVIOUS
<1>2. d \in Int /\ m \in Int /\ 0 <= m /\ m < t /\ n = t * d + m
  <2> HIDE DEF n
  <2> QED  BY <1>1
<1> HIDE DEF d, m
<1>3. m = t * (k - d)  BY <1>2
<1>4. k - d = 0
  <2>1. CASE k - d >= 1
    <3>1. t * (k - d) >= t  BY <2>1, <1>2
    <3> QED  BY <3>1, <1>2, <1>3
  <2>2. CASE k - d <= -1
    <3>1. t * (k - d) <= -t  BY <2>2, <1>2
    <3> QED  BY <3>1, <1>2, <1>3
  <2> QED  BY <1>2, <2>1, <2>2
<1>5. m = 0  BY <1>2, <1>3, <1>4
<1> QED  BY <1>1, <1>5 DEF m

\* round_price puts every price on the tick.
LEMMA RoundedOnTick ==
  ASSUME NEW p \in Nat
  PROVE  RoundPrice(p) \in OnTick /\ RoundPrice(p) \in Nat
<1>1. Tick \in Nat \ {0}  BY BundleAssumption
<1>2. p \div Tick \in Nat  BY <1>1
<1>3. (p \div Tick) * Tick \in Nat /\ ((p \div Tick) * Tick) % Tick = 0
  BY <1>1, <1>2, MultipleMod
<1> QED  BY <1>3 DEF RoundPrice, OnTick

\* What an engine quotes from an override on the tick is on the tick.
LEMMA QuotedOnTick ==
  ASSUME NEW o \in OnTick, NEW q \in Quoted(o)
  PROVE  q \in OnTick
<1>1. None \in OnTick  BY DEF OnTick
<1>2. \A p \in StrategyPrices : RoundPrice(p) \in OnTick
  BY RoundedOnTick, BundleAssumption
<1> QED  BY <1>1, <1>2 DEF Quoted

\* The originator's record and the shared map are of the same bundle.
Paired ==
  /\ inflight.on = legs.on
  /\ inflight.on => inflight.price = legs.price
  /\ ~inflight.on => inflight.acked = {} /\ legs.acked = {}

\* A leg that is live at the registered price has been seen there.
LiveIsSeen ==
  inflight.on => \A r \in Roles : Near(live[r], inflight.price) => r \in seen

\* Acks, and a match the sibling is about to ack, are of legs seen for this bundle.
AckedWasSeen ==
  inflight.on /\ ~raced =>
    /\ inflight.acked \subseteq seen /\ legs.acked \subseteq seen
    /\ found => "hedge" \in seen

BundleInv == BundleTypeOK /\ Paired /\ LiveIsSeen /\ AckedWasSeen

Records == [on : BOOLEAN, price : Nat, age : 0 .. Timeout, acked : SUBSET Roles]
Entries == [on : BOOLEAN, price : Nat, acked : SUBSET Roles]

\* BundleTypeOK in two parts: each is within the reach of one prover.
BundleFlags == sweeping \in BOOLEAN /\ found \in BOOLEAN /\ raced \in BOOLEAN

BundleFigures ==
  /\ inflight \in Records /\ legs \in Entries
  /\ override \in [Roles -> OnTick] /\ live \in [Roles -> OnTick]
  /\ mail \in Seq(Nat)
  /\ emits \in 0 .. MaxEmits /\ completed \in Nat /\ seen \subseteq Roles

LEMMA BundleSplit == BundleTypeOK <=> BundleFlags /\ BundleFigures
BY Zenon DEF BundleTypeOK, BundleFlags, BundleFigures, Records, Entries

LEMMA BundleSplitPrime == BundleTypeOK' <=> BundleFlags' /\ BundleFigures'
BY Zenon DEF BundleTypeOK, BundleFlags, BundleFigures, Records, Entries

LEMMA BundleTypes ==
  ASSUME BundleTypeOK
  PROVE  /\ inflight \in Records /\ legs \in Entries
         /\ inflight.on \in BOOLEAN /\ inflight.price \in Nat /\ inflight.age \in 0 .. Timeout
         /\ inflight.acked \subseteq Roles
         /\ legs.on \in BOOLEAN /\ legs.price \in Nat /\ legs.acked \subseteq Roles
         /\ override \in [Roles -> OnTick]
         /\ live \in [Roles -> OnTick]
         /\ mail \in Seq(Nat) /\ sweeping \in BOOLEAN /\ found \in BOOLEAN
         /\ emits \in 0 .. MaxEmits /\ completed \in Nat /\ seen \subseteq Roles
         /\ raced \in BOOLEAN
<1>1. inflight \in Records /\ legs \in Entries
  BY DEF BundleTypeOK, Records, Entries
<1>2. /\ inflight.on \in BOOLEAN /\ inflight.price \in Nat /\ inflight.age \in 0 .. Timeout
      /\ inflight.acked \subseteq Roles
      /\ legs.on \in BOOLEAN /\ legs.price \in Nat /\ legs.acked \subseteq Roles
  BY <1>1 DEF Records, Entries
<1>3. /\ override \in [Roles -> OnTick] /\ live \in [Roles -> OnTick]
      /\ mail \in Seq(Nat) /\ emits \in 0 .. MaxEmits /\ completed \in Nat
      /\ seen \subseteq Roles
  BY DEF BundleTypeOK
<1>4. sweeping \in BOOLEAN /\ found \in BOOLEAN /\ raced \in BOOLEAN
  BY Zenon DEF BundleTypeOK
<1> QED  BY <1>1, <1>2, <1>3, <1>4

LEMMA BundleStart == ASSUME BundleInit PROVE BundleInv
<1>1. None \in OnTick  BY DEF OnTick
<1>2. BundleTypeOK
  <2>1. BundleFlags  BY Zenon DEF BundleInit, BundleFlags
  <2>2. BundleFigures
    BY <1>1, BundleAssumption DEF BundleInit, BundleFigures, NoBundle,
                NoLegs, Records, Entries
  <2> QED  BY <2>1, <2>2, BundleSplit
<1>3. Paired /\ LiveIsSeen /\ AckedWasSeen
  BY DEF BundleInit, NoBundle, NoLegs, Paired, LiveIsSeen, AckedWasSeen
<1> QED  BY <1>2, <1>3 DEF BundleInv

\* The sweep counts only legs that were seen.
LEMMA AckedFacts ==
  ASSUME BundleInv
  PROVE  /\ Acked \subseteq Roles
         /\ inflight.on /\ ~raced => Acked \subseteq seen
<1>1. "maker" \in Roles  BY DEF Roles
<1>2. inflight.acked \subseteq Roles /\ legs.acked \subseteq Roles
  BY BundleTypes DEF BundleInv
<1>3. Acked \subseteq Roles  BY <1>1, <1>2 DEF Acked
<1>4. ASSUME inflight.on, ~raced PROVE Acked \subseteq seen
  BY <1>1, <1>4 DEF BundleInv, AckedWasSeen, LiveIsSeen, Acked
<1> QED  BY <1>3, <1>4

\* What sweep and watchdog leave behind is again one bundle, or none.
LEMMA SweptFacts ==
  ASSUME BundleInv
  PROVE  LET s == Swept
             e == SweptLegs
         IN /\ s \in Records /\ e \in Entries
            /\ s.on = e.on
            /\ s.on => inflight.on /\ s.price = inflight.price /\ e.price = inflight.price
            /\ ~s.on => s.acked = {} /\ e.acked = {}
            /\ s.on /\ ~raced => s.acked \subseteq seen /\ e.acked \subseteq seen
<1> DEFINE s == Swept
           e == SweptLegs
<1>0. /\ inflight \in Records /\ legs \in Entries
      /\ inflight.on \in BOOLEAN /\ inflight.price \in Nat /\ inflight.age \in 0 .. Timeout
      /\ legs.on \in BOOLEAN /\ legs.price \in Nat /\ legs.acked \subseteq Roles
  BY BundleTypes DEF BundleInv
<1>1. inflight.on = legs.on /\ (inflight.on => inflight.price = legs.price)
      /\ (~inflight.on => inflight.acked = {} /\ legs.acked = {})
  BY DEF BundleInv, Paired
<1>2. "maker" \in Roles  BY DEF Roles
<1>3. CASE Retired
  <2>1. s = NoBundle /\ e = NoLegs
    BY <1>3 DEF Swept, SweptLegs
  <2>2. NoBundle \in Records /\ NoLegs \in Entries
    BY BundleAssumption DEF NoBundle, NoLegs, Records, Entries
  <2> QED  BY <2>1, <2>2 DEF NoBundle, NoLegs
<1>4. CASE ~Retired /\ ~inflight.on
  <2>1. s = inflight /\ e = legs
    BY <1>1, <1>4 DEF Swept, SweptLegs
  <2> QED  BY <1>0, <1>1, <1>4, <2>1
<1>5. CASE ~Retired /\ inflight.on
  <2> DEFINE here == {r \in {"maker"} : Near(live[r], legs.price)}
  <2>1. s = [on |-> TRUE, price |-> inflight.price, age |-> inflight.age,
             acked |-> Acked]
    BY <1>5 DEF Swept
  <2>2. e = [on |-> TRUE, price |-> legs.price, acked |-> legs.acked \cup here]
    BY <1>1, <1>5 DEF SweptLegs
  <2>3. here \subseteq Roles /\ here \subseteq seen
    BY <1>1, <1>2, <1>5 DEF BundleInv, LiveIsSeen
  <2> HIDE DEF here
  <2>4. s \in Records  BY <1>0, <2>1, AckedFacts DEF Records
  <2>5. e \in Entries  BY <1>0, <2>2, <2>3 DEF Entries
  <2>6. /\ s.on = TRUE /\ s.price = inflight.price /\ s.acked = Acked
        /\ e.on = TRUE /\ e.price = legs.price /\ e.acked = legs.acked \cup here
    BY <2>1, <2>2
  <2>7. ~raced => legs.acked \subseteq seen
    BY <1>5 DEF BundleInv, AckedWasSeen
  <2> QED  BY <1>1, <1>5, <2>3, <2>4, <2>5, <2>6, <2>7, AckedFacts
<1> QED  BY <1>3, <1>4, <1>5

\* The originator's refresh: a new bundle forgets what was seen, found or acked.
LEMMA OriginatorStep ==
  ASSUME BundleInv, RefreshOriginator
  PROVE  BundleInv' /\ (completed' # completed => seen = Roles \/ raced)
<1> DEFINE s == Swept
           e == SweptLegs
<1>0. /\ override \in [Roles -> OnTick]
      /\ live \in [Roles -> OnTick] /\ mail \in Seq(Nat)
      /\ found \in BOOLEAN /\ sweeping \in BOOLEAN /\ raced \in BOOLEAN
      /\ emits \in 0 .. MaxEmits /\ completed \in Nat /\ seen \subseteq Roles
      /\ MaxEmits \in Nat /\ Prices \subseteq Nat
  BY BundleTypes, BundleAssumption DEF BundleInv
<1>1. /\ s \in Records /\ e \in Entries
      /\ s.on = e.on
      /\ s.on => inflight.on /\ s.price = inflight.price /\ e.price = inflight.price
      /\ ~s.on => s.acked = {} /\ e.acked = {}
      /\ s.on /\ ~raced => s.acked \subseteq seen /\ e.acked \subseteq seen
  BY SweptFacts
<1> HIDE DEF s, e
<1>2. completed' \in Nat
  BY <1>0 DEF RefreshOriginator
<1>3. UNCHANGED <<sweeping, found>>  BY DEF RefreshOriginator
<1>4. PICK p \in Prices \cup {None} :
        LET o == IF p = None THEN Pending ELSE RoundPrice(p) IN
        /\ EmitBundle(p)
        /\ \/ /\ override' = [override EXCEPT !["maker"] = o]
              /\ UNCHANGED live
           \/ \E q \in Quoted(o) :
                /\ override' = [override EXCEPT !["maker"] = None]
                /\ live' = [live EXCEPT !["maker"] = q]
        /\ seen' = SeenNow(IF p = None THEN seen ELSE {})
  BY DEF RefreshOriginator
<1> DEFINE o == IF p = None THEN Pending ELSE RoundPrice(p)
<1>5. "maker" \in Roles /\ None \in OnTick
  BY DEF Roles, OnTick
<1>6. o \in OnTick
  <2>1. CASE p = None
    BY <2>1, <1>0, <1>5 DEF Pending
  <2>2. CASE p # None
    BY <2>2, <1>0, RoundedOnTick
  <2> QED  BY <2>1, <2>2
<1>7. /\ override' \in [Roles -> OnTick]
      /\ live' \in [Roles -> OnTick]
  BY <1>0, <1>4, <1>5, <1>6, QuotedOnTick
<1>8. seen' = (IF p = None THEN seen ELSE {})
               \cup {r \in Roles : inflight'.on /\ Near(live'[r], inflight'.price)}
  BY <1>4 DEF SeenNow
<1>9. seen' \subseteq Roles  BY <1>0, <1>8
<1>10. LiveIsSeen'  BY <1>8 DEF LiveIsSeen
<1>11. /\ inflight' \in Records /\ legs' \in Entries /\ mail' \in Seq(Nat)
       /\ emits' \in 0 .. MaxEmits /\ raced' \in BOOLEAN
       /\ Paired' /\ AckedWasSeen'
  <2>1. CASE p = None
    <3>1. inflight' = s /\ legs' = e /\ UNCHANGED <<mail, emits, raced>>
      BY <1>4, <2>1 DEF EmitBundle, s, e
    <3>2. seen \subseteq seen'  BY <1>8, <2>1
    <3>3. Paired'  BY <1>1, <3>1 DEF Paired
    <3>4. AckedWasSeen'
      BY <1>1, <1>3, <3>1, <3>2 DEF BundleInv, AckedWasSeen
    <3> QED  BY <1>0, <1>1, <3>1, <3>3, <3>4
  <2>2. CASE p # None
    <3>1. /\ emits < MaxEmits /\ emits' = emits + 1
          /\ inflight' = [on |-> TRUE, price |-> p, age |-> 0, acked |-> {}]
          /\ legs' = [on |-> TRUE, price |-> p, acked |-> {}]
          /\ mail' = Append(mail, p) /\ raced' = found
      BY <1>4, <2>2 DEF EmitBundle, Registered
    <3>2. p \in Nat  BY <1>0, <2>2
    <3>3. inflight' \in Records /\ legs' \in Entries
      BY <3>1, <3>2, BundleAssumption DEF Records, Entries
    <3>4. mail' \in Seq(Nat) /\ emits' \in 0 .. MaxEmits
      BY <1>0, <3>1, <3>2
    <3>5. raced' \in BOOLEAN  BY <1>0, <3>1
    <3>6. Paired'  BY <3>1 DEF Paired
    <3>7. AckedWasSeen'
      <4>1. ~raced' => ~found'  BY <1>3, <3>1
      <4>2. inflight'.acked = {} /\ legs'.acked = {}  BY <3>1
      <4> QED  BY <4>1, <4>2 DEF AckedWasSeen
    <3> QED  BY <3>3, <3>4, <3>5, <3>6, <3>7
  <2> QED  BY <2>1, <2>2
<1>12. BundleTypeOK'
  <2>1. BundleFlags'  BY <1>0, <1>3, <1>11 DEF BundleFlags
  <2>2. BundleFigures'  BY <1>2, <1>7, <1>9, <1>11 DEF BundleFigures
  <2> QED  BY <2>1, <2>2, BundleSplitPrime
<1>13. ASSUME completed' # completed, ~raced PROVE seen = Roles
  <2>1. inflight.on /\ Acked = Roles
    BY <1>13 DEF RefreshOriginator
  <2> QED  BY <1>0, <1>13, <2>1, AckedFacts
<1> QED  BY <1>10, <1>11, <1>12, <1>13 DEF BundleInv

\* The sibling's ack is of the bundle its look-up saw, unless that was replaced.
LEMMA SiblingStep ==
  ASSUME BundleInv, RefreshSibling
  PROVE  BundleInv' /\ completed' = completed
<1>0. /\ inflight \in Records /\ legs \in Entries /\ legs.on \in BOOLEAN
      /\ legs.price \in Nat /\ legs.acked \subseteq Roles
      /\ override \in [Roles -> OnTick]
      /\ live \in [Roles -> OnTick] /\ mail \in Seq(Nat)
      /\ raced \in BOOLEAN /\ seen \subseteq Roles
      /\ emits \in 0 .. MaxEmits /\ completed \in Nat
  BY BundleTypes DEF BundleInv
<1>1. /\ sweeping' = FALSE /\ found' = FALSE
      /\ legs' = IF found /\ legs.on
                 THEN [on |-> TRUE, price |-> legs.price, acked |-> legs.acked \cup {"hedge"}]
                 ELSE legs
      /\ inflight' = inflight /\ mail' = mail /\ emits' = emits /\ completed' = completed
      /\ raced' = raced
      /\ seen' = SeenNow(seen)
  BY DEF RefreshSibling
<1>2. "hedge" \in Roles /\ None \in OnTick
  BY DEF Roles, OnTick
<1>3. /\ override' \in [Roles -> OnTick]
      /\ live' \in [Roles -> OnTick]
  BY <1>0, <1>2, QuotedOnTick DEF RefreshSibling
<1>4. seen' = seen \cup {r \in Roles :
                           inflight'.on /\ Near(live'[r], inflight'.price)}
  BY <1>1 DEF SeenNow
<1>5. seen' \subseteq Roles /\ seen \subseteq seen'  BY <1>0, <1>4
<1>6. LiveIsSeen'  BY <1>4 DEF LiveIsSeen
<1>7. /\ legs' \in Entries /\ Paired' /\ AckedWasSeen'
  <2>1. CASE found /\ legs.on
    <3>1. legs' = [on |-> TRUE, price |-> legs.price, acked |-> legs.acked \cup {"hedge"}]
      BY <1>1, <2>1
    <3>2. legs' \in Entries  BY <1>0, <1>2, <3>1 DEF Entries
    <3>3. legs'.on = TRUE /\ legs'.price = legs.price /\ legs'.acked = legs.acked \cup {"hedge"}
      BY <3>1
    <3>4. inflight.on /\ inflight.price = legs.price
      BY <2>1 DEF BundleInv, Paired
    <3>5. Paired'  BY <1>0, <1>1, <2>1, <3>3, <3>4 DEF BundleInv, Paired
    <3>6. AckedWasSeen'
      BY <1>1, <1>5, <2>1, <3>3, <3>4 DEF BundleInv, AckedWasSeen
    <3> QED  BY <3>2, <3>5, <3>6
  <2>2. CASE ~(found /\ legs.on)
    <3>1. legs' = legs  BY <1>1, <2>2
    <3> QED  BY <1>0, <1>1, <1>5, <3>1 DEF BundleInv, Paired, AckedWasSeen
  <2> QED  BY <2>1, <2>2
<1>8. BundleTypeOK'
  <2>1. BundleFlags'  BY <1>0, <1>1, Zenon DEF BundleFlags
  <2>2. BundleFigures'  BY <1>0, <1>1, <1>3, <1>5, <1>7 DEF BundleFigures
  <2> QED  BY <2>1, <2>2, BundleSplitPrime
<1> QED  BY <1>1, <1>6, <1>7, <1>8 DEF BundleInv

\* The mail, the look-up, fills and time.
LEMMA OtherBundleSteps ==
  ASSUME BundleInv,
         \/ Deliver \/ LookUp \/ Elapse
         \/ \E r \in Roles : Gone(r)
         \/ UNCHANGED bundleVars
  PROVE  BundleInv' /\ completed' = completed
<1> USE DEF BundleInv
<1>0. BundleFlags /\ BundleFigures  BY BundleSplit
<1>1. CASE Deliver
  <2>1. /\ mail # <<>> /\ mail' = Tail(mail)
        /\ override' = [override EXCEPT !["hedge"] = RoundPrice(Head(mail))]
        /\ UNCHANGED <<inflight, legs, live, sweeping, found, emits, completed, seen, raced>>
    BY <1>1 DEF Deliver
  <2>2. Head(mail) \in Nat /\ mail' \in Seq(Nat)  BY <1>0, <2>1 DEF BundleFigures
  <2>3. override' \in [Roles -> OnTick]
    BY <1>0, <2>1, <2>2, RoundedOnTick DEF BundleFigures
  <2>4. BundleFlags'  BY <1>0, <2>1, Zenon DEF BundleFlags
  <2>5. BundleFigures'  BY <1>0, <2>1, <2>2, <2>3 DEF BundleFigures
  <2>6. Paired' /\ LiveIsSeen' /\ AckedWasSeen'
    BY <2>1 DEF Paired, LiveIsSeen, AckedWasSeen
  <2> QED  BY <2>1, <2>4, <2>5, <2>6, BundleSplitPrime
<1>2. CASE LookUp
  <2>1. /\ sweeping' = TRUE
        /\ found' = (legs.on /\ "hedge" \notin legs.acked
                             /\ Near(live["hedge"], legs.price))
        /\ UNCHANGED <<inflight, legs, override, mail, live, emits, completed, seen, raced>>
    BY <1>2 DEF LookUp
  <2>2. found' \in BOOLEAN  BY <2>1
  <2>3. BundleFlags'  BY <1>0, <2>1, <2>2, Zenon DEF BundleFlags
  <2>4. BundleFigures'  BY <1>0, <2>1 DEF BundleFigures
  <2>5. "hedge" \in Roles  BY DEF Roles
  <2>6. ASSUME found', inflight.on PROVE "hedge" \in seen
    BY <2>1, <2>5, <2>6 DEF Paired, LiveIsSeen
  <2>7. Paired' /\ LiveIsSeen' /\ AckedWasSeen'
    BY <2>1, <2>6 DEF Paired, LiveIsSeen, AckedWasSeen
  <2> QED  BY <2>1, <2>3, <2>4, <2>7, BundleSplitPrime
<1>3. CASE Elapse
  <2>1. /\ inflight.on /\ inflight.age < Timeout
        /\ inflight' = [inflight EXCEPT !.age = @ + 1]
        /\ UNCHANGED <<legs, override, mail, live, sweeping, found, emits, completed, seen,
                       raced>>
    BY <1>3 DEF Elapse
  <2>2. /\ inflight' \in Records /\ inflight'.on = inflight.on
        /\ inflight'.price = inflight.price /\ inflight'.acked = inflight.acked
    <3>1. inflight \in Records /\ inflight.age \in 0 .. Timeout /\ Timeout \in Nat
      BY BundleTypes, BundleAssumption
    <3>2. inflight.age + 1 \in 0 .. Timeout  BY <2>1, <3>1
    <3>3. inflight' \in Records  BY <2>1, <3>1, <3>2 DEF Records
    <3> QED  BY <2>1, <3>1, <3>3 DEF Records
  <2>3. BundleFlags'  BY <1>0, <2>1, Zenon DEF BundleFlags
  <2>4. BundleFigures'  BY <1>0, <2>1, <2>2 DEF BundleFigures
  <2>5. Paired' /\ LiveIsSeen' /\ AckedWasSeen'
    BY <2>1, <2>2 DEF Paired, LiveIsSeen, AckedWasSeen
  <2> QED  BY <2>1, <2>3, <2>4, <2>5, BundleSplitPrime
<1>4. ASSUME NEW r \in Roles, Gone(r)
      PROVE  BundleInv' /\ completed' = completed
  <2>1. /\ live' = [live EXCEPT ![r] = None]
        /\ UNCHANGED <<inflight, legs, override, mail, sweeping, found, emits, completed, seen,
                       raced>>
    BY <1>4 DEF Gone
  <2>2. live' \in [Roles -> OnTick]
    BY <1>0, <2>1 DEF BundleFigures, OnTick
  <2>3. BundleFlags'  BY <1>0, <2>1, Zenon DEF BundleFlags
  <2>4. BundleFigures'  BY <1>0, <2>1, <2>2 DEF BundleFigures
  <2>5. LiveIsSeen'
    <3>1. \A t \in Roles : live'[t] = live[t] \/ live'[t] = None
      BY <1>0, <2>1 DEF BundleFigures
    <3>2. \A x : ~Near(None, x)  BY DEF Near
    <3> QED  BY <2>1, <3>1, <3>2 DEF LiveIsSeen
  <2>6. Paired' /\ AckedWasSeen'  BY <2>1 DEF Paired, AckedWasSeen
  <2> QED  BY <2>1, <2>3, <2>4, <2>5, <2>6, BundleSplitPrime
<1>5. CASE UNCHANGED bundleVars
  <2>1. UNCHANGED <<inflight, legs, override, mail, live, sweeping, found, emits, completed,
                    seen, raced>>
    BY <1>5 DEF bundleVars
  <2>2. BundleFlags'  BY <1>0, <2>1, Zenon DEF BundleFlags
  <2>3. BundleFigures'  BY <1>0, <2>1 DEF BundleFigures
  <2>4. Paired' /\ LiveIsSeen' /\ AckedWasSeen'
    BY <2>1 DEF Paired, LiveIsSeen, AckedWasSeen
  <2> QED  BY <2>1, <2>2, <2>3, <2>4, BundleSplitPrime
<1> QED  BY <1>1, <1>2, <1>3, <1>4, <1>5

\* The bundle's bookkeeping, for every set of prices, tick, timeout and bound.
THEOREM BundleInvariant ==
  BundleSpec => []BundleInv
<1>1. BundleInv /\ [BundleNext]_bundleVars => BundleInv'
  BY OriginatorStep, SiblingStep, OtherBundleSteps DEF BundleNext
<1> QED  BY <1>1, BundleStart, PTL DEF BundleSpec

\* Type correctness of the bundle protocol (BundleTypeOK): acks are of the two legs, and
\* every override and live order is on the tick, as round_price leaves it.
THEOREM BundleTypeCorrect ==
  BundleSpec => []BundleTypeOK
BY BundleInvariant, PTL DEF BundleInv

\* A bundle is retired as complete only if both legs were live at its own prices since it
\* was registered (CompletedWasLive), whatever the originator's sweeps, the
\* sibling's two-step ack, replacements and rollbacks do to each other.
THEOREM RetiredBundleWasLive ==
  BundleSpec => CompletedWasLive
<1>1. BundleInv /\ [BundleNext]_bundleVars
      => [completed' # completed => seen = Roles \/ raced]_bundleVars
  BY OriginatorStep, SiblingStep, OtherBundleSteps DEF BundleNext
<1> QED  BY <1>1, BundleInvariant, PTL DEF BundleSpec, CompletedWasLive
=============================================================================
