------------------------- MODULE PairDriversProofs -------------------------
(***************************************************************************)
(* Proofs about the pair drivers, for every number of ticks, slips and     *)
(* fills under way.                                                        *)
(***************************************************************************)
EXTENDS PairDrivers, SequenceTheorems, TLAPS

\* What an outcome of Dispatch(d) looks like.
LEMMA OutcomeShape ==
  ASSUME NEW d \in Directions, NEW o \in Dispatch(d)
  PROVE  /\ o.taken \in 0 .. 1 /\ o.reversed \in 0 .. 4 /\ o.rest \in {0, d}
         /\ o.slips \in Nat /\ o.unseen \in Int
<1> DEFINE S == [taken : 0 .. 1, reversed : 0 .. 4, rest : {0, d}, slips : Nat, unseen : Int,
                 result : {"rejected", "placed", "naked", "compensated"}]
<1>1. d = 1 \/ d = -1
  BY DEF Directions
<1>2. ASSUME NEW t \in 0 .. 1 PROVE Outcome(t, 0, 0, "rejected", t, -d * t) \in S
  BY <1>1, <1>2 DEF Outcome
<1>3. Outcome(1, 0, d, "placed", 0, 0) \in S
  BY <1>1 DEF Outcome
<1>4. ASSUME NEW n \in 0 .. 4, NEW r \in 0 .. 1
      PROVE  Outcome(1, n, r * d, "naked", n + r, (n + r) * d) \in S
  BY <1>1, <1>4 DEF Outcome
<1>5. ASSUME NEW n \in 1 .. 4, NEW r \in 0 .. 1
      PROVE  Outcome(1, n, r * d, "compensated", n - 1 + r, (n - 1 + r) * d) \in S
  BY <1>1, <1>5 DEF Outcome
<1>6. o \in S
  BY <1>2, <1>3, <1>4, <1>5 DEF Dispatch
<1> QED BY <1>6

\* A dispatch that is not reported naked moves the two legs by what the answers did
\* not say, and by nothing else.
LEMMA OutcomeBalance ==
  ASSUME NEW d \in Directions, NEW o \in Dispatch(d), o.result # "naked"
  PROVE  -d * o.taken + d * o.reversed + o.rest = o.unseen
<1>1. d = 1 \/ d = -1
  BY DEF Directions
<1>2. CASE \E t \in 0 .. 1 : o = Outcome(t, 0, 0, "rejected", t, -d * t)
  BY <1>1, <1>2 DEF Outcome
<1>3. CASE o = Outcome(1, 0, d, "placed", 0, 0)
  BY <1>1, <1>3 DEF Outcome
<1>4. CASE \E n \in 1 .. 4, r \in 0 .. 1 :
             o = Outcome(1, n, r * d, "compensated", n - 1 + r, (n - 1 + r) * d)
  BY <1>1, <1>4 DEF Outcome
<1>5. CASE \E n \in 0 .. 4, r \in 0 .. 1 :
             o = Outcome(1, n, r * d, "naked", n + r, (n + r) * d)
  BY <1>5 DEF Outcome
<1> QED BY <1>2, <1>3, <1>4, <1>5 DEF Dispatch

-----------------------------------------------------------------------------
(* What each kind of step does to the pair's exposure, the number the       *)
(* handlers must keep equal to what the answers did not say.                *)

Exposure == pos["primary"] + Resting + pos["hedge"]

LEMMA Numbers ==
  ASSUME TypeOK
  PROVE  /\ pos["primary"] \in Int /\ pos["hedge"] \in Int /\ unseen \in Int
         /\ makers[1] \in Nat /\ makers[-1] \in Nat
         /\ slips \in Nat /\ ticks \in Nat /\ quoted \in Nat
  BY ConstantsOK DEF TypeOK, Legs, Directions

\* The counters stay within their bounds, the ghost stays an integer.
LEMMA SlipTypes ==
  ASSUME TypeOK, NEW n \in Nat, NEW net \in Int, Slip(n, net)
  PROVE  slips' \in 0 .. MaxSlips /\ unseen' = unseen + net /\ unseen' \in Int
<1>1. MaxSlips \in Nat /\ slips \in Nat /\ unseen \in Int
  BY Numbers, ConstantsOK
<1> QED BY <1>1 DEF Slip

LEMMA OnBreakTypes ==
  ASSUME NEW naked, OnBreak(naked)
  PROVE  /\ alarm' \in BOOLEAN /\ attached' \in BOOLEAN
         /\ (alarm' <=> alarm \/ naked) /\ (attached' <=> attached /\ ~naked)
  BY DEF OnBreak

\* Each dispatch moves the exposure by what its outcome says.
LEMMA DispatchedExposure ==
  ASSUME TypeOK, NEW d \in Directions, NEW o \in Dispatch(d), Dispatched(d, o)
  PROVE  Exposure' = Exposure + (-d * o.taken + d * o.reversed + o.rest)
<1>1. o.taken \in 0 .. 1 /\ o.reversed \in 0 .. 4 /\ o.rest \in {0, d}
  BY OutcomeShape
<1>2. d = 1 \/ d = -1
  BY DEF Directions
<1>3. /\ pos' = [pos EXCEPT !["hedge"] = @ - d * o.taken + d * o.reversed]
      /\ makers' = IF o.rest = 0 THEN makers ELSE [makers EXCEPT ![o.rest] = @ + 1]
  BY DEF Dispatched
<1>4. /\ pos["primary"] \in Int /\ pos["hedge"] \in Int
      /\ makers[1] \in Nat /\ makers[-1] \in Nat
  BY Numbers
<1>5. /\ pos'["primary"] = pos["primary"]
      /\ pos'["hedge"] = pos["hedge"] - d * o.taken + d * o.reversed
  BY <1>3 DEF TypeOK, Legs
<1>6. makers'[1] - makers'[-1] = makers[1] - makers[-1] + o.rest
  <2>1. CASE o.rest = 0
    BY <2>1, <1>3, <1>4
  <2>2. CASE o.rest # 0
    <3>1. o.rest = d /\ makers' = [makers EXCEPT ![d] = @ + 1]
      BY <2>2, <1>1, <1>3
    <3>2. CASE d = 1
      <4>1. makers'[1] = makers[1] + 1 /\ makers'[-1] = makers[-1]
        BY <3>1, <3>2 DEF TypeOK, Directions
      <4> QED BY <4>1, <3>1, <3>2, <1>4
    <3>3. CASE d = -1
      <4>1. makers'[1] = makers[1] /\ makers'[-1] = makers[-1] + 1
        BY <3>1, <3>3 DEF TypeOK, Directions
      <4> QED BY <4>1, <3>1, <3>3, <1>4
    <3> QED BY <3>2, <3>3, <1>2
  <2> QED BY <2>1, <2>2
<1>7. PICK t \in Int, v \in Int : t = d * o.taken /\ v = d * o.reversed /\ -d * o.taken = -t
  BY <1>1, <1>2
<1>8. pos'["hedge"] = pos["hedge"] - t + v /\ o.rest \in Int
  BY <1>1, <1>2, <1>5, <1>7
<1>9. /\ Exposure' = pos'["primary"] + (makers'[1] - makers'[-1]) + pos'["hedge"]
      /\ Exposure = pos["primary"] + (makers[1] - makers[-1]) + pos["hedge"]
  BY DEF Exposure, Resting
<1>10. Exposure' = Exposure + (-t + v + o.rest)
  BY <1>4, <1>5, <1>6, <1>8, <1>9
<1> QED BY <1>7, <1>10

\* One resting maker order less.
LEMMA MakerGone ==
  ASSUME TypeOK, NEW d \in Directions, makers' = [makers EXCEPT ![d] = @ - 1]
  PROVE  makers'[1] - makers'[-1] = makers[1] - makers[-1] - d
<1>1. makers[1] \in Nat /\ makers[-1] \in Nat
  BY Numbers
<1>2. CASE d = 1
  <2>1. makers'[1] = makers[1] - 1 /\ makers'[-1] = makers[-1]
    BY <1>2 DEF TypeOK, Directions
  <2> QED BY <2>1, <1>1, <1>2
<1>3. CASE d = -1
  <2>1. makers'[1] = makers[1] /\ makers'[-1] = makers[-1] - 1
    BY <1>3 DEF TypeOK, Directions
  <2> QED BY <2>1, <1>1, <1>3
<1> QED BY <1>2, <1>3 DEF Directions

\* A dispatch of the funding driver.
LEMMA DispatchedKeeps ==
  ASSUME TypeOK, NEW d \in Directions, NEW o \in Dispatch(d), Dispatched(d, o)
  PROVE  /\ pos' \in [Legs -> Int] /\ makers' \in [Directions -> Nat]
         /\ late' \in [Legs -> Seq(Directions)]
         /\ slips' \in 0 .. MaxSlips /\ unseen' \in Int
         /\ o.result # "naked" /\ Exposure = unseen => Exposure' = unseen'
<1>1. /\ o.taken \in 0 .. 1 /\ o.reversed \in 0 .. 4 /\ o.rest \in {0, d}
      /\ o.slips \in Nat /\ o.unseen \in Int
  BY OutcomeShape
<1>2. d = 1 \/ d = -1
  BY DEF Directions
<1>3. -d \in Directions /\ d \in Int
  BY <1>2 DEF Directions
<1>4. /\ pos' = [pos EXCEPT !["hedge"] = @ - d * o.taken + d * o.reversed]
      /\ makers' = IF o.rest = 0 THEN makers ELSE [makers EXCEPT ![o.rest] = @ + 1]
      /\ late' = [late EXCEPT !["hedge"] =
                    @ \o Fills(o.taken, -d) \o Fills(o.reversed, d)]
      /\ Slip(o.slips, o.unseen)
  BY DEF Dispatched
<1>5. slips' \in 0 .. MaxSlips /\ unseen' = unseen + o.unseen /\ unseen' \in Int
  BY <1>1, <1>4, SlipTypes
<1>6. /\ pos["hedge"] - d * o.taken + d * o.reversed \in Int
      /\ pos["primary"] \in Int /\ pos["hedge"] \in Int /\ unseen \in Int
      /\ makers[1] \in Nat /\ makers[-1] \in Nat
  BY <1>1, <1>2, Numbers
<1>7. pos' \in [Legs -> Int]
  BY <1>4, <1>6 DEF TypeOK, Legs
<1>8. makers' \in [Directions -> Nat]
  BY <1>1, <1>4 DEF TypeOK, Directions
<1>9. late' \in [Legs -> Seq(Directions)]
  <2>1. Fills(o.taken, -d) \in Seq(Directions) /\ Fills(o.reversed, d) \in Seq(Directions)
    <3>1. ASSUME NEW n \in Nat, NEW e \in Directions PROVE Fills(n, e) \in Seq(Directions)
      BY DEF Fills
    <3>2. o.taken \in Nat /\ o.reversed \in Nat
      BY <1>1
    <3> QED BY <1>3, <3>1, <3>2
  <2>2. late["hedge"] \in Seq(Directions)
    BY DEF TypeOK, Legs
  <2>3. late["hedge"] \o Fills(o.taken, -d) \o Fills(o.reversed, d) \in Seq(Directions)
    <3>1. late["hedge"] \o Fills(o.taken, -d) \in Seq(Directions)
      BY <2>1, <2>2, ConcatProperties
    <3> QED BY <2>1, <3>1, ConcatProperties
  <2> QED BY <1>4, <2>3 DEF TypeOK
<1>10. ASSUME o.result # "naked", Exposure = unseen PROVE Exposure' = unseen'
  <2>1. -d * o.taken + d * o.reversed + o.rest = o.unseen
    BY <1>10, OutcomeBalance
  <2> QED BY <2>1, <1>5, <1>10, DispatchedExposure
<1> QED BY <1>5, <1>7, <1>8, <1>9, <1>10

\* The two legs of the statistical arbitrage driver.
LEMMA TradeLegsKeeps ==
  ASSUME TypeOK, NEW d \in Directions, TradeLegs(d), UNCHANGED makers
  PROVE  /\ pos' \in [Legs -> Int] /\ slips' \in 0 .. MaxSlips /\ unseen' \in Int
         /\ alarm' \in BOOLEAN /\ attached' \in BOOLEAN
         /\ (alarm => alarm') /\ (alarm' /\ ~alarm => ~attached') /\ (~attached => ~attached')
         /\ ~alarm' /\ Exposure = unseen => Exposure' = unseen'
<1>1. PICK y \in Leg, x \in Leg :
        /\ pos' = [l \in Legs |->
                     pos[l] + (IF l = "primary" THEN d * y.lots ELSE -d * x.lots)]
        /\ Slip(Slipped(y) + Slipped(x),
                d * (y.lots - Reported(y)) - d * (x.lots - Reported(x)))
        /\ OnBreak(Partial(y, x))
  BY DEF TradeLegs
<1>2. d = 1 \/ d = -1
  BY DEF Directions
<1>3. y.lots \in {0, 1} /\ x.lots \in {0, 1}
  BY DEF Leg
<1>4. Reported(y) \in {0, 1} /\ Reported(x) \in {0, 1}
  BY DEF Reported
<1>5. Slipped(y) + Slipped(x) \in Nat
  BY DEF Slipped
<1>6. d * (y.lots - Reported(y)) - d * (x.lots - Reported(x)) \in Int
  BY <1>2, <1>3, <1>4
<1>7. /\ slips' \in 0 .. MaxSlips /\ unseen' \in Int
      /\ unseen' = unseen + (d * (y.lots - Reported(y)) - d * (x.lots - Reported(x)))
  BY <1>1, <1>5, <1>6, SlipTypes
<1>8. pos["primary"] \in Int /\ pos["hedge"] \in Int /\ unseen \in Int
      /\ makers[1] \in Nat /\ makers[-1] \in Nat
  BY Numbers
<1>9. pos' \in [Legs -> Int]
  BY <1>1, <1>2, <1>3, <1>8 DEF Legs
<1>10. /\ alarm' \in BOOLEAN /\ attached' \in BOOLEAN
       /\ (alarm' <=> alarm \/ Partial(y, x)) /\ (attached' <=> attached /\ ~Partial(y, x))
  BY <1>1, OnBreakTypes
<1>11. ASSUME ~alarm', Exposure = unseen PROVE Exposure' = unseen'
  <2>1. y.ok = x.ok
    BY <1>10, <1>11 DEF Partial
  <2>2. Reported(y) = Reported(x)
    BY <2>1 DEF Reported
  <2>3. pos'["primary"] = pos["primary"] + d * y.lots /\ pos'["hedge"] = pos["hedge"] + (-d * x.lots)
    BY <1>1 DEF Legs
  <2>4. makers'[1] = makers[1] /\ makers'[-1] = makers[-1]
    OBVIOUS
  <2> QED BY <1>2, <1>3, <1>4, <1>7, <1>8, <1>11, <2>2, <2>3, <2>4 DEF Exposure, Resting
<1> QED BY <1>7, <1>9, <1>10, <1>11

-----------------------------------------------------------------------------
(* The inductive invariant.  A raised alarm means the driver is gone: that  *)
(* is what keeps the ledger of lots closed after it.                        *)

AlarmDetaches == alarm => ~attached
Inv == TypeOK /\ NakedIsAlarmed /\ AlarmDetaches

LEMMA InitInv == Init => Inv
<1> SUFFICES ASSUME Init PROVE Inv
  OBVIOUS
<1>1. {MaxSlips, MaxTicks, MaxQuoted, MaxLag} \subseteq Nat
  BY ConstantsOK
<1>2. 0 \in 0 .. MaxSlips /\ 0 \in 0 .. MaxTicks /\ 0 \in 0 .. MaxQuoted
  BY <1>1
<1>3. pos \in [Legs -> Int] /\ book \in [Legs -> Int] /\ makers \in [Directions -> Nat]
  BY DEF Init, Flat
<1>4. late \in [Legs -> Seq(Directions)]
  BY DEF Init
<1>5. TypeOK
  <2>1. kind \in Kinds /\ attached \in BOOLEAN /\ alarm \in BOOLEAN
    BY DEF Init
  <2>2. open \in {0} \cup Directions /\ unseen \in Int
    BY DEF Init
  <2>3. slips \in 0 .. MaxSlips /\ ticks \in 0 .. MaxTicks /\ quoted \in 0 .. MaxQuoted
    BY <1>2 DEF Init
  <2> QED BY <2>1, <2>2, <2>3, <1>3, <1>4 DEF TypeOK
<1>6. pos["primary"] = 0 /\ pos["hedge"] = 0 /\ makers[1] = 0 /\ makers[-1] = 0 /\ unseen = 0
  BY DEF Init, Flat, Legs, Directions
<1>7. NakedIsAlarmed
  BY <1>6 DEF NakedIsAlarmed, Resting
<1> QED BY <1>5, <1>7 DEF Inv, AlarmDetaches, Init

\* What is left to check of a driver's tick once pos, makers, late and the ghosts are
\* known to be well typed and balanced.
LEMMA TickKeeps ==
  ASSUME Inv, attached, ticks < MaxTicks, ticks' = ticks + 1, UNCHANGED <<kind, quoted>>,
         pos' \in [Legs -> Int], makers' \in [Directions -> Nat],
         late' \in [Legs -> Seq(Directions)], book' \in [Legs -> Int],
         open' \in {0} \cup Directions, slips' \in 0 .. MaxSlips, unseen' \in Int,
         alarm' \in BOOLEAN, attached' \in BOOLEAN, alarm' => ~attached',
         ~alarm' /\ Exposure = unseen => Exposure' = unseen'
  PROVE  Inv'
<1>1. ticks' \in 0 .. MaxTicks
  BY ConstantsOK DEF Inv, TypeOK
<1>2. kind' \in Kinds /\ quoted' \in 0 .. MaxQuoted
  BY DEF Inv, TypeOK
<1>3. TypeOK'
  BY <1>1, <1>2 DEF TypeOK
<1>4. ~alarm
  BY DEF Inv, AlarmDetaches
<1>5. Exposure = unseen
  BY <1>4 DEF Inv, NakedIsAlarmed, Exposure
<1>6. NakedIsAlarmed'
  BY <1>5 DEF NakedIsAlarmed, Exposure
<1> QED BY <1>3, <1>6 DEF Inv, AlarmDetaches

LEMMA FundingTick ==
  ASSUME Inv, NEW d \in Directions, NEW o \in Dispatch(d), Dispatched(d, o),
         OnBreak(o.result = "naked"), attached, ticks < MaxTicks, ticks' = ticks + 1,
         UNCHANGED <<kind, quoted>>, book' \in [Legs -> Int], open' \in {0} \cup Directions
  PROVE  Inv'
<1>1. /\ pos' \in [Legs -> Int] /\ makers' \in [Directions -> Nat]
      /\ late' \in [Legs -> Seq(Directions)]
      /\ slips' \in 0 .. MaxSlips /\ unseen' \in Int
      /\ o.result # "naked" /\ Exposure = unseen => Exposure' = unseen'
  BY DispatchedKeeps DEF Inv
<1>2. /\ alarm' \in BOOLEAN /\ attached' \in BOOLEAN
      /\ (alarm' <=> alarm \/ o.result = "naked")
      /\ (attached' <=> attached /\ ~(o.result = "naked"))
  BY OnBreakTypes
<1>3. ~alarm
  BY DEF Inv, AlarmDetaches
<1>4. alarm' => ~attached'
  BY <1>2, <1>3
<1>5. ~alarm' /\ Exposure = unseen => Exposure' = unseen'
  BY <1>1, <1>2
<1> QED BY <1>1, <1>2, <1>4, <1>5, TickKeeps

LEMMA StatTick ==
  ASSUME Inv, NEW d \in Directions, TradeLegs(d), attached, ticks < MaxTicks,
         ticks' = ticks + 1, UNCHANGED <<kind, makers, late, book, quoted>>,
         open' \in {0} \cup Directions
  PROVE  Inv'
<1>1. TypeOK /\ ~alarm
  BY DEF Inv, AlarmDetaches
<1>2. /\ pos' \in [Legs -> Int] /\ slips' \in 0 .. MaxSlips /\ unseen' \in Int
      /\ alarm' \in BOOLEAN /\ attached' \in BOOLEAN
      /\ (alarm' /\ ~alarm => ~attached')
      /\ ~alarm' /\ Exposure = unseen => Exposure' = unseen'
  BY <1>1, TradeLegsKeeps
<1>3. /\ makers' \in [Directions -> Nat] /\ late' \in [Legs -> Seq(Directions)]
      /\ book' \in [Legs -> Int]
  BY <1>1 DEF TypeOK
<1> QED BY <1>1, <1>2, <1>3, TickKeeps

LEMMA NextInv == Inv /\ [Next]_vars => Inv'
<1> SUFFICES ASSUME Inv, [Next]_vars PROVE Inv'
  OBVIOUS
<1>t. TypeOK
  BY DEF Inv
<1>d. \A d \in Directions : d \in Int /\ -d \in Directions
  BY DEF Directions
<1>1. CASE FundingEnter
  <2>0. PICK d \in Directions : \E o \in Dispatch(d) :
          /\ Dispatched(d, o) /\ OnBreak(o.result = "naked")
          /\ IF o.result = "placed"
             THEN open' = d /\ book' = [l \in Legs |-> IF l = "primary" THEN d ELSE -d]
             ELSE UNCHANGED <<open, book>>
    BY <1>1 DEF FundingEnter
  <2>1. PICK o \in Dispatch(d) :
          /\ Dispatched(d, o) /\ OnBreak(o.result = "naked")
          /\ IF o.result = "placed"
             THEN open' = d /\ book' = [l \in Legs |-> IF l = "primary" THEN d ELSE -d]
             ELSE UNCHANGED <<open, book>>
    BY <2>0
  <2>2. book' \in [Legs -> Int] /\ open' \in {0} \cup Directions
    <3>1. CASE o.result = "placed"
      BY <2>1, <3>1, <1>d
    <3>2. CASE o.result # "placed"
      BY <2>1, <3>2, <1>t DEF TypeOK
    <3> QED BY <3>1, <3>2
  <2>3. attached /\ ticks < MaxTicks /\ ticks' = ticks + 1 /\ UNCHANGED <<kind, quoted>>
    BY <1>1 DEF FundingEnter
  <2> QED BY <2>1, <2>2, <2>3, FundingTick
<1>2. CASE FundingExit
  <2>1. -open \in Directions
    BY <1>2, <1>t, <1>d DEF FundingExit, TypeOK
  <2>2. PICK o \in Dispatch(-open) :
          /\ Dispatched(-open, o) /\ OnBreak(o.result = "naked")
          /\ IF o.result = "placed" THEN open' = 0 /\ book' = Flat
             ELSE UNCHANGED <<open, book>>
    BY <1>2 DEF FundingExit
  <2>3. book' \in [Legs -> Int] /\ open' \in {0} \cup Directions
    <3>1. CASE o.result = "placed"
      BY <2>2, <3>1 DEF Flat
    <3>2. CASE o.result # "placed"
      BY <2>2, <3>2, <1>t DEF TypeOK
    <3> QED BY <3>1, <3>2
  <2>4. attached /\ ticks < MaxTicks /\ ticks' = ticks + 1 /\ UNCHANGED <<kind, quoted>>
    BY <1>2 DEF FundingExit
  <2> QED BY <2>1, <2>2, <2>3, <2>4, FundingTick
<1>3. CASE StatEnter
  <2>1. PICK d \in Directions : open' = d /\ TradeLegs(d)
    BY <1>3 DEF StatEnter
  <2> QED BY <1>3, <2>1, StatTick DEF StatEnter
<1>4. CASE StatExit
  <2>1. -open \in Directions
    BY <1>4, <1>t, <1>d DEF StatExit, TypeOK
  <2> QED BY <1>4, <2>1, StatTick DEF StatExit
<1>5. CASE MakerFill
  <2>1. PICK d \in Directions :
          /\ makers[d] > 0
          /\ makers' = [makers EXCEPT ![d] = @ - 1]
          /\ pos' = [pos EXCEPT !["primary"] = @ + d]
          /\ late' = [late EXCEPT !["primary"] = Append(@, d)]
          /\ UNCHANGED <<kind, attached, alarm, book, open, unseen, slips, ticks, quoted>>
    BY <1>5 DEF MakerFill
  <2>2. d = 1 \/ d = -1
    BY DEF Directions
  <2>3. makers' \in [Directions -> Nat] /\ pos' \in [Legs -> Int]
    <3>1. makers' \in [Directions -> Nat]
      BY <2>1, <2>2, <1>t DEF TypeOK, Directions
    <3>2. pos["primary"] + d \in Int
      BY <2>2, <1>t, Numbers
    <3> QED BY <2>1, <3>1, <3>2, <1>t DEF TypeOK
  <2>4. late' \in [Legs -> Seq(Directions)]
    <3>1. Append(late["primary"], d) \in Seq(Directions)
      BY <1>t, AppendProperties DEF TypeOK, Legs
    <3> QED BY <2>1, <3>1, <1>t DEF TypeOK
  <2>5. TypeOK'
    BY <2>1, <2>3, <2>4, <1>t DEF TypeOK
  <2>6. pos'["primary"] = pos["primary"] + d /\ pos'["hedge"] = pos["hedge"]
    BY <2>1, <1>t DEF TypeOK, Legs
  <2>7. makers'[1] - makers'[-1] = makers[1] - makers[-1] - d
    BY <2>1, <1>t, MakerGone
  <2>8. pos'["primary"] + (makers'[1] - makers'[-1]) + pos'["hedge"]
          = pos["primary"] + (makers[1] - makers[-1]) + pos["hedge"]
    BY <2>2, <2>6, <2>7, <1>t, Numbers
  <2>9. NakedIsAlarmed'
    BY <2>1, <2>8 DEF NakedIsAlarmed, Resting, Inv
  <2> QED BY <2>1, <2>5, <2>9 DEF Inv, AlarmDetaches
<1>6. CASE ReapMaker
  <2>1. PICK d \in Directions : /\ makers[d] > 0
                                /\ makers' = [makers EXCEPT ![d] = @ - 1] /\ Slip(1, -d)
    BY <1>6 DEF ReapMaker
  <2>2. UNCHANGED <<kind, attached, alarm, pos, late, book, open, ticks, quoted>>
    BY <1>6 DEF ReapMaker
  <2>3. (d = 1 \/ d = -1) /\ -d \in Int
    BY DEF Directions
  <2>4. slips' \in 0 .. MaxSlips /\ unseen' = unseen + (-d) /\ unseen' \in Int
    BY <2>1, <2>3, <1>t, SlipTypes
  <2>5. makers' \in [Directions -> Nat]
    BY <2>1, <2>3, <1>t DEF TypeOK, Directions
  <2>6. TypeOK'
    BY <2>2, <2>4, <2>5, <1>t DEF TypeOK
  <2>7. makers'[1] - makers'[-1] = makers[1] - makers[-1] - d
    BY <2>1, <1>t, MakerGone
  <2>8. pos["primary"] + (makers'[1] - makers'[-1]) + pos["hedge"]
          = pos["primary"] + (makers[1] - makers[-1]) + pos["hedge"] - d
    BY <2>3, <2>7, <1>t, Numbers
  <2>9. CASE ~alarm
    <3>1. pos["primary"] + (makers[1] - makers[-1]) + pos["hedge"] = unseen
      BY <2>9 DEF Inv, NakedIsAlarmed, Resting
    <3>2. pos["primary"] + (makers'[1] - makers'[-1]) + pos["hedge"] = unseen'
      BY <2>3, <2>4, <2>8, <3>1, <1>t, Numbers
    <3>3. NakedIsAlarmed'
      BY <2>2, <3>2 DEF NakedIsAlarmed, Resting
    <3> QED BY <2>2, <2>6, <3>3 DEF Inv, AlarmDetaches
  <2>10. CASE alarm
    BY <2>2, <2>6, <2>10 DEF Inv, AlarmDetaches, NakedIsAlarmed
  <2> QED BY <2>9, <2>10
<1>7. CASE QuoteFill
  <2>1. PICK d \in Directions : late' = [late EXCEPT !["primary"] = Append(@, d)]
    BY <1>7 DEF QuoteFill
  <2>2. late' \in [Legs -> Seq(Directions)]
    <3>1. Append(late["primary"], d) \in Seq(Directions)
      BY <1>t, AppendProperties DEF TypeOK, Legs
    <3> QED BY <2>1, <3>1, <1>t DEF TypeOK
  <2>3. quoted' \in 0 .. MaxQuoted
    BY <1>7, <1>t, ConstantsOK DEF QuoteFill, TypeOK
  <2>4. TypeOK'
    BY <1>7, <1>t, <2>2, <2>3 DEF QuoteFill, TypeOK
  <2> QED BY <1>7, <2>4 DEF QuoteFill, Inv, NakedIsAlarmed, Resting, AlarmDetaches
<1>8. CASE OnFill
  <2>1. PICK l \in Legs :
          /\ late[l] # << >>
          /\ late' = [late EXCEPT ![l] = Tail(@)]
          /\ book' = IF attached /\ kind = "funding"
                     THEN [book EXCEPT ![l] = @ + Head(late[l])] ELSE book
          /\ UNCHANGED <<kind, attached, alarm, pos, makers, open, unseen, slips,
                         ticks, quoted>>
    BY <1>8 DEF OnFill
  <2>2. late[l] \in Seq(Directions)
    BY <1>t DEF TypeOK
  <2>3. Head(late[l]) \in Directions /\ Tail(late[l]) \in Seq(Directions)
    BY <2>1, <2>2, HeadTailProperties
  <2>4. late' \in [Legs -> Seq(Directions)]
    BY <2>1, <2>3, <1>t DEF TypeOK
  <2>5. Head(late[l]) \in Int
    BY <2>3, <1>d
  <2>6. book' \in [Legs -> Int]
    BY <2>1, <2>5, <1>t DEF TypeOK
  <2>7. TypeOK'
    BY <2>1, <2>4, <2>6, <1>t DEF TypeOK
  <2> QED BY <2>1, <2>7 DEF Inv, NakedIsAlarmed, Resting, AlarmDetaches
<1>9. CASE UNCHANGED vars
  BY <1>9 DEF vars, Inv, TypeOK, NakedIsAlarmed, Resting, AlarmDetaches
<1> QED BY <1>1, <1>2, <1>3, <1>4, <1>5, <1>6, <1>7, <1>8, <1>9 DEF Next

THEOREM PairInvariant == Spec => []Inv
BY InitInv, NextInv, PTL DEF Spec

\* The drivers' state has its types, for every bound.
THEOREM PairTypeCorrect == Spec => []TypeOK
<1>1. Inv => TypeOK
  BY DEF Inv
<1> QED BY <1>1, PairInvariant, PTL

\* A pair whose legs do not add up, other than by what no answer reported, has tripped
\* L2: handle_driver_event and handle_stat_arb_event miss no break they could know of.
THEOREM NakedPairAlarms == Spec => []NakedIsAlarmed
<1>1. Inv => NakedIsAlarmed
  BY DEF Inv
<1> QED BY <1>1, PairInvariant, PTL

\* Once L2 is tripped by a break no driver tick dispatches any more.
THEOREM AlarmStopsDriver == Spec => NoDispatchAfterAlarm
<1>1. Inv /\ [Next]_vars => [alarm => ticks' = ticks]_vars
  <2> SUFFICES ASSUME Inv, Next, alarm PROVE ticks' = ticks
    BY DEF vars
  <2>1. ~attached
    BY DEF Inv, AlarmDetaches
  <2> QED BY <2>1 DEF Next, FundingEnter, FundingExit, StatEnter, StatExit, MakerFill,
             ReapMaker, QuoteFill, OnFill
<1> QED BY <1>1, PairInvariant, PTL DEF Spec, NoDispatchAfterAlarm

-----------------------------------------------------------------------------
(* How naked a pair can get.  The invariant counts the lots that went astray *)
(* behind an answer, and adds the one leg of the break that was reported.    *)

\* A break leaves at most one lot uncovered, and every other uncovered lot is an order
\* that did not do what its answer said: with honest answers the retries and the
\* reversals of a failing dispatch never add a second lot, before the alarm or after it.
OneLotNaked ==
  /\ Exposure - unseen \in -1 .. 1
  /\ unseen \in -slips .. slips

Bounded == Inv /\ OneLotNaked

\* What no answer reported is at most one lot per order, and an outcome is off by at
\* most one more.
LEMMA OutcomeOff ==
  ASSUME NEW d \in Directions, NEW o \in Dispatch(d)
  PROVE  /\ o.unseen \in -o.slips .. o.slips
         /\ (-d * o.taken + d * o.reversed + o.rest) - o.unseen \in -1 .. 1
<1>1. d = 1 \/ d = -1
  BY DEF Directions
<1>2. CASE \E t \in 0 .. 1 : o = Outcome(t, 0, 0, "rejected", t, -d * t)
  BY <1>1, <1>2 DEF Outcome
<1>3. CASE o = Outcome(1, 0, d, "placed", 0, 0)
  BY <1>1, <1>3 DEF Outcome
<1>4. CASE \E n \in 1 .. 4, r \in 0 .. 1 :
             o = Outcome(1, n, r * d, "compensated", n - 1 + r, (n - 1 + r) * d)
  BY <1>1, <1>4 DEF Outcome
<1>5. CASE \E n \in 0 .. 4, r \in 0 .. 1 :
             o = Outcome(1, n, r * d, "naked", n + r, (n + r) * d)
  BY <1>1, <1>5 DEF Outcome
<1> QED BY <1>2, <1>3, <1>4, <1>5 DEF Dispatch

\* A slip keeps the count above what went astray.
LEMMA SlipBounded ==
  ASSUME TypeOK, unseen \in -slips .. slips, NEW n \in Nat, NEW net \in -n .. n, Slip(n, net)
  PROVE  unseen' \in -slips' .. slips' /\ unseen' = unseen + net
<1>1. slips \in Nat /\ unseen \in Int
  BY Numbers
<1> QED BY <1>1 DEF Slip

LEMMA DispatchedBounded ==
  ASSUME Bounded, ~alarm, NEW d \in Directions, NEW o \in Dispatch(d), Dispatched(d, o)
  PROVE  OneLotNaked'
<1>1. /\ o.taken \in 0 .. 1 /\ o.reversed \in 0 .. 4 /\ o.rest \in {0, d}
      /\ o.slips \in Nat /\ o.unseen \in Int
  BY OutcomeShape
<1>2. /\ o.unseen \in -o.slips .. o.slips
      /\ (-d * o.taken + d * o.reversed + o.rest) - o.unseen \in -1 .. 1
  BY OutcomeOff
<1>3. TypeOK /\ Exposure = unseen /\ unseen \in -slips .. slips
  BY DEF Bounded, Inv, OneLotNaked, NakedIsAlarmed, Exposure
<1>4. Exposure' = Exposure + (-d * o.taken + d * o.reversed + o.rest)
  BY <1>3, DispatchedExposure
<1>5. unseen' \in -slips' .. slips' /\ unseen' = unseen + o.unseen
  BY <1>1, <1>2, <1>3, SlipBounded DEF Dispatched
<1>6. PICK m \in Int : m = -d * o.taken + d * o.reversed + o.rest
  <2>1. d = 1 \/ d = -1
    BY DEF Directions
  <2> QED BY <1>1, <2>1
<1>7. unseen \in Int
  BY <1>3, Numbers
<1> QED BY <1>1, <1>2, <1>3, <1>4, <1>5, <1>6, <1>7 DEF OneLotNaked

LEMMA TradeLegsBounded ==
  ASSUME Bounded, ~alarm, NEW d \in Directions, TradeLegs(d), UNCHANGED makers
  PROVE  OneLotNaked'
<1>1. PICK y \in Leg, x \in Leg :
        /\ pos' = [l \in Legs |->
                     pos[l] + (IF l = "primary" THEN d * y.lots ELSE -d * x.lots)]
        /\ Slip(Slipped(y) + Slipped(x),
                d * (y.lots - Reported(y)) - d * (x.lots - Reported(x)))
  BY DEF TradeLegs
<1>2. d = 1 \/ d = -1
  BY DEF Directions
<1>3. /\ y.lots \in {0, 1} /\ x.lots \in {0, 1}
      /\ Reported(y) \in {0, 1} /\ Reported(x) \in {0, 1}
  BY DEF Leg, Reported
<1>4. TypeOK /\ Exposure = unseen /\ unseen \in -slips .. slips
  BY DEF Bounded, Inv, OneLotNaked, NakedIsAlarmed, Exposure
<1>5. /\ Slipped(y) + Slipped(x) \in Nat
      /\ d * (y.lots - Reported(y)) - d * (x.lots - Reported(x))
           \in -(Slipped(y) + Slipped(x)) .. Slipped(y) + Slipped(x)
  <2>1. /\ d * (y.lots - Reported(y)) \in -Slipped(y) .. Slipped(y) /\ Slipped(y) \in 0 .. 1
        /\ d * (x.lots - Reported(x)) \in -Slipped(x) .. Slipped(x) /\ Slipped(x) \in 0 .. 1
    BY <1>2, <1>3 DEF Slipped
  <2> QED BY <2>1
<1>6. /\ unseen' \in -slips' .. slips'
      /\ unseen' = unseen + (d * (y.lots - Reported(y)) - d * (x.lots - Reported(x)))
  BY <1>1, <1>4, <1>5, SlipBounded
<1>7. pos'["primary"] = pos["primary"] + d * y.lots /\ pos'["hedge"] = pos["hedge"] + (-d * x.lots)
  BY <1>1 DEF Legs
<1>8. /\ pos["primary"] \in Int /\ pos["hedge"] \in Int /\ unseen \in Int
      /\ makers[1] \in Nat /\ makers[-1] \in Nat
  BY <1>4, Numbers
<1>9. Exposure' - unseen' = d * Reported(y) - d * Reported(x)
  <2>1. makers'[1] = makers[1] /\ makers'[-1] = makers[-1]
    OBVIOUS
  <2>2. /\ Exposure = pos["primary"] + (makers[1] - makers[-1]) + pos["hedge"]
        /\ Exposure' = pos'["primary"] + (makers'[1] - makers'[-1]) + pos'["hedge"]
    BY DEF Exposure, Resting
  <2>3. Exposure' = Exposure + d * y.lots - d * x.lots
    BY <1>2, <1>3, <1>7, <1>8, <2>1, <2>2
  <2>4. Exposure' = unseen + d * y.lots - d * x.lots
    BY <1>4, <2>3
  <2>5. CASE d = 1
    BY <1>3, <1>6, <1>8, <2>4, <2>5
  <2>6. CASE d = -1
    BY <1>3, <1>6, <1>8, <2>4, <2>6
  <2> QED BY <1>2, <2>5, <2>6
<1> QED BY <1>2, <1>3, <1>6, <1>9 DEF OneLotNaked

LEMMA NextBounded == Bounded /\ [Next]_vars => Bounded'
<1> SUFFICES ASSUME Bounded, [Next]_vars PROVE OneLotNaked'
  BY NextInv DEF Bounded
<1>t. TypeOK /\ OneLotNaked /\ (attached => ~alarm)
  BY DEF Bounded, Inv, AlarmDetaches
<1>n. /\ pos["primary"] \in Int /\ pos["hedge"] \in Int /\ unseen \in Int /\ slips \in Nat
      /\ makers[1] \in Nat /\ makers[-1] \in Nat
  BY <1>t, Numbers
<1>1. CASE FundingEnter
  <2>1. ~alarm /\ \E d \in Directions : \E o \in Dispatch(d) : Dispatched(d, o)
    BY <1>1, <1>t DEF FundingEnter
  <2> QED BY <2>1, DispatchedBounded
<1>2. CASE FundingExit
  <2>1. ~alarm /\ -open \in Directions
    BY <1>2, <1>t DEF FundingExit, TypeOK, Directions
  <2>2. \E o \in Dispatch(-open) : Dispatched(-open, o)
    BY <1>2 DEF FundingExit
  <2> QED BY <2>1, <2>2, DispatchedBounded
<1>3. CASE StatEnter
  <2>1. ~alarm /\ UNCHANGED makers /\ \E d \in Directions : TradeLegs(d)
    BY <1>3, <1>t DEF StatEnter
  <2> QED BY <2>1, TradeLegsBounded
<1>4. CASE StatExit
  <2>1. ~alarm /\ -open \in Directions
    BY <1>4, <1>t DEF StatExit, TypeOK, Directions
  <2> QED BY <1>4, <2>1, TradeLegsBounded DEF StatExit
<1>5. CASE MakerFill
  <2>1. PICK d \in Directions :
          /\ makers' = [makers EXCEPT ![d] = @ - 1]
          /\ pos' = [pos EXCEPT !["primary"] = @ + d]
          /\ UNCHANGED <<unseen, slips>>
    BY <1>5 DEF MakerFill
  <2>2. d = 1 \/ d = -1
    BY DEF Directions
  <2>3. pos'["primary"] = pos["primary"] + d /\ pos'["hedge"] = pos["hedge"]
    BY <2>1, <1>t DEF TypeOK, Legs
  <2>4. makers'[1] - makers'[-1] = makers[1] - makers[-1] - d
    BY <2>1, <1>t, MakerGone
  <2>5. Exposure' = Exposure
    BY <2>2, <2>3, <2>4, <1>n DEF Exposure, Resting
  <2> QED BY <2>1, <2>5, <1>t DEF OneLotNaked
<1>6. CASE ReapMaker
  <2>1. PICK d \in Directions : makers' = [makers EXCEPT ![d] = @ - 1] /\ Slip(1, -d)
    BY <1>6 DEF ReapMaker
  <2>2. (d = 1 \/ d = -1) /\ -d \in -1 .. 1
    BY DEF Directions
  <2>3. unseen' \in -slips' .. slips' /\ unseen' = unseen + (-d)
    BY <2>1, <2>2, <1>t, SlipBounded DEF OneLotNaked
  <2>4. makers'[1] - makers'[-1] = makers[1] - makers[-1] - d
    BY <2>1, <1>t, MakerGone
  <2>5. pos' = pos
    BY <1>6 DEF ReapMaker
  <2>6. Exposure' = Exposure - d
    BY <2>2, <2>4, <2>5, <1>n DEF Exposure, Resting
  <2>7. Exposure \in Int
    BY <1>n DEF Exposure, Resting
  <2>8. Exposure' - unseen' = Exposure - unseen
    <3>1. ASSUME NEW e \in Int, NEW u \in Int, NEW k \in Int PROVE (e - k) - (u + (-k)) = e - u
      OBVIOUS
    <3>2. d \in Int
      BY <2>2
    <3> QED BY <3>1, <3>2, <2>3, <2>6, <2>7, <1>n, Zenon
  <2> QED BY <2>3, <2>8, <1>t DEF OneLotNaked
<1>7. CASE QuoteFill \/ OnFill \/ UNCHANGED vars
  <2>1. UNCHANGED <<pos, makers, unseen, slips>>
    BY <1>7 DEF QuoteFill, OnFill, vars
  <2> QED BY <2>1, <1>t DEF OneLotNaked, Exposure, Resting
<1> QED BY <1>1, <1>2, <1>3, <1>4, <1>5, <1>6, <1>7 DEF Next

\* OneLotNaked for every number of dispatches, refusals and lost answers: the part of
\* "an accidental flip is caught by the pair-break detector" that does hold, about the
\* sum of the legs and not about each of them.
THEOREM BreakLeavesOneLot == Spec => []OneLotNaked
<1>1. Init => Bounded
  <2> SUFFICES ASSUME Init PROVE OneLotNaked
    BY InitInv DEF Bounded
  <2>1. /\ pos["primary"] = 0 /\ pos["hedge"] = 0 /\ makers[1] = 0 /\ makers[-1] = 0
        /\ unseen = 0 /\ slips = 0
    BY DEF Init, Flat, Legs, Directions
  <2> QED BY <2>1 DEF OneLotNaked, Exposure, Resting
<1>2. Bounded => OneLotNaked
  BY DEF Bounded
<1> QED BY <1>1, <1>2, NextBounded, PTL DEF Spec

=============================================================================
