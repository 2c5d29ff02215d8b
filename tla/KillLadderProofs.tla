------------------------- MODULE KillLadderProofs -------------------------
(* Theorems about KillLadder, for every set of orders, sources and bounds.  *)
EXTENDS KillLadder, SequenceTheorems, FiniteSetTheorems, TLAPS

USE DEF kill

\* What every outcome of cancel_all has in common: nothing appears, and Ok
\* leaves nothing tracked.
LEMMA CancelAllShape ==
  ASSUME NEW t, NEW v, NEW r \in CancelAll(t, v)
  PROVE  /\ r.tracked \subseteq t
         /\ r.venue \subseteq v
         /\ r.ok => r.tracked = {}
<1>1. CASE t = {}
  BY <1>1 DEF CancelAll
<1>2. CASE t # {}
  <2>1. PICK gone \in SUBSET (t \cap v) :
          \/ r = [tracked |-> {}, venue |-> v \ gone, ok |-> TRUE]
          \/ r = [tracked |-> t \cap (v \ gone), venue |-> v \ gone,
                  ok |-> t \cap (v \ gone) = {}]
          \/ \E seen \in SUBSET (t \cap v) :
               r = [tracked |-> seen, venue |-> v \ gone, ok |-> FALSE]
    BY <1>2 DEF CancelAll
  <2>2. CASE r = [tracked |-> {}, venue |-> v \ gone, ok |-> TRUE]
    BY <2>2
  <2>3. CASE r = [tracked |-> t \cap (v \ gone), venue |-> v \ gone,
                  ok |-> t \cap (v \ gone) = {}]
    BY <2>3
  <2>4. CASE \E seen \in SUBSET (t \cap v) :
               r = [tracked |-> seen, venue |-> v \ gone, ok |-> FALSE]
    BY <2>4
  <2>5. QED
    BY <2>1, <2>2, <2>3, <2>4
<1>3. QED
  BY <1>1, <1>2

\* A tick of the OrderEmulator only moves stop orders to the venue.
LEMMA EmulatorShape ==
  ASSUME NEW e \in EmulatorTick
  PROVE  /\ e.stops \subseteq stops
         /\ e.venue \subseteq venue \cup stops
         /\ venue \subseteq e.venue
  BY DEF EmulatorTick

\* A graph tick leaves a level.
LEMMA SinksShape ==
  ASSUME level \in 0 .. 5
  PROVE  Sunk \subseteq 0 .. 5
  BY DEF Sunk, GraphSinks, Escalated

\* A slice adds at most one order and one fill.
LEMMA SliceShape ==
  ASSUME NEW q, NEW t \in SUBSET Orders, NEW f \in Seq(Orders), NEW s \in Slices(q, t, f)
  PROVE  s.tracked \subseteq Orders /\ s.fills \in Seq(Orders)
  BY DEF Slices, Fresh, Orders

\* So do the slices of one tick, together.
LEMMA TickSlicesShape ==
  ASSUME tracked \subseteq Orders, fills \in Seq(Orders), NEW s \in TickSlices
  PROVE  s.tracked \subseteq Orders /\ s.fills \in Seq(Orders)
<1>1. PICK m \in Slices(inv, tracked, fills) : s \in Slices(twap, m.tracked, m.fills)
  BY DEF TickSlices
<1>2. m.tracked \in SUBSET Orders /\ m.fills \in Seq(Orders)
  BY SliceShape
<1>3. QED
  BY <1>1, <1>2, SliceShape

\* An early return of refresh_quotes leaves orders and stops well formed.
LEMMA EarlyReturnShape ==
  ASSUME TypeOK, EarlyReturn
  PROVE  tracked' \subseteq Orders /\ venue' \subseteq Orders /\ stops' \subseteq Stops
<1>1. PICK e \in EmulatorTick :
        /\ stops' = e.stops
        /\ \/ tracked' = tracked /\ venue' = e.venue
           \/ \E r \in CancelAll(tracked, e.venue) :
                tracked' = r.tracked /\ venue' = r.venue
  BY DEF EarlyReturn
<1>2. e.stops \subseteq Stops /\ e.venue \subseteq Orders
  BY EmulatorShape, KillLadderAssumption DEF TypeOK, Orders
<1>3. QED
  BY <1>1, <1>2, CancelAllShape DEF TypeOK

\* The two halves of execute_diff move orders, a finite number each.
LEMMA DiffShape ==
  ASSUME tracked \subseteq Orders, NEW c \in Cancels, NEW p \in Placements
  PROVE  /\ c.dropped \subseteq tracked /\ c.landed \subseteq c.dropped
         /\ p.acked \subseteq Orders /\ p.lost \subseteq Orders
<1>1. c.dropped \subseteq tracked /\ c.landed \subseteq c.dropped
  BY DEF Cancels
<1>2. p.acked \subseteq Orders /\ p.lost \subseteq Orders
  BY DEF Placements, Fresh
<1>3. QED
  BY <1>1, <1>2

\* Levels stay levels under escalate and under the larger of two askings.
LEMMA LevelShape ==
  ASSUME level \in 0 .. 5, NEW l \in 0 .. 5, NEW m \in 0 .. 5
  PROVE  Escalated(l) \in 0 .. 5 /\ Larger(l, m) \in 0 .. 5
  BY DEF Escalated, Larger

\* What the engine does about a driver's event: nothing, or L2 and one driver less.
LEMMA DriverEventShape ==
  ASSUME TypeOK, NEW broken \in BOOLEAN,
         HandleDriverEvent(broken) \/ HandleStatArbEvent(broken)
  PROVE  level' \in 0 .. 5 /\ drivers' \subseteq drivers
  BY DEF HandleDriverEvent, HandleStatArbEvent, StopNewOrders, TypeOK

\* The engine boots in a well-formed state.
LEMMA InitTypeOK == Init => TypeOK
<1> SUFFICES ASSUME Init PROVE TypeOK
  OBVIOUS
<1>1. fills \in Seq(Orders)
  BY DEF Init
<1>2. disconnected \in BOOLEAN
  BY DEF Init
<1>3. venue \subseteq Orders /\ tracked \subseteq Orders /\ stops \subseteq Stops
  BY DEF Init
<1>4. QED
  BY <1>1, <1>2, <1>3, KillLadderAssumption DEF Init, TypeOK

\* The state of the kill switch, the run loop and the order sets stays well
\* formed: every handler of run_with_hedge preserves TypeOK.
THEOREM KillLadderTypeCorrect == Spec => []TypeOK
<1>1. Init => TypeOK
  BY InitTypeOK
<1>2. TypeOK /\ [Next]_vars => TypeOK'
  <2> SUFFICES ASSUME TypeOK, [Next]_vars PROVE TypeOK'
    OBVIOUS
  <2> USE KillLadderAssumption
  <2>1. CASE Startup
    BY <2>1, CancelAllShape DEF Startup, TypeOK
  <2>2. CASE EnterDisconnect
    BY <2>2, CancelAllShape DEF EnterDisconnect, TypeOK
  <2>3. CASE LeaveDisconnect
    BY <2>3 DEF LeaveDisconnect, TypeOK
  <2>4. CASE RefreshKilled \/ ClientCircuit
    <3>1. tracked' \subseteq Orders /\ venue' \subseteq Orders /\ stops' \subseteq Stops
      BY <2>4, EarlyReturnShape DEF RefreshKilled, ClientCircuit
    <3>2. CASE RefreshKilled
      BY <3>1, <3>2 DEF RefreshKilled, TypeOK
    <3>3. CASE ClientCircuit
      BY <3>1, <3>3 DEF ClientCircuit, TypeOK
    <3>4. QED
      BY <2>4, <3>2, <3>3
  <2>5. CASE RefreshGated
    <3>1. tracked' \subseteq Orders /\ venue' \subseteq Orders /\ stops' \subseteq Stops
      BY <2>5, EarlyReturnShape DEF RefreshGated
    <3>2. level' \in 0 .. 5
      BY <2>5, SinksShape DEF RefreshGated, TypeOK
    <3>3. QED
      BY <2>5, <3>1, <3>2 DEF RefreshGated, TypeOK
  <2>6. CASE RefreshVenueKilled
    <3> DEFINE m == msgs + 1
    <3> DEFINE n(r) == IF r.ok THEN errors ELSE Capped(errors + 1, MaxErrors)
    <3> DEFINE asked(r) == Larger(IF m > MaxMessageRate THEN 3 ELSE 0,
                                  IF ~r.ok /\ n(r) >= MaxErrors THEN 2 ELSE 0)
    <3>1. PICK e \in EmulatorTick, k \in Sunk :
          \E r \in CancelAll(tracked, e.venue) :
            /\ stops' = e.stops
            /\ tracked' = r.tracked /\ venue' = r.venue
            /\ msgs' = Capped(m, MaxMessageRate + 1) /\ errors' = n(r)
            /\ level' = Larger(k, asked(r))
      BY <2>6 DEF RefreshVenueKilled
    <3>0. \A r : asked(r) \in 0 .. 5
      BY DEF Larger
    <3>2. /\ e.stops \subseteq stops /\ e.venue \subseteq Orders
      BY EmulatorShape DEF TypeOK, Orders
    <3>3. tracked' \subseteq Orders /\ venue' \subseteq Orders
      BY <3>1, <3>2, CancelAllShape DEF TypeOK
    <3>4. level' \in 0 .. 5
      BY <3>0, <3>1, SinksShape, LevelShape DEF TypeOK
    <3>5. msgs' \in 0 .. MaxMessageRate + 1 /\ errors' \in 0 .. MaxErrors
      BY <3>1 DEF TypeOK, Capped
    <3>6. QED
      BY <2>6, <3>1, <3>2, <3>3, <3>4, <3>5 DEF RefreshVenueKilled, TypeOK
  <2>7. CASE RefreshQuotes
    <3> DEFINE asked == IF msgs + 1 > MaxMessageRate THEN 3 ELSE 0
    <3>1. PICK e \in EmulatorTick, k \in Sunk, c \in Cancels, p \in Placements :
            /\ stops' = e.stops
            /\ tracked' = (tracked \ c.dropped) \cup p.acked
            /\ venue' = (e.venue \ c.landed) \cup p.acked \cup p.lost
            /\ msgs' = Capped(msgs + 1, MaxMessageRate + 1)
            /\ level' = Larger(k, asked)
      BY <2>7 DEF RefreshQuotes
    <3>2. /\ e.stops \subseteq stops /\ e.venue \in SUBSET Orders
      BY EmulatorShape DEF TypeOK, Orders
    <3>3. /\ p.acked \subseteq Orders /\ p.lost \subseteq Orders
      BY DiffShape DEF TypeOK
    <3>4. tracked' \subseteq Orders /\ venue' \subseteq Orders
      BY <3>1, <3>2, <3>3 DEF TypeOK
    <3>5. asked \in 0 .. 5
      OBVIOUS
    <3>6. level' \in 0 .. 5
      BY <3>1, <3>5, SinksShape, LevelShape DEF TypeOK
    <3>7. msgs' \in 0 .. MaxMessageRate + 1
      BY <3>1 DEF TypeOK, Capped
    <3>8. /\ stops' = e.stops
          /\ UNCHANGED <<phase, errors, disconnected, fills, inv, twap, drivers, restarts, operator>>
      BY <2>7, <3>1 DEF RefreshQuotes
    <3>9. QED
      BY <3>2, <3>4, <3>6, <3>7, <3>8 DEF TypeOK
  <2>8. CASE TickSecond
    <3>1. PICK l \in 0 .. 3, s \in TickSlices :
            /\ level' = Escalated(l)
            /\ fills' = s.fills
            /\ \/ tracked' = s.tracked /\ UNCHANGED <<venue, twap>>
               \/ \E r \in CancelAll(s.tracked, venue) :
                    /\ tracked' = r.tracked /\ venue' = r.venue
                    /\ twap' \in {inv, twap}
      BY <2>8 DEF TickSecond
    <3>2. s.tracked \subseteq Orders /\ s.fills \in Seq(Orders)
      BY TickSlicesShape DEF TypeOK
    <3>3. tracked' \subseteq Orders /\ venue' \subseteq Orders /\ twap' \in Int
      BY <3>1, <3>2, CancelAllShape DEF TypeOK
    <3>4. level' \in 0 .. 5
      BY <3>1 DEF TypeOK, Escalated
    <3>5. /\ msgs' = 0 /\ fills' = s.fills
          /\ UNCHANGED <<phase, errors, disconnected, inv, drivers, stops, restarts, operator>>
      BY <2>8, <3>1 DEF TickSecond
    <3>6. QED
      BY <3>2, <3>3, <3>4, <3>5 DEF TypeOK
  <2>9. CASE Reconcile
    BY <2>9 DEF Reconcile, TypeOK
  <2>10. CASE VenueFill
    <3>1. PICK o \in venue : venue' = venue \ {o} /\ fills' = Append(fills, o)
      BY <2>10 DEF VenueFill
    <3>2. fills' \in Seq(Orders)
      BY <3>1 DEF TypeOK
    <3>3. QED
      BY <2>10, <3>1, <3>2 DEF VenueFill, TypeOK
  <2>11. CASE OnFill
    <3>1. fills' \in Seq(Orders)
      BY <2>11, HeadTailProperties DEF OnFill, TypeOK
    <3>2. inv' \in Int /\ twap' \in Int
      BY <2>11 DEF OnFill, TypeOK, Side, Sign
    <3>3. QED
      BY <2>11, <3>1, <3>2 DEF OnFill, TypeOK
  <2>12. CASE OnNewsHeadline \/ OnSentimentTick
    BY <2>12 DEF OnNewsHeadline, OnSentimentTick, StopNewOrders, TypeOK
  <2>13. CASE FundingArbTick \/ StatArbTick
    <3>1. \E broken \in BOOLEAN : HandleDriverEvent(broken) \/ HandleStatArbEvent(broken)
      BY <2>13 DEF FundingArbTick, StatArbTick
    <3>2. level' \in 0 .. 5 /\ drivers' \subseteq Drivers
      BY <3>1, DriverEventShape DEF TypeOK
    <3>3. UNCHANGED <<phase, errors, msgs, disconnected, tracked, inv, twap, stops, restarts, operator>>
      BY <2>13 DEF FundingArbTick, StatArbTick
    <3>4. Fresh(tracked, fills) \subseteq Orders
      BY DEF Fresh
    <3>5. venue' \subseteq Orders
      BY <2>13, <3>4 DEF FundingArbTick, StatArbTick, TypeOK
    <3>6. \A o \in Fresh(tracked, fills) : Append(fills, o) \in Seq(Orders)
      BY <3>4 DEF TypeOK
    <3>7. fills' \in Seq(Orders)
      BY <2>13, <3>6 DEF FundingArbTick, StatArbTick, TypeOK
    <3>8. QED
      BY <3>2, <3>3, <3>5, <3>7 DEF TypeOK
  <2>14. CASE ManualKill
    BY <2>14 DEF ManualKill, TypeOK
  <2>15. CASE ManualReset
    BY <2>15 DEF ManualReset, TypeOK
  <2>16. CASE Shutdown
    BY <2>16, CancelAllShape DEF Shutdown, TypeOK
  <2>17. CASE Restart
    <3>1. fills' \in Seq(Orders)
      BY <2>17 DEF Restart
    <3>2. restarts' \in 0 .. MaxRestarts
      BY <2>17 DEF Restart, TypeOK
    <3>3. disconnected' \in BOOLEAN
      BY <2>17 DEF Restart
    <3>4. QED
      BY <2>17, <3>1, <3>2, <3>3 DEF Restart, TypeOK
  <2>18. CASE SorDispatch
    <3>1. Fresh(tracked, fills) \subseteq Orders
      BY DEF Fresh
    <3>2. \A q \in {1, -1} : \A s \in Slices(q, tracked, fills) :
            s.tracked \subseteq Orders /\ s.fills \in Seq(Orders)
      BY SliceShape DEF TypeOK
    <3>3. tracked' \subseteq Orders /\ venue' \subseteq Orders /\ fills' \in Seq(Orders)
      BY <2>18, <3>1, <3>2 DEF SorDispatch, TypeOK
    <3>4. QED
      BY <2>18, <3>3 DEF SorDispatch, TypeOK
  <2>19. CASE UNCHANGED vars
    BY <2>19 DEF vars, TypeOK
  <2>20. QED
    BY <2>1, <2>2, <2>3, <2>4, <2>5, <2>6, <2>7, <2>8, <2>9, <2>10, <2>11, <2>12,
       <2>13, <2>14, <2>15, <2>16, <2>17, <2>18, <2>19 DEF Next
<1>3. QED
  BY <1>1, <1>2, PTL DEF Spec

\* The L4 executor starts only in a tick_second that ends with nothing tracked
\* and the level at FlattenAll or above, whatever cancels and queries did.
THEOREM FlattenStartsAfterCancel == Spec => FlattenAfterCancel
<1>1. [Next]_vars => (twap = 0 /\ twap' # 0 => tracked' = {} /\ level' >= 4)
  <2> SUFFICES ASSUME [Next]_vars, twap = 0, twap' # 0
               PROVE  tracked' = {} /\ level' >= 4
    OBVIOUS
  <2>1. CASE TickSecond
    <3>1. PICK l \in 0 .. 3, s \in TickSlices : \E r \in CancelAll(s.tracked, venue) :
            /\ level' = Escalated(l)
            /\ tracked' = r.tracked
            /\ twap' = IF Flatten(Escalated(l), r.ok) THEN inv ELSE twap
      BY <2>1 DEF TickSecond
    <3>2. QED
      BY <3>1, CancelAllShape DEF Flatten
  <2>2. CASE OnFill
    BY <2>2 DEF OnFill
  <2>3. CASE Restart
    BY <2>3 DEF Restart
  <2>4. CASE Startup \/ EnterDisconnect \/ LeaveDisconnect \/ Shutdown
    BY <2>4 DEF Startup, EnterDisconnect, LeaveDisconnect, Shutdown
  <2>5. CASE RefreshKilled \/ ClientCircuit \/ RefreshGated \/ RefreshVenueKilled
             \/ RefreshQuotes
    BY <2>5 DEF RefreshKilled, ClientCircuit, RefreshGated, RefreshVenueKilled, RefreshQuotes
  <2>6. CASE SorDispatch \/ Reconcile \/ VenueFill \/ ManualKill \/ ManualReset
    BY <2>6 DEF SorDispatch, Reconcile, VenueFill, ManualKill, ManualReset
  <2>7. CASE OnNewsHeadline \/ OnSentimentTick \/ FundingArbTick \/ StatArbTick
    BY <2>7 DEF OnNewsHeadline, OnSentimentTick, FundingArbTick, StatArbTick
  <2>8. CASE UNCHANGED vars
    BY <2>8 DEF vars
  <2>9. QED
    BY <2>1, <2>2, <2>3, <2>4, <2>5, <2>6, <2>7, <2>8 DEF Next
<1>2. QED
  BY <1>1, PTL DEF Spec, FlattenAfterCancel

\* Drivers come from the configuration: none appears that is no source.
DriversAreSources == drivers \subseteq Sources

\* KillHolds with every source attached, a graph included, and through restarts:
\* but for the operator and a restart, the level falls only to one that a source
\* assigns, so an engine that stopped quoting does not start again by itself.
THEOREM KillHoldsUntilCommand == Spec => KillHolds
<1> DEFINE Held == operator' = operator /\ restarts' = restarts
                     => level' >= level \/ level' \in SourceLevels
<1>1. Init => DriversAreSources
  BY DEF Init, DriversAreSources
<1>2. DriversAreSources /\ [Next]_vars => DriversAreSources'
  <2> SUFFICES ASSUME DriversAreSources, [Next]_vars PROVE drivers' \subseteq Sources
    BY DEF DriversAreSources
  <2> USE DEF DriversAreSources
  <2>1. CASE FundingArbTick \/ StatArbTick
    BY <2>1 DEF FundingArbTick, StatArbTick, HandleDriverEvent, HandleStatArbEvent
  <2>2. CASE Restart
    BY <2>2 DEF Restart
  <2>3. CASE UNCHANGED drivers
    BY <2>3
  <2>4. QED
    BY <2>1, <2>2, <2>3 DEF Next, vars, Startup, EnterDisconnect, LeaveDisconnect,
       RefreshKilled, ClientCircuit, RefreshGated, RefreshVenueKilled, RefreshQuotes,
       TickSecond, SorDispatch, Reconcile, VenueFill, OnFill, OnNewsHeadline,
       OnSentimentTick, ManualKill, ManualReset, Shutdown
<1>3. TypeOK /\ DriversAreSources /\ [Next]_vars => Held
  <2> SUFFICES ASSUME TypeOK, DriversAreSources, [Next]_vars,
                      operator' = operator, restarts' = restarts
               PROVE  level' >= level \/ level' \in SourceLevels
    OBVIOUS
  <2>0. level \in 0 .. 5
    BY DEF TypeOK
  <2>1. ASSUME AllowNewOrders, NEW k \in Sunk
        PROVE  k \in 0 .. 5 /\ k >= level
    BY <2>0, <2>1 DEF AllowNewOrders, Sunk, GraphSinks, Escalated
  <2>2. CASE RefreshGated
    BY <2>0, <2>1, <2>2 DEF RefreshGated
  <2>3. CASE RefreshVenueKilled
    <3>1. PICK k \in Sunk, x \in BOOLEAN, y \in BOOLEAN :
            level' = Larger(k, Larger(IF x THEN 3 ELSE 0, IF y THEN 2 ELSE 0))
      BY <2>3 DEF RefreshVenueKilled
    <3>2. Larger(IF x THEN 3 ELSE 0, IF y THEN 2 ELSE 0) \in {0, 2, 3}
      BY DEF Larger
    <3>3. k \in 0 .. 5 /\ k >= level
      BY <2>1, <2>3 DEF RefreshVenueKilled
    <3>4. QED
      BY <2>0, <3>1, <3>2, <3>3 DEF Larger
  <2>4. CASE RefreshQuotes
    <3>1. \E k \in Sunk, a \in {0, 3} : level' = Larger(k, a)
      BY <2>4 DEF RefreshQuotes
    <3>2. AllowNewOrders
      BY <2>4 DEF RefreshQuotes
    <3>3. QED
      BY <2>0, <2>1, <3>1, <3>2 DEF Larger
  <2>5. CASE TickSecond
    BY <2>0, <2>5 DEF TickSecond, Escalated
  <2>6. CASE OnNewsHeadline \/ OnSentimentTick
    BY <2>6 DEF OnNewsHeadline, OnSentimentTick, StopNewOrders, SourceLevels
  <2>7. CASE ClientCircuit
    BY <2>7 DEF ClientCircuit, SourceLevels
  <2>8. CASE FundingArbTick
    <3>1. "funding_arb" \in Sources /\ level' \in {2, level}
      BY <2>0, <2>8 DEF FundingArbTick, HandleDriverEvent, StopNewOrders, DriversAreSources
    <3>2. QED
      BY <2>0, <3>1 DEF SourceLevels
  <2>9. CASE StatArbTick
    <3>1. "stat_arb" \in Sources /\ level' \in {2, level}
      BY <2>0, <2>9 DEF StatArbTick, HandleStatArbEvent, StopNewOrders, DriversAreSources
    <3>2. QED
      BY <2>0, <3>1 DEF SourceLevels
  <2>10. CASE ManualKill \/ ManualReset \/ Restart
    BY <2>10 DEF ManualKill, ManualReset, Restart, TypeOK
  <2>11. CASE UNCHANGED level
    BY <2>0, <2>11
  <2>12. QED
    BY <2>2, <2>3, <2>4, <2>5, <2>6, <2>7, <2>8, <2>9, <2>10, <2>11
       DEF Next, vars, Startup, EnterDisconnect, LeaveDisconnect, RefreshKilled,
           SorDispatch, Reconcile, VenueFill, OnFill, Shutdown
<1>4. QED
  BY <1>1, <1>2, <1>3, KillLadderTypeCorrect, PTL DEF Spec, KillHolds

\* Nothing the engine does on its own goes beyond L3: only the operator takes it to L4
\* or L5, it starts to unwind only from such a level, and cuts its connection only at L5.
UnwindOnCommand ==
  [][/\ level < 4 /\ level' >= 4 => operator' # operator
     /\ twap = 0 /\ twap' # 0 => level >= 4
     /\ ~disconnected /\ disconnected' => level = 5]_vars

\* docs/risk.md, "Disconnect | Manual only": UnwindOnCommand holds with every source of
\* manual_trigger but a strategy graph, through restarts and for every limit.  The same
\* page has "Flatten All | Escalation from L3"; no automatic input takes that step.
THEOREM OnlyOperatorUnwinds ==
  ASSUME "graph" \notin Sources
  PROVE  Spec => UnwindOnCommand
<1> DEFINE Commanded == /\ level < 4 /\ level' >= 4 => operator' # operator
                        /\ twap = 0 /\ twap' # 0 => level >= 4
                        /\ ~disconnected /\ disconnected' => level = 5
<1>1. TypeOK /\ [Next]_vars => [Commanded]_vars
  <2> SUFFICES ASSUME TypeOK, Next PROVE Commanded  OBVIOUS
  <2>0. level \in 0 .. 5  BY DEF TypeOK
  <2>1. \A k \in Sunk : k \in 0 .. 5 /\ (k = level \/ k = 1)
    BY <2>0 DEF Sunk, GraphSinks, Escalated
  <2>2. CASE RefreshGated
    BY <2>0, <2>1, <2>2 DEF RefreshGated
  <2>3. CASE RefreshVenueKilled
    <3>1. PICK k \in Sunk, x \in BOOLEAN, y \in BOOLEAN :
            level' = Larger(k, Larger(IF x THEN 3 ELSE 0, IF y THEN 2 ELSE 0))
      BY <2>3 DEF RefreshVenueKilled
    <3>2. Larger(IF x THEN 3 ELSE 0, IF y THEN 2 ELSE 0) \in {0, 2, 3}  BY DEF Larger
    <3>3. \E a \in {0, 2, 3} : level' = Larger(k, a)  BY <3>1, <3>2
    <3> QED  BY <2>0, <2>1, <2>3, <3>3 DEF RefreshVenueKilled, Larger
  <2>4. CASE RefreshQuotes
    <3>1. \E k \in Sunk, a \in {0, 3} : level' = Larger(k, a)
      BY <2>4 DEF RefreshQuotes
    <3> QED  BY <2>0, <2>1, <2>4, <3>1 DEF RefreshQuotes, Larger
  <2>5. CASE TickSecond
    <3>1. PICK l \in 0 .. 3 : /\ level' = Escalated(l)
                              /\ twap' = twap \/ \E ok : Flatten(Escalated(l), ok)
      BY <2>5 DEF TickSecond
    <3> QED  BY <2>0, <2>5, <3>1 DEF TickSecond, Escalated, Flatten
  <2>6. CASE \/ OnNewsHeadline \/ OnSentimentTick \/ FundingArbTick \/ StatArbTick
             \/ ClientCircuit
    <3>1. level' \in {2, 3, level} /\ UNCHANGED <<twap, disconnected>>
      BY <2>6 DEF OnNewsHeadline, OnSentimentTick, FundingArbTick, StatArbTick,
         HandleDriverEvent, HandleStatArbEvent, StopNewOrders, ClientCircuit
    <3> QED  BY <2>0, <3>1
  <2>7. CASE Restart \/ ManualKill \/ ManualReset
    <3>1. CASE ManualKill  BY <3>1 DEF ManualKill, TypeOK
    <3>2. CASE Restart \/ ManualReset
      <4>1. level' = 0 /\ (twap' = 0 \/ twap' = twap)  BY <3>2 DEF Restart, ManualReset
      <4>2. ~disconnected => ~disconnected'  BY <3>2, Zenon DEF Restart, ManualReset
      <4> QED  BY <4>1, <4>2
    <3> QED  BY <2>7, <3>1, <3>2
  <2>8. CASE Startup \/ EnterDisconnect \/ LeaveDisconnect \/ Shutdown \/ RefreshKilled
    <3>1. /\ UNCHANGED <<level, twap>>
          /\ level = 5 \/ disconnected' = FALSE \/ disconnected' = disconnected
      BY <2>8 DEF Startup, EnterDisconnect, LeaveDisconnect, Shutdown, RefreshKilled, kill
    <3> QED  BY <2>0, <3>1
  <2>9. CASE SorDispatch \/ Reconcile \/ VenueFill \/ OnFill
    <3>1. /\ UNCHANGED <<level, disconnected>> /\ (twap = 0 => twap' = 0)
      BY <2>9 DEF SorDispatch, Reconcile, VenueFill, OnFill, kill
    <3> QED  BY <2>0, <3>1
  <2> QED  BY <2>2, <2>3, <2>4, <2>5, <2>6, <2>7, <2>8, <2>9 DEF Next
<1> QED  BY <1>1, KillLadderTypeCorrect, PTL DEF Spec, UnwindOnCommand

-----------------------------------------------------------------------------
(* The handlers and the order manager.                                      *)

Sets == INSTANCE OrderSets WITH Ids <- Orders

B(t, v) == [tracked |-> t, venue |-> v]

\* One call of the order manager as OrderSets has it, or none.
Calls(b, c) == c = b \/ Sets!Call(b, c)

\* What a handler does to the orders, it does by at most three calls in a row.
ThreeCalls ==
  \E b, c \in Sets!Books : Calls(Sets!Book, b) /\ Calls(b, c) /\ Calls(c, Sets!Book')

\* Apart from a restart, which forgets what was tracked, no handler of the run loop
\* touches orders except through the calls whose effect OrderTable implements: the
\* orders of this module are those of the real order manager.
HandlersAreCalls == [][restarts' = restarts => ThreeCalls]_vars

\* A stop order the emulator still holds is not an order yet.
StopsApart == stops \cap (tracked \cup venue) = {}

\* The outcomes of cancel_all are those of OrderSets.
LEMMA CancelAllCall ==
  ASSUME NEW t, NEW v, NEW r \in CancelAll(t, v)
  PROVE  Calls(B(t, v), B(r.tracked, r.venue))
<1> SUFFICES Sets!CancelAll(B(t, v), B(r.tracked, r.venue))
  BY DEF Calls, Sets!Call
<1> USE DEF Sets!CancelAll, B
<1>1. CASE t = {}
  BY <1>1 DEF CancelAll
<1>2. CASE t # {}
  <2>1. PICK gone \in SUBSET (t \cap v) :
          \/ r.tracked = {} /\ r.venue = v \ gone
          \/ r.tracked = t \cap (v \ gone) /\ r.venue = v \ gone
          \/ \E seen \in SUBSET (t \cap v) : /\ t \cap (v \ gone) \subseteq seen
                                             /\ r.tracked = seen /\ r.venue = v \ gone
    BY <1>2 DEF CancelAll
  <2> QED
    BY <2>1
<1> QED
  BY <1>1, <1>2

\* The OrderEmulator's placements are a diff that tracks nothing.
LEMMA EmulatorCall ==
  ASSUME TypeOK, StopsApart, NEW e \in EmulatorTick
  PROVE  /\ Calls(B(tracked, venue), B(tracked, e.venue))
         /\ e.stops \cap (tracked \cup e.venue) = {}
         /\ venue \subseteq e.venue /\ e.venue \subseteq venue \cup stops
<1>1. PICK fired \in SUBSET stops : \E placed \in SUBSET fired :
        e.venue = venue \cup placed /\ e.stops = stops \ fired
  BY DEF EmulatorTick
<1>2. stops \subseteq Orders  BY KillLadderAssumption DEF TypeOK
<1>3. Sets!Diff(B(tracked, venue), B(tracked, e.venue))
  BY <1>1, <1>2 DEF Sets!Diff, Sets!Fresh, B, StopsApart
<1> QED
  BY <1>1, <1>3 DEF Calls, Sets!Call, StopsApart

\* A slice, whatever its answer, is a slice of OrderSets or refused.
LEMMA SliceCall ==
  ASSUME NEW q, NEW t, NEW f, NEW s \in Slices(q, t, f)
  PROVE  /\ Calls(B(t, venue), B(s.tracked, venue))
         /\ \A o \in s.tracked \ t : o \in Orders /\ o \notin stops
<1>1. s.tracked = t \/ \E o \in Fresh(t, f) : s.tracked = t \cup {o}
  BY DEF Slices
<1>2. CASE s.tracked = t
  BY <1>2 DEF Calls
<1>3. ASSUME NEW o \in Fresh(t, f), s.tracked = t \cup {o}
      PROVE  Calls(B(t, venue), B(s.tracked, venue)) /\ o \in Orders /\ o \notin stops
  <2>1. o \in Orders /\ o \notin t /\ o \notin venue /\ o \notin stops  BY <1>3 DEF Fresh
  <2>2. Sets!Slice(B(t, venue), B(s.tracked, venue))
    BY <1>3, <2>1 DEF Sets!Slice, Sets!Fresh, B
  <2> QED
    BY <2>1, <2>2 DEF Calls, Sets!Call
<1> QED
  BY <1>1, <1>2, <1>3

\* execute_diff behind the emulator's tick.
LEMMA DiffCall ==
  ASSUME TypeOK, StopsApart, NEW e \in EmulatorTick, NEW c \in Cancels, NEW p \in Placements
  PROVE  Calls(B(tracked, e.venue),
               B((tracked \ c.dropped) \cup p.acked,
                 (e.venue \ c.landed) \cup p.acked \cup p.lost))
<1>1. c.dropped \subseteq tracked /\ c.landed \subseteq c.dropped
  BY DEF Cancels
<1>2. /\ p.acked \subseteq Orders /\ p.lost \subseteq Orders
      /\ (p.acked \cup p.lost) \cap (tracked \cup venue \cup stops) = {}
  BY DEF Placements, Fresh
<1>3. e.venue \subseteq venue \cup stops
  BY EmulatorCall
<1>4. Sets!Diff(B(tracked, e.venue),
                B((tracked \ c.dropped) \cup p.acked,
                  (e.venue \ c.landed) \cup p.acked \cup p.lost))
  BY <1>1, <1>2, <1>3 DEF Sets!Diff, Sets!Fresh, B
<1> QED
  BY <1>4 DEF Calls, Sets!Call

\* Fewer than three calls are three with some that do nothing.
LEMMA Chain ==
  ASSUME TypeOK, NEW t1 \in SUBSET Orders, NEW v1 \in SUBSET Orders,
         NEW t2 \in SUBSET Orders, NEW v2 \in SUBSET Orders,
         Calls(B(tracked, venue), B(t1, v1)), Calls(B(t1, v1), B(t2, v2)),
         Calls(B(t2, v2), B(tracked', venue'))
  PROVE  ThreeCalls
<1>1. B(t1, v1) \in Sets!Books /\ B(t2, v2) \in Sets!Books  BY DEF B, Sets!Books
<1>2. B(tracked, venue) = Sets!Book /\ B(tracked', venue') = Sets!Book'  BY DEF B, Sets!Book
<1> QED
  BY <1>1, <1>2 DEF ThreeCalls

LEMMA EarlyReturnCalls ==
  ASSUME TypeOK, StopsApart, EarlyReturn
  PROVE  ThreeCalls /\ StopsApart'
<1>1. PICK e \in EmulatorTick :
        /\ stops' = e.stops
        /\ \/ tracked' = tracked /\ venue' = e.venue
           \/ \E r \in CancelAll(tracked, e.venue) : tracked' = r.tracked /\ venue' = r.venue
  BY DEF EarlyReturn
<1>2. /\ Calls(B(tracked, venue), B(tracked, e.venue))
      /\ e.stops \cap (tracked \cup e.venue) = {} /\ e.venue \subseteq venue \cup stops
  BY EmulatorCall
<1>3. tracked \in SUBSET Orders /\ e.venue \in SUBSET Orders
  BY <1>2, KillLadderAssumption DEF TypeOK
<1>4. Calls(B(tracked, e.venue), B(tracked', venue'))
  BY <1>1, CancelAllCall DEF Calls
<1>5. Calls(B(tracked, e.venue), B(tracked, e.venue))  BY DEF Calls
<1>6. tracked' \subseteq tracked /\ venue' \subseteq e.venue  BY <1>1, CancelAllShape
<1>7. StopsApart'  BY <1>1, <1>2, <1>6 DEF StopsApart
<1> QED
  BY <1>2, <1>3, <1>4, <1>5, <1>7, Chain

\* Every handler, one by one.
LEMMA HandlerCalls ==
  ASSUME TypeOK, StopsApart, [Next]_vars
  PROVE  (restarts' = restarts => ThreeCalls) /\ StopsApart'
<1>0. /\ tracked \in SUBSET Orders /\ venue \in SUBSET Orders /\ restarts \in Int
      /\ \A b : Calls(b, b)
  BY KillLadderAssumption DEF TypeOK, Calls
<1>1. ASSUME Calls(B(tracked, venue), B(tracked', venue')) PROVE ThreeCalls
  BY <1>0, <1>1, Chain
<1>2. ASSUME UNCHANGED <<tracked, venue, stops>> PROVE ThreeCalls /\ StopsApart'
  BY <1>0, <1>1, <1>2 DEF StopsApart
<1>3. ASSUME Startup PROVE ThreeCalls /\ StopsApart'
  <2>1. PICK t \in {tracked, venue} : \E r \in CancelAll(t, venue) :
          tracked' = r.tracked /\ venue' = r.venue
    BY <1>3 DEF Startup
  <2>2. Calls(B(tracked, venue), B(t, venue))
    <3>1. Sets!Reconcile(B(tracked, venue), B(venue, venue))  BY DEF Sets!Reconcile, B
    <3> QED
      BY <1>0, <2>1, <3>1 DEF Calls, Sets!Call
  <2>3. Calls(B(t, venue), B(tracked', venue'))  BY <2>1, CancelAllCall
  <2>4. t \in SUBSET Orders  BY <1>0
  <2>5. tracked' \subseteq t /\ venue' \subseteq venue /\ stops' = stops
    BY <1>3, <2>1, CancelAllShape DEF Startup
  <2>6. StopsApart'  BY <2>5 DEF StopsApart
  <2> QED
    BY <1>0, <2>2, <2>3, <2>4, <2>6, Chain
<1>4. ASSUME EnterDisconnect \/ Shutdown PROVE ThreeCalls /\ StopsApart'
  <2>1. PICK r \in CancelAll(tracked, venue) : tracked' = r.tracked /\ venue' = r.venue
    BY <1>4 DEF EnterDisconnect, Shutdown
  <2>2. stops' = stops /\ tracked' \subseteq tracked /\ venue' \subseteq venue
    BY <1>4, <2>1, CancelAllShape DEF EnterDisconnect, Shutdown
  <2>3. StopsApart'  BY <2>2 DEF StopsApart
  <2> QED
    BY <1>1, <2>1, <2>3, CancelAllCall
<1>5. ASSUME RefreshKilled \/ ClientCircuit \/ RefreshGated PROVE ThreeCalls /\ StopsApart'
  BY <1>5, EarlyReturnCalls DEF RefreshKilled, ClientCircuit, RefreshGated
<1>6. ASSUME RefreshVenueKilled PROVE ThreeCalls /\ StopsApart'
  <2>1. EarlyReturn  BY <1>6 DEF RefreshVenueKilled, EarlyReturn
  <2> QED
    BY <2>1, EarlyReturnCalls
<1>7. ASSUME RefreshQuotes PROVE ThreeCalls /\ StopsApart'
  <2>1. PICK e \in EmulatorTick, c \in Cancels, p \in Placements :
          /\ stops' = e.stops
          /\ tracked' = (tracked \ c.dropped) \cup p.acked
          /\ venue' = (e.venue \ c.landed) \cup p.acked \cup p.lost
    BY <1>7 DEF RefreshQuotes
  <2>2. /\ Calls(B(tracked, venue), B(tracked, e.venue))
        /\ e.stops \cap (tracked \cup e.venue) = {} /\ e.venue \subseteq venue \cup stops
        /\ e.stops \subseteq stops
    BY EmulatorCall, EmulatorShape
  <2>3. e.venue \in SUBSET Orders  BY <1>0, <2>2, KillLadderAssumption DEF TypeOK
  <2>4. Calls(B(tracked, e.venue), B(tracked', venue'))  BY <2>1, DiffCall
  <2>5. (p.acked \cup p.lost) \cap stops = {}  BY DEF Placements, Fresh
  <2>6. StopsApart'  BY <2>1, <2>2, <2>5 DEF StopsApart
  <2> QED
    BY <1>0, <2>2, <2>3, <2>4, <2>6, Chain
<1>8. ASSUME TickSecond PROVE ThreeCalls /\ StopsApart'
  <2>1. PICK s \in TickSlices :
          /\ \/ tracked' = s.tracked /\ UNCHANGED venue
             \/ \E r \in CancelAll(s.tracked, venue) : tracked' = r.tracked /\ venue' = r.venue
          /\ stops' = stops
    BY <1>8 DEF TickSecond
  <2>2. PICK m \in Slices(inv, tracked, fills) : s \in Slices(twap, m.tracked, m.fills)
    BY DEF TickSlices
  <2>3. /\ Calls(B(tracked, venue), B(m.tracked, venue))
        /\ \A o \in m.tracked \ tracked : o \in Orders /\ o \notin stops
    BY SliceCall
  <2>4. /\ Calls(B(m.tracked, venue), B(s.tracked, venue))
        /\ \A o \in s.tracked \ m.tracked : o \in Orders /\ o \notin stops
    BY <2>2, SliceCall
  <2>5. m.tracked \in SUBSET Orders /\ s.tracked \in SUBSET Orders  BY <1>0, <2>3, <2>4
  <2>6. Calls(B(s.tracked, venue), B(tracked', venue'))
    BY <1>0, <2>1, CancelAllCall
  <2>7. tracked' \subseteq s.tracked /\ venue' \subseteq venue  BY <2>1, CancelAllShape
  <2>8. StopsApart'  BY <2>1, <2>3, <2>4, <2>7 DEF StopsApart
  <2> QED
    BY <1>0, <2>3, <2>4, <2>5, <2>6, <2>8, Chain
<1>9. ASSUME SorDispatch PROVE ThreeCalls /\ StopsApart'
  <2>1. CASE \E q \in {1, -1} : \E s \in Slices(q, tracked, fills) :
               tracked' = s.tracked /\ fills' = s.fills /\ UNCHANGED venue
    <3>0. PICK q \in {1, -1} : \E s \in Slices(q, tracked, fills) :
            tracked' = s.tracked /\ venue' = venue
      BY <2>1
    <3>1. PICK s \in Slices(q, tracked, fills) : tracked' = s.tracked /\ venue' = venue
      BY <3>0
    <3>2. /\ Calls(B(tracked, venue), B(s.tracked, venue))
          /\ \A o \in s.tracked \ tracked : o \in Orders /\ o \notin stops
      BY SliceCall
    <3>3. StopsApart'  BY <1>9, <3>1, <3>2 DEF StopsApart, SorDispatch
    <3> QED
      BY <1>1, <3>1, <3>2, <3>3
  <2>2. CASE \E o \in Fresh(tracked, fills) :
               venue' = venue \cup {o} /\ UNCHANGED <<tracked, fills>>
    <3>1. PICK o \in Fresh(tracked, fills) : venue' = venue \cup {o} /\ tracked' = tracked
      BY <2>2
    <3>2. o \in Orders /\ o \notin tracked /\ o \notin venue /\ o \notin stops
      BY DEF Fresh
    <3>3. Sets!Diff(B(tracked, venue), B(tracked', venue'))
      BY <3>1, <3>2 DEF Sets!Diff, Sets!Fresh, B
    <3>4. StopsApart'  BY <1>9, <3>1, <3>2 DEF StopsApart, SorDispatch
    <3> QED
      BY <1>1, <3>3, <3>4 DEF Calls, Sets!Call
  <2> QED
    BY <1>9, <2>1, <2>2 DEF SorDispatch
<1>10. ASSUME Reconcile PROVE ThreeCalls /\ StopsApart'
  <2>1. tracked' = venue /\ venue' = venue /\ stops' = stops  BY <1>10 DEF Reconcile
  <2>2. Sets!Reconcile(B(tracked, venue), B(tracked', venue'))
    BY <2>1 DEF Sets!Reconcile, B
  <2>3. StopsApart'  BY <2>1 DEF StopsApart
  <2> QED
    BY <1>1, <2>2, <2>3 DEF Calls, Sets!Call
<1>11. ASSUME VenueFill PROVE ThreeCalls /\ StopsApart'
  <2>1. PICK o \in venue : venue' = venue \ {o} /\ tracked' = tracked /\ stops' = stops
    BY <1>11 DEF VenueFill
  <2>2. Sets!VenueGone(B(tracked, venue), B(tracked', venue'))
    BY <2>1 DEF Sets!VenueGone, B
  <2>3. StopsApart'  BY <2>1 DEF StopsApart
  <2> QED
    BY <1>1, <2>2, <2>3 DEF Calls, Sets!Call
<1>12. ASSUME OnFill PROVE ThreeCalls /\ StopsApart'
  <2> DEFINE o == Head(fills)
  <2>1. tracked' = tracked \ {o} /\ venue' = venue /\ stops' = stops  BY <1>12 DEF OnFill
  <2>2. CASE o \in tracked
    <3>1. Sets!Completed(B(tracked, venue), B(tracked', venue'))
      BY <2>1, <2>2 DEF Sets!Completed, B
    <3>2. StopsApart'  BY <2>1 DEF StopsApart
    <3> QED
      BY <1>1, <3>1, <3>2 DEF Calls, Sets!Call
  <2>3. CASE o \notin tracked
    <3>1. tracked' = tracked  BY <2>1, <2>3
    <3> QED
      BY <1>2, <2>1, <3>1
  <2> QED
    BY <2>2, <2>3
<1>13. ASSUME \/ LeaveDisconnect \/ ManualKill \/ ManualReset \/ OnNewsHeadline
              \/ OnSentimentTick \/ StatArbTick \/ UNCHANGED vars
       PROVE  ThreeCalls /\ StopsApart'
  BY <1>2, <1>13 DEF LeaveDisconnect, ManualKill, ManualReset, OnNewsHeadline,
     OnSentimentTick, StatArbTick, vars
<1>15. ASSUME FundingArbTick PROVE ThreeCalls /\ StopsApart'
  <2>1. PICK posted \in {{}} \cup {{o} : o \in Fresh(tracked, fills)} :
          venue' = venue \cup posted
    BY <1>15 DEF FundingArbTick
  <2>2. UNCHANGED <<tracked, stops>>
    BY <1>15 DEF FundingArbTick
  <2>3. posted \subseteq Orders /\ posted \cap (tracked \cup venue \cup stops) = {}
    BY <2>1 DEF Fresh
  <2>4. Sets!Diff(B(tracked, venue), B(tracked', venue'))
    BY <2>1, <2>2, <2>3 DEF Sets!Diff, Sets!Fresh, B
  <2>5. StopsApart'  BY <2>1, <2>2, <2>3 DEF StopsApart
  <2> QED
    BY <1>1, <2>4, <2>5 DEF Calls, Sets!Call
<1>14. ASSUME Restart PROVE restarts' # restarts /\ StopsApart'
  BY <1>0, <1>14 DEF Restart, StopsApart
<1> QED
  BY <1>3, <1>4, <1>5, <1>6, <1>7, <1>8, <1>9, <1>10, <1>11, <1>12, <1>13, <1>14,
     <1>15 DEF Next

\* HandlersAreCalls for every set of orders, stops and sources: the kill ladder asks of
\* the order manager only what OrderSets describes, and TableRefines of
\* OrderTableProofs shows that the real tables deliver it.
THEOREM LadderCallsOrderSets == Spec => HandlersAreCalls
<1>1. Init => StopsApart
  BY DEF Init, StopsApart
<1>2. TypeOK /\ StopsApart /\ [Next]_vars
      => (restarts' = restarts => ThreeCalls) /\ StopsApart'
  BY HandlerCalls
<1> QED
  BY <1>1, <1>2, KillLadderTypeCorrect, PTL DEF Spec, HandlersAreCalls

\* KillStopsQuoting with every channel open: stops in the emulator, inline SOR, both
\* drivers, a graph that raises the level in the middle of a refresh.  From L2 upwards
\* the three side channels are all that still adds orders, and none of it is tracked.
THEOREM KilledEngineQuotesNothing == Spec => KillStopsQuoting
<1> DEFINE Quiet == level >= 2 => /\ tracked' \cap (venue' \ venue) = {}
                                  /\ \/ venue' \ venue \subseteq stops
                                     \/ SorDispatch \/ FundingArbTick
<1>1. Init => StopsApart
  BY DEF Init, StopsApart
<1>2. TypeOK /\ StopsApart /\ [Next]_vars => StopsApart'
  BY HandlerCalls
<1>3. TypeOK /\ StopsApart /\ [Next]_vars => Quiet
  <2> SUFFICES ASSUME TypeOK, StopsApart, [Next]_vars, level >= 2
               PROVE  /\ tracked' \cap (venue' \ venue) = {}
                      /\ \/ venue' \ venue \subseteq stops
                         \/ SorDispatch \/ FundingArbTick
    OBVIOUS
  <2>1. ~AllowNewOrders
    BY DEF AllowNewOrders, TypeOK
  <2>2. CASE RefreshKilled \/ ClientCircuit
    <3>1. PICK e \in EmulatorTick :
            \/ \E r \in CancelAll(tracked, e.venue) : tracked' = r.tracked /\ venue' = r.venue
            \/ tracked' = tracked /\ venue' = e.venue
      BY <2>2 DEF RefreshKilled, ClientCircuit, EarlyReturn
    <3>2. tracked' \subseteq tracked /\ venue' \subseteq e.venue
      BY <3>1, CancelAllShape
    <3>3. e.venue \subseteq venue \cup stops
      BY EmulatorShape
    <3>4. QED
      BY <3>2, <3>3 DEF StopsApart
  <2>3. CASE RefreshGated \/ RefreshVenueKilled \/ RefreshQuotes
    BY <2>1, <2>3 DEF RefreshGated, RefreshVenueKilled, RefreshQuotes
  <2>4. CASE Startup \/ EnterDisconnect \/ Shutdown
    <3>1. venue' \subseteq venue
      BY <2>4, CancelAllShape DEF Startup, EnterDisconnect, Shutdown
    <3>2. QED
      BY <3>1
  <2>5. CASE TickSecond
    <3>1. \/ UNCHANGED venue
          \/ \E s \in TickSlices : \E r \in CancelAll(s.tracked, venue) : venue' = r.venue
      BY <2>5 DEF TickSecond
    <3>2. venue' \subseteq venue
      BY <3>1, CancelAllShape
    <3>3. QED
      BY <3>2
  <2>6. CASE SorDispatch \/ FundingArbTick
    <3>1. \/ venue' = venue
          \/ \E o \in Fresh(tracked, fills) : venue' = venue \cup {o} /\ tracked' = tracked
      BY <2>6 DEF SorDispatch, FundingArbTick
    <3>2. tracked' \cap (venue' \ venue) = {}
      BY <3>1 DEF Fresh
    <3>3. QED
      BY <2>6, <3>2
  <2>7. CASE venue' \subseteq venue
    BY <2>7
  <2>8. QED
    BY <2>2, <2>3, <2>4, <2>5, <2>6, <2>7 DEF Next, vars, LeaveDisconnect, Reconcile,
       VenueFill, OnFill, Restart, ManualKill, ManualReset, OnNewsHeadline,
       OnSentimentTick, StatArbTick
<1>4. QED
  BY <1>1, <1>2, <1>3, KillLadderTypeCorrect, PTL DEF Spec, KillStopsQuoting

=============================================================================
