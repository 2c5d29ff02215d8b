-------------------------- MODULE OrderTableProofs --------------------------
(***************************************************************************)
(* Proofs about the order manager, for every set of ids, sides and prices  *)
(* and every bound: what the operations on live_orders and price_index     *)
(* preserve, and from that the invariants and the refinement.              *)
(***************************************************************************)
EXTENDS OrderTable, TLAPS

-----------------------------------------------------------------------------
(* The two maps.                                                            *)

IsTable(t) ==
  /\ t = Table(t.live, t.index)
  /\ DOMAIN t.live \subseteq Ids /\ t.live \in [DOMAIN t.live -> Order]
  /\ DOMAIN t.index \subseteq Keys /\ t.index \in [DOMAIN t.index -> Ids]

\* IndexSound, of a table.
Sound(t) ==
  \A k \in DOMAIN t.index : t.index[k] \in DOMAIN t.live /\ t.live[t.index[k]].key = k

\* The converse: every live order can be found through the index.  One order per
\* side and price; an untracked phantom or an unwind slice breaks it.
Full(t) ==
  \A id \in DOMAIN t.live :
    t.live[id].key \in DOMAIN t.index /\ t.index[t.live[id].key] = id

LEMMA OrderFields ==
  ASSUME NEW o \in Order
  PROVE  /\ o.key \in Keys /\ o.qty \in 1 .. MaxQty /\ o.filled \in 0 .. MaxQty
         /\ o.filled < o.qty
  BY DEF Order

\* Restricting a map.
LEMMA WithoutMap ==
  ASSUME NEW f, NEW S
  PROVE  /\ DOMAIN Without(f, S) = DOMAIN f \ S
         /\ \A e \in DOMAIN f \ S : Without(f, S)[e] = f[e]
  BY DEF Without

LEMMA RemoveTable ==
  ASSUME NEW t, IsTable(t), NEW S
  PROVE  LET r == RemoveOrders(t, S) IN
         /\ IsTable(r)
         /\ DOMAIN r.live = DOMAIN t.live \ S
         /\ \A id \in DOMAIN r.live : r.live[id] = t.live[id]
         /\ DOMAIN r.index \subseteq DOMAIN t.index
         /\ Sound(t) => Sound(r)
         /\ Sound(t) /\ Full(t) => Full(r)
<1> DEFINE r == RemoveOrders(t, S)
           gone == {t.live[id].key : id \in S \cap DOMAIN t.live}
<1>1. r.live = Without(t.live, S) /\ r.index = Without(t.index, gone)
  BY DEF RemoveOrders, Table
<1>2. r = Table(r.live, r.index)
  BY <1>1 DEF RemoveOrders
<1>3. /\ DOMAIN r.live = DOMAIN t.live \ S /\ DOMAIN r.index = DOMAIN t.index \ gone
      /\ \A id \in DOMAIN r.live : r.live[id] = t.live[id]
      /\ \A k \in DOMAIN r.index : r.index[k] = t.index[k]
  <2>1. /\ DOMAIN Without(t.live, S) = DOMAIN t.live \ S
        /\ \A e \in DOMAIN t.live \ S : Without(t.live, S)[e] = t.live[e]
    BY WithoutMap
  <2>2. /\ DOMAIN Without(t.index, gone) = DOMAIN t.index \ gone
        /\ \A e \in DOMAIN t.index \ gone : Without(t.index, gone)[e] = t.index[e]
    BY WithoutMap
  <2> QED BY <1>1, <2>1, <2>2
<1>4. r.live \in [DOMAIN r.live -> Order] /\ r.index \in [DOMAIN r.index -> Ids]
  BY <1>1, <1>3 DEF IsTable, Without
<1>5. IsTable(r)
  BY <1>2, <1>3, <1>4 DEF IsTable
<1>6. ASSUME Sound(t) PROVE Sound(r)
  <2> SUFFICES ASSUME NEW k \in DOMAIN r.index
               PROVE  r.index[k] \in DOMAIN r.live /\ r.live[r.index[k]].key = k
    BY DEF Sound
  <2>1. k \in DOMAIN t.index /\ k \notin gone /\ r.index[k] = t.index[k]
    BY <1>3
  <2>2. t.index[k] \in DOMAIN t.live /\ t.live[t.index[k]].key = k
    BY <1>6, <2>1 DEF Sound
  <2>3. t.index[k] \notin S
    BY <2>1, <2>2
  <2> QED BY <1>3, <2>1, <2>2, <2>3
<1>7. ASSUME Sound(t), Full(t) PROVE Full(r)
  <2> SUFFICES ASSUME NEW id \in DOMAIN r.live
               PROVE  r.live[id].key \in DOMAIN r.index /\ r.index[r.live[id].key] = id
    BY DEF Full
  <2>1. id \in DOMAIN t.live /\ id \notin S /\ r.live[id] = t.live[id]
    BY <1>3
  <2>2. t.live[id].key \in DOMAIN t.index /\ t.index[t.live[id].key] = id
    BY <1>7, <2>1 DEF Full
  <2>3. t.live[id].key \notin gone
    BY <1>7, <2>1, <2>2 DEF Full
  <2> QED BY <1>3, <2>1, <2>2, <2>3
<1> QED BY <1>3, <1>5, <1>6, <1>7

\* New ids with their orders.
IsNew(t, new) ==
  /\ DOMAIN new \subseteq Ids /\ new \in [DOMAIN new -> Order]
  /\ DOMAIN new \cap DOMAIN t.live = {}

LEMMA TrackTable ==
  ASSUME NEW t, IsTable(t), NEW new, IsNew(t, new), NEW r \in TrackOrders(t, new)
  PROVE  /\ IsTable(r)
         /\ DOMAIN r.live = DOMAIN new \cup DOMAIN t.live
         /\ \A id \in DOMAIN new : r.live[id] = new[id]
         /\ \A id \in DOMAIN t.live : r.live[id] = t.live[id]
         /\ Sound(t) => Sound(r)
         /\ (/\ Sound(t) /\ Full(t)
             /\ \A id \in DOMAIN new : new[id].key \notin DOMAIN t.index
             /\ \A i, j \in DOMAIN new : new[i].key = new[j].key => i = j) => Full(r)
<1> DEFINE taken == {new[id].key : id \in DOMAIN new}
<1>1. PICK f \in [taken -> DOMAIN new] :
        /\ \A k \in taken : new[f[k]].key = k
        /\ r = Table([id \in DOMAIN new \cup DOMAIN t.live |->
                        IF id \in DOMAIN new THEN new[id] ELSE t.live[id]],
                     [k \in taken \cup DOMAIN t.index |->
                        IF k \in taken THEN f[k] ELSE t.index[k]])
  BY DEF TrackOrders
<1>2. /\ r.live = [id \in DOMAIN new \cup DOMAIN t.live |->
                     IF id \in DOMAIN new THEN new[id] ELSE t.live[id]]
      /\ r.index = [k \in taken \cup DOMAIN t.index |->
                      IF k \in taken THEN f[k] ELSE t.index[k]]
      /\ r = Table(r.live, r.index)
  BY <1>1 DEF Table
<1>3. /\ DOMAIN r.live = DOMAIN new \cup DOMAIN t.live
      /\ \A id \in DOMAIN new : r.live[id] = new[id]
      /\ \A id \in DOMAIN t.live : r.live[id] = t.live[id]
  BY <1>2 DEF IsNew
<1>4. /\ DOMAIN r.index = taken \cup DOMAIN t.index
      /\ \A k \in taken : r.index[k] = f[k] /\ f[k] \in DOMAIN new
      /\ \A k \in DOMAIN t.index \ taken : r.index[k] = t.index[k]
  BY <1>2
<1>5. taken \subseteq Keys
  BY OrderFields DEF IsNew
<1>6. r.live \in [DOMAIN r.live -> Order] /\ r.index \in [DOMAIN r.index -> Ids]
  <2>1. \A id \in DOMAIN r.live : r.live[id] \in Order
    BY <1>3 DEF IsTable, IsNew
  <2>2. \A k \in DOMAIN r.index : r.index[k] \in Ids
    BY <1>4 DEF IsTable, IsNew
  <2> QED BY <1>2, <2>1, <2>2
<1>7. IsTable(r)
  BY <1>2, <1>3, <1>4, <1>5, <1>6 DEF IsTable, IsNew
<1>8. ASSUME Sound(t) PROVE Sound(r)
  <2> SUFFICES ASSUME NEW k \in DOMAIN r.index
               PROVE  r.index[k] \in DOMAIN r.live /\ r.live[r.index[k]].key = k
    BY DEF Sound
  <2>1. CASE k \in taken
    BY <1>1, <1>3, <1>4, <2>1
  <2>2. CASE k \notin taken
    <3>1. t.index[k] \in DOMAIN t.live /\ t.live[t.index[k]].key = k
      BY <1>4, <1>8, <2>2 DEF Sound
    <3> QED BY <1>3, <1>4, <2>2, <3>1
  <2> QED BY <2>1, <2>2
<1>9. ASSUME Sound(t), Full(t), \A id \in DOMAIN new : new[id].key \notin DOMAIN t.index,
             \A i, j \in DOMAIN new : new[i].key = new[j].key => i = j
      PROVE  Full(r)
  <2> SUFFICES ASSUME NEW id \in DOMAIN r.live
               PROVE  r.live[id].key \in DOMAIN r.index /\ r.index[r.live[id].key] = id
    BY DEF Full
  <2>1. CASE id \in DOMAIN new
    <3>1. new[id].key \in taken
      BY <2>1
    <3>2. f[new[id].key] = id
      BY <1>1, <1>9, <2>1, <3>1
    <3> QED BY <1>3, <1>4, <2>1, <3>1, <3>2
  <2>2. CASE id \in DOMAIN t.live
    <3>1. t.live[id].key \in DOMAIN t.index /\ t.index[t.live[id].key] = id
      BY <1>9, <2>2 DEF Full
    <3>2. t.live[id].key \notin taken
      BY <1>9, <3>1
    <3> QED BY <1>3, <1>4, <2>2, <3>1, <3>2
  <2> QED BY <1>3, <2>1, <2>2
<1> QED BY <1>3, <1>7, <1>8, <1>9

\* Amends: each new key takes an order of its own.
IsMoves(t, moves) ==
  /\ DOMAIN moves \subseteq Keys /\ \A k \in DOMAIN moves : moves[k] \in DOMAIN t.live
  /\ \A j, k \in DOMAIN moves : moves[j] = moves[k] => j = k

LEMMA RepriceTable ==
  ASSUME NEW t, IsTable(t), Sound(t), NEW moves, IsMoves(t, moves)
  PROVE  LET r == RepriceOrders(t, moves) IN
         /\ IsTable(r) /\ Sound(r)
         /\ DOMAIN r.live = DOMAIN t.live
         /\ DOMAIN r.index \subseteq DOMAIN moves \cup DOMAIN t.index
         /\ \A k \in DOMAIN moves : r.live[moves[k]] = [t.live[moves[k]] EXCEPT !.key = k]
         /\ \A id \in DOMAIN t.live :
              id \notin {moves[k] : k \in DOMAIN moves} => r.live[id] = t.live[id]
         /\ Full(t) /\ DOMAIN moves \cap DOMAIN t.index = {} => Full(r)
<1> DEFINE r == RepriceOrders(t, moves)
           moved == {moves[k] : k \in DOMAIN moves}
           left == {t.live[id].key : id \in moved}
           to(id) == CHOOSE k \in DOMAIN moves : moves[k] = id
<1>1. /\ r.live = [id \in DOMAIN t.live |->
                     IF id \in moved THEN [t.live[id] EXCEPT !.key = to(id)] ELSE t.live[id]]
      /\ r.index = [k \in DOMAIN moves \cup (DOMAIN t.index \ left) |->
                      IF k \in DOMAIN moves THEN moves[k] ELSE t.index[k]]
      /\ r = Table(r.live, r.index)
  BY DEF RepriceOrders, Table
<1>2. \A k \in DOMAIN moves : to(moves[k]) = k
  <2> SUFFICES ASSUME NEW k \in DOMAIN moves PROVE to(moves[k]) = k
    OBVIOUS
  <2>1. to(moves[k]) \in DOMAIN moves /\ moves[to(moves[k])] = moves[k]
    OBVIOUS
  <2> QED BY <2>1 DEF IsMoves
<1>3. /\ DOMAIN r.live = DOMAIN t.live
      /\ DOMAIN r.index = DOMAIN moves \cup (DOMAIN t.index \ left)
      /\ \A k \in DOMAIN moves : r.index[k] = moves[k]
      /\ \A k \in DOMAIN r.index \ DOMAIN moves : r.index[k] = t.index[k]
      /\ \A id \in DOMAIN t.live : id \notin moved => r.live[id] = t.live[id]
  BY <1>1
<1>4. \A k \in DOMAIN moves : r.live[moves[k]] = [t.live[moves[k]] EXCEPT !.key = k]
  <2> SUFFICES ASSUME NEW k \in DOMAIN moves
               PROVE  r.live[moves[k]] = [t.live[moves[k]] EXCEPT !.key = k]
    OBVIOUS
  <2>1. moves[k] \in DOMAIN t.live /\ moves[k] \in moved /\ to(moves[k]) = k
    BY <1>2 DEF IsMoves
  <2> QED BY <1>1, <2>1
<1>5. \A k \in DOMAIN moves : r.live[moves[k]] \in Order /\ r.live[moves[k]].key = k
  <2> SUFFICES ASSUME NEW k \in DOMAIN moves
               PROVE  r.live[moves[k]] \in Order /\ r.live[moves[k]].key = k
    OBVIOUS
  <2>1. t.live[moves[k]] \in Order /\ k \in Keys
    BY DEF IsTable, IsMoves
  <2> QED BY <1>4, <2>1 DEF Order
<1>6. IsTable(r)
  <2>1. \A id \in DOMAIN r.live : r.live[id] \in Order
    BY <1>3, <1>5 DEF IsTable
  <2>2. \A k \in DOMAIN r.index : r.index[k] \in Ids
    BY <1>3 DEF IsTable, IsMoves
  <2>3. r.live \in [DOMAIN r.live -> Order] /\ r.index \in [DOMAIN r.index -> Ids]
    BY <1>1, <2>1, <2>2
  <2>4. DOMAIN r.index \subseteq Keys
    BY <1>3 DEF IsTable, IsMoves
  <2> QED BY <1>1, <1>3, <2>3, <2>4 DEF IsTable
<1>7. Sound(r)
  <2> SUFFICES ASSUME NEW k \in DOMAIN r.index
               PROVE  r.index[k] \in DOMAIN r.live /\ r.live[r.index[k]].key = k
    BY DEF Sound
  <2>1. CASE k \in DOMAIN moves
    BY <1>3, <1>5, <2>1 DEF IsMoves
  <2>2. CASE k \notin DOMAIN moves
    <3>1. k \in DOMAIN t.index /\ k \notin left /\ r.index[k] = t.index[k]
      BY <1>3, <2>2
    <3>2. t.index[k] \in DOMAIN t.live /\ t.live[t.index[k]].key = k
      BY <3>1 DEF Sound
    <3>3. t.index[k] \notin moved
      BY <3>1, <3>2
    <3> QED BY <1>3, <3>1, <3>2, <3>3
  <2> QED BY <2>1, <2>2
<1>8. ASSUME Full(t), DOMAIN moves \cap DOMAIN t.index = {} PROVE Full(r)
  <2> SUFFICES ASSUME NEW id \in DOMAIN r.live
               PROVE  r.live[id].key \in DOMAIN r.index /\ r.index[r.live[id].key] = id
    BY DEF Full
  <2>1. CASE id \in moved
    <3>1. PICK k \in DOMAIN moves : id = moves[k]
      BY <2>1
    <3> QED BY <1>3, <1>5, <3>1
  <2>2. CASE id \notin moved
    <3>1. r.live[id] = t.live[id] /\ id \in DOMAIN t.live
      BY <1>3, <2>2
    <3>2. t.live[id].key \in DOMAIN t.index /\ t.index[t.live[id].key] = id
      BY <1>8, <3>1 DEF Full
    <3>3. t.live[id].key \notin left
      <4> SUFFICES ASSUME NEW i \in moved, t.live[i].key = t.live[id].key PROVE FALSE
        OBVIOUS
      <4>1. i \in DOMAIN t.live
        BY DEF IsMoves
      <4>2. i = id
        BY <1>8, <3>2, <4>1 DEF Full
      <4> QED BY <2>2, <4>2
    <3> QED BY <1>3, <1>8, <3>1, <3>2, <3>3
  <2> QED BY <2>1, <2>2
<1> QED BY <1>3, <1>4, <1>6, <1>7, <1>8

\* on_fill.
LEMMA FilledTable ==
  ASSUME NEW t, IsTable(t), NEW id \in Ids, NEW n \in Nat
  PROVE  LET r == Filled(t, id, n) IN
         /\ IsTable(r)
         /\ Sound(t) => Sound(r)
         /\ Sound(t) /\ Full(t) => Full(r)
         /\ DOMAIN r.live = DOMAIN t.live \/ (id \in DOMAIN t.live /\ DOMAIN r.live = DOMAIN t.live \ {id})
         /\ \A i \in DOMAIN r.live \ {id} : r.live[i] = t.live[i]
         /\ id \in DOMAIN t.live /\ t.live[id].filled + n < t.live[id].qty =>
              /\ id \in DOMAIN r.live
              /\ r.live[id].key = t.live[id].key /\ r.live[id].qty = t.live[id].qty
              /\ r.live[id].filled = t.live[id].filled + n
<1> DEFINE r == Filled(t, id, n)
<1>1. CASE id \notin DOMAIN t.live
  <2>1. r = t
    BY <1>1 DEF Filled
  <2> QED BY <1>1, <2>1
<1>2. CASE id \in DOMAIN t.live /\ t.live[id].filled + n >= t.live[id].qty
  <2>1. r = RemoveOrders(t, {id})
    BY <1>2 DEF Filled
  <2>2. t.live[id].filled \in Nat /\ t.live[id].qty \in Nat
    BY <1>2, OrderFields, ConstantsOK DEF IsTable
  <2> QED BY <1>2, <2>1, <2>2, RemoveTable
<1>3. CASE id \in DOMAIN t.live /\ ~(t.live[id].filled + n >= t.live[id].qty)
  <2> DEFINE o == [t.live[id] EXCEPT !.filled = @ + n]
  <2>1. r = Table([t.live EXCEPT ![id] = o], t.index)
    BY <1>3 DEF Filled
  <2>2. r.live = [t.live EXCEPT ![id] = o] /\ r.index = t.index /\ r = Table(r.live, r.index)
    BY <2>1 DEF Table
  <2>3. t.live[id] \in Order
    BY <1>3 DEF IsTable
  <2>4. o \in Order /\ o.key = t.live[id].key /\ o.qty = t.live[id].qty
        /\ o.filled = t.live[id].filled + n
    BY <1>3, <2>3, ConstantsOK DEF Order
  <2>5. DOMAIN r.live = DOMAIN t.live /\ r.live[id] = o
        /\ \A i \in DOMAIN t.live \ {id} : r.live[i] = t.live[i]
    BY <1>3, <2>2
  <2>6. \A i \in DOMAIN t.live : r.live[i].key = t.live[i].key /\ r.live[i] \in Order
    BY <2>4, <2>5 DEF IsTable
  <2>7. r.live \in [DOMAIN r.live -> Order]
    BY <2>2, <2>5, <2>6
  <2>8. IsTable(r)
    BY <2>2, <2>5, <2>7 DEF IsTable
  <2>9. Sound(t) => Sound(r)
    BY <2>2, <2>5, <2>6 DEF Sound
  <2>10. Full(t) => Full(r)
    BY <2>2, <2>5, <2>6 DEF Full
  <2> QED BY <2>4, <2>5, <2>8, <2>9, <2>10
<1> QED BY <1>1, <1>2, <1>3

-----------------------------------------------------------------------------
(* The pairing of diff_orders: no stale order is amended twice.             *)

Now == Table(live, index)

LEMMA NowTable ==
  /\ Now.live = live /\ Now.index = index
  /\ TypeOK => IsTable(Now)
  /\ Sound(Now) <=> IndexSound
<1>1. Now.live = live /\ Now.index = index /\ Now = Table(Now.live, Now.index)
  BY DEF Now, Table
<1> QED BY <1>1 DEF TypeOK, IsTable, Sound, IndexSound

\* The table after a step is a table: the types of live and index, and IndexSound.
LEMMA NextTable ==
  ASSUME NEW t, IsTable(t), Sound(t), live' = t.live, index' = t.index
  PROVE  /\ DOMAIN live' \subseteq Ids /\ live' \in [DOMAIN live' -> Order]
         /\ DOMAIN index' \subseteq Keys /\ index' \in [DOMAIN index' -> Ids]
         /\ IndexSound'
         /\ Full(t) => Full(Now)'
  BY DEF IsTable, Sound, IndexSound, Full, Now, Table

LEMMA PlanShape ==
  ASSUME TypeOK, IndexSound, NEW m \in Plans
  PROVE  /\ DOMAIN m \subseteq New
         /\ \A n \in DOMAIN m : m[n] \in Stale /\ index[m[n]] \in DOMAIN live
         /\ \A n, q \in DOMAIN m : index[m[n]] = index[m[q]] => n = q
         /\ \A n \in DOMAIN m : Remaining(live[index[m[n]]]) = want[n]
<1>1. DOMAIN m \subseteq New /\ m \in [DOMAIN m -> Stale] /\ Pairing(m)
  BY DEF Plans, PartialFunctions
<1>2. \A n \in DOMAIN m : m[n] \in Stale /\ m[n] \in DOMAIN index /\ index[m[n]] \in DOMAIN live
  BY <1>1 DEF Stale
<1>3. \A n \in DOMAIN m : m[n] \in Free(m, n)
  BY <1>1 DEF Pairing
<1>4. ASSUME NEW n \in DOMAIN m, NEW q \in DOMAIN m, m[n] = m[q], n # q PROVE FALSE
  <2>1. n \in Keys /\ q \in Keys
    BY <1>1 DEF New, TypeOK
  <2>2. n[1] = q[1]
    BY <1>3, <1>4 DEF Free, Amendable
  <2>3. n[2] \in Nat /\ q[2] \in Nat /\ n[2] # q[2]
    <3>1. n[2] \in Prices /\ q[2] \in Prices /\ n = <<n[1], n[2]>> /\ q = <<q[1], q[2]>>
      BY <2>1 DEF Keys
    <3>2. Prices \subseteq Nat
      BY ConstantsOK
    <3> QED BY <1>4, <2>2, <3>1, <3>2
  <2>4. n[2] < q[2] \/ q[2] < n[2]
    BY <2>3
  <2> QED BY <1>3, <1>4, <2>2, <2>4 DEF Free
<1>5. \A n, q \in DOMAIN m : index[m[n]] = index[m[q]] => m[n] = m[q]
  BY <1>2 DEF IndexSound
<1>6. \A n \in DOMAIN m : Remaining(live[index[m[n]]]) = want[n]
  BY <1>3 DEF Free, Amendable
<1> QED BY <1>1, <1>2, <1>4, <1>5, <1>6

-----------------------------------------------------------------------------
(* One diff.                                                                *)

Clean == used.faults = 0 /\ used.slices = 0

\* FaultFreeIsExact without its condition, and without the index, which Full covers.
Exact ==
  \A id \in DOMAIN venue :
    /\ id \in DOMAIN live /\ live[id].key = venue[id].key
    /\ live[id].filled + owed[id] = venue[id].filled
    /\ venue[id].qty <= live[id].qty

LEMMA MadeOrder ==
  ASSUME TypeOK, NEW k \in DOMAIN want
  PROVE  Made(k) \in Order /\ Made(k).key = k
<1>1. k \in Keys /\ want[k] \in 1 .. MaxQty
  BY ConstantsOK DEF TypeOK
<1>2. 0 \in 0 .. MaxQty /\ 0 < want[k]
  BY <1>1, ConstantsOK
<1> QED BY <1>1, <1>2 DEF Made, Order

LEMMA AckedOrders ==
  ASSUME TypeOK, NEW S \in SUBSET DOMAIN want, NEW F \in SUBSET Ids, NEW ack \in Injection(S, F)
  PROVE  /\ DOMAIN ack = S /\ Range(ack) \subseteq F
         /\ DOMAIN Acked(ack) = Range(ack) /\ Acked(ack) \in [Range(ack) -> Order]
         /\ \A id \in Range(ack) : Acked(ack)[id].key \in S
         /\ \A i, j \in Range(ack) : Acked(ack)[i].key = Acked(ack)[j].key => i = j
<1>1. DOMAIN ack = S /\ ack \in [S -> F] /\ Range(ack) \subseteq F
  BY DEF Injection, Range
<1> DEFINE key(id) == CHOOSE k \in DOMAIN ack : ack[k] = id
<1>2. \A id \in Range(ack) : key(id) \in S /\ ack[key(id)] = id
  BY <1>1 DEF Range
<1>3. Acked(ack) = [id \in Range(ack) |-> Made(key(id))]
  BY DEF Acked
<1>4. \A id \in Range(ack) : /\ Acked(ack)[id] \in Order
                             /\ Acked(ack)[id].key = key(id)
  BY <1>2, <1>3, MadeOrder
<1>5. Acked(ack) \in [Range(ack) -> Order]
  BY <1>3, <1>4
<1> QED BY <1>1, <1>2, <1>3, <1>4, <1>5

\* The choices of ExecuteDiff.
Choice(m, done, silent, landed, acked, ack, lost) ==
  /\ m \in Plans
  /\ done \subseteq DOMAIN m /\ silent \subseteq DOMAIN m /\ done \cap silent = {}
  /\ \A n \in done \cup silent : Applies(m, n)
  /\ landed \subseteq ToCancel(m, done) \cap DOMAIN venue
  /\ acked \subseteq ToPlace(m, done)
  /\ ack \in Injection(acked, Fresh)
  /\ lost \in PartialFunctions(Fresh \ Range(ack), ToPlace(m, done))

LEMMA ChoiceShape ==
  ASSUME TypeOK, IndexSound,
         NEW m, NEW done, NEW silent, NEW landed, NEW acked, NEW ack, NEW lost,
         Choice(m, done, silent, landed, acked, ack, lost)
  PROVE  /\ ToCancel(m, done) \subseteq DOMAIN live
         /\ ToPlace(m, done) \subseteq New /\ ToPlace(m, done) \subseteq DOMAIN want
         /\ ToPlace(m, done) \cap done = {}
         /\ DOMAIN ack = acked /\ Range(ack) \subseteq Fresh
         /\ DOMAIN lost \subseteq Fresh \ Range(ack)
         /\ \A id \in DOMAIN lost : lost[id] \in ToPlace(m, done)
         /\ Acked(ack) \in [Range(ack) -> Order]
         /\ \A id \in Range(ack) : Acked(ack)[id].key \in acked
         /\ \A i, j \in Range(ack) : Acked(ack)[i].key = Acked(ack)[j].key => i = j
<1>1. /\ DOMAIN m \subseteq New
      /\ \A n \in DOMAIN m : m[n] \in Stale /\ index[m[n]] \in DOMAIN live
  BY PlanShape DEF Choice
<1>2. ToCancel(m, done) \subseteq DOMAIN live
  BY <1>1 DEF ToCancel, Stale
<1>3. New \subseteq DOMAIN want
  BY DEF New
<1>4. ToPlace(m, done) \subseteq New /\ ToPlace(m, done) \cap done = {}
  BY <1>1 DEF ToPlace, Choice
<1>5. DOMAIN lost \subseteq Fresh \ Range(ack) /\ lost \in [DOMAIN lost -> ToPlace(m, done)]
  BY DEF Choice, PartialFunctions
<1>6. acked \subseteq DOMAIN want /\ Fresh \subseteq Ids /\ ack \in Injection(acked, Fresh)
  BY <1>3, <1>4 DEF Choice, Fresh
<1> QED BY <1>2, <1>3, <1>4, <1>5, <1>6, AckedOrders

\* The engine's side of a diff.
LEMMA TableAfterDiff ==
  ASSUME TypeOK, IndexSound,
         NEW m, NEW done, NEW silent, NEW landed, NEW acked, NEW ack, NEW lost,
         Choice(m, done, silent, landed, acked, ack, lost),
         NEW t \in TableAfter(m, done, landed, ack)
  PROVE  /\ IsTable(t) /\ Sound(t)
         /\ DOMAIN t.live = (DOMAIN live \ ToCancel(m, done)) \cup Range(ack)
         /\ \A id \in Range(ack) : t.live[id] = Acked(ack)[id]
         /\ \A n \in done : index[m[n]] \notin ToCancel(m, done) =>
              t.live[index[m[n]]] = [live[index[m[n]]] EXCEPT !.key = n]
         /\ \A id \in DOMAIN live \ ToCancel(m, done) :
              id \notin Range(Moves(m, done)) => t.live[id] = live[id]
         /\ Full(Now) => Full(t)
<1> DEFINE moves == Moves(m, done)
           cancel == ToCancel(m, done)
           t1 == RepriceOrders(Now, moves)
           t2 == RemoveOrders(t1, cancel)
<1>0. /\ IsTable(Now) /\ Sound(Now) /\ Now.live = live /\ Now.index = index
  BY NowTable
<1>1. DOMAIN moves = done /\ \A n \in done : moves[n] = index[m[n]]
  BY DEF Moves
<1>2. IsMoves(Now, moves)
  <2>1. /\ DOMAIN m \subseteq New
        /\ \A n \in DOMAIN m : index[m[n]] \in DOMAIN live
        /\ \A n, q \in DOMAIN m : index[m[n]] = index[m[q]] => n = q
    BY PlanShape DEF Choice
  <2>2. done \subseteq DOMAIN m /\ DOMAIN m \subseteq Keys
    BY <2>1 DEF Choice, New, TypeOK
  <2> QED BY <1>0, <1>1, <2>1, <2>2 DEF IsMoves
<1>3. DOMAIN moves \cap DOMAIN index = {}
  BY <1>1, PlanShape DEF Choice, New
<1>4. /\ IsTable(t1) /\ Sound(t1) /\ DOMAIN t1.live = DOMAIN live
      /\ DOMAIN t1.index \subseteq done \cup DOMAIN index
      /\ \A k \in DOMAIN moves : t1.live[moves[k]] = [live[moves[k]] EXCEPT !.key = k]
      /\ \A id \in DOMAIN live :
           id \notin {moves[k] : k \in DOMAIN moves} => t1.live[id] = live[id]
      /\ Full(Now) => Full(t1)
  BY <1>0, <1>1, <1>2, <1>3, RepriceTable
<1>5. /\ IsTable(t2) /\ Sound(t2) /\ DOMAIN t2.live = DOMAIN live \ cancel
      /\ \A id \in DOMAIN t2.live : t2.live[id] = t1.live[id]
      /\ DOMAIN t2.index \subseteq done \cup DOMAIN index
      /\ Full(Now) => Full(t2)
  BY <1>4, RemoveTable
<1>6. t \in TrackOrders(t2, Acked(ack))
  BY DEF TableAfter, Dropped, Now
<1>7. DOMAIN Acked(ack) = Range(ack) /\ IsNew(t2, Acked(ack))
  <2>1. Range(ack) \subseteq Fresh /\ Acked(ack) \in [Range(ack) -> Order]
    BY ChoiceShape
  <2>2. Fresh \subseteq Ids /\ Fresh \cap DOMAIN live = {}
    BY DEF Fresh
  <2> QED BY <1>5, <2>1, <2>2 DEF IsNew
<1>8. /\ IsTable(t) /\ Sound(t) /\ DOMAIN t.live = Range(ack) \cup DOMAIN t2.live
      /\ \A id \in Range(ack) : t.live[id] = Acked(ack)[id]
      /\ \A id \in DOMAIN t2.live : t.live[id] = t2.live[id]
  BY <1>5, <1>6, <1>7, TrackTable
<1>9. ASSUME Full(Now) PROVE Full(t)
  <2>1. /\ \A id \in Range(ack) : Acked(ack)[id].key \in acked
        /\ \A i, j \in Range(ack) : Acked(ack)[i].key = Acked(ack)[j].key => i = j
    BY ChoiceShape
  <2>2. acked \cap (done \cup DOMAIN index) = {}
    <3>1. ToPlace(m, done) \subseteq New /\ ToPlace(m, done) \cap done = {}
      BY ChoiceShape
    <3>2. acked \subseteq ToPlace(m, done)
      BY DEF Choice
    <3> QED BY <3>1, <3>2 DEF New
  <2>3. \A id \in DOMAIN Acked(ack) : Acked(ack)[id].key \notin DOMAIN t2.index
    BY <1>5, <1>7, <2>1, <2>2
  <2> QED BY <1>5, <1>6, <1>7, <1>9, <2>1, <2>3, TrackTable
<1>10. \A n \in done : index[m[n]] \notin cancel =>
         t.live[index[m[n]]] = [live[index[m[n]]] EXCEPT !.key = n]
  BY <1>0, <1>1, <1>2, <1>4, <1>5, <1>8 DEF IsMoves
<1>11. \A id \in DOMAIN live \ cancel : id \notin Range(moves) => t.live[id] = live[id]
  BY <1>4, <1>5, <1>8 DEF Range
<1> QED BY <1>5, <1>8, <1>9, <1>10, <1>11

\* The venue's side of a diff.
LEMMA VenueAfterDiff ==
  ASSUME TypeOK, IndexSound,
         NEW m, NEW done, NEW silent, NEW landed, NEW acked, NEW ack, NEW lost,
         Choice(m, done, silent, landed, acked, ack, lost),
         venue' = VenueAfter(m, done, silent, landed, ack, lost)
  PROVE  /\ \A id : id \in DOMAIN venue' <=>
             \/ id \in DOMAIN venue /\ id \notin landed
             \/ id \in Range(ack) \/ id \in DOMAIN lost
         /\ DOMAIN venue' \subseteq Ids /\ venue' \in [DOMAIN venue' -> Order]
         /\ \A id \in Range(ack) : venue'[id] = Acked(ack)[id]
         /\ \A n \in done \cup silent : index[m[n]] \in DOMAIN venue \ landed =>
              venue'[index[m[n]]] = Resized(venue[index[m[n]]], n)
         /\ \A id \in DOMAIN venue \ landed :
              (\A n \in done \cup silent : id # index[m[n]]) => venue'[id] = venue[id]
<1> DEFINE both == done \cup silent
           moves == Moves(m, both)
           v == venue'
           to(id) == CHOOSE n \in DOMAIN moves : moves[n] = id
<1>1. both \subseteq DOMAIN m /\ DOMAIN moves = both /\ \A n \in both : moves[n] = index[m[n]]
  BY DEF Moves, Choice
<1>2. /\ DOMAIN m \subseteq Keys /\ DOMAIN m \subseteq DOMAIN want
      /\ \A n, q \in DOMAIN m : index[m[n]] = index[m[q]] => n = q
  <2>1. /\ DOMAIN m \subseteq New
        /\ \A n, q \in DOMAIN m : index[m[n]] = index[m[q]] => n = q
    BY PlanShape DEF Choice
  <2> QED BY <2>1 DEF New, TypeOK
<1>3. \A id \in Range(moves) : to(id) \in both /\ moves[to(id)] = id
  BY <1>1 DEF Range
<1>4. \A n \in both : to(moves[n]) = n /\ moves[n] \in Range(moves)
  <2> SUFFICES ASSUME NEW n \in both PROVE to(moves[n]) = n /\ moves[n] \in Range(moves)
    OBVIOUS
  <2>1. moves[n] \in Range(moves)
    BY <1>1 DEF Range
  <2>2. to(moves[n]) \in both /\ moves[to(moves[n])] = moves[n]
    BY <1>3, <2>1
  <2> QED BY <1>1, <1>2, <2>1, <2>2
<1>5. Repriced(moves) = [id \in DOMAIN venue |->
        IF id \in Range(moves) THEN Resized(venue[id], to(id)) ELSE venue[id]]
  BY DEF Repriced
<1>6. \A id \in DOMAIN venue : Repriced(moves)[id] \in Order
  <2> SUFFICES ASSUME NEW id \in DOMAIN venue PROVE Repriced(moves)[id] \in Order
    OBVIOUS
  <2>1. venue[id] \in Order
    BY DEF TypeOK
  <2>2. CASE id \notin Range(moves)
    BY <1>5, <2>1, <2>2
  <2>3. CASE id \in Range(moves)
    <3>1. to(id) \in both /\ to(id) \in Keys /\ to(id) \in DOMAIN want /\ moves[to(id)] = id
      BY <1>1, <1>2, <1>3, <2>3
    <3>2. Repriced(moves)[id] = Resized(venue[id], to(id))
      BY <1>5, <2>3
    <3>3. venue[id].filled < want[to(id)]
      BY <1>1, <3>1 DEF Choice, Applies
    <3> HIDE DEF to
    <3>4. want[to(id)] \in 1 .. MaxQty
      BY <3>1, ConstantsOK DEF TypeOK
    <3>5. venue[id].filled \in 0 .. MaxQty
      BY <2>1 DEF Order
    <3> QED BY <3>1, <3>2, <3>3, <3>4, <3>5 DEF Order, Resized
  <2> QED BY <2>2, <2>3
<1>7. /\ Range(ack) \subseteq Fresh /\ DOMAIN lost \subseteq Fresh \ Range(ack)
      /\ Acked(ack) \in [Range(ack) -> Order]
      /\ \A id \in DOMAIN lost : lost[id] \in DOMAIN want
  BY ChoiceShape
<1>8. Fresh \subseteq Ids /\ Fresh \cap DOMAIN venue = {}
  BY DEF Fresh
<1>9. v = [id \in (DOMAIN venue \ landed) \cup Range(ack) \cup DOMAIN lost |->
             IF id \in Range(ack) THEN Acked(ack)[id]
             ELSE IF id \in DOMAIN lost THEN Made(lost[id]) ELSE Repriced(moves)[id]]
  BY DEF VenueAfter
<1>10. DOMAIN v = (DOMAIN venue \ landed) \cup Range(ack) \cup DOMAIN lost
  BY <1>9
<1>11. /\ \A id \in Range(ack) : v[id] = Acked(ack)[id]
       /\ \A id \in DOMAIN lost : v[id] = Made(lost[id])
       /\ \A id \in DOMAIN venue \ landed : v[id] = Repriced(moves)[id]
  BY <1>7, <1>8, <1>9
<1>12. \A id \in DOMAIN v : v[id] \in Order
  <2>1. \A id \in DOMAIN lost : Made(lost[id]) \in Order
    BY <1>7, MadeOrder
  <2> QED BY <1>6, <1>7, <1>10, <1>11, <2>1
<1>13. v \in [DOMAIN v -> Order]
  BY <1>9, <1>10, <1>12
<1>14. \A n \in both : index[m[n]] \in DOMAIN venue \ landed =>
         v[index[m[n]]] = Resized(venue[index[m[n]]], n)
  <2> SUFFICES ASSUME NEW n \in both, moves[n] \in DOMAIN venue \ landed
               PROVE  v[moves[n]] = Resized(venue[moves[n]], n)
    BY <1>1
  <2>1. v[moves[n]] = Repriced(moves)[moves[n]]
    BY <1>11
  <2>2. to(moves[n]) = n /\ moves[n] \in Range(moves)
    BY <1>4
  <2>3. Repriced(moves)[moves[n]] = Resized(venue[moves[n]], to(moves[n]))
    BY <1>5, <2>2
  <2> QED BY <2>1, <2>2, <2>3
<1>15. \A id \in DOMAIN venue \ landed :
         (\A n \in both : id # index[m[n]]) => v[id] = venue[id]
  <2> SUFFICES ASSUME NEW id \in DOMAIN venue \ landed, \A n \in both : id # index[m[n]]
               PROVE  v[id] = venue[id]
    OBVIOUS
  <2>1. id \notin Range(moves)
    BY <1>1 DEF Range
  <2> QED BY <1>5, <1>11, <2>1
<1>16. DOMAIN v \subseteq Ids
  BY <1>7, <1>8, <1>10 DEF TypeOK
<1> QED BY <1>10, <1>11, <1>13, <1>14, <1>15, <1>16

\* A diff without a fault leaves an exact picture exact.
LEMMA ExactAfterDiff ==
  ASSUME TypeOK, IndexSound,
         NEW m, NEW done, NEW silent, NEW landed, NEW acked, NEW ack, NEW lost,
         Choice(m, done, silent, landed, acked, ack, lost),
         NEW t \in TableAfter(m, done, landed, ack), live' = t.live,
         venue' = VenueAfter(m, done, silent, landed, ack, lost),
         UNCHANGED owed
  PROVE  /\ Exact /\ done = DOMAIN m /\ DOMAIN lost = {}
         /\ landed = ToCancel(m, done) \cap DOMAIN venue
         => Exact'
<1>1. /\ \A id : id \in DOMAIN venue' <=>
          \/ id \in DOMAIN venue /\ id \notin landed
          \/ id \in Range(ack) \/ id \in DOMAIN lost
      /\ \A id \in Range(ack) : venue'[id] = Acked(ack)[id]
      /\ \A n \in done \cup silent : index[m[n]] \in DOMAIN venue \ landed =>
           venue'[index[m[n]]] = Resized(venue[index[m[n]]], n)
      /\ \A id \in DOMAIN venue \ landed :
           (\A n \in done \cup silent : id # index[m[n]]) => venue'[id] = venue[id]
  BY VenueAfterDiff
<1>2. /\ DOMAIN t.live = (DOMAIN live \ ToCancel(m, done)) \cup Range(ack)
      /\ \A id \in Range(ack) : t.live[id] = Acked(ack)[id]
      /\ \A n \in done : index[m[n]] \notin ToCancel(m, done) =>
           t.live[index[m[n]]] = [live[index[m[n]]] EXCEPT !.key = n]
      /\ \A id \in DOMAIN live \ ToCancel(m, done) :
           id \notin Range(Moves(m, done)) => t.live[id] = live[id]
  BY TableAfterDiff
<1>s. Range(ack) \subseteq Fresh /\ Acked(ack) \in [Range(ack) -> Order]
  BY ChoiceShape
<1> SUFFICES ASSUME Exact, done = DOMAIN m, DOMAIN lost = {},
                    landed = ToCancel(m, done) \cap DOMAIN venue
             PROVE  Exact'
  OBVIOUS
<1>3. /\ DOMAIN venue' = (DOMAIN venue \ landed) \cup Range(ack)
      /\ \A id \in Range(ack) : venue'[id] = Acked(ack)[id]
      /\ \A n \in done : index[m[n]] \in DOMAIN venue \ landed =>
           venue'[index[m[n]]] = Resized(venue[index[m[n]]], n)
      /\ \A id \in DOMAIN venue \ landed :
           (\A n \in done : id # index[m[n]]) => venue'[id] = venue[id]
  <2>1. done \cup silent = done
    BY DEF Choice
  <2> QED BY <1>1, <2>1
<1> SUFFICES ASSUME NEW id \in DOMAIN venue'
             PROVE  /\ id \in DOMAIN live' /\ live'[id].key = venue'[id].key
                    /\ live'[id].filled + owed'[id] = venue'[id].filled
                    /\ venue'[id].qty <= live'[id].qty
  BY DEF Exact
<1>5. CASE id \in Range(ack)
  <2>1. live'[id] = Acked(ack)[id] /\ venue'[id] = Acked(ack)[id] /\ id \in DOMAIN live'
    BY <1>2, <1>3, <1>5
  <2>3. owed'[id] = 0
    BY <1>5, <1>s DEF Fresh
  <2>4. Acked(ack)[id] \in Order
    BY <1>5, <1>s
  <2>5. Acked(ack)[id].filled \in Nat /\ Acked(ack)[id].qty \in Nat
    BY <2>4, OrderFields, ConstantsOK
  <2> QED BY <2>1, <2>3, <2>5
<1>6. CASE id \in DOMAIN venue \ landed
  <2>1. /\ id \in DOMAIN live /\ live[id].key = venue[id].key
        /\ live[id].filled + owed[id] = venue[id].filled
        /\ venue[id].qty <= live[id].qty
    BY <1>6 DEF Exact
  <2>2. id \notin ToCancel(m, done) /\ id \in DOMAIN live'
    BY <1>2, <1>6, <2>1
  <2>3. live[id] \in Order /\ venue[id] \in Order
    BY <1>6, <2>1 DEF TypeOK
  <2>4. CASE id \in Range(Moves(m, done))
    <3>1. PICK n \in done : id = index[m[n]]
      BY <2>4 DEF Range, Moves
    <3>2. /\ live'[id] = [live[id] EXCEPT !.key = n]
          /\ venue'[id] = Resized(venue[id], n)
      BY <1>2, <1>3, <1>6, <2>2, <3>1
    <3>3. live'[id].filled = live[id].filled /\ live'[id].qty = live[id].qty /\ live'[id].key = n
      BY <2>3, <3>2 DEF Order
    <3>4. /\ venue'[id].filled = venue[id].filled /\ venue'[id].key = n
          /\ venue'[id].qty = want[n]
      BY <3>2 DEF Resized
    <3>5. Remaining(live[id]) = want[n]
      BY <3>1, PlanShape DEF Choice
    <3>6. live[id].qty \in Nat /\ live[id].filled \in Nat
      BY <2>3, OrderFields, ConstantsOK
    <3>7. want[n] <= live[id].qty
      BY <3>5, <3>6 DEF Remaining
    <3> QED BY <2>1, <2>2, <3>3, <3>4, <3>7
  <2>5. CASE id \notin Range(Moves(m, done))
    <3>1. live'[id] = live[id] /\ venue'[id] = venue[id]
      BY <1>2, <1>3, <1>6, <2>1, <2>2, <2>5 DEF Range, Moves
    <3> QED BY <2>1, <2>2, <3>1
  <2> QED BY <2>4, <2>5
<1> QED BY <1>3, <1>5, <1>6

-----------------------------------------------------------------------------
(* The inductive invariant.                                                 *)

Inv == TypeOK /\ IndexSound /\ (Clean => Full(Now) /\ Exact)

Counts == [faults : Nat, events : Nat, moves : Nat, slices : Nat]

LEMMA BumpCounts ==
  ASSUME NEW STATE u, u \in Counts, NEW w \in {"faults", "events", "moves", "slices"}
  PROVE  /\ Bump(u, w) \in Counts
         /\ w = "faults" => Bump(u, w).faults # 0
         /\ w = "slices" => Bump(u, w).slices # 0
         /\ w # "faults" => Bump(u, w).faults = u.faults
         /\ w # "slices" => Bump(u, w).slices = u.slices
  BY DEF Bump, Counts

LEMMA DiffStep ==
  ASSUME TypeOK, IndexSound, ExecuteDiff
  PROVE  /\ TypeOK' /\ IndexSound' /\ Sets!Diff(Sets!Book, Sets!Book')
         /\ Clean' => Clean
         /\ Clean' /\ Full(Now) /\ Exact => Full(Now)' /\ Exact'
<1>1. PICK m, done, silent, landed, acked, ack, lost :
        /\ Choice(m, done, silent, landed, acked, ack, lost)
        /\ Execute(m, done, silent, landed, ack, lost)
  BY DEF ExecuteDiff, Choice
<1>2. UNCHANGED <<owed, want>>
  BY DEF ExecuteDiff
<1>3. PICK t \in TableAfter(m, done, landed, ack) : live' = t.live /\ index' = t.index
  BY <1>1 DEF Execute
<1>4. venue' = VenueAfter(m, done, silent, landed, ack, lost)
  BY <1>1 DEF Execute
<1>5. /\ IsTable(t) /\ Sound(t) /\ (Full(Now) => Full(t))
      /\ DOMAIN t.live = (DOMAIN live \ ToCancel(m, done)) \cup Range(ack)
  BY <1>1, <1>3, TableAfterDiff
<1>6. /\ DOMAIN live' \subseteq Ids /\ live' \in [DOMAIN live' -> Order]
      /\ DOMAIN index' \subseteq Keys /\ index' \in [DOMAIN index' -> Ids]
      /\ IndexSound' /\ (Full(t) => Full(Now)')
  BY <1>3, <1>5, NextTable
<1>7. /\ \A id : id \in DOMAIN venue' <=> \/ id \in DOMAIN venue /\ id \notin landed
                                          \/ id \in Range(ack) \/ id \in DOMAIN lost
      /\ DOMAIN venue' \subseteq Ids /\ venue' \in [DOMAIN venue' -> Order]
  BY <1>1, <1>4, VenueAfterDiff
<1>8. /\ used' \in Counts
      /\ Clean' => /\ Clean /\ done = DOMAIN m /\ DOMAIN lost = {}
                   /\ landed = ToCancel(m, done) \cap DOMAIN venue
  <2>0. used \in Counts
    BY DEF TypeOK, Counts
  <2>1. CASE Spend("faults", MaxFaults)
    BY <2>0, <2>1, BumpCounts DEF Clean, Spend
  <2>2. CASE ~Spend("faults", MaxFaults)
    <3>1. /\ UNCHANGED used /\ done = DOMAIN m /\ DOMAIN lost = {}
          /\ landed = ToCancel(m, done) \cap DOMAIN venue
      BY <1>1, <2>2 DEF Execute
    <3> QED BY <2>0, <3>1 DEF Clean
  <2> QED BY <2>1, <2>2
<1>9. TypeOK'
  BY <1>2, <1>6, <1>7, <1>8 DEF TypeOK, Counts
<1>10. Sets!Diff(Sets!Book, Sets!Book')
  <2>1. /\ ToCancel(m, done) \subseteq DOMAIN live /\ Range(ack) \subseteq Fresh
        /\ DOMAIN lost \subseteq Fresh \ Range(ack)
    BY <1>1, ChoiceShape
  <2>2. landed \subseteq ToCancel(m, done) \cap DOMAIN venue
    BY <1>1 DEF Choice
  <2>3. Fresh \subseteq Ids \ (DOMAIN live \cup DOMAIN venue)
    BY DEF Fresh
  <2>4. DOMAIN live' = (DOMAIN live \ ToCancel(m, done)) \cup Range(ack)
    BY <1>3, <1>5
  <2>5. DOMAIN venue' \subseteq DOMAIN venue \cup (Ids \ (DOMAIN live \cup DOMAIN venue))
    BY <1>7, <2>1, <2>3
  <2>6. DOMAIN live' \cap (Ids \ (DOMAIN live \cup DOMAIN venue)) \subseteq DOMAIN venue'
    BY <1>7, <2>4
  <2>7. DOMAIN venue \ DOMAIN venue' \subseteq DOMAIN live \ DOMAIN live'
    BY <1>7, <2>1, <2>2, <2>3, <2>4
  <2> QED BY <2>1, <2>3, <2>4, <2>5, <2>6, <2>7 DEF Sets!Book, Sets!Diff, Sets!Fresh
<1>11. ASSUME Clean', Full(Now), Exact PROVE Full(Now)' /\ Exact'
  <2>1. Full(Now)'
    BY <1>5, <1>6, <1>11
  <2>2. /\ done = DOMAIN m /\ DOMAIN lost = {}
        /\ landed = ToCancel(m, done) \cap DOMAIN venue
    BY <1>8, <1>11
  <2>3. /\ Exact /\ done = DOMAIN m /\ DOMAIN lost = {}
        /\ landed = ToCancel(m, done) \cap DOMAIN venue
        => Exact'
    BY <1>1, <1>2, <1>3, <1>4, ExactAfterDiff
  <2> QED BY <1>11, <2>1, <2>2, <2>3
<1> QED BY <1>6, <1>8, <1>9, <1>10, <1>11

LEMMA InitInv == Init => Inv /\ Sets!Init
<1> SUFFICES ASSUME Init PROVE Inv /\ Sets!Init
  OBVIOUS
<1>1. live = << >> /\ index = << >> /\ DOMAIN live = {} /\ DOMAIN index = {}
  BY DEF Init
<1>2. DOMAIN venue \subseteq Ids /\ venue \in [DOMAIN venue -> Order]
  BY DEF Init, PartialFunctions
<1>3. live \in [DOMAIN live -> Order] /\ index \in [DOMAIN index -> Ids]
  BY <1>1
<1>4. DOMAIN want = {} /\ want \in [DOMAIN want -> Sizes]
  BY DEF Init
<1>5. used \in [faults : Nat, events : Nat, moves : Nat, slices : Nat] /\ owed \in [Ids -> Nat]
  BY DEF Init
<1>6. TypeOK
  BY <1>1, <1>2, <1>3, <1>4, <1>5 DEF TypeOK
<1>7. IndexSound
  BY <1>1 DEF IndexSound
<1>8. Full(Now)
  BY <1>1, NowTable DEF Full
<1>9. ASSUME Clean PROVE Exact
  <2>1. venue = << >>
    BY <1>9 DEF Clean, Init
  <2>2. DOMAIN venue = {}
    BY <2>1
  <2> QED BY <2>2 DEF Exact
<1>10. Sets!Init
  BY <1>1, <1>2 DEF Sets!Init
<1> QED BY <1>6, <1>7, <1>8, <1>9, <1>10 DEF Inv

LEMMA ReconcileStep ==
  ASSUME Inv, Reconcile
  PROVE  Inv' /\ Sets!Reconcile(Sets!Book, Sets!Book')
<1> DEFINE ghosts == DOMAIN live \ DOMAIN venue
           t0 == RemoveOrders(Now, ghosts)
           new == [id \in DOMAIN venue \ DOMAIN live |-> venue[id]]
<1>1. PICK t \in TrackOrders(t0, new) : live' = t.live /\ index' = t.index
  BY DEF Reconcile, Now
<1>2. UNCHANGED <<venue, owed, want, used>>
  BY DEF Reconcile
<1>3. TypeOK /\ IsTable(Now) /\ Sound(Now) /\ Now.live = live /\ Now.index = index
  BY NowTable DEF Inv
<1>4. /\ IsTable(t0) /\ Sound(t0) /\ DOMAIN t0.live = DOMAIN live \ ghosts
      /\ \A id \in DOMAIN t0.live : t0.live[id] = live[id]
      /\ (Full(Now) => Full(t0))
  BY <1>3, RemoveTable
<1>5. DOMAIN new = DOMAIN venue \ DOMAIN live /\ IsNew(t0, new)
  BY <1>3, <1>4 DEF IsNew, TypeOK
<1> HIDE DEF new, t0
<1>6. /\ IsTable(t) /\ Sound(t) /\ DOMAIN t.live = DOMAIN new \cup DOMAIN t0.live
      /\ \A id \in DOMAIN t0.live : t.live[id] = t0.live[id]
  BY <1>1, <1>4, <1>5, TrackTable
<1>7. /\ DOMAIN live' \subseteq Ids /\ live' \in [DOMAIN live' -> Order]
      /\ DOMAIN index' \subseteq Keys /\ index' \in [DOMAIN index' -> Ids]
      /\ IndexSound' /\ (Full(t) => Full(Now)')
  BY <1>1, <1>6, NextTable
<1>8. TypeOK'
  BY <1>2, <1>3, <1>7 DEF TypeOK
<1>9. DOMAIN live' = DOMAIN venue
  BY <1>1, <1>4, <1>5, <1>6
<1>10. ASSUME Clean' PROVE Full(Now)' /\ Exact'
  <2>1. Full(Now) /\ Exact
    BY <1>2, <1>10 DEF Clean, Inv
  <2>2. DOMAIN new = {} /\ DOMAIN venue \subseteq DOMAIN live
    BY <1>5, <2>1 DEF Exact
  <2>3. Full(t)
    BY <1>1, <1>4, <1>5, <2>1, <2>2, TrackTable
  <2>4. \A id \in DOMAIN venue : live'[id] = live[id]
    BY <1>1, <1>4, <1>6, <2>2
  <2>5. Exact'
    BY <1>2, <1>9, <2>1, <2>4 DEF Exact, Remaining
  <2> QED BY <1>7, <2>3, <2>5
<1> QED BY <1>2, <1>7, <1>8, <1>9, <1>10 DEF Inv, Sets!Book, Sets!Reconcile

LEMMA CancelAllStep ==
  ASSUME Inv, CancelAll
  PROVE  Inv' /\ Sets!CancelAll(Sets!Book, Sets!Book')
<1>1. PICK gone \in SUBSET (DOMAIN live \cap DOMAIN venue),
           keep \in SUBSET (DOMAIN live \cap DOMAIN venue) :
        LET rest == DOMAIN venue \ gone
            t == RemoveOrders(Table(live, index), DOMAIN live \ keep)
        IN /\ keep = {} \/ DOMAIN live \cap rest \subseteq keep
           /\ live' = t.live /\ index' = t.index
           /\ venue' = [id \in rest |-> venue[id]]
           /\ LET faulty == gone # DOMAIN live \cap DOMAIN venue \/ keep # {}
              IN used' = Bump(IF faulty THEN Bump(used, "faults") ELSE used, "moves")
  BY DEF CancelAll
<1> DEFINE rest == DOMAIN venue \ gone
           t == RemoveOrders(Now, DOMAIN live \ keep)
<1>2. /\ keep = {} \/ DOMAIN live \cap rest \subseteq keep
      /\ live' = t.live /\ index' = t.index /\ venue' = [id \in rest |-> venue[id]]
  BY <1>1 DEF Now
<1>3. UNCHANGED <<owed, want>>
  BY DEF CancelAll
<1>4. TypeOK /\ IsTable(Now) /\ Sound(Now) /\ Now.live = live
  BY NowTable DEF Inv
<1>5. /\ IsTable(t) /\ Sound(t) /\ DOMAIN t.live = DOMAIN live \ (DOMAIN live \ keep)
      /\ (Full(Now) => Full(t))
  BY <1>4, RemoveTable
<1>6. /\ DOMAIN live' \subseteq Ids /\ live' \in [DOMAIN live' -> Order]
      /\ DOMAIN index' \subseteq Keys /\ index' \in [DOMAIN index' -> Ids]
      /\ IndexSound' /\ (Full(t) => Full(Now)')
  BY <1>2, <1>5, NextTable
<1>7. DOMAIN live' = keep /\ DOMAIN venue' = rest
  BY <1>2, <1>5
<1>8. venue' \in [DOMAIN venue' -> Order] /\ DOMAIN venue' \subseteq Ids
  BY <1>2, <1>4 DEF TypeOK
<1>9. /\ used' \in Counts
      /\ Clean' => Clean /\ gone = DOMAIN live \cap DOMAIN venue
  <2> DEFINE faulty == gone # DOMAIN live \cap DOMAIN venue \/ keep # {}
  <2>1. used' = Bump(IF faulty THEN Bump(used, "faults") ELSE used, "moves")
    BY <1>1
  <2>2. used \in Counts
    BY <1>4 DEF TypeOK, Counts
  <2>3. CASE faulty
    <3>1. used' = Bump(Bump(used, "faults"), "moves")
      BY <2>1, <2>3
    <3>2. Bump(used, "faults") \in Counts /\ Bump(used, "faults").faults # 0
      BY <2>2, BumpCounts
    <3>3. used' \in Counts /\ used'.faults # 0
      BY <3>1, <3>2, BumpCounts
    <3> QED BY <3>3 DEF Clean
  <2>4. CASE ~faulty
    <3>1. used' = Bump(used, "moves")
      BY <2>1, <2>4
    <3>2. used' \in Counts /\ used'.faults = used.faults /\ used'.slices = used.slices
      BY <2>2, <3>1, BumpCounts
    <3> QED BY <2>4, <3>2 DEF Clean
  <2> QED BY <2>3, <2>4
<1>10. TypeOK'
  BY <1>3, <1>4, <1>6, <1>8, <1>9 DEF TypeOK, Counts
<1>11. ASSUME Clean' PROVE Full(Now)' /\ Exact'
  <2>1. Full(Now) /\ Exact /\ gone = DOMAIN live \cap DOMAIN venue
    BY <1>9, <1>11 DEF Inv
  <2>2. DOMAIN venue' = {}
    BY <1>7, <2>1 DEF Exact
  <2>3. Exact'
    BY <2>2 DEF Exact
  <2> QED BY <1>5, <1>6, <2>1, <2>3
<1>12. Sets!CancelAll(Sets!Book, Sets!Book')
  BY <1>2, <1>7 DEF Sets!Book, Sets!CancelAll
<1> QED BY <1>6, <1>10, <1>11, <1>12 DEF Inv

LEMMA SliceStep ==
  ASSUME Inv, UnwindSlice
  PROVE  Inv' /\ Sets!Slice(Sets!Book, Sets!Book')
<1>1. PICK id \in Fresh, k \in Keys, q \in Sizes, n \in 0 .. MaxQty :
        /\ n <= q
        /\ \E t \in TrackOrders(Table(live, index), One(id, k, q)) :
             live' = t.live /\ index' = t.index
        /\ owed' = [owed EXCEPT ![id] = n]
  BY Zenon DEF UnwindSlice
<1> DEFINE new == One(id, k, q)
<1>2. PICK t \in TrackOrders(Now, new) : live' = t.live /\ index' = t.index
  BY <1>1 DEF Now
<1>3. /\ UNCHANGED <<venue, want>>
      /\ used' = Bump(Bump(used, "events"), "slices")
  BY DEF UnwindSlice
<1>4. TypeOK /\ IsTable(Now) /\ Sound(Now) /\ Now.live = live
  BY NowTable DEF Inv
<1>5. id \in Ids /\ id \notin DOMAIN live /\ id \notin DOMAIN venue
  BY DEF Fresh
<1>6. [key |-> k, qty |-> q, filled |-> 0] \in Order
  BY ConstantsOK DEF Order
<1>7. DOMAIN new = {id} /\ IsNew(Now, new)
  BY <1>4, <1>5, <1>6 DEF IsNew, One
<1>8. IsTable(t) /\ Sound(t) /\ DOMAIN t.live = {id} \cup DOMAIN live
  BY <1>2, <1>4, <1>7, TrackTable
<1>9. /\ DOMAIN live' \subseteq Ids /\ live' \in [DOMAIN live' -> Order]
      /\ DOMAIN index' \subseteq Keys /\ index' \in [DOMAIN index' -> Ids]
      /\ IndexSound'
  BY <1>2, <1>8, NextTable
<1>10. used' \in Counts /\ ~Clean'
  <2>1. used \in Counts
    BY <1>4 DEF TypeOK, Counts
  <2>2. Bump(used, "events") \in Counts
    BY <2>1, BumpCounts
  <2>3. used' \in Counts /\ used'.slices # 0
    BY <1>3, <2>2, BumpCounts
  <2> QED BY <2>3 DEF Clean
<1>11. owed' \in [Ids -> Nat]
  <2>1. n \in Nat
    BY ConstantsOK
  <2> QED BY <1>1, <1>4, <2>1 DEF TypeOK
<1>12. TypeOK'
  BY <1>3, <1>4, <1>9, <1>10, <1>11 DEF TypeOK, Counts
<1>13. Sets!Slice(Sets!Book, Sets!Book')
  BY <1>2, <1>3, <1>5, <1>8 DEF Sets!Book, Sets!Slice, Sets!Fresh
<1> QED BY <1>9, <1>10, <1>12, <1>13 DEF Inv

\* Steps that leave the two maps alone.
LEMMA SameMaps ==
  ASSUME TypeOK, IndexSound, UNCHANGED <<live, index>>
  PROVE  /\ DOMAIN live' \subseteq Ids /\ live' \in [DOMAIN live' -> Order]
         /\ DOMAIN index' \subseteq Keys /\ index' \in [DOMAIN index' -> Ids]
         /\ IndexSound' /\ (Full(Now) => Full(Now)')
  BY DEF TypeOK, IndexSound, Full, Now, Table

LEMMA MoveStep ==
  ASSUME Inv, Move
  PROVE  Inv' /\ UNCHANGED <<DOMAIN live, DOMAIN venue>>
<1>1. UNCHANGED <<live, index, venue, owed>> /\ Spend("moves", MaxMoves) /\ want' \in Wanted
  BY DEF Move
<1>2. TypeOK /\ IndexSound /\ used \in Counts
  BY DEF Inv, TypeOK, Counts
<1>3. used' \in Counts /\ used'.faults = used.faults /\ used'.slices = used.slices
  BY <1>1, <1>2, BumpCounts DEF Spend
<1>4. DOMAIN want' \subseteq Keys /\ want' \in [DOMAIN want' -> Sizes]
  BY <1>1 DEF Wanted, PartialFunctions
<1>5. /\ DOMAIN live' \subseteq Ids /\ live' \in [DOMAIN live' -> Order]
      /\ DOMAIN index' \subseteq Keys /\ index' \in [DOMAIN index' -> Ids]
      /\ IndexSound' /\ (Full(Now) => Full(Now)')
  BY <1>1, <1>2, SameMaps
<1>6. TypeOK'
  BY <1>1, <1>2, <1>3, <1>4, <1>5 DEF TypeOK, Counts
<1>7. (Clean' => Clean) /\ (Exact => Exact')
  BY <1>1, <1>3 DEF Clean, Exact, Remaining
<1> QED BY <1>1, <1>5, <1>6, <1>7 DEF Inv

LEMMA VenueFillStep ==
  ASSUME Inv, VenueFill
  PROVE  Inv' /\ (Sets!VenueGone(Sets!Book, Sets!Book') \/ UNCHANGED <<DOMAIN live, DOMAIN venue>>)
<1>1. PICK id \in DOMAIN venue : \E n \in 1 .. Remaining(venue[id]) :
        /\ venue' = IF n = Remaining(venue[id]) THEN Without(venue, {id})
                    ELSE [venue EXCEPT ![id].filled = @ + n]
        /\ owed' = [owed EXCEPT ![id] = @ + n]
  BY DEF VenueFill
<1>2. PICK n \in 1 .. Remaining(venue[id]) :
        /\ venue' = IF n = Remaining(venue[id]) THEN Without(venue, {id})
                    ELSE [venue EXCEPT ![id].filled = @ + n]
        /\ owed' = [owed EXCEPT ![id] = @ + n]
  BY <1>1
<1>3. UNCHANGED <<live, index, want>> /\ Spend("events", MaxEvents)
  BY DEF VenueFill
<1>4. TypeOK /\ IndexSound /\ used \in Counts
  BY DEF Inv, TypeOK, Counts
<1>5. used' \in Counts /\ used'.faults = used.faults /\ used'.slices = used.slices
  BY <1>3, <1>4, BumpCounts DEF Spend
<1>6. /\ DOMAIN live' \subseteq Ids /\ live' \in [DOMAIN live' -> Order]
      /\ DOMAIN index' \subseteq Keys /\ index' \in [DOMAIN index' -> Ids]
      /\ IndexSound' /\ (Full(Now) => Full(Now)')
  BY <1>3, <1>4, SameMaps
<1>7. venue[id] \in Order /\ id \in Ids /\ owed[id] \in Nat
  BY <1>4 DEF TypeOK
<1>8. /\ venue[id].qty \in Nat /\ venue[id].filled \in Nat /\ n \in Nat /\ n > 0
      /\ Remaining(venue[id]) \in Nat
      /\ venue[id].filled + n <= venue[id].qty
  BY <1>7, OrderFields, ConstantsOK DEF Remaining
<1>9. /\ owed' \in [Ids -> Nat] /\ owed'[id] = owed[id] + n
      /\ \A i \in Ids \ {id} : owed'[i] = owed[i]
  BY <1>2, <1>4, <1>7, <1>8 DEF TypeOK
<1>10. /\ DOMAIN venue' \subseteq DOMAIN venue /\ DOMAIN venue \ {id} \subseteq DOMAIN venue'
       /\ \A i \in DOMAIN venue' \ {id} : venue'[i] = venue[i]
       /\ id \in DOMAIN venue' => /\ venue'[id] \in Order /\ venue'[id].key = venue[id].key
                                  /\ venue'[id].filled = venue[id].filled + n
                                  /\ venue'[id].qty = venue[id].qty
  <2>1. CASE n = Remaining(venue[id])
    <3>1. venue' = Without(venue, {id})
      BY <1>2, <2>1
    <3> QED BY <3>1 DEF Without
  <2>2. CASE n # Remaining(venue[id])
    <3> DEFINE o == [venue[id] EXCEPT !.filled = @ + n]
    <3>1. venue' = [venue EXCEPT ![id] = o]
      BY <1>2, <2>2
    <3>2. venue[id].filled + n < venue[id].qty
      BY <1>8, <2>2 DEF Remaining
    <3>3. /\ o \in Order /\ o.key = venue[id].key
          /\ o.filled = venue[id].filled + n /\ o.qty = venue[id].qty
      BY <1>7, <1>8, <3>2, ConstantsOK DEF Order
    <3>4. DOMAIN venue' = DOMAIN venue /\ venue'[id] = o
          /\ \A i \in DOMAIN venue \ {id} : venue'[i] = venue[i]
      BY <3>1
    <3> HIDE DEF o
    <3> QED BY <3>3, <3>4
  <2> QED BY <2>1, <2>2
<1>11. venue' \in [DOMAIN venue' -> Order] /\ DOMAIN venue' \subseteq Ids
  <2>1. \A i \in DOMAIN venue' : venue'[i] \in Order
    BY <1>4, <1>10 DEF TypeOK
  <2>2. venue' = [i \in DOMAIN venue' |-> venue'[i]]
    <3>1. CASE n = Remaining(venue[id])
      BY <1>2, <3>1 DEF Without
    <3>2. CASE n # Remaining(venue[id])
      BY <1>2, <1>4, <3>2 DEF TypeOK
    <3> QED BY <3>1, <3>2
  <2> QED BY <1>4, <1>10, <2>1, <2>2 DEF TypeOK
<1>12. TypeOK'
  BY <1>3, <1>4, <1>5, <1>6, <1>9, <1>11 DEF TypeOK, Counts
<1>13. ASSUME Exact PROVE Exact'
  <2> SUFFICES ASSUME NEW i \in DOMAIN venue'
               PROVE  /\ i \in DOMAIN live' /\ live'[i].key = venue'[i].key
                      /\ live'[i].filled + owed'[i] = venue'[i].filled
                      /\ venue'[i].qty <= live'[i].qty
    BY DEF Exact
  <2>1. /\ i \in DOMAIN live /\ live[i].key = venue[i].key /\ i \in Ids
        /\ live[i].filled + owed[i] = venue[i].filled /\ live'[i] = live[i]
        /\ venue[i].qty <= live[i].qty
    BY <1>3, <1>4, <1>10, <1>13 DEF Exact, TypeOK
  <2>2. CASE i = id
    <3>1. /\ venue'[id].key = venue[id].key /\ venue'[id].qty = venue[id].qty
          /\ venue'[id].filled = venue[id].filled + n /\ owed'[id] = owed[id] + n
      BY <1>9, <1>10, <2>2
    <3>2. live[id].filled \in Nat
      BY <1>4, <2>1, <2>2, OrderFields DEF TypeOK
    <3>3. live[id].filled + owed'[id] = venue'[id].filled
      BY <1>7, <1>8, <2>1, <2>2, <3>1, <3>2
    <3> QED BY <1>3, <2>1, <2>2, <3>1, <3>3
  <2>3. CASE i # id
    BY <1>3, <1>9, <1>10, <2>1, <2>3
  <2> QED BY <2>2, <2>3
<1>14. Clean' => Clean
  BY <1>5 DEF Clean
<1>15. Sets!VenueGone(Sets!Book, Sets!Book') \/ UNCHANGED <<DOMAIN live, DOMAIN venue>>
  <2>1. CASE id \in DOMAIN venue'
    BY <1>3, <1>10, <2>1
  <2>2. CASE id \notin DOMAIN venue'
    <3>1. DOMAIN venue' = DOMAIN venue \ {id}
      BY <1>10, <2>2
    <3> QED BY <1>3, <3>1 DEF Sets!Book, Sets!VenueGone
  <2> QED BY <2>1, <2>2
<1> QED BY <1>6, <1>12, <1>13, <1>14, <1>15 DEF Inv

LEMMA VenueExpireStep ==
  ASSUME Inv, VenueExpire
  PROVE  Inv' /\ Sets!VenueGone(Sets!Book, Sets!Book')
<1>1. PICK id \in DOMAIN venue : venue' = Without(venue, {id})
  BY DEF VenueExpire
<1>2. UNCHANGED <<live, index, owed, want>> /\ Spend("events", MaxEvents)
  BY DEF VenueExpire
<1>3. TypeOK /\ IndexSound /\ used \in Counts
  BY DEF Inv, TypeOK, Counts
<1>4. used' \in Counts /\ used'.faults = used.faults /\ used'.slices = used.slices
  BY <1>2, <1>3, BumpCounts DEF Spend
<1>5. /\ DOMAIN live' \subseteq Ids /\ live' \in [DOMAIN live' -> Order]
      /\ DOMAIN index' \subseteq Keys /\ index' \in [DOMAIN index' -> Ids]
      /\ IndexSound' /\ (Full(Now) => Full(Now)')
  BY <1>2, <1>3, SameMaps
<1>6. DOMAIN venue' = DOMAIN venue \ {id} /\ \A i \in DOMAIN venue' : venue'[i] = venue[i]
  BY <1>1 DEF Without
<1>7. venue' \in [DOMAIN venue' -> Order] /\ DOMAIN venue' \subseteq Ids
  BY <1>1, <1>3, <1>6 DEF TypeOK, Without
<1>8. TypeOK'
  BY <1>2, <1>3, <1>4, <1>5, <1>7 DEF TypeOK, Counts
<1>9. (Clean' => Clean) /\ (Exact => Exact')
  BY <1>2, <1>4, <1>6 DEF Clean, Exact, Remaining
<1>10. Sets!VenueGone(Sets!Book, Sets!Book')
  BY <1>2, <1>6 DEF Sets!Book, Sets!VenueGone
<1> QED BY <1>5, <1>8, <1>9, <1>10 DEF Inv

LEMMA OnFillStep ==
  ASSUME Inv, OnFill
  PROVE  Inv' /\ (Sets!Completed(Sets!Book, Sets!Book') \/ UNCHANGED <<DOMAIN live, DOMAIN venue>>)
<1>1. PICK id \in Ids : \E n \in 1 .. owed[id] :
        LET t == Filled(Table(live, index), id, n)
        IN /\ live' = t.live /\ index' = t.index
           /\ owed' = [owed EXCEPT ![id] = @ - n]
  BY DEF OnFill
<1>2. PICK n \in 1 .. owed[id] :
        LET t == Filled(Table(live, index), id, n)
        IN /\ live' = t.live /\ index' = t.index
           /\ owed' = [owed EXCEPT ![id] = @ - n]
  BY <1>1
<1> DEFINE t == Filled(Now, id, n)
<1>3. live' = t.live /\ index' = t.index /\ owed' = [owed EXCEPT ![id] = @ - n]
  BY <1>2 DEF Now
<1>4. UNCHANGED <<venue, want, used>>
  BY DEF OnFill
<1>5. TypeOK /\ IsTable(Now) /\ Sound(Now) /\ Now.live = live
  BY NowTable DEF Inv
<1>6. owed[id] \in Nat /\ n \in Nat /\ n > 0 /\ n <= owed[id]
  BY <1>5 DEF TypeOK
<1>7. /\ IsTable(t) /\ Sound(t) /\ (Full(Now) => Full(t))
      /\ \/ DOMAIN t.live = DOMAIN live
         \/ id \in DOMAIN live /\ DOMAIN t.live = DOMAIN live \ {id}
      /\ \A i \in DOMAIN t.live \ {id} : t.live[i] = live[i]
      /\ id \in DOMAIN live /\ live[id].filled + n < live[id].qty =>
           /\ id \in DOMAIN t.live
           /\ t.live[id].key = live[id].key /\ t.live[id].qty = live[id].qty
           /\ t.live[id].filled = live[id].filled + n
  BY <1>5, <1>6, FilledTable
<1>8. /\ DOMAIN live' \subseteq Ids /\ live' \in [DOMAIN live' -> Order]
      /\ DOMAIN index' \subseteq Keys /\ index' \in [DOMAIN index' -> Ids]
      /\ IndexSound' /\ (Full(t) => Full(Now)')
  BY <1>3, <1>7, NextTable
<1>9. /\ owed' \in [Ids -> Nat] /\ owed'[id] = owed[id] - n
      /\ \A i \in Ids \ {id} : owed'[i] = owed[i]
  BY <1>3, <1>5, <1>6 DEF TypeOK
<1>10. TypeOK'
  BY <1>4, <1>5, <1>8, <1>9 DEF TypeOK
<1>11. ASSUME Exact PROVE Exact'
  <2> SUFFICES ASSUME NEW i \in DOMAIN venue
               PROVE  /\ i \in DOMAIN live' /\ live'[i].key = venue[i].key
                      /\ live'[i].filled + owed'[i] = venue[i].filled
                      /\ venue[i].qty <= live'[i].qty
    BY <1>4 DEF Exact
  <2>1. /\ i \in DOMAIN live /\ live[i].key = venue[i].key
        /\ live[i].filled + owed[i] = venue[i].filled /\ venue[i].qty <= live[i].qty
    BY <1>11 DEF Exact
  <2>2. i \in Ids /\ venue[i] \in Order /\ live[i] \in Order
    BY <1>5, <2>1 DEF TypeOK
  <2>3. CASE i = id
    <3>1. /\ venue[id].qty \in Nat /\ venue[id].filled \in Nat
          /\ venue[id].filled < venue[id].qty
          /\ live[id].qty \in Nat /\ live[id].filled \in Nat
      BY <2>2, <2>3, OrderFields, ConstantsOK
    <3>3. live[id].filled + n < live[id].qty
      BY <1>6, <2>1, <2>3, <3>1
    <3>4. /\ id \in DOMAIN live' /\ live'[id].key = live[id].key
          /\ live'[id].qty = live[id].qty /\ live'[id].filled = live[id].filled + n
      BY <1>3, <1>7, <2>1, <2>3, <3>3
    <3>5. live'[id].filled + owed'[id] = venue[id].filled
      BY <1>6, <1>9, <2>1, <2>3, <3>1, <3>4
    <3> QED BY <2>1, <2>3, <3>4, <3>5
  <2>4. CASE i # id
    <3>1. i \in DOMAIN live' /\ live'[i] = live[i] /\ owed'[i] = owed[i]
      BY <1>3, <1>7, <1>9, <2>1, <2>2, <2>4
    <3> QED BY <2>1, <3>1
  <2> QED BY <2>3, <2>4
<1>12. Clean' => Clean
  BY <1>4 DEF Clean
<1>13. Sets!Completed(Sets!Book, Sets!Book') \/ UNCHANGED <<DOMAIN live, DOMAIN venue>>
  BY <1>3, <1>4, <1>7 DEF Sets!Book, Sets!Completed
<1> QED BY <1>7, <1>8, <1>10, <1>11, <1>12, <1>13 DEF Inv

-----------------------------------------------------------------------------
(* What a diff achieves.                                                    *)

\* The keys the index holds after each of the operations.
LEMMA RemovedKeys ==
  ASSUME NEW t, NEW S
  PROVE  DOMAIN RemoveOrders(t, S).index
           = DOMAIN t.index \ {t.live[id].key : id \in S \cap DOMAIN t.live}
BY WithoutMap DEF RemoveOrders, Table

LEMMA TrackedKeys ==
  ASSUME NEW t, NEW new, NEW r \in TrackOrders(t, new)
  PROVE  DOMAIN r.index = {new[id].key : id \in DOMAIN new} \cup DOMAIN t.index
<1> DEFINE taken == {new[id].key : id \in DOMAIN new}
<1>1. PICK f \in [taken -> DOMAIN new] :
        r = Table([id \in DOMAIN new \cup DOMAIN t.live |->
                     IF id \in DOMAIN new THEN new[id] ELSE t.live[id]],
                  [k \in taken \cup DOMAIN t.index |->
                     IF k \in taken THEN f[k] ELSE t.index[k]])
  BY DEF TrackOrders
<1>2. r.index = [k \in taken \cup DOMAIN t.index |->
                   IF k \in taken THEN f[k] ELSE t.index[k]]
  BY <1>1 DEF Table
<1> QED  BY <1>2

LEMMA RepricedKeys ==
  ASSUME NEW t, NEW moves
  PROVE  DOMAIN RepriceOrders(t, moves).index
           = DOMAIN moves \cup
             (DOMAIN t.index \ {t.live[id].key : id \in {moves[k] : k \in DOMAIN moves}})
BY DEF RepriceOrders, Table

\* Acknowledged placements stand at the keys they were sent for.
LEMMA AckedKeys ==
  ASSUME TypeOK, NEW S \in SUBSET DOMAIN want, NEW F \in SUBSET Ids, NEW ack \in Injection(S, F)
  PROVE  {Acked(ack)[id].key : id \in Range(ack)} = S
<1>1. DOMAIN ack = S /\ \A j, k \in S : ack[j] = ack[k] => j = k
  BY DEF Injection, IsInjective
<1>2. \A k \in S : ack[k] \in Range(ack) /\ Acked(ack)[ack[k]].key = k
  <2> SUFFICES ASSUME NEW k \in S
               PROVE  ack[k] \in Range(ack) /\ Acked(ack)[ack[k]].key = k
    OBVIOUS
  <2> DEFINE c == CHOOSE j \in DOMAIN ack : ack[j] = ack[k]
  <2>1. c \in S /\ ack[c] = ack[k]  BY <1>1
  <2>2. c = k  BY <1>1, <2>1
  <2>3. ack[k] \in Range(ack)  BY <1>1 DEF Range
  <2>4. Acked(ack)[ack[k]] = Made(c)  BY <2>3 DEF Acked
  <2> QED  BY <2>2, <2>3, <2>4, MadeOrder
<1>3. \A id \in Range(ack) : \E k \in S : id = ack[k]  BY <1>1 DEF Range
<1> QED  BY <1>2, <1>3

\* A diff whose calls all succeed indexes exactly what is wanted.
LEMMA KeysAfterDiff ==
  ASSUME TypeOK, IndexSound,
         NEW m, NEW silent, NEW landed, NEW ack, NEW lost,
         Choice(m, DOMAIN m, silent, landed, ToPlace(m, DOMAIN m), ack, lost),
         NEW t \in TableAfter(m, DOMAIN m, landed, ack)
  PROVE  DOMAIN t.index = DOMAIN want
<1> DEFINE done == DOMAIN m
           moves == Moves(m, done)
           cancel == ToCancel(m, done)
           t1 == RepriceOrders(Now, moves)
           t2 == RemoveOrders(t1, cancel)
<1>0. IsTable(Now) /\ Sound(Now) /\ Now.live = live /\ Now.index = index
  BY NowTable
<1>1. /\ DOMAIN m \subseteq New
      /\ \A n \in DOMAIN m : m[n] \in Stale /\ index[m[n]] \in DOMAIN live
      /\ \A n, q \in DOMAIN m : index[m[n]] = index[m[q]] => n = q
  BY PlanShape DEF Choice
<1>2. \A s \in Stale : s \in DOMAIN index /\ index[s] \in DOMAIN live /\ live[index[s]].key = s
  BY DEF Stale, IndexSound
<1>3. Stale = DOMAIN index \ DOMAIN want
  BY DEF Stale, IndexSound
<1>4. DOMAIN moves = DOMAIN m /\ \A n \in DOMAIN m : moves[n] = index[m[n]]
  BY DEF Moves
<1>5. IsMoves(Now, moves)
  BY <1>0, <1>1, <1>4 DEF IsMoves, New, TypeOK
<1>6. {live[id].key : id \in {moves[k] : k \in DOMAIN moves}} = Range(m)
  <2>1. \A n \in DOMAIN m : live[moves[n]].key = m[n]  BY <1>1, <1>2, <1>4
  <2> QED  BY <1>4, <2>1 DEF Range
<1>7. DOMAIN t1.index = DOMAIN m \cup (DOMAIN index \ Range(m))
  BY <1>0, <1>4, <1>6, RepricedKeys
<1>8. /\ DOMAIN t1.live = DOMAIN live
      /\ \A id \in DOMAIN live :
           id \notin {moves[k] : k \in DOMAIN moves} => t1.live[id] = live[id]
  BY <1>0, <1>5, RepriceTable
<1>9. cancel = {index[s] : s \in Stale \ Range(m)}
  BY DEF ToCancel
<1>10. \A s \in Stale \ Range(m) : index[s] \in DOMAIN t1.live /\ t1.live[index[s]].key = s
  <2> SUFFICES ASSUME NEW s \in Stale \ Range(m)
               PROVE  index[s] \in DOMAIN t1.live /\ t1.live[index[s]].key = s
    OBVIOUS
  <2>1. index[s] \in DOMAIN live /\ live[index[s]].key = s  BY <1>2
  <2>2. index[s] \notin {moves[k] : k \in DOMAIN moves}
    <3> SUFFICES ASSUME NEW n \in DOMAIN m, index[s] = index[m[n]] PROVE FALSE
      BY <1>4
    <3>1. live[index[m[n]]].key = m[n]  BY <1>1, <1>2
    <3> QED  BY <2>1, <3>1 DEF Range
  <2> QED  BY <1>8, <2>1, <2>2
<1>11. {t1.live[id].key : id \in cancel \cap DOMAIN t1.live} = Stale \ Range(m)
  BY <1>9, <1>10
<1>12. DOMAIN t2.index = (DOMAIN m \cup (DOMAIN index \ Range(m))) \ (Stale \ Range(m))
  BY <1>7, <1>11, RemovedKeys
<1>13. t \in TrackOrders(t2, Acked(ack)) /\ DOMAIN Acked(ack) = Range(ack)
  BY DEF TableAfter, Dropped, Now, Acked
<1>14. ToPlace(m, done) = New \ DOMAIN m
  BY DEF ToPlace
<1>15. {Acked(ack)[id].key : id \in Range(ack)} = New \ DOMAIN m
  <2> DEFINE S == New \ DOMAIN m
  <2>1. S \in SUBSET DOMAIN want /\ Fresh \in SUBSET Ids  BY DEF New, Fresh
  <2>2. ack \in Injection(S, Fresh)  BY <1>14 DEF Choice
  <2> HIDE DEF S
  <2>3. {Acked(ack)[id].key : id \in Range(ack)} = S  BY <2>1, <2>2, AckedKeys
  <2> QED  BY <2>3 DEF S
<1>16. DOMAIN t.index = (New \ DOMAIN m) \cup DOMAIN t2.index
  BY <1>13, <1>15, TrackedKeys
<1>17. Range(m) \subseteq Stale  BY <1>1 DEF Range
<1> QED  BY <1>1, <1>3, <1>12, <1>16, <1>17 DEF New

\* A diff all of whose calls succeed does its job in one go: the index holds the
\* wanted levels and no other, and, unless a call failed or a slice was sent
\* earlier, nothing rests at a price that is not wanted (execute_diff).
DiffReachesWant ==
  [][ExecuteDiff /\ UNCHANGED used =>
       /\ DOMAIN index' = DOMAIN want
       /\ Clean => \A id \in DOMAIN venue' : venue'[id].key \in DOMAIN want]_vars

-----------------------------------------------------------------------------
(* The theorems.                                                            *)

LEMMA NextInv == Inv /\ [Next]_vars => Inv'
<1> SUFFICES ASSUME Inv, [Next]_vars PROVE Inv'
  OBVIOUS
<1>1. CASE ExecuteDiff
  BY <1>1, DiffStep DEF Inv
<1>2. CASE UNCHANGED vars
  BY <1>2 DEF vars, Inv, TypeOK, IndexSound, Clean, Full, Now, Table, Exact, Remaining
<1> QED BY <1>1, <1>2, MoveStep, ReconcileStep, CancelAllStep, SliceStep, VenueFillStep,
           VenueExpireStep, OnFillStep DEF Next

THEOREM TableInvariant == Spec => []Inv
BY InitInv, NextInv, PTL DEF Spec

\* The maps, the venue and the wanted quotes have their types, for every bound.
THEOREM TableTypeCorrect == Spec => []TypeOK
<1>1. Inv => TypeOK
  BY DEF Inv
<1> QED BY <1>1, TableInvariant, PTL

\* price_index never dangles, whatever fails: track_order, remove_order, reprice_order
\* and on_fill keep the two maps in step.
THEOREM IndexNeverDangles == Spec => []IndexSound
<1>1. Inv => IndexSound
  BY DEF Inv
<1> QED BY <1>1, TableInvariant, PTL

\* Without a failed call the order manager's picture is the venue's, up to fills under way.
THEOREM FaultFreePicture == Spec => []FaultFreeIsExact
<1>1. Inv => FaultFreeIsExact
  <2> SUFFICES ASSUME Inv, Clean PROVE
        \A id \in DOMAIN venue :
          /\ id \in DOMAIN live /\ live[id].key = venue[id].key
          /\ live[id].key \in DOMAIN index /\ index[live[id].key] = id
          /\ live[id].filled + owed[id] = venue[id].filled
          /\ venue[id].qty <= live[id].qty
    BY DEF FaultFreeIsExact, Clean
  <2>1. Full(Now) /\ Exact /\ Now.live = live /\ Now.index = index
    BY NowTable DEF Inv
  <2> QED BY <2>1 DEF Full, Exact
<1> QED BY <1>1, TableInvariant, PTL

\* The order manager implements OrderSets, the level at which the kill ladder is modelled.
THEOREM TableRefines == Spec => ImplementsOrderSets
<1>1. Inv /\ [Next]_vars => [Sets!Next]_(Sets!vars)
  <2> SUFFICES ASSUME Inv, [Next]_vars PROVE Sets!Next \/ UNCHANGED Sets!vars
    OBVIOUS
  <2>1. CASE ExecuteDiff
    BY <2>1, DiffStep DEF Inv, Sets!Next, Sets!Call
  <2>2. CASE Move
    BY <2>2, MoveStep DEF Sets!vars
  <2>3. CASE Reconcile
    BY <2>3, ReconcileStep DEF Sets!Next, Sets!Call
  <2>4. CASE CancelAll
    BY <2>4, CancelAllStep DEF Sets!Next, Sets!Call
  <2>5. CASE UnwindSlice
    BY <2>5, SliceStep DEF Sets!Next, Sets!Call
  <2>6. CASE VenueFill
    BY <2>6, VenueFillStep DEF Sets!Next, Sets!Call, Sets!vars
  <2>7. CASE VenueExpire
    BY <2>7, VenueExpireStep DEF Sets!Next, Sets!Call
  <2>8. CASE OnFill
    BY <2>8, OnFillStep DEF Sets!Next, Sets!Call, Sets!vars
  <2>9. CASE UNCHANGED vars
    BY <2>9 DEF vars, Sets!vars
  <2> QED BY <2>1, <2>2, <2>3, <2>4, <2>5, <2>6, <2>7, <2>8, <2>9 DEF Next
<1> QED BY <1>1, InitInv, TableInvariant, PTL DEF Spec, ImplementsOrderSets, Sets!Spec

\* StaleReaped as far as the code keeps it: while no call has failed, an order at a price
\* that is no longer wanted outlives no successful diff, and every wanted level is
\* indexed after it, whatever was amended, cancelled and placed on the way.
THEOREM DiffDoesItsJob == Spec => DiffReachesWant
<1>1. ASSUME Inv, Inv', ExecuteDiff, UNCHANGED used
      PROVE  /\ DOMAIN index' = DOMAIN want
             /\ Clean => \A id \in DOMAIN venue' : venue'[id].key \in DOMAIN want
  <2>1. PICK m, done, silent, landed, acked, ack, lost :
          /\ Choice(m, done, silent, landed, acked, ack, lost)
          /\ Execute(m, done, silent, landed, ack, lost)
    BY <1>1 DEF ExecuteDiff, Choice
  <2>2. TypeOK /\ IndexSound /\ used \in Counts  BY <1>1 DEF Inv, TypeOK, Counts
  <2>3. ~Spend("faults", MaxFaults)
    <3>1. Bump(used, "faults") # used  BY <2>2 DEF Bump, Counts
    <3> QED  BY <1>1, <3>1 DEF Spend
  <2>4. done = DOMAIN m /\ DOMAIN ack = ToPlace(m, done)
    BY <2>1, <2>3 DEF Execute
  <2>5. acked = ToPlace(m, DOMAIN m)
    BY <2>1, <2>2, <2>4, ChoiceShape
  <2>6. DOMAIN index' = DOMAIN want
    <3>1. PICK t \in TableAfter(m, DOMAIN m, landed, ack) : index' = t.index
      BY <2>1, <2>4 DEF Execute
    <3> QED  BY <2>1, <2>2, <2>4, <2>5, <3>1, KeysAfterDiff
  <2>7. ASSUME Clean, NEW id \in DOMAIN venue' PROVE venue'[id].key \in DOMAIN want
    <3>1. Clean'  BY <1>1, <2>7 DEF Clean
    <3>2. id \in DOMAIN live' /\ live'[id].key = venue'[id].key
      BY <1>1, <2>7, <3>1 DEF Inv, Exact
    <3>3. live'[id].key \in DOMAIN index'
      BY <1>1, <3>1, <3>2 DEF Inv, Full, Now, Table
    <3> QED  BY <2>6, <3>2, <3>3
  <2> QED  BY <2>6, <2>7
<1>2. Inv /\ Inv' /\ [Next]_vars
      => [ExecuteDiff /\ UNCHANGED used =>
            /\ DOMAIN index' = DOMAIN want
            /\ Clean => \A id \in DOMAIN venue' : venue'[id].key \in DOMAIN want]_vars
  BY <1>1
<1> QED  BY <1>2, TableInvariant, PTL DEF Spec, DiffReachesWant

=============================================================================
