---------------------------- MODULE Orders_proofs ----------------------------
(***************************************************************************)
(* The stock pools, and the orders that hold their units, for every set of *)
(* variants and orders: no pool is oversold, and the units reserved or     *)
(* promised are those of the orders that were not cancelled, so a pending  *)
(* order can always give its units back.                                   *)
(*                                                                         *)
(* OrdersInv is inductive as it stands: conservation needs the sound pools *)
(* (a reservation adds exactly its units only to a pool that is not        *)
(* oversold), and a collected order needs to have been a pickup order when *)
(* it became ready.                                                        *)
(***************************************************************************)
EXTENDS Orders, Totals_proofs

-----------------------------------------------------------------------------
(* The pools on their own. *)

\* A pool that is well typed and not oversold.
SoundPool(p) == p \in Pools /\ p.reserved <= p.onHand

PoolInv == stock \in [Skus -> Pools] /\ ReservedWithinOnHand

\* Reserving from a sound pool, when the guards admit it, gives a sound pool
\* (DjangoStockLevelRepository.reserve keeps ck_stock_level_reserved_le_on_hand).
LEMMA ReservedSound ==
    ASSUME NEW p, SoundPool(p), NEW q \in Nat, CanReserve(p, q)
    PROVE  SoundPool(Reserved(p, q))
<1>1. /\ p.onHand \in 0..MaxQuantity /\ p.reserved \in 0..MaxQuantity
      /\ p.backordered \in 0..MaxQuantity /\ p.backorderable \in BOOLEAN
      /\ p.reserved <= p.onHand
  BY DEF SoundPool, Pools
<1>2. Physical(p, q) \in 0..(p.onHand - p.reserved) /\ Physical(p, q) <= q
  BY <1>1 DEF Physical, Smaller, AvailableToPromise
<1>3. p.backordered + q - Physical(p, q) \in 0..MaxQuantity
  BY <1>1, <1>2, PoolAssumption DEF CanReserve
<1>4. p.reserved + Physical(p, q) \in 0..MaxQuantity
  BY <1>1, <1>2, PoolAssumption
<1>5. Reserved(p, q) \in Pools
  BY <1>3, <1>4 DEF Reserved, SoundPool, Pools
<1>6. Reserved(p, q).reserved = p.reserved + Physical(p, q) /\ Reserved(p, q).onHand = p.onHand
  BY DEF Reserved, SoundPool, Pools
<1> QED
  BY <1>1, <1>2, <1>5, <1>6 DEF SoundPool

\* Releasing from a sound pool, when the guards admit it, gives a sound pool.
LEMMA ReleasedSound ==
    ASSUME NEW p, SoundPool(p), NEW q \in Nat, CanRelease(p, q)
    PROVE  SoundPool(Released(p, q))
<1>1. /\ p.onHand \in 0..MaxQuantity /\ p.reserved \in 0..MaxQuantity
      /\ p.backordered \in 0..MaxQuantity /\ p.backorderable \in BOOLEAN
      /\ p.reserved <= p.onHand
  BY DEF SoundPool, Pools
<1>2. FromBackorder(p, q) \in 0..p.backordered /\ FromBackorder(p, q) <= q
  BY <1>1 DEF FromBackorder, Smaller
<1>3. p.backordered - FromBackorder(p, q) \in 0..MaxQuantity
  BY <1>1, <1>2, PoolAssumption
<1>4. /\ p.reserved - (q - FromBackorder(p, q)) \in 0..MaxQuantity
      /\ p.reserved - (q - FromBackorder(p, q)) <= p.onHand
  BY <1>1, <1>2, PoolAssumption DEF CanRelease
<1>5. Released(p, q) \in Pools
  BY <1>3, <1>4 DEF Released, SoundPool, Pools
<1>6. /\ Released(p, q).reserved = p.reserved - (q - FromBackorder(p, q))
      /\ Released(p, q).onHand = p.onHand
  BY DEF Released, SoundPool, Pools
<1> QED
  BY <1>4, <1>5, <1>6 DEF SoundPool

\* The invariant is that every pool is sound.
LEMMA PoolInvIsSound ==
    PoolInv <=> /\ stock = [k \in Skus |-> stock[k]]
                /\ \A k \in Skus : SoundPool(stock[k])
BY DEF PoolInv, SoundPool, ReservedWithinOnHand

\* One more sound pool keeps the invariant.
LEMMA UpdatedPoolSound ==
    ASSUME PoolInv, NEW k \in Skus, NEW p, SoundPool(p), stock' = [stock EXCEPT ![k] = p]
    PROVE  PoolInv'
BY DEF PoolInv, SoundPool, ReservedWithinOnHand

\* Staff operations on a sound pool: a recount at or above what is reserved, a policy.
LEMMA RecountSound ==
    ASSUME PoolInv, NEW k \in Skus, NEW n \in 0..MaxQuantity, Recount(k, n)
    PROVE  PoolInv'
<1> DEFINE p == [stock[k] EXCEPT !.onHand = n]
<1>1. stock[k] \in Pools
  BY DEF PoolInv
<1>2. SoundPool(p)
  BY <1>1 DEF SoundPool, Pools, Recount
<1>3. stock' = [stock EXCEPT ![k] = p]
  BY DEF Recount
<1> QED
  BY <1>2, <1>3, UpdatedPoolSound

\* A policy change touches no quantity.
LEMMA SetPolicySound ==
    ASSUME PoolInv, NEW k \in Skus, NEW b \in BOOLEAN, SetPolicy(k, b)
    PROVE  PoolInv'
<1> DEFINE p == [stock[k] EXCEPT !.backorderable = b]
<1>1. stock[k] \in Pools /\ stock[k].reserved <= stock[k].onHand
  BY DEF PoolInv, ReservedWithinOnHand
<1>2. SoundPool(p)
  BY <1>1 DEF SoundPool, Pools
<1>3. stock' = [stock EXCEPT ![k] = p]
  BY DEF SetPolicy
<1> QED
  BY <1>2, <1>3, UpdatedPoolSound

\* Every variant starts with an empty pool, which is sound.
LEMMA PoolInitSound == PoolInit => PoolInv
<1> SUFFICES ASSUME PoolInit PROVE PoolInv
  OBVIOUS
<1>1. EmptyPool \in Pools
  BY PoolAssumption DEF EmptyPool, Pools
<1> QED
  BY <1>1 DEF PoolInit, PoolInv, ReservedWithinOnHand, EmptyPool

\* Every behaviour of the pools keeps every pool typed and not oversold.
THEOREM PoolsNeverOversold == PoolSpec => [](StockTypeOK /\ ReservedWithinOnHand)
<1>1. PoolInit => PoolInv
  BY PoolInitSound
<1>2. PoolInv /\ [PoolNext]_stock => PoolInv'
  <2> SUFFICES ASSUME PoolInv, [PoolNext]_stock PROVE PoolInv'
    OBVIOUS
  <2>1. CASE UNCHANGED stock
    BY <2>1 DEF PoolInv, ReservedWithinOnHand
  <2>2. ASSUME NEW k \in Skus, NEW q \in 1..MaxLine, Reserve(k, q) PROVE PoolInv'
    <3>1. SoundPool(stock[k]) /\ q \in Nat
      BY PoolAssumption DEF PoolInv, SoundPool, ReservedWithinOnHand
    <3>2. SoundPool(Reserved(stock[k], q))
      BY <2>2, <3>1, ReservedSound DEF Reserve
    <3> QED
      BY <2>2, <3>2, UpdatedPoolSound DEF Reserve
  <2>3. ASSUME NEW k \in Skus, NEW q \in 1..MaxLine, Release(k, q) PROVE PoolInv'
    <3>1. SoundPool(stock[k]) /\ q \in Nat
      BY PoolAssumption DEF PoolInv, SoundPool, ReservedWithinOnHand
    <3>2. SoundPool(Released(stock[k], q))
      BY <2>3, <3>1, ReleasedSound DEF Release
    <3> QED
      BY <2>3, <3>2, UpdatedPoolSound DEF Release
  <2> QED
    BY <2>1, <2>2, <2>3, RecountSound, SetPolicySound DEF PoolNext
<1>3. PoolInv => StockTypeOK /\ ReservedWithinOnHand
  BY DEF PoolInv, StockTypeOK
<1> QED
  BY <1>1, <1>2, <1>3, PTL DEF PoolSpec
-----------------------------------------------------------------------------
(* The orders and the pools. *)

OrdersInv == PoolInv /\ OrdersTypeOK /\ StockConserved /\ FulfilledAsChosen

\* The units of a pool that orders hold.
Committed(p) == p.reserved + p.backordered
-----------------------------------------------------------------------------
\* A reservation commits exactly its units, however they split into physical stock and
\* backorder.
LEMMA ReservedCommits ==
    ASSUME NEW p, SoundPool(p), NEW q \in Nat
    PROVE  Committed(Reserved(p, q)) = Committed(p) + q
<1>1. p.reserved \in Nat /\ p.backordered \in Nat /\ p.onHand \in Nat
  BY PoolAssumption DEF SoundPool, Pools
<1>2. Physical(p, q) \in Int
  BY <1>1 DEF Physical, Smaller, AvailableToPromise
<1>3. /\ Reserved(p, q).reserved = p.reserved + Physical(p, q)
      /\ Reserved(p, q).backordered = p.backordered + q - Physical(p, q)
  BY DEF Reserved, SoundPool, Pools
<1> QED
  BY <1>1, <1>2, <1>3 DEF Committed

\* A release frees exactly its units.
LEMMA ReleasedFrees ==
    ASSUME NEW p, SoundPool(p), NEW q \in Nat
    PROVE  Committed(Released(p, q)) = Committed(p) - q
<1>1. p.reserved \in Nat /\ p.backordered \in Nat
  BY PoolAssumption DEF SoundPool, Pools
<1>2. FromBackorder(p, q) \in Int
  BY <1>1 DEF FromBackorder, Smaller
<1>3. /\ Released(p, q).reserved = p.reserved - (q - FromBackorder(p, q))
      /\ Released(p, q).backordered = p.backordered - FromBackorder(p, q)
  BY DEF Released, SoundPool, Pools
<1> QED
  BY <1>1, <1>2, <1>3 DEF Committed

\* The pools of an order's lines are all sound.
LEMMA SoundStock ==
    ASSUME PoolInv, NEW k \in Skus
    PROVE  SoundPool(stock[k]) /\ Committed(stock[k]) \in Nat
BY PoolAssumption DEF PoolInv, SoundPool, ReservedWithinOnHand, Pools, Committed

\* A quantity of a line is a number of units.
LEMMA LineUnits ==
    ASSUME NEW lines \in Lines, NEW k \in Skus
    PROVE  lines[k] \in Nat
BY PoolAssumption DEF Lines

\* Deducting the lines of an order commits the units of each line, and oversells nothing.
LEMMA Deducted ==
    ASSUME PoolInv, NEW lines \in Lines, Deduct(lines)
    PROVE  /\ PoolInv'
           /\ \A k \in Skus : Committed(stock'[k]) = Committed(stock[k]) + lines[k]
<1>1. ASSUME NEW k \in Skus
      PROVE  SoundPool(stock'[k]) /\ Committed(stock'[k]) = Committed(stock[k]) + lines[k]
  <2>1. CASE lines[k] > 0
    <3>1. stock'[k] = Reserved(stock[k], lines[k]) /\ CanReserve(stock[k], lines[k])
      BY <2>1 DEF Deduct
    <3> QED
      BY <3>1, SoundStock, LineUnits, ReservedSound, ReservedCommits
  <2>2. CASE ~(lines[k] > 0)
    <3>1. stock'[k] = stock[k] /\ lines[k] = 0
      BY <2>2, LineUnits DEF Deduct
    <3> QED
      BY <3>1, SoundStock
  <2> QED
    BY <2>1, <2>2
<1>2. stock' = [k \in Skus |-> stock'[k]]
  BY DEF Deduct
<1> QED
  BY <1>1, <1>2 DEF PoolInv, SoundPool, ReservedWithinOnHand

\* Restocking the lines frees the units of each line.
LEMMA Restocked ==
    ASSUME PoolInv, NEW lines \in Lines, Restock(lines)
    PROVE  /\ PoolInv'
           /\ \A k \in Skus : Committed(stock'[k]) = Committed(stock[k]) - lines[k]
<1>1. ASSUME NEW k \in Skus
      PROVE  SoundPool(stock'[k]) /\ Committed(stock'[k]) = Committed(stock[k]) - lines[k]
  <2>1. CASE lines[k] > 0
    <3>1. stock'[k] = Released(stock[k], lines[k]) /\ CanRelease(stock[k], lines[k])
      BY <2>1 DEF Restock
    <3> QED
      BY <3>1, SoundStock, LineUnits, ReleasedSound, ReleasedFrees
  <2>2. CASE ~(lines[k] > 0)
    <3>1. stock'[k] = stock[k] /\ lines[k] = 0
      BY <2>2, LineUnits DEF Restock
    <3> QED
      BY <3>1, SoundStock
  <2> QED
    BY <2>1, <2>2
<1>2. stock' = [k \in Skus |-> stock'[k]]
  BY DEF Restock
<1> QED
  BY <1>1, <1>2 DEF PoolInv, SoundPool, ReservedWithinOnHand
-----------------------------------------------------------------------------
\* What each order of a table holds of variant k, within a line's bound.
HeldIn(table, k) ==
    [o \in OrderIds |-> IF table[o].status \notin {"none", "cancelled"}
                        THEN table[o].lines[k] ELSE 0]

LEMMA HeldType ==
    ASSUME NEW table \in [OrderIds -> OrderRecords \cup {NoOrder}], NEW k \in Skus
    PROVE  HeldIn(table, k) \in [OrderIds -> 0..MaxLine]
<1> SUFFICES ASSUME NEW o \in OrderIds, table[o].status \notin {"none", "cancelled"}
             PROVE  table[o].lines[k] \in 0..MaxLine
  BY PoolAssumption DEF HeldIn
<1>1. table[o] \in OrderRecords
  BY DEF NoOrder
<1> QED
  BY <1>1 DEF OrderRecords, Lines

\* Conservation in terms of the units committed.
LEMMA ConservedIsCommitted ==
    StockConserved <=> \A k \in Skus : Committed(stock[k]) = Total(HeldIn(orders, k))
BY DEF StockConserved, Committed, HeldIn, HeldUnits, HoldsStock

LEMMA ConservedIsCommittedNext ==
    StockConserved' <=> \A k \in Skus : Committed(stock'[k]) = Total(HeldIn(orders', k))
BY DEF StockConserved, Committed, HeldIn, HeldUnits, HoldsStock

\* When one order starts to hold units it did not hold, the total grows by them; read
\* backwards, when it ceases to hold them, the total shrinks.
LEMMA OneMoreHolder ==
    ASSUME NEW before \in [OrderIds -> OrderRecords \cup {NoOrder}],
           NEW after \in [OrderIds -> OrderRecords \cup {NoOrder}],
           NEW o \in OrderIds, NEW k \in Skus,
           before[o].status \in {"none", "cancelled"},
           after[o].status \notin {"none", "cancelled"},
           \A x \in OrderIds : x # o => after[x] = before[x]
    PROVE  /\ Total(HeldIn(after, k)) = Total(HeldIn(before, k)) + after[o].lines[k]
           /\ Total(HeldIn(before, k)) \in Nat
<1>1. /\ HeldIn(before, k) \in [OrderIds -> 0..MaxLine]
      /\ HeldIn(after, k)  \in [OrderIds -> 0..MaxLine]
  BY HeldType
<1>2. HeldIn(before, k)[o] = 0 /\ HeldIn(after, k)[o] = after[o].lines[k]
  BY DEF HeldIn
<1>3. \A x \in OrderIds : x # o => HeldIn(after, k)[x] = HeldIn(before, k)[x]
  BY DEF HeldIn
<1>4. IsFiniteSet(OrderIds) /\ MaxLine \in Nat
  BY OrdersAssumption, PoolAssumption
<1>5. Total(HeldIn(after, k)) = Total(HeldIn(before, k)) + HeldIn(after, k)[o]
  BY <1>1, <1>2, <1>3, <1>4, TotalAdd
<1> QED
  BY <1>1, <1>2, <1>4, <1>5, TotalType
-----------------------------------------------------------------------------
\* An order opened holds its lines.
LEMMA OpenOrderInv ==
    ASSUME OrdersInv, NEW o \in OrderIds, NEW w \in Owners, NEW lines \in Lines,
           NEW pickup \in BOOLEAN, NEW total \in Amounts,
           OpenOrder(o, w, lines, pickup, total)
    PROVE  OrdersInv'
<1> DEFINE r == [status |-> "pending", owner |-> w, lines |-> lines, pickup |-> pickup,
                 total |-> total]
<1>1. r \in OrderRecords /\ r.status = "pending" /\ r.lines = lines
  BY DEF OrderRecords, OrderStatuses
<1>2. orders' = [orders EXCEPT ![o] = r] /\ orders[o].status = "none" /\ Deduct(lines)
  BY DEF OpenOrder, Exists
<1>3. /\ orders \in [OrderIds -> OrderRecords \cup {NoOrder}]
      /\ orders' \in [OrderIds -> OrderRecords \cup {NoOrder}]
      /\ orders'[o] = r
      /\ \A x \in OrderIds : x # o => orders'[x] = orders[x]
  BY <1>1, <1>2 DEF OrdersInv, OrdersTypeOK
<1>4. /\ PoolInv'
      /\ \A k \in Skus : Committed(stock'[k]) = Committed(stock[k]) + lines[k]
  BY <1>2, Deducted DEF OrdersInv
<1>5. ASSUME NEW k \in Skus PROVE Committed(stock'[k]) = Total(HeldIn(orders', k))
  <2>1. Total(HeldIn(orders', k)) = Total(HeldIn(orders, k)) + lines[k]
    <3>1. /\ orders[o].status \in {"none", "cancelled"}
          /\ orders'[o].status \notin {"none", "cancelled"} /\ orders'[o].lines = lines
      BY <1>1, <1>2, <1>3
    <3> QED
      BY <1>3, <3>1, OneMoreHolder
  <2> QED
    BY <1>4, <2>1, ConservedIsCommitted DEF OrdersInv
<1>6. StockConserved'
  BY <1>5, ConservedIsCommittedNext
<1>7. FulfilledAsChosen'
  BY <1>1, <1>3 DEF OrdersInv, FulfilledAsChosen
<1> QED
  BY <1>3, <1>4, <1>6, <1>7 DEF OrdersInv, OrdersTypeOK

\* A status written to one order, and nothing else, of its table.
LEMMA StatusWritten ==
    ASSUME OrdersTypeOK, NEW o \in OrderIds, NEW target \in OrderStatuses,
           CanTransition(o, target), SetStatus(o, target)
    PROVE  /\ orders' \in [OrderIds -> OrderRecords \cup {NoOrder}]
           /\ orders[o] \in OrderRecords
           /\ orders'[o] = [orders[o] EXCEPT !.status = target]
           /\ orders'[o].status = target
           /\ orders'[o].lines = orders[o].lines
           /\ orders'[o].pickup = orders[o].pickup
           /\ \A x \in OrderIds : x # o => orders'[x] = orders[x]
           /\ HoldsStock(o)
<1> DEFINE r == [orders[o] EXCEPT !.status = target]
<1>1. orders[o] \in OrderRecords /\ HoldsStock(o)
  BY DEF OrdersTypeOK, CanTransition, Exists, NoOrder, HoldsStock, AllowedTransitions
<1>2. /\ r \in OrderRecords /\ r.status = target
      /\ r.lines = orders[o].lines /\ r.pickup = orders[o].pickup
  BY <1>1 DEF OrderRecords
<1>3. orders' = [orders EXCEPT ![o] = r]
  BY DEF SetStatus
<1> QED
  BY <1>1, <1>2, <1>3 DEF OrdersTypeOK

\* An order cancelled gives back what it held.
LEMMA CancelOrderInv ==
    ASSUME OrdersInv, NEW o \in OrderIds, NEW w \in Owners, CancelMyOrder(o, w)
    PROVE  OrdersInv'
<1>1. /\ CanTransition(o, "cancelled") /\ SetStatus(o, "cancelled")
      /\ Restock(orders[o].lines) /\ "cancelled" \in OrderStatuses
  BY DEF CancelMyOrder, OrderStatuses
<1>2. /\ orders \in [OrderIds -> OrderRecords \cup {NoOrder}]
      /\ orders' \in [OrderIds -> OrderRecords \cup {NoOrder}]
      /\ orders[o] \in OrderRecords /\ orders'[o].status = "cancelled"
      /\ orders'[o].pickup = orders[o].pickup
      /\ \A x \in OrderIds : x # o => orders[x] = orders'[x]
      /\ orders[o].status \notin {"none", "cancelled"}
  BY <1>1, StatusWritten DEF OrdersInv, OrdersTypeOK, HoldsStock
<1>3. orders[o].lines \in Lines
  BY <1>2 DEF OrderRecords
<1>4. /\ PoolInv'
      /\ \A k \in Skus : Committed(stock'[k]) = Committed(stock[k]) - orders[o].lines[k]
  BY <1>1, <1>3, Restocked DEF OrdersInv
<1>5. ASSUME NEW k \in Skus PROVE Committed(stock'[k]) = Total(HeldIn(orders', k))
  <2>1. /\ Total(HeldIn(orders, k)) = Total(HeldIn(orders', k)) + orders[o].lines[k]
        /\ Total(HeldIn(orders', k)) \in Nat
    BY <1>2, OneMoreHolder
  <2>2. orders[o].lines[k] \in Nat
    BY <1>3, LineUnits
  <2> QED
    BY <1>4, <2>1, <2>2, ConservedIsCommitted DEF OrdersInv
<1>6. StockConserved'
  BY <1>5, ConservedIsCommittedNext
<1>7. FulfilledAsChosen'
  BY <1>2 DEF OrdersInv, FulfilledAsChosen
<1> QED
  BY <1>2, <1>4, <1>6, <1>7 DEF OrdersInv, OrdersTypeOK

\* An order that moves on while it holds its stock goes on holding it.
LEMMA HolderMovesInv ==
    ASSUME OrdersInv, NEW o \in OrderIds, NEW target \in OrderStatuses \ {"cancelled"},
           CanTransition(o, target), SetStatus(o, target), UNCHANGED stock,
           target = "fulfilled" => ~orders[o].pickup,
           target \in {"ready_for_pickup", "picked_up"} => orders[o].pickup
    PROVE  OrdersInv'
<1>1. /\ orders' \in [OrderIds -> OrderRecords \cup {NoOrder}]
      /\ orders'[o].status = target
      /\ orders'[o].lines = orders[o].lines /\ orders'[o].pickup = orders[o].pickup
      /\ \A x \in OrderIds : x # o => orders'[x] = orders[x]
      /\ HoldsStock(o)
  BY StatusWritten DEF OrdersInv
<1>2. \A k \in Skus : HeldIn(orders', k) = HeldIn(orders, k)
  BY <1>1 DEF HeldIn, HoldsStock, OrderStatuses
<1>3. StockConserved'
  BY <1>2, ConservedIsCommitted, ConservedIsCommittedNext DEF OrdersInv
<1>4. FulfilledAsChosen'
  BY <1>1 DEF OrdersInv, FulfilledAsChosen
<1>5. PoolInv'
  BY DEF OrdersInv, PoolInv, ReservedWithinOnHand
<1> QED
  BY <1>1, <1>3, <1>4, <1>5 DEF OrdersInv, OrdersTypeOK

\* Staff fulfil an order by the path of its own delivery method.
LEMMA FulfilmentInv ==
    ASSUME OrdersInv, NEW o \in OrderIds, Fulfilment(o)
    PROVE  OrdersInv'
<1>1. CASE ShipOrder(o)
  BY <1>1, HolderMovesInv DEF ShipOrder, OrderStatuses
<1>2. CASE MarkOrderReadyForPickup(o)
  BY <1>2, HolderMovesInv DEF MarkOrderReadyForPickup, OrderStatuses
<1>3. CASE ConfirmOrderPickup(o)
  <2>1. orders[o].status = "ready_for_pickup"
    BY <1>3 DEF ConfirmOrderPickup, CanTransition, Exists, AllowedTransitions, OrdersInv,
                OrdersTypeOK, OrderRecords, OrderStatuses, NoOrder
  <2>2. orders[o].pickup
    BY <2>1 DEF OrdersInv, FulfilledAsChosen
  <2> QED
    BY <1>3, <2>2, HolderMovesInv DEF ConfirmOrderPickup, OrderStatuses
<1> QED
  BY <1>1, <1>2, <1>3 DEF Fulfilment

\* Staff operations on the stock move no committed unit.
LEMMA StockOperationInv ==
    ASSUME OrdersInv, StockOperation
    PROVE  OrdersInv'
<1>1. PoolInv'
  BY RecountSound, SetPolicySound DEF StockOperation, OrdersInv
<1>2. ASSUME NEW k \in Skus PROVE Committed(stock'[k]) = Committed(stock[k])
  BY DEF StockOperation, Recount, SetPolicy, OrdersInv, PoolInv, Pools, Committed
<1>3. StockConserved' /\ OrdersTypeOK' /\ FulfilledAsChosen'
  BY <1>2, ConservedIsCommitted, ConservedIsCommittedNext
     DEF StockOperation, OrdersInv, OrdersTypeOK, FulfilledAsChosen
<1> QED
  BY <1>1, <1>3 DEF OrdersInv
-----------------------------------------------------------------------------
\* The invariant holds initially: no order exists and no unit is committed.
LEMMA OrdersInvInit == OrdersInit => OrdersInv
<1> SUFFICES ASSUME OrdersInit PROVE OrdersInv
  OBVIOUS
<1>1. PoolInv /\ OrdersTypeOK /\ FulfilledAsChosen
  BY PoolInitSound DEF OrdersInit, OrdersTypeOK, FulfilledAsChosen, NoOrder
<1>2. ASSUME NEW k \in Skus PROVE Committed(stock[k]) = 0 /\ Total(HeldIn(orders, k)) = 0
  <2>1. Committed(stock[k]) = 0
    BY DEF OrdersInit, PoolInit, EmptyPool, Committed
  <2>2. DOMAIN HeldIn(orders, k) = OrderIds /\ \A o \in OrderIds : HeldIn(orders, k)[o] = 0
    BY DEF OrdersInit, NoOrder, HeldIn
  <2> QED
    BY <2>1, <2>2, TotalZero
<1> QED
  BY <1>1, <1>2, ConservedIsCommitted DEF OrdersInv

\* Every step of the orders and of the stock keeps the invariant.
LEMMA OrdersInvStep ==
    ASSUME OrdersInv, [OrdersNext]_<<stock, orders>>
    PROVE  OrdersInv'
<1>1. CASE UNCHANGED <<stock, orders>>
  BY <1>1, ConservedIsCommitted, ConservedIsCommittedNext
     DEF OrdersInv, PoolInv, ReservedWithinOnHand, OrdersTypeOK, FulfilledAsChosen
<1>2. ASSUME NEW o \in OrderIds, PlaceAnyOrder(o) \/ EnterManualOrder(o) PROVE OrdersInv'
  BY <1>2, OpenOrderInv DEF PlaceAnyOrder, EnterManualOrder, CreateManualOrder
<1>3. ASSUME NEW o \in OrderIds, CancelOrder(o) PROVE OrdersInv'
  BY <1>3, CancelOrderInv DEF CancelOrder
<1>4. ASSUME NEW o \in OrderIds, MarkPaid(o) PROVE OrdersInv'
  BY <1>4, HolderMovesInv DEF MarkPaid, OrderStatuses
<1> QED
  BY <1>1, <1>2, <1>3, <1>4, FulfilmentInv, StockOperationInv DEF OrdersNext

\* The invariant holds in every reachable state.
LEMMA OrdersInvHolds == OrdersSpec => []OrdersInv
<1>1. OrdersInv /\ [OrdersNext]_<<stock, orders>> => OrdersInv'
  BY OrdersInvStep
<1> QED
  BY <1>1, OrdersInvInit, PTL DEF OrdersSpec

\* Stock conservation, for any number of variants and orders: what is reserved or promised
\* is what the orders that were not cancelled bought, and no pool is oversold.
THEOREM StockIsConserved == OrdersSpec => [](StockConserved /\ ReservedWithinOnHand)
<1>1. OrdersInv => StockConserved /\ ReservedWithinOnHand
  BY DEF OrdersInv, PoolInv
<1> QED
  BY <1>1, OrdersInvHolds, PTL

\* Every order number has a well-formed order or none, whatever its operations write.
THEOREM OrdersAlwaysTyped == OrdersSpec => []OrdersTypeOK
<1>1. OrdersInv => OrdersTypeOK
  BY DEF OrdersInv
<1> QED
  BY <1>1, OrdersInvHolds, PTL

\* Every order is fulfilled by the path of its own delivery method.
THEOREM OrdersFulfilledAsChosen == OrdersSpec => []FulfilledAsChosen
<1>1. OrdersInv => FulfilledAsChosen
  BY DEF OrdersInv
<1> QED
  BY <1>1, OrdersInvHolds, PTL

\* A pending order holds its lines' units, so the pools have them to give back.
LEMMA CancellableFromInv ==
    ASSUME OrdersInv
    PROVE  PendingCancellable
<1> SUFFICES ASSUME NEW o \in OrderIds, orders[o].status = "pending",
                    NEW k \in Skus, orders[o].lines[k] > 0
             PROVE  CanRelease(stock[k], orders[o].lines[k])
  BY DEF PendingCancellable
<1>1. /\ HeldIn(orders, k) \in [OrderIds -> 0..MaxLine]
      /\ HeldIn(orders, k)[o] = orders[o].lines[k]
  BY HeldType DEF OrdersInv, OrdersTypeOK, HeldIn
<1>2. HeldIn(orders, k)[o] <= Total(HeldIn(orders, k))
  BY <1>1, RowWithinTotal, OrdersAssumption, PoolAssumption
<1>3. orders[o].lines[k] <= Committed(stock[k])
  BY <1>1, <1>2, ConservedIsCommitted DEF OrdersInv
<1>4. stock[k].reserved \in Nat /\ stock[k].backordered \in Nat
  BY PoolAssumption DEF OrdersInv, PoolInv, Pools
<1>5. orders[o].lines[k] \in Nat
  BY <1>1, PoolAssumption
<1> QED
  BY <1>3, <1>4, <1>5 DEF CanRelease, FromBackorder, Smaller, Committed

\* A pending order can always be cancelled: none of its lines can exceed what is reserved
\* and promised together, so plan_release never refuses.
THEOREM PendingOrdersCancellable == OrdersSpec => []PendingCancellable
<1>1. OrdersInv => PendingCancellable
  BY CancellableFromInv
<1> QED
  BY <1>1, OrdersInvHolds, PTL

\* The step formula of OrderIsSnapshot.
SnapshotStep ==
    \A o \in OrderIds : Exists(o) =>
        /\ Exists(o)'
        /\ orders'[o] = [orders[o] EXCEPT !.status = orders'[o].status]
        /\ orders[o].status \in {"fulfilled", "picked_up", "cancelled"} => orders'[o] = orders[o]

\* An order left alone is its own snapshot.
LEMMA Unwritten ==
    ASSUME OrdersTypeOK, NEW o \in OrderIds, Exists(o)
    PROVE  orders[o] = [orders[o] EXCEPT !.status = orders[o].status]
BY DEF OrdersTypeOK, Exists, NoOrder, OrderRecords

\* A step that writes a status the state machine allows changes nothing else, and leaves
\* the orders in a terminal status alone.
LEMMA WrittenKeepsSnapshot ==
    ASSUME OrdersTypeOK, NEW o \in OrderIds, NEW target \in OrderStatuses,
           CanTransition(o, target), SetStatus(o, target)
    PROVE  SnapshotStep
<1>1. /\ orders'[o] = [orders[o] EXCEPT !.status = target] /\ orders'[o].status = target
      /\ \A x \in OrderIds : x # o => orders'[x] = orders[x]
  BY StatusWritten
<1>2. orders[o].status \notin {"fulfilled", "picked_up", "cancelled"}
  BY DEF CanTransition, AllowedTransitions
<1> SUFFICES ASSUME NEW x \in OrderIds, Exists(x)
             PROVE  /\ Exists(x)'
                    /\ orders'[x] = [orders[x] EXCEPT !.status = orders'[x].status]
                    /\ orders[x].status \in {"fulfilled", "picked_up", "cancelled"}
                          => orders'[x] = orders[x]
  BY DEF SnapshotStep
<1>3. CASE x = o
  BY <1>1, <1>2, <1>3 DEF Exists, OrderStatuses
<1>4. CASE x # o
  BY <1>1, <1>4, Unwritten DEF Exists
<1> QED
  BY <1>3, <1>4

\* Every step of the orders and of the stock keeps the snapshots.
LEMMA OrdersStepSnapshot ==
    ASSUME OrdersTypeOK, [OrdersNext]_<<stock, orders>>
    PROVE  SnapshotStep
<1>1. ASSUME NEW o \in OrderIds, PlaceAnyOrder(o) \/ EnterManualOrder(o) PROVE SnapshotStep
  <2>1. PICK r : orders' = [orders EXCEPT ![o] = r]
    BY <1>1 DEF PlaceAnyOrder, EnterManualOrder, CreateManualOrder, OpenOrder
  <2>2. ~Exists(o)
    BY <1>1 DEF PlaceAnyOrder, EnterManualOrder, CreateManualOrder, OpenOrder
  <2>3. \A x \in OrderIds : Exists(x) => orders'[x] = orders[x]
    BY <2>1, <2>2 DEF OrdersTypeOK
  <2> QED
    BY <2>3, Unwritten DEF SnapshotStep, Exists
<1>2. ASSUME NEW o \in OrderIds, CancelOrder(o) \/ Fulfilment(o) \/ MarkPaid(o)
      PROVE  SnapshotStep
  <2>1. PICK target \in OrderStatuses : CanTransition(o, target) /\ SetStatus(o, target)
    BY <1>2 DEF CancelOrder, CancelMyOrder, Fulfilment, ShipOrder, MarkOrderReadyForPickup,
                ConfirmOrderPickup, MarkPaid, OrderStatuses
  <2> QED
    BY <2>1, WrittenKeepsSnapshot
<1>3. CASE StockOperation \/ UNCHANGED <<stock, orders>>
  BY <1>3, Unwritten DEF StockOperation, SnapshotStep, Exists
<1> QED
  BY <1>1, <1>2, <1>3 DEF OrdersNext

\* What the buyer agreed to never changes, whatever happens to the order afterwards.
THEOREM OrdersAreSnapshots == OrdersSpec => OrderIsSnapshot
<1>1. OrdersInv /\ [OrdersNext]_<<stock, orders>> => [SnapshotStep]_<<stock, orders>>
  BY OrdersStepSnapshot DEF OrdersInv
<1>2. [][SnapshotStep]_<<stock, orders>> => OrderIsSnapshot
  BY PTL DEF OrderIsSnapshot, SnapshotStep
<1> QED
  BY <1>1, <1>2, OrdersInvHolds, PTL DEF OrdersSpec
=============================================================================
