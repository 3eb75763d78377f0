------------------------------ MODULE StockPool ------------------------------
(***************************************************************************)
(* What the inventory context promises its callers: each variant (sku) has *)
(* one pool of stock.  A reservation takes physical units as far as they   *)
(* go and, only for a backorderable variant, promises the rest as          *)
(* backordered units; a release gives backordered units back first.  Where *)
(* the units lie (the sources) is the business of module Inventory, which  *)
(* implements this one; the order context, through its Inventory port,     *)
(* sees only the pool.                                                     *)
(***************************************************************************)
EXTENDS Totals

CONSTANTS Skus,         \* variants that are sold
          MaxQuantity,  \* the greatest value of a stock column (2^31 - 1 in PostgreSQL)
          MaxLine       \* bound of the exploration: units moved by one call

ASSUME PoolAssumption == /\ MaxQuantity \in Nat
                         /\ MaxLine \in Nat

VARIABLE stock   \* sku -> the pool of its stock

Pools == [onHand : 0..MaxQuantity, reserved : 0..MaxQuantity,
          backordered : 0..MaxQuantity, backorderable : BOOLEAN]

StockTypeOK == stock \in [Skus -> Pools]

\* No level row and no policy row: the state of a variant nobody stocked yet.
EmptyPool == [onHand |-> 0, reserved |-> 0, backordered |-> 0, backorderable |-> FALSE]

PoolInit == stock = [k \in Skus |-> EmptyPool]
-----------------------------------------------------------------------------
AvailableToPromise(p) == p.onHand - p.reserved

\* The part of q units that physical stock covers; the rest is the overflow.
Physical(p, q) == Smaller(q, AvailableToPromise(p))

\* A shortfall is refused unless the variant is backorderable, and the overflow must
\* still fit the backordered column (the update fails otherwise).
CanReserve(p, q) ==
    /\ q > 0
    /\ p.backorderable \/ q <= AvailableToPromise(p)
    /\ p.backordered + q - Physical(p, q) <= MaxQuantity

Reserved(p, q) ==
    [p EXCEPT !.reserved    = @ + Physical(p, q),
              !.backordered = @ + q - Physical(p, q)]

\* The units of a release that free a backorder promise; the rest are physical.
FromBackorder(p, q) == Smaller(q, p.backordered)

CanRelease(p, q) == q > 0 /\ q - FromBackorder(p, q) <= p.reserved

Released(p, q) ==
    [p EXCEPT !.reserved    = @ - (q - FromBackorder(p, q)),
              !.backordered = @ - FromBackorder(p, q)]
-----------------------------------------------------------------------------
Reserve(k, q) ==
    /\ CanReserve(stock[k], q)
    /\ stock' = [stock EXCEPT ![k] = Reserved(@, q)]

Release(k, q) ==
    /\ CanRelease(stock[k], q)
    /\ stock' = [stock EXCEPT ![k] = Released(@, q)]

\* Staff recount: the physical count may change but never below what is reserved.
Recount(k, n) ==
    /\ n >= stock[k].reserved
    /\ stock' = [stock EXCEPT ![k].onHand = n]

\* Mutant of SetPolicy: the policy row is replaced as a whole.
SetPolicyAfresh(k, b) ==
    stock' = [stock EXCEPT ![k].backorderable = b, ![k].backordered = 0]

\* Staff open or close the variant to backorders; movement state is left alone.
SetPolicy(k, b) == stock' = [stock EXCEPT ![k].backorderable = b]

PoolNext ==
    \E k \in Skus :
        \/ \E q \in 1..MaxLine : Reserve(k, q) \/ Release(k, q)
        \/ \E n \in 0..MaxQuantity : Recount(k, n)
        \/ \E b \in BOOLEAN : SetPolicy(k, b)

PoolSpec == PoolInit /\ [][PoolNext]_stock
-----------------------------------------------------------------------------
\* Overselling guard: the units reserved against physical stock never exceed it
\* (ck_stock_level_reserved_le_on_hand, the refusals of reserve and set_on_hand).
ReservedWithinOnHand == \A k \in Skus : stock[k].reserved <= stock[k].onHand
=============================================================================
