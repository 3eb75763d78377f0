------------------------------- MODULE Orders -------------------------------
(***************************************************************************)
(* The order context on top of the stock pools: opening an order captures  *)
(* its lines and reserves their stock in one transaction, cancelling gives *)
(* the stock back, staff fulfil paid orders.  Each operation locks the     *)
(* order row (and the stock rows it moves) for its whole transaction, so   *)
(* it is one action.  Prices, shipping and tax are captured as one total.  *)
(***************************************************************************)
EXTENDS StockPool

CONSTANTS OrderIds,   \* order numbers that may be generated
          Owners,     \* who may own an order: users, guests, staff
          Amounts     \* order totals that pricing, shipping and tax may give

ASSUME OrdersAssumption == IsFiniteSet(OrderIds) /\ Amounts \subseteq Nat

VARIABLE orders   \* order number -> the order

OrderStatuses ==
    {"pending", "paid", "fulfilled", "ready_for_pickup", "picked_up", "cancelled"}

\* The state machine of an order (_ALLOWED_TRANSITIONS).
AllowedTransitions ==
    [pending          |-> {"paid", "cancelled"},
     paid             |-> {"fulfilled", "ready_for_pickup", "cancelled"},
     ready_for_pickup |-> {"picked_up", "cancelled"},
     fulfilled        |-> {},
     picked_up        |-> {},
     cancelled        |-> {}]

\* Lines: units of each sku, 0 when the order (or cart) has no line for it.
Lines   == [Skus -> 0..MaxLine]
NoLines == [k \in Skus |-> 0]

NoOrder == [status |-> "none"]

OrderRecords == [status : OrderStatuses, owner : Owners, lines : Lines,
                 pickup : BOOLEAN, total : Amounts]

OrdersTypeOK == orders \in [OrderIds -> OrderRecords \cup {NoOrder}]

OrdersInit == PoolInit /\ orders = [o \in OrderIds |-> NoOrder]

Exists(o) == orders[o].status # "none"
-----------------------------------------------------------------------------
CanTransition(o, target) ==
    Exists(o) /\ target \in AllowedTransitions[orders[o].status]

SetStatus(o, target) == orders' = [orders EXCEPT ![o].status = target]

\* Every line is reserved in one transaction: one refused line refuses them all.
Deduct(lines) ==
    /\ \A k \in Skus : lines[k] > 0 => CanReserve(stock[k], lines[k])
    /\ stock' = [k \in Skus |->
                    IF lines[k] > 0 THEN Reserved(stock[k], lines[k]) ELSE stock[k]]

Restock(lines) ==
    /\ \A k \in Skus : lines[k] > 0 => CanRelease(stock[k], lines[k])
    /\ stock' = [k \in Skus |->
                    IF lines[k] > 0 THEN Released(stock[k], lines[k]) ELSE stock[k]]

\* The order is persisted pending, under a number not used before, with its stock
\* reserved; an order without lines is refused.
OpenOrder(o, owner, lines, pickup, total) ==
    /\ ~Exists(o)
    /\ lines # NoLines
    /\ Deduct(lines)
    /\ orders' = [orders EXCEPT ![o] = [status |-> "pending", owner |-> owner,
                                        lines |-> lines, pickup |-> pickup,
                                        total |-> total]]

\* Staff enter an order without a cart; it has no shipping method, hence no pickup.
CreateManualOrder(o, actor, lines, total) == OpenOrder(o, actor, lines, FALSE, total)

\* The shopper cancels their own order, only while it is pending.
CancelMyOrder(o, owner) ==
    /\ Exists(o) /\ orders[o].owner = owner
    /\ orders[o].status = "pending"
    /\ CanTransition(o, "cancelled")
    /\ Restock(orders[o].lines)
    /\ SetStatus(o, "cancelled")

\* Mutant of ShipOrder: the delivery method is not looked at.
ShipAnyOrder(o) == CanTransition(o, "fulfilled") /\ SetStatus(o, "fulfilled") /\ UNCHANGED stock

ShipOrder(o) ==
    /\ CanTransition(o, "fulfilled")
    /\ ~orders[o].pickup
    /\ SetStatus(o, "fulfilled")
    /\ UNCHANGED stock

MarkOrderReadyForPickup(o) ==
    /\ CanTransition(o, "ready_for_pickup")
    /\ orders[o].pickup
    /\ SetStatus(o, "ready_for_pickup")
    /\ UNCHANGED stock

\* Mutant of ConfirmOrderPickup: a status the state machine does not know.
ConfirmOrderHandover(o) ==
    CanTransition(o, "picked_up") /\ SetStatus(o, "handed_over") /\ UNCHANGED stock

ConfirmOrderPickup(o) ==
    /\ CanTransition(o, "picked_up")
    /\ SetStatus(o, "picked_up")
    /\ UNCHANGED stock

\* Mutant of MarkPaid: the status is written past the state machine.
MarkPaidUnchecked(o) == Exists(o) /\ SetStatus(o, "paid") /\ UNCHANGED stock

\* The payment context settles an order through its PaidOrders port.
MarkPaid(o) ==
    /\ CanTransition(o, "paid")
    /\ SetStatus(o, "paid")
    /\ UNCHANGED stock

\* Staff change the physical count or the policy of a variant.
StockOperation ==
    /\ \E k \in Skus :
           \/ \E n \in 0..MaxQuantity : Recount(k, n)
           \/ \E b \in BOOLEAN : SetPolicy(k, b)
    /\ UNCHANGED orders

Fulfilment(o) == ShipOrder(o) \/ MarkOrderReadyForPickup(o) \/ ConfirmOrderPickup(o)

\* Any cart may arrive at the checkout, with any delivery method.
PlaceAnyOrder(o) ==
    \E w \in Owners, l \in Lines, p \in BOOLEAN, t \in Amounts : OpenOrder(o, w, l, p, t)

EnterManualOrder(o) ==
    \E w \in Owners, l \in Lines, t \in Amounts : CreateManualOrder(o, w, l, t)

CancelOrder(o) == \E w \in Owners : CancelMyOrder(o, w)

OrdersNext ==
    \/ \E o \in OrderIds :
           \/ PlaceAnyOrder(o) \/ EnterManualOrder(o)
           \/ CancelOrder(o) \/ Fulfilment(o) \/ MarkPaid(o)
    \/ StockOperation

OrdersSpec == OrdersInit /\ [][OrdersNext]_<<stock, orders>>
-----------------------------------------------------------------------------
\* The statuses in which an order still holds the stock its lines reserved.
HoldsStock(o) == orders[o].status \notin {"none", "cancelled"}

\* The units of sku k that each order holds.
HeldUnits(k) == [o \in OrderIds |-> IF HoldsStock(o) THEN orders[o].lines[k] ELSE 0]

\* Stock conservation: the units of a variant reserved or backordered are exactly the
\* units of the orders that were not cancelled.  No reservation leaks when a line is
\* refused half way, when an order is cancelled, or when staff recount or change the
\* policy in between.
StockConserved ==
    \A k \in Skus : stock[k].reserved + stock[k].backordered = Total(HeldUnits(k))

\* A pending order can always be cancelled: its stock is there to be given back, however
\* its units were split between physical stock and backorder (release never refuses).
PendingCancellable ==
    \A o \in OrderIds : orders[o].status = "pending" =>
        \A k \in Skus : orders[o].lines[k] > 0 => CanRelease(stock[k], orders[o].lines[k])

\* Delivery and pickup never mix: an order is fulfilled by the path of its own method.
FulfilledAsChosen ==
    \A o \in OrderIds :
        /\ orders[o].status = "fulfilled" => ~orders[o].pickup
        /\ orders[o].status \in {"ready_for_pickup", "picked_up"} => orders[o].pickup

\* What the buyer agreed to is a snapshot: no later step changes an order's owner, lines,
\* delivery or total, removes it, or takes it out of a terminal status.
OrderIsSnapshot ==
    [][\A o \in OrderIds : Exists(o) =>
          /\ Exists(o)'
          /\ orders'[o] = [orders[o] EXCEPT !.status = orders'[o].status]
          /\ orders[o].status \in {"fulfilled", "picked_up", "cancelled"}
                => orders'[o] = orders[o]]_<<stock, orders>>
=============================================================================
