------------------------------ MODULE Checkout ------------------------------
(***************************************************************************)
(* Carts and checkout, by concurrent requests.  A cart mutation (add, set, *)
(* remove) locks the cart row, reads its lines and replaces them.  Checkout*)
(* reads the lines WITHOUT that lock, reserves and opens the order, then   *)
(* deletes the lines it sees, all in one transaction at READ COMMITTED; so *)
(* cart and checkout steps of different requests interleave.               *)
(*                                                                         *)
(* A transaction's reads of unlocked rows are separate actions; its locked *)
(* reads and its writes are one action, at its commit.                     *)
(***************************************************************************)
EXTENDS Orders

CONSTANTS Shoppers,     \* owners that have a cart (one channel)
          Requests,     \* requests that may be in flight together
          MaxCartLine   \* greatest quantity of a cart line (1_000_000)

ASSUME CheckoutAssumption == Shoppers \subseteq Owners /\ MaxCartLine \in Nat
                             /\ MaxCartLine <= MaxLine

VARIABLES carts,      \* shopper -> lines of the cart
          requests    \* request -> what it is doing

vars == <<stock, orders, carts, requests>>

Idle == [phase |-> "idle"]

\* mutating: holds the cart row's lock and has read the lines.
\* ordering: has read the lines, without a lock.
\* clearing: its DELETE has taken its snapshot; "visible" says whether the rows it
\*           saw are still the rows of the cart.
RequestRecords ==
    [phase : {"mutating", "ordering"}, owner : Shoppers, lines : Lines]
      \cup [phase : {"clearing"}, owner : Shoppers, lines : Lines, visible : BOOLEAN]
      \cup {Idle}

TypeOK ==
    /\ StockTypeOK
    /\ OrdersTypeOK
    /\ carts \in [Shoppers -> Lines]
    /\ requests \in [Requests -> RequestRecords]

Init ==
    /\ OrdersInit
    /\ carts = [w \in Shoppers |-> NoLines]
    /\ requests = [r \in Requests |-> Idle]
-----------------------------------------------------------------------------
Locked(w) == \E r \in Requests : requests[r].phase = "mutating" /\ requests[r].owner = w

\* Mutant of LockCart: the lines are read without the row's lock.
ReadCartLines(r, w) ==
    /\ requests[r] = Idle
    /\ requests' = [requests EXCEPT ![r] =
                        [phase |-> "mutating", owner |-> w, lines |-> carts[w]]]
    /\ UNCHANGED <<stock, orders, carts>>

\* A cart mutation begins: lock (or create) the cart row, then read its lines.
LockCart(r, w) ==
    /\ requests[r] = Idle
    /\ ~Locked(w)
    /\ requests' = [requests EXCEPT ![r] =
                        [phase |-> "mutating", owner |-> w, lines |-> carts[w]]]
    /\ UNCHANGED <<stock, orders, carts>>

\* The old rows are deleted and the new ones inserted: a checkout whose DELETE already
\* took its snapshot does not see the new rows.
ReplaceLines(r, lines) ==
    LET w == requests[r].owner IN
    /\ requests[r].phase = "mutating"
    /\ carts' = [carts EXCEPT ![w] = lines]
    /\ requests' = [x \in Requests |->
            IF x = r THEN Idle
            ELSE IF requests[x].phase = "clearing" /\ requests[x].owner = w
                 THEN [requests[x] EXCEPT !.visible = FALSE]
                 ELSE requests[x]]
    /\ UNCHANGED <<stock, orders>>

\* The sum is validated again: past the maximum the mutation is refused.
AddCartItem(r, k, q) ==
    /\ requests[r].phase = "mutating"
    /\ requests[r].lines[k] + q <= MaxCartLine
    /\ ReplaceLines(r, [requests[r].lines EXCEPT ![k] = @ + q])

UpdateCartItem(r, k, q) ==
    /\ requests[r].phase = "mutating"
    /\ requests[r].lines[k] > 0
    /\ ReplaceLines(r, [requests[r].lines EXCEPT ![k] = q])

RemoveCartItem(r, k) ==
    /\ requests[r].phase = "mutating"
    /\ requests[r].lines[k] > 0
    /\ ReplaceLines(r, [requests[r].lines EXCEPT ![k] = 0])
-----------------------------------------------------------------------------
\* Checkout reads the cart; an empty cart is refused.
ReadCart(r, w) ==
    /\ requests[r] = Idle
    /\ carts[w] # NoLines
    /\ requests' = [requests EXCEPT ![r] =
                        [phase |-> "ordering", owner |-> w, lines |-> carts[w]]]
    /\ UNCHANGED <<stock, orders, carts>>

\* Its DELETE of the cart's lines starts: the snapshot decides which rows it deletes.
SnapshotCart(r) ==
    /\ requests[r].phase = "ordering"
    /\ requests' = [requests EXCEPT ![r] =
                        [phase |-> "clearing", owner |-> requests[r].owner,
                         lines |-> requests[r].lines, visible |-> TRUE]]
    /\ UNCHANGED <<stock, orders, carts>>

\* Mutant of PlaceOrder: the order captures the cart read again after the deduction.
PlaceOrderRereading(r, o, pickup, total) ==
    LET w == requests[r].owner IN
    /\ requests[r].phase = "clearing" /\ ~Exists(o)
    /\ Deduct(requests[r].lines)
    /\ orders' = [orders EXCEPT ![o] = [status |-> "pending", owner |-> w, lines |-> carts[w],
                                        pickup |-> pickup, total |-> total]]
    /\ carts' = [carts EXCEPT ![w] = NoLines]
    /\ requests' = [requests EXCEPT ![r] = Idle]

\* The transaction commits: stock reserved, order opened, the rows it saw deleted.
PlaceOrder(r, o, pickup, total) ==
    LET w == requests[r].owner IN
    /\ requests[r].phase = "clearing"
    /\ OpenOrder(o, w, requests[r].lines, pickup, total)
    /\ carts' = IF requests[r].visible THEN [carts EXCEPT ![w] = NoLines] ELSE carts
    /\ requests' = [requests EXCEPT ![r] = Idle]

\* A refusal (no stock, price, address or method), a crash or a lost connection rolls
\* the transaction back: its locks are gone and it has written nothing.
Rollback(r) ==
    /\ requests[r] # Idle
    /\ requests' = [requests EXCEPT ![r] = Idle]
    /\ UNCHANGED <<stock, orders, carts>>

CartItemsView(r) == \E k \in Skus, q \in 1..MaxCartLine : AddCartItem(r, k, q)

CartItemDetailView(r) ==
    \E k \in Skus :
        \/ \E q \in 1..MaxCartLine : UpdateCartItem(r, k, q)
        \/ RemoveCartItem(r, k)

RequestStep(r) ==
    \/ \E w \in Shoppers : LockCart(r, w) \/ ReadCart(r, w)
    \/ CartItemsView(r) \/ CartItemDetailView(r)
    \/ SnapshotCart(r)
    \/ \E o \in OrderIds, p \in BOOLEAN, t \in Amounts : PlaceOrder(r, o, p, t)
    \/ Rollback(r)

OrderStep ==
    /\ \/ \E o \in OrderIds :
              CancelOrder(o) \/ EnterManualOrder(o) \/ Fulfilment(o) \/ MarkPaid(o)
       \/ StockOperation
    /\ UNCHANGED <<carts, requests>>

Next == OrderStep \/ \E r \in Requests : RequestStep(r)

Spec == Init /\ [][Next]_vars
-----------------------------------------------------------------------------
\* Cart mutations of concurrent requests never lose one another: a write changes one
\* line of the cart as it is now -- or the cart was emptied by a checkout since the
\* mutation read it (the lock taken by apply; "cannot both read the same starting state").
CartWritesSerial ==
    [][\A w \in Shoppers :
          carts[w] # NoLines /\ carts'[w] # NoLines =>
              \E k \in Skus : \A j \in Skus \ {k} : carts'[w][j] = carts[w][j]]_vars

\* Converting a cart into an order is atomic: a checkout that empties the cart orders
\* exactly the lines it removes (PlaceOrder: "Convert the owner's cart in a channel into
\* a placed order, atomically").
CartConvertedAtomically ==
    [][\A w \in Shoppers, o \in OrderIds :
          ~Exists(o) /\ Exists(o)' /\ orders'[o].owner = w /\ carts'[w] # carts[w]
              => orders'[o].lines = carts[w]]_vars
=============================================================================
