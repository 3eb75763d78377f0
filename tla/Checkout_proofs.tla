--------------------------- MODULE Checkout_proofs ---------------------------
(***************************************************************************)
(* The checkout of concurrent requests is a refinement of the order        *)
(* context: whatever reads and carts interleave, what happens to stock and *)
(* orders is what OrdersSpec allows.  So everything proved of OrdersSpec   *)
(* holds of the checkout.                                                  *)
(*                                                                         *)
(* The invariant says only that carts and requests carry well-formed lines,*)
(* which is what makes a committing checkout one of the orders that        *)
(* OrdersSpec may open.                                                    *)
(***************************************************************************)
EXTENDS Checkout, Orders_proofs

CheckoutInv ==
    /\ carts \in [Shoppers -> Lines]
    /\ requests \in [Requests -> RequestRecords]

\* A request in a phase that has read a cart carries its owner and well-formed lines.
LEMMA RequestLines ==
    ASSUME CheckoutInv, NEW r \in Requests,
           requests[r].phase \in {"mutating", "ordering", "clearing"}
    PROVE  requests[r].owner \in Shoppers /\ requests[r].lines \in Lines
BY DEF CheckoutInv, RequestRecords, Idle

\* A line within the cart's maximum keeps the lines well formed.
LEMMA LineSet ==
    ASSUME NEW lines \in Lines, NEW k \in Skus, NEW q \in 0..MaxCartLine
    PROVE  [lines EXCEPT ![k] = q] \in Lines
BY CheckoutAssumption, PoolAssumption DEF Lines

\* Replacing the lines of a cart by well-formed ones keeps the invariant.
LEMMA ReplaceLinesInv ==
    ASSUME CheckoutInv, NEW r \in Requests, NEW lines \in Lines, ReplaceLines(r, lines)
    PROVE  CheckoutInv'
<1>1. requests[r].owner \in Shoppers
  BY RequestLines DEF ReplaceLines
<1>2. carts' \in [Shoppers -> Lines]
  BY <1>1 DEF ReplaceLines, CheckoutInv
<1>3. ASSUME NEW x \in Requests, requests[x].phase = "clearing"
      PROVE  [requests[x] EXCEPT !.visible = FALSE] \in RequestRecords
  <2>1. requests[x] \in [phase : {"clearing"}, owner : Shoppers, lines : Lines, visible : BOOLEAN]
    BY <1>3 DEF CheckoutInv, RequestRecords, Idle
  <2> QED
    BY <2>1 DEF RequestRecords
<1>4. Idle \in RequestRecords
  BY DEF RequestRecords
<1>5. requests' \in [Requests -> RequestRecords]
  BY <1>3, <1>4 DEF ReplaceLines, CheckoutInv
<1> QED
  BY <1>2, <1>5 DEF CheckoutInv

\* A mutation that commits keeps the invariant.
LEMMA MutationInv ==
    ASSUME CheckoutInv, NEW r \in Requests, NEW k \in Skus,
           \/ \E q \in 1..MaxCartLine : AddCartItem(r, k, q) \/ UpdateCartItem(r, k, q)
           \/ RemoveCartItem(r, k)
    PROVE  CheckoutInv' /\ UNCHANGED <<stock, orders>>
<1>1. requests[r].phase = "mutating" /\ requests[r].lines \in Lines
  BY RequestLines DEF AddCartItem, UpdateCartItem, RemoveCartItem
<1>2. requests[r].lines[k] \in Nat
  BY <1>1, LineUnits
<1>3. PICK q \in 0..MaxCartLine : ReplaceLines(r, [requests[r].lines EXCEPT ![k] = q])
  <2>1. ASSUME NEW q \in 1..MaxCartLine, AddCartItem(r, k, q)
        PROVE  \E n \in 0..MaxCartLine : ReplaceLines(r, [requests[r].lines EXCEPT ![k] = n])
    <3> DEFINE n == requests[r].lines[k] + q
    <3>1. n \in 0..MaxCartLine
      BY <1>2, <2>1, CheckoutAssumption DEF AddCartItem
    <3>2. ReplaceLines(r, [requests[r].lines EXCEPT ![k] = n])
      BY <2>1 DEF AddCartItem
    <3> QED
      BY <3>1, <3>2
  <2>2. ASSUME NEW q \in 1..MaxCartLine, UpdateCartItem(r, k, q)
        PROVE  \E n \in 0..MaxCartLine : ReplaceLines(r, [requests[r].lines EXCEPT ![k] = n])
    BY <2>2, CheckoutAssumption DEF UpdateCartItem
  <2>3. ASSUME RemoveCartItem(r, k)
        PROVE  \E n \in 0..MaxCartLine : ReplaceLines(r, [requests[r].lines EXCEPT ![k] = n])
    BY <2>3, CheckoutAssumption DEF RemoveCartItem
  <2> QED
    BY <2>1, <2>2, <2>3
<1>4. [requests[r].lines EXCEPT ![k] = q] \in Lines
  BY <1>1, LineSet
<1> QED
  BY <1>3, <1>4, ReplaceLinesInv DEF ReplaceLines

\* A request that begins or gives up keeps the invariant.
LEMMA ReadInv ==
    ASSUME CheckoutInv, NEW r \in Requests,
           \/ \E w \in Shoppers : LockCart(r, w) \/ ReadCart(r, w)
           \/ SnapshotCart(r) \/ Rollback(r)
    PROVE  CheckoutInv' /\ UNCHANGED <<stock, orders>>
<1>1. ASSUME NEW w \in Shoppers, LockCart(r, w) \/ ReadCart(r, w) PROVE CheckoutInv'
  <2>1. carts[w] \in Lines
    BY DEF CheckoutInv
  <2>2. \A f \in {"mutating", "ordering"} :
            [phase |-> f, owner |-> w, lines |-> carts[w]] \in RequestRecords
    BY <2>1 DEF RequestRecords
  <2> QED
    BY <1>1, <2>2 DEF LockCart, ReadCart, CheckoutInv
<1>2. CASE SnapshotCart(r)
  <2>1. [phase |-> "clearing", owner |-> requests[r].owner, lines |-> requests[r].lines,
         visible |-> TRUE] \in RequestRecords
    BY <1>2, RequestLines DEF SnapshotCart, RequestRecords
  <2> QED
    BY <1>2, <2>1 DEF SnapshotCart, CheckoutInv
<1>3. CASE Rollback(r)
  BY <1>3 DEF Rollback, CheckoutInv, RequestRecords
<1> QED
  BY <1>1, <1>2, <1>3 DEF LockCart, ReadCart, SnapshotCart, Rollback

\* A checkout that commits opens one order of the order context.
LEMMA PlaceOrderStep ==
    ASSUME CheckoutInv, NEW r \in Requests, NEW o \in OrderIds, NEW pickup \in BOOLEAN,
           NEW total \in Amounts, PlaceOrder(r, o, pickup, total)
    PROVE  CheckoutInv' /\ PlaceAnyOrder(o)
<1>1. requests[r].owner \in Shoppers /\ requests[r].lines \in Lines
  BY RequestLines DEF PlaceOrder
<1>2. PlaceAnyOrder(o)
  BY <1>1, CheckoutAssumption DEF PlaceOrder, PlaceAnyOrder
<1>3. NoLines \in Lines
  BY PoolAssumption DEF NoLines, Lines
<1>4. carts' \in [Shoppers -> Lines]
  BY <1>3 DEF PlaceOrder, CheckoutInv
<1>5. requests' \in [Requests -> RequestRecords]
  BY DEF PlaceOrder, CheckoutInv, RequestRecords
<1> QED
  BY <1>2, <1>4, <1>5 DEF CheckoutInv

\* Every step keeps the invariant and is a step of the order context, or none.
LEMMA CheckoutStep ==
    ASSUME CheckoutInv, [Next]_vars
    PROVE  CheckoutInv' /\ [OrdersNext]_<<stock, orders>>
<1>1. CASE UNCHANGED vars
  BY <1>1 DEF vars, CheckoutInv
<1>2. CASE OrderStep
  BY <1>2 DEF OrderStep, CheckoutInv, OrdersNext
<1>3. ASSUME NEW r \in Requests, RequestStep(r)
      PROVE  CheckoutInv' /\ [OrdersNext]_<<stock, orders>>
  <2>1. ASSUME NEW o \in OrderIds, NEW p \in BOOLEAN, NEW t \in Amounts, PlaceOrder(r, o, p, t)
        PROVE  CheckoutInv' /\ OrdersNext
    BY <2>1, PlaceOrderStep DEF OrdersNext
  <2> QED
    BY <1>3, <2>1, MutationInv, ReadInv DEF RequestStep, CartItemsView, CartItemDetailView
<1> QED
  BY <1>1, <1>2, <1>3 DEF Next

\* The checkout implements the order context.
THEOREM CheckoutImplementsOrders == Spec => OrdersSpec
<1>1. Init => CheckoutInv /\ OrdersInit
  <2>1. NoLines \in Lines
    BY PoolAssumption DEF NoLines, Lines
  <2> QED
    BY <2>1 DEF Init, CheckoutInv, RequestRecords
<1>2. CheckoutInv /\ [Next]_vars => CheckoutInv' /\ [OrdersNext]_<<stock, orders>>
  BY CheckoutStep
<1> QED
  BY <1>1, <1>2, PTL DEF Spec, OrdersSpec

\* Concurrent checkouts, cart mutations, cancellations and stock operations leak no unit of
\* stock and oversell none.
THEOREM CheckoutConservesStock == Spec => [](StockConserved /\ ReservedWithinOnHand)
BY CheckoutImplementsOrders, StockIsConserved, PTL

-----------------------------------------------------------------------------
(* The checkout's own theorems. *)

\* The invariant of the checkout holds in every reachable state.
LEMMA CheckoutInvHolds == Spec => []CheckoutInv
<1>1. Init => CheckoutInv
  <2>1. NoLines \in Lines
    BY PoolAssumption DEF NoLines, Lines
  <2> QED
    BY <2>1 DEF Init, CheckoutInv, RequestRecords
<1>2. CheckoutInv /\ [Next]_vars => CheckoutInv'
  BY CheckoutStep
<1> QED
  BY <1>1, <1>2, PTL DEF Spec

\* Every pool, order, cart and request keeps its type, whatever concurrent checkouts and cart
\* mutations write out of stale reads.
THEOREM CheckoutTyped == Spec => []TypeOK
<1>1. OrdersInv /\ CheckoutInv => TypeOK
  BY DEF OrdersInv, PoolInv, CheckoutInv, TypeOK, StockTypeOK
<1> QED
  BY <1>1, CheckoutImplementsOrders, OrdersInvHolds, CheckoutInvHolds, PTL

\* What the cart row's lock is for: one mutation of a cart at a time, and it has read the
\* cart as it is, unless a checkout has emptied the cart since.
CartLock ==
    \A r \in Requests : requests[r].phase = "mutating" =>
        /\ carts[requests[r].owner] \in {requests[r].lines, NoLines}
        /\ \A x \in Requests :
               requests[x].phase = "mutating" /\ requests[x].owner = requests[r].owner => x = r

\* A step of one request that leaves every cart alone, or empties one, and lets no request
\* begin a mutation.
LEMMA CartLockKept ==
    ASSUME CartLock,
           \A w \in Shoppers : carts'[w] = carts[w] \/ carts'[w] = NoLines,
           \A x \in Requests : requests'[x].phase = "mutating" =>
               requests'[x] = requests[x] /\ requests[x].owner \in Shoppers
    PROVE  CartLock'
BY DEF CartLock

\* Only a mutation that holds the lock replaces the lines of a cart, and the lock serves
\* no other mutation of the cart.
LEMMA CartLockStep ==
    ASSUME CheckoutInv, CartLock, [Next]_vars
    PROVE  CartLock'
<1>0. \A x \in Requests : requests[x].phase = "mutating" => requests[x].owner \in Shoppers
  BY RequestLines
<1>1. CASE UNCHANGED vars
  BY <1>1 DEF vars, CartLock
<1>2. CASE OrderStep
  BY <1>2 DEF OrderStep, CartLock
<1>3. ASSUME NEW r \in Requests, NEW w \in Shoppers, LockCart(r, w) PROVE CartLock'
  <2>1. /\ \A x \in Requests : x # r => requests'[x] = requests[x]
        /\ requests'[r] = [phase |-> "mutating", owner |-> w, lines |-> carts[w]]
        /\ carts' = carts /\ ~Locked(w)
    BY <1>3 DEF LockCart, CheckoutInv
  <2> QED
    BY <2>1 DEF CartLock, Locked
<1>4. ASSUME NEW r \in Requests, NEW w \in Shoppers, ReadCart(r, w) PROVE CartLock'
  <2>1. /\ \A x \in Requests : x # r => requests'[x] = requests[x]
        /\ requests'[r].phase = "ordering" /\ carts' = carts
    BY <1>4 DEF ReadCart, CheckoutInv
  <2> QED
    BY <1>0, <2>1, CartLockKept
<1>5. ASSUME NEW r \in Requests, SnapshotCart(r) \/ Rollback(r) PROVE CartLock'
  <2>1. /\ \A x \in Requests : x # r => requests'[x] = requests[x]
        /\ requests'[r].phase # "mutating" /\ carts' = carts
    BY <1>5 DEF SnapshotCart, Rollback, CheckoutInv, Idle
  <2> QED
    BY <1>0, <2>1, CartLockKept
<1>6. ASSUME NEW r \in Requests, NEW o \in OrderIds, NEW p \in BOOLEAN, NEW t \in Amounts,
             PlaceOrder(r, o, p, t)
      PROVE  CartLock'
  <2>1. /\ \A x \in Requests : x # r => requests'[x] = requests[x]
        /\ requests'[r].phase # "mutating"
        /\ \A w \in Shoppers : carts'[w] = carts[w] \/ carts'[w] = NoLines
    BY <1>6 DEF PlaceOrder, CheckoutInv, Idle
  <2> QED
    BY <1>0, <2>1, CartLockKept
<1>7. ASSUME NEW r \in Requests, NEW lines, ReplaceLines(r, lines) PROVE CartLock'
  <2>1. /\ requests[r].phase = "mutating" /\ requests[r].owner \in Shoppers
        /\ requests'[r].phase # "mutating"
        /\ \A w \in Shoppers : w # requests[r].owner => carts'[w] = carts[w]
    BY <1>0, <1>7 DEF ReplaceLines, CheckoutInv, Idle
  <2>2. ASSUME NEW x \in Requests, x # r, requests'[x].phase = "mutating"
        PROVE  requests'[x] = requests[x]
    <3>1. CASE requests[x].phase = "clearing"
      <4>1. requests'[x].phase = "clearing"
        BY <1>7, <2>2, <3>1 DEF ReplaceLines, CheckoutInv, RequestRecords, Idle
      <4> QED
        BY <2>2, <4>1
    <3>2. CASE requests[x].phase # "clearing"
      BY <1>7, <2>2, <3>2 DEF ReplaceLines
    <3> QED
      BY <3>1, <3>2
  <2>3. ASSUME NEW x \in Requests, requests'[x].phase = "mutating"
        PROVE  /\ requests'[x] = requests[x] /\ requests[x].owner # requests[r].owner
               /\ carts'[requests[x].owner] = carts[requests[x].owner]
    BY <1>0, <2>1, <2>2, <2>3 DEF CartLock
  <2> QED
    BY <2>3 DEF CartLock
<1>8. ASSUME NEW r \in Requests, CartItemsView(r) \/ CartItemDetailView(r) PROVE CartLock'
  BY <1>7, <1>8 DEF CartItemsView, CartItemDetailView, AddCartItem, UpdateCartItem, RemoveCartItem
<1> QED
  BY <1>1, <1>2, <1>3, <1>4, <1>5, <1>6, <1>8 DEF Next, RequestStep

\* One step changes at most one line of a cart that it neither finds nor leaves empty.
OneLine(w) ==
    carts[w] # NoLines /\ carts'[w] # NoLines =>
        \E k \in Skus : \A j \in Skus \ {k} : carts'[w][j] = carts[w][j]

\* A cart left alone, or emptied, is no concern of OneLine.
LEMMA LineKept ==
    ASSUME CheckoutInv, NEW w \in Shoppers, carts'[w] = carts[w] \/ carts'[w] = NoLines
    PROVE  OneLine(w)
<1>1. ASSUME carts[w] # NoLines PROVE \E k \in Skus : TRUE
  BY <1>1 DEF CheckoutInv, Lines, NoLines
<1> QED
  BY <1>1 DEF OneLine

\* A mutation writes one line of the cart it read under the lock.
LEMMA MutationIsOneLine ==
    ASSUME CheckoutInv, CartLock, NEW r \in Requests, NEW k \in Skus, NEW n,
           ReplaceLines(r, [requests[r].lines EXCEPT ![k] = n]), NEW w \in Shoppers
    PROVE  OneLine(w)
<1>1. /\ requests[r].phase = "mutating" /\ requests[r].owner \in Shoppers
      /\ requests[r].lines \in Lines
  BY RequestLines DEF ReplaceLines
<1>2. CASE w # requests[r].owner
  <2>1. carts'[w] = carts[w]
    BY <1>2 DEF ReplaceLines, CheckoutInv
  <2> QED
    BY <2>1, LineKept
<1>3. CASE w = requests[r].owner
  <2>1. carts[w] \in {requests[r].lines, NoLines}
    BY <1>1, <1>3 DEF CartLock
  <2>2. carts'[w] = [requests[r].lines EXCEPT ![k] = n]
    BY <1>3 DEF ReplaceLines, CheckoutInv
  <2>3. \A j \in Skus \ {k} : carts'[w][j] = requests[r].lines[j]
    BY <1>1, <2>2 DEF Lines
  <2> QED
    BY <2>1, <2>3 DEF OneLine
<1> QED
  BY <1>2, <1>3

\* The two cart endpoints change a cart by such mutations.
LEMMA EndpointsChangeOneLine ==
    ASSUME CheckoutInv, CartLock, NEW r \in Requests, CartItemsView(r) \/ CartItemDetailView(r),
           NEW w \in Shoppers
    PROVE  OneLine(w)
<1>1. ASSUME NEW k \in Skus, NEW q \in 1..MaxCartLine, AddCartItem(r, k, q) PROVE OneLine(w)
  <2> DEFINE n == requests[r].lines[k] + q
  <2>1. ReplaceLines(r, [requests[r].lines EXCEPT ![k] = n])
    BY <1>1 DEF AddCartItem
  <2> HIDE DEF n
  <2> QED
    BY <2>1, MutationIsOneLine
<1>2. ASSUME NEW k \in Skus, NEW q \in 1..MaxCartLine, UpdateCartItem(r, k, q) PROVE OneLine(w)
  BY <1>2, MutationIsOneLine DEF UpdateCartItem
<1>3. ASSUME NEW k \in Skus, RemoveCartItem(r, k) PROVE OneLine(w)
  BY <1>3, MutationIsOneLine DEF RemoveCartItem
<1> QED
  BY <1>1, <1>2, <1>3 DEF CartItemsView, CartItemDetailView

\* Cart mutations of concurrent requests never lose one another: whatever interleaves, a
\* write changes one line of the cart as it is, or the cart was emptied by a checkout since
\* the mutation read it.
THEOREM CartWritesAreSerial == Spec => CartWritesSerial
<1>1. Init => CartLock
  BY DEF Init, CartLock, Idle
<1>2. CheckoutInv /\ CartLock /\ [Next]_vars => CartLock'
  BY CartLockStep
<1>3. CheckoutInv /\ CartLock /\ [Next]_vars => [\A w \in Shoppers : OneLine(w)]_vars
  <2> SUFFICES ASSUME CheckoutInv, CartLock, Next, NEW w \in Shoppers PROVE OneLine(w)
    OBVIOUS
  <2>1. CASE OrderStep
    BY <2>1, LineKept DEF OrderStep
  <2>2. ASSUME NEW r \in Requests, CartItemsView(r) \/ CartItemDetailView(r) PROVE OneLine(w)
    BY <2>2, EndpointsChangeOneLine
  <2>3. ASSUME NEW r \in Requests, RequestStep(r), ~CartItemsView(r), ~CartItemDetailView(r)
        PROVE  OneLine(w)
    <3>1. carts'[w] = carts[w] \/ carts'[w] = NoLines
      BY <2>3 DEF RequestStep, LockCart, ReadCart, SnapshotCart, PlaceOrder, Rollback, CheckoutInv
    <3> QED
      BY <3>1, LineKept
  <2> QED
    BY <2>1, <2>2, <2>3 DEF Next
<1> QED
  BY <1>1, <1>2, <1>3, CheckoutInvHolds, PTL DEF Spec, CartWritesSerial, OneLine
=============================================================================
