-------------------------- MODULE Settlement_proofs --------------------------
(***************************************************************************)
(* Payments and orders stay in step, for every set of orders, payments and *)
(* shoppers: an order never has two active payments, a captured payment's  *)
(* order is settled, and an order is settled only by a captured payment.   *)
(* The invariant PayInv joins the three with the types of the two tables;  *)
(* it is inductive, and each step falls under one of three lemmas: a       *)
(* request that is no payment yet, a payment that moves (alone or with its *)
(* order), or a step of an order that no payment takes part in.            *)
(*                                                                         *)
(* MoneyInv adds what the provider holds: an online payment is captured    *)
(* only when the provider captured its money, and a refusal is never held  *)
(* over money the provider has.  Every step of Settlement is a step of Orders or leaves orders    *)
(* and stock alone, so what is proved of orders on their own holds of them *)
(* under payments too.  WalletInv ties the ledger of each wallet to the    *)
(* payments: its entries add up to its balance, and each follows a payment.*)
(***************************************************************************)
EXTENDS Settlement, Orders_proofs

PaymentsTypeOK == payments \in [Payments -> PaymentRecords \cup {NoPayment}]

PayInv == /\ OrdersTypeOK
          /\ PaymentsTypeOK
          /\ OneActivePayment
          /\ CapturedIsSettled
          /\ SettledWasPaid

Spent == {"captured", "refunded"}
-----------------------------------------------------------------------------
\* The two state machines, read backwards.
LEMMA PaidFromPending ==
    ASSUME OrdersTypeOK, NEW o \in OrderIds, CanTransition(o, "paid")
    PROVE  orders[o].status = "pending"
BY DEF CanTransition, Exists, OrdersTypeOK, OrderRecords, OrderStatuses, NoOrder, AllowedTransitions

\* Only a captured payment can be refunded.
LEMMA RefundedFromCaptured ==
    ASSUME NEW p \in Payments, CanMove(p, "refunded")
    PROVE  payments[p].status = "captured"
BY DEF CanMove, Persisted, PaymentStatuses, PaymentTransitions

\* Only an open payment can be captured.
LEMMA CapturedFromOpen ==
    ASSUME NEW p \in Payments, CanMove(p, "captured")
    PROVE  payments[p].status \in {"pending", "authorized"}
BY DEF CanMove, Persisted, PaymentStatuses, PaymentTransitions

\* Only an open payment can fail.
LEMMA FailedFromOpen ==
    ASSUME NEW p \in Payments, CanMove(p, "failed")
    PROVE  payments[p].status \in {"pending", "authorized"}
BY DEF CanMove, Persisted, PaymentStatuses, PaymentTransitions

\* What has a status other than none is a payment's record.
LEMMA RealPayment ==
    ASSUME PaymentsTypeOK, NEW p \in Payments, payments[p].status # "none"
    PROVE  payments[p] \in PaymentRecords
BY DEF PaymentsTypeOK, NoPayment
-----------------------------------------------------------------------------
\* SetPaymentStatus writes one status and nothing else.
LEMMA StatusSet ==
    ASSUME PaymentsTypeOK, NEW p \in Payments, payments[p] \in PaymentRecords,
           NEW target \in PaymentStatuses, SetPaymentStatus(p, target)
    PROVE  /\ PaymentsTypeOK'
           /\ payments'[p].status = target
           /\ payments'[p].order = payments[p].order
           /\ payments'[p].method = payments[p].method
           /\ \A q \in Payments : q # p => payments'[q] = payments[q]
<1> DEFINE r == [payments[p] EXCEPT !.status = target]
<1>1. /\ r \in PaymentRecords /\ r.status = target
      /\ r.order = payments[p].order /\ r.method = payments[p].method
  BY DEF PaymentRecords
<1>2. payments' = [payments EXCEPT ![p] = r]
  BY DEF SetPaymentStatus
<1> QED
  BY <1>1, <1>2 DEF PaymentsTypeOK

\* SetStatus writes one status of one existing order.
LEMMA OrderStatusSet ==
    ASSUME OrdersTypeOK, NEW o \in OrderIds, Exists(o), NEW target \in OrderStatuses,
           SetStatus(o, target)
    PROVE  /\ OrdersTypeOK'
           /\ orders'[o].status = target
           /\ \A x \in OrderIds : x # o => orders'[x] = orders[x]
<1> DEFINE r == [orders[o] EXCEPT !.status = target]
<1>1. orders[o] \in OrderRecords
  BY DEF OrdersTypeOK, Exists, NoOrder
<1>2. r \in OrderRecords /\ r.status = target
  BY <1>1 DEF OrderRecords
<1>3. orders' = [orders EXCEPT ![o] = r]
  BY DEF SetStatus
<1> QED
  BY <1>2, <1>3 DEF OrdersTypeOK

\* mark_paid settles the order and no other.
LEMMA OrderSettled ==
    ASSUME OrdersTypeOK, NEW o \in OrderIds, Payable(o), SettleOrder(o)
    PROVE  /\ OrdersTypeOK'
           /\ \A x \in OrderIds : Settled(x)' <=> Settled(x) \/ x = o
<1>1. Exists(o)
  BY DEF Payable, CanTransition, Exists
<1>2. SetStatus(o, "paid") /\ "paid" \in OrderStatuses
  BY DEF SettleOrder, OrderStatuses
<1> QED
  BY <1>1, <1>2, OrderStatusSet DEF Settled

\* No step of the order context settles an order or takes a settlement back.
LEMMA OrderStepSettlesNothing ==
    ASSUME OrdersTypeOK, OrderStep
    PROVE  OrdersTypeOK' /\ \A x \in OrderIds : Settled(x)' <=> Settled(x)
<1> DEFINE Goal == OrdersTypeOK' /\ \A x \in OrderIds : Settled(x)' <=> Settled(x)
<1>1. ASSUME NEW o \in OrderIds, NEW w \in Owners, NEW l \in Lines, NEW p \in BOOLEAN,
             NEW t \in Amounts, OpenOrder(o, w, l, p, t)
      PROVE  Goal
  <2> DEFINE r == [status |-> "pending", owner |-> w, lines |-> l, pickup |-> p, total |-> t]
  <2>1. r \in OrderRecords
    BY DEF OrderRecords, OrderStatuses
  <2>2. orders' = [orders EXCEPT ![o] = r] /\ orders[o].status = "none"
    BY <1>1 DEF OpenOrder, Exists
  <2>3. OrdersTypeOK' /\ orders'[o] = r /\ \A x \in OrderIds : x # o => orders'[x] = orders[x]
    BY <2>1, <2>2 DEF OrdersTypeOK
  <2>4. r.status = "pending"
    OBVIOUS
  <2> QED
    BY <2>2, <2>3, <2>4 DEF Settled
<1>2. ASSUME NEW o \in OrderIds, NEW w \in Owners, CancelMyOrder(o, w) PROVE Goal
  <2>1. Exists(o) /\ orders[o].status = "pending" /\ SetStatus(o, "cancelled")
    BY <1>2 DEF CancelMyOrder
  <2>2. "cancelled" \in OrderStatuses
    BY DEF OrderStatuses
  <2> QED
    BY <2>1, <2>2, OrderStatusSet DEF Settled
<1>3. ASSUME NEW o \in OrderIds, Fulfilment(o) PROVE Goal
  <2>1. PICK target \in {"fulfilled", "ready_for_pickup", "picked_up"} :
            CanTransition(o, target) /\ SetStatus(o, target)
    BY <1>3 DEF Fulfilment, ShipOrder, MarkOrderReadyForPickup, ConfirmOrderPickup
  <2>2. Exists(o) /\ target \in OrderStatuses
    BY <2>1 DEF CanTransition, OrderStatuses
  <2>3. Settled(o)
    BY <2>1 DEF CanTransition, Exists, OrdersTypeOK, OrderRecords, OrderStatuses, NoOrder,
                AllowedTransitions, Settled
  <2> QED
    BY <2>1, <2>2, <2>3, OrderStatusSet DEF Settled
<1> QED
  BY <1>1, <1>2, <1>3 DEF OrderStep, PlaceAnyOrder, CancelOrder
-----------------------------------------------------------------------------
\* What concerns only requests that are no payments yet keeps the invariant.
LEMMA NoPaymentYet ==
    ASSUME PayInv, NEW p \in Payments, payments[p].status \in {"none", "initiating"},
           NEW r \in PaymentRecords \cup {NoPayment}, r.status \in {"none", "initiating"},
           payments' = [payments EXCEPT ![p] = r], UNCHANGED orders
    PROVE  PayInv'
<1>1. PaymentsTypeOK' /\ payments'[p] = r /\ \A q \in Payments : q # p => payments'[q] = payments[q]
  BY DEF PayInv, PaymentsTypeOK
<1>2. OneActivePayment'
  BY <1>1 DEF PayInv, OneActivePayment, IsActive, ActiveStatuses
<1>3. CapturedIsSettled'
  BY <1>1 DEF PayInv, CapturedIsSettled, Settled
<1>4. SettledWasPaid'
  <2> SUFFICES ASSUME NEW o \in OrderIds, Settled(o)'
               PROVE  \E q \in Payments : payments'[q].status \in Spent /\ payments'[q].order = o
    BY DEF SettledWasPaid, Spent
  <2>1. PICK q \in Payments : payments[q].status \in Spent /\ payments[q].order = o
    BY DEF PayInv, SettledWasPaid, Settled, Spent
  <2> QED
    BY <1>1, <2>1 DEF Spent
<1> QED
  BY <1>1, <1>2, <1>3, <1>4 DEF PayInv, OrdersTypeOK

\* A payment that moves keeps the invariant when it becomes active only where no other is,
\* never leaves the captured statuses, and is captured exactly together with its order.
LEMMA PaymentMoves ==
    ASSUME PayInv, NEW p \in Payments, payments[p] \in PaymentRecords,
           NEW target \in PaymentStatuses, SetPaymentStatus(p, target),
           target \in ActiveStatuses =>
               payments[p].status \in ActiveStatuses \/ ~HasActivePayment(payments[p].order),
           payments[p].status \in Spent => target \in Spent,
           target \in Spent => Settled(payments[p].order)',
           OrdersTypeOK',
           \A x \in OrderIds : Settled(x)' <=>
               Settled(x) \/ (x = payments[p].order /\ target = "captured")
    PROVE  PayInv'
<1>1. /\ PaymentsTypeOK' /\ payments'[p].status = target
      /\ payments'[p].order = payments[p].order
      /\ \A q \in Payments : q # p => payments'[q] = payments[q]
  BY StatusSet DEF PayInv
<1>2. payments[p].order \in OrderIds
  BY DEF PaymentRecords
<1>3. OneActivePayment'
  BY <1>1 DEF PayInv, OneActivePayment, IsActive, HasActivePayment
<1>4. CapturedIsSettled'
  <2> SUFFICES ASSUME NEW q \in Payments, payments'[q].status \in Spent
               PROVE  Settled(payments[q].order)' /\ payments'[q].order = payments[q].order
    BY DEF CapturedIsSettled, Spent
  <2>1. CASE q = p
    BY <1>1, <2>1
  <2>2. CASE q # p
    <3>1. payments[q].status \in Spent /\ payments'[q].order = payments[q].order
      BY <1>1, <2>2
    <3>2. Settled(payments[q].order)
      BY <3>1 DEF PayInv, CapturedIsSettled, Spent
    <3>3. payments[q].order \in OrderIds
      BY <3>1 DEF PayInv, PaymentsTypeOK, PaymentRecords, NoPayment, Spent
    <3> QED
      BY <3>1, <3>2, <3>3
  <2> QED
    BY <2>1, <2>2
<1>5. SettledWasPaid'
  <2> SUFFICES ASSUME NEW o \in OrderIds, Settled(o)'
               PROVE  \E q \in Payments : payments'[q].status \in Spent /\ payments'[q].order = o
    BY DEF SettledWasPaid, Spent
  <2>1. CASE Settled(o)
    <3>1. PICK q \in Payments : payments[q].status \in Spent /\ payments[q].order = o
      BY <2>1 DEF PayInv, SettledWasPaid, Spent
    <3> QED
      BY <1>1, <3>1
  <2>2. CASE o = payments[p].order /\ target = "captured"
    BY <1>1, <2>2 DEF Spent
  <2> QED
    BY <2>1, <2>2
<1> QED
  BY <1>1, <1>3, <1>4, <1>5 DEF PayInv
-----------------------------------------------------------------------------
\* A step that writes neither table.
LEMMA TablesUntouched ==
    ASSUME PayInv, UNCHANGED <<orders, payments>>
    PROVE  PayInv'
BY DEF PayInv, OrdersTypeOK, PaymentsTypeOK, OneActivePayment, CapturedIsSettled, SettledWasPaid,
       Settled, IsActive

\* An open payment that fails.
LEMMA FailSound ==
    ASSUME PayInv, NEW p \in Payments, payments[p].status \in {"pending", "authorized"},
           SetPaymentStatus(p, "failed"), UNCHANGED orders
    PROVE  PayInv'
<1>1. payments[p] \in PaymentRecords
  BY RealPayment DEF PayInv
<1>2. "failed" \in PaymentStatuses /\ "failed" \notin ActiveStatuses /\ "failed" \notin Spent
  BY DEF PaymentStatuses, ActiveStatuses, Spent
<1>3. OrdersTypeOK' /\ \A x \in OrderIds : Settled(x)' <=> Settled(x)
  BY DEF PayInv, OrdersTypeOK, Settled
<1> QED
  BY <1>1, <1>2, <1>3, PaymentMoves DEF Spent

\* A payment that is captured together with its order: one that was open, or a new one
\* where no other is active.
LEMMA CaptureSound ==
    ASSUME PayInv, NEW p \in Payments,
           payments[p].status \in {"initiating", "pending", "authorized"},
           payments[p].status \in ActiveStatuses \/ ~HasActivePayment(payments[p].order),
           SetPaymentStatus(p, "captured"),
           Payable(payments[p].order), SettleOrder(payments[p].order)
    PROVE  PayInv'
<1>1. payments[p] \in PaymentRecords
  BY RealPayment DEF PayInv
<1>2. payments[p].order \in OrderIds
  BY <1>1 DEF PaymentRecords
<1>3. OrdersTypeOK' /\ \A x \in OrderIds : Settled(x)' <=> Settled(x) \/ x = payments[p].order
  BY <1>2, OrderSettled DEF PayInv
<1>4. "captured" \in PaymentStatuses /\ "captured" \in Spent
  BY DEF PaymentStatuses, Spent
<1>5. Settled(payments[p].order)'
  BY <1>2, <1>3, StatusSet, <1>1, <1>4 DEF PayInv
<1> QED
  BY <1>1, <1>3, <1>4, <1>5, PaymentMoves DEF Spent

\* Every initiation step: the two unlocked checks, the insert, the wallet payment.
LEMMA InitiationSound ==
    ASSUME PayInv, NEW p \in Payments, InitiationStep(p)
    PROVE  PayInv'
<1>1. ASSUME NEW o \in OrderIds, NEW m \in Methods, BeginPayment(p, o, m) PROVE PayInv'
  <2> DEFINE r == [status |-> "initiating", order |-> o, method |-> m, transfer |-> FALSE]
  <2>1. r \in PaymentRecords /\ r.status = "initiating"
    BY DEF PaymentRecords
  <2>2. payments' = [payments EXCEPT ![p] = r] /\ UNCHANGED orders
        /\ payments[p].status = "none"
    BY <1>1 DEF BeginPayment, Unmoved, NoPayment
  <2> QED
    BY <2>1, <2>2, NoPaymentYet
<1>2. CASE InitiatePayment(p)
  <2>1. /\ payments[p].status = "initiating" /\ ~HasActivePayment(payments[p].order)
        /\ SetPaymentStatus(p, "pending") /\ UNCHANGED orders
    BY <1>2 DEF InitiatePayment, Unmoved
  <2>2. payments[p] \in PaymentRecords
    BY <2>1, RealPayment DEF PayInv
  <2>3. "pending" \in PaymentStatuses /\ "pending" \notin Spent /\ "initiating" \notin Spent
    BY DEF PaymentStatuses, Spent
  <2>4. OrdersTypeOK' /\ \A x \in OrderIds : Settled(x)' <=> Settled(x)
    BY <2>1 DEF PayInv, OrdersTypeOK, Settled
  <2> QED
    BY <2>1, <2>2, <2>3, <2>4, PaymentMoves
<1>3. CASE PayWithWallet(p)
  BY <1>3, CaptureSound DEF PayWithWallet
<1>4. CASE AbandonInitiation(p)
  <2>1. NoPayment.status = "none"
    BY DEF NoPayment
  <2> QED
    BY <1>4, <2>1, NoPaymentYet DEF AbandonInitiation, Unmoved
<1> QED
  BY <1>1, <1>2, <1>3, <1>4 DEF InitiationStep

\* Every step of a capture, whatever the provider answers and whether the worker survives.
LEMMA CaptureStepSound ==
    ASSUME PayInv, NEW p \in Payments, CaptureStep(p)
    PROVE  PayInv'
<1>1. CASE CaptureCancelled(p)
  BY <1>1, FailSound DEF CaptureCancelled, Settleable, SettleableStatuses, Unmoved
<1>2. CASE SettleFailed(p)
  BY <1>2, FailSound, FailedFromOpen DEF SettleFailed, Unmoved
<1>3. CASE SettleCaptured(p)
  <2>1. payments[p].status \in {"pending", "authorized"}
    BY <1>3, CapturedFromOpen DEF SettleCaptured
  <2> QED
    BY <1>3, <2>1, CaptureSound DEF SettleCaptured, ActiveStatuses
<1>4. ASSUME NEW ok \in BOOLEAN, CaptureIgnored(p, ok) PROVE PayInv'
  BY <1>4, TablesUntouched DEF CaptureIgnored, Unmoved
<1>5. CASE VerifyCaptured(p) \/ VerifyRefused(p) \/ VerifyLost(p)
              \/ SettleRolledBack(p) \/ WorkerCrash(p)
  BY <1>5, TablesUntouched
     DEF VerifyCaptured, VerifyRefused, VerifyLost, SettleRolledBack, WorkerCrash, Unmoved
<1> QED
  BY <1>1, <1>2, <1>3, <1>4, <1>5 DEF CaptureStep, Deliver, Conclude

\* The refund and the card-to-card operations.
LEMMA StaffStepSound ==
    ASSUME PayInv, NEW p \in Payments, StaffStep(p)
    PROVE  PayInv'
<1>1. CASE RefundPayment(p)
  <2>1. payments[p].status = "captured" /\ SetPaymentStatus(p, "refunded") /\ UNCHANGED orders
    BY <1>1, RefundedFromCaptured DEF RefundPayment
  <2>2. payments[p] \in PaymentRecords
    BY <2>1, RealPayment DEF PayInv
  <2>3. "refunded" \in PaymentStatuses /\ "refunded" \in Spent /\ "refunded" \notin ActiveStatuses
    BY DEF PaymentStatuses, ActiveStatuses, Spent
  <2>4. OrdersTypeOK' /\ \A x \in OrderIds : Settled(x)' <=> Settled(x)
    BY <2>1 DEF PayInv, OrdersTypeOK, Settled
  <2>5. Settled(payments[p].order)
    BY <2>1 DEF PayInv, CapturedIsSettled
  <2>6. Settled(payments[p].order)'
    BY <2>1, <2>2, <2>3, <2>4, <2>5, StatusSet DEF PayInv, PaymentRecords
  <2> QED
    BY <2>1, <2>2, <2>3, <2>4, <2>6, PaymentMoves
<1>2. CASE SubmitCardToCardReference(p)
  <2> DEFINE r == [payments[p] EXCEPT !.transfer = TRUE]
  <2>1. payments[p].status = "pending" /\ payments' = [payments EXCEPT ![p] = r] /\ UNCHANGED orders
    BY <1>2 DEF SubmitCardToCardReference, AwaitsTransfer, Unmoved
  <2>2. payments[p] \in PaymentRecords
    BY <2>1, RealPayment DEF PayInv
  <2>3. r \in PaymentRecords /\ r.status = payments[p].status /\ r.order = payments[p].order
    BY <2>2 DEF PaymentRecords
  <2>4. /\ PaymentsTypeOK'
        /\ \A q \in Payments : /\ payments'[q].status = payments[q].status
                               /\ payments'[q].order = payments[q].order
    BY <2>1, <2>3 DEF PayInv, PaymentsTypeOK
  <2> QED
    BY <2>1, <2>4 DEF PayInv, OrdersTypeOK, OneActivePayment, CapturedIsSettled,
                      SettledWasPaid, Settled, IsActive
<1>3. CASE ConfirmCardToCardPayment(p)
  BY <1>3, CaptureSound DEF ConfirmCardToCardPayment, AwaitsTransfer, ActiveStatuses
<1>4. CASE RejectCardToCardPayment(p)
  BY <1>4, FailSound DEF RejectCardToCardPayment, AwaitsTransfer, Unmoved
<1> QED
  BY <1>1, <1>2, <1>3, <1>4 DEF StaffStep

\* The order context's own steps.
LEMMA OrderStepSound ==
    ASSUME PayInv, OrderStep
    PROVE  PayInv'
<1>1. OrdersTypeOK' /\ (\A x \in OrderIds : Settled(x)' <=> Settled(x)) /\ UNCHANGED payments
  BY OrderStepSettlesNothing DEF PayInv, OrderStep
<1>2. CapturedIsSettled'
  <2> SUFFICES ASSUME NEW q \in Payments, payments[q].status \in Spent
               PROVE  Settled(payments[q].order)'
    BY <1>1 DEF CapturedIsSettled, Spent
  <2>1. payments[q].order \in OrderIds
    BY DEF PayInv, PaymentsTypeOK, PaymentRecords, NoPayment, Spent
  <2> QED
    BY <1>1, <2>1 DEF PayInv, CapturedIsSettled, Spent
<1>3. SettledWasPaid'
  BY <1>1 DEF PayInv, SettledWasPaid
<1> QED
  BY <1>1, <1>2, <1>3 DEF PayInv, PaymentsTypeOK, OneActivePayment, IsActive

\* PayInv holds in every reachable state: however initiations, captures, cancellations,
\* refunds and crashes interleave.
LEMMA PayInvHolds == Spec => []PayInv
<1>1. Init => PayInv
  BY DEF Init, PayInv, OrdersTypeOK, PaymentsTypeOK, OneActivePayment, CapturedIsSettled,
         SettledWasPaid, Settled, IsActive, ActiveStatuses, NoPayment, NoOrder
<1>2. PayInv /\ [Next]_vars => PayInv'
  <2> SUFFICES ASSUME PayInv, [Next]_vars PROVE PayInv'
    OBVIOUS
  <2>1. ASSUME NEW p \in Payments, ProviderStep(p) PROVE PayInv'
    BY <2>1, TablesUntouched DEF ProviderStep, ProviderDecides, PaymentCallback, Unmoved
  <2>2. CASE UNCHANGED vars
    BY <2>2, TablesUntouched DEF vars
  <2> QED
    BY <2>1, <2>2, OrderStepSound, InitiationSound, CaptureStepSound, StaffStepSound DEF Next
<1> QED
  BY <1>1, <1>2, PTL DEF Spec

\* An order never has two active payments, though both checks before an initiation are
\* unlocked reads: the constraint at the insert decides.
THEOREM OrdersNeverPaidTwice == Spec => []OneActivePayment
<1>1. PayInv => OneActivePayment
  BY DEF PayInv
<1> QED
  BY <1>1, PayInvHolds, PTL

\* A captured payment's order is settled: a capture commits with its order or not at all.
THEOREM CapturesSettleTheirOrder == Spec => []CapturedIsSettled
<1>1. PayInv => CapturedIsSettled
  BY DEF PayInv
<1> QED
  BY <1>1, PayInvHolds, PTL

\* An order is settled only by a payment that was captured.
THEOREM SettledOrdersWerePaid == Spec => []SettledWasPaid
<1>1. PayInv => SettledWasPaid
  BY DEF PayInv
<1> QED
  BY <1>1, PayInvHolds, PTL
-----------------------------------------------------------------------------
\* The provider's side.  Only an online payment has a session; it is captured, or refunded,
\* only once the provider has its money; a verdict is what the provider said, and a refusal
\* is never said of money it has.
SessionsSound ==
    \A p \in Payments :
        /\ sessions[p] # "none" =>
               /\ payments[p] \in PaymentRecords /\ Persisted(p)
               /\ payments[p].method = "online" /\ payments[p].status # "authorized"
        /\ payments[p].status \in Spent /\ payments[p].method = "online"
               => sessions[p] = "captured"

VerdictsSound ==
    \A p \in Payments :
        /\ verdicts[p] = "captured" => sessions[p] = "captured"
        /\ verdicts[p] = "refused"  => sessions[p] \in {"open", "approved"}

MoneyInv ==
    /\ PaymentsTypeOK
    /\ sessions \in [Payments -> SessionStates]
    /\ verdicts \in [Payments -> {"none", "captured", "refused"}]
    /\ SessionsSound
    /\ VerdictsSound

\* A payment that moves where its session allows it keeps the provider's side sound.
LEMMA MovedSessionsSound ==
    ASSUME MoneyInv, NEW p \in Payments, payments[p] \in PaymentRecords,
           NEW target \in PaymentStatuses \ {"authorized"}, SetPaymentStatus(p, target),
           UNCHANGED sessions,
           target \in Spent /\ payments[p].method = "online" => sessions[p] = "captured"
    PROVE  PaymentsTypeOK' /\ SessionsSound'
<1>1. /\ PaymentsTypeOK'
      /\ payments'[p].status = target /\ payments'[p].method = payments[p].method
      /\ \A q \in Payments : q # p => payments'[q] = payments[q]
  BY StatusSet DEF MoneyInv
<1>2. payments'[p] \in PaymentRecords
  BY <1>1, "none" \notin PaymentStatuses DEF PaymentsTypeOK, NoPayment, PaymentStatuses
<1> QED
  BY <1>1, <1>2 DEF MoneyInv, SessionsSound, Persisted

\* The same for a payment whose verdict stays, or is acted upon.
LEMMA MovedMoneySound ==
    ASSUME MoneyInv, NEW p \in Payments, payments[p].status # "none",
           NEW target \in PaymentStatuses \ {"authorized"}, SetPaymentStatus(p, target),
           UNCHANGED sessions,
           target \in Spent /\ payments[p].method = "online" => sessions[p] = "captured",
           UNCHANGED verdicts \/ EndCapture(p)
    PROVE  MoneyInv'
<1>1. PaymentsTypeOK' /\ SessionsSound'
  BY MovedSessionsSound, RealPayment DEF MoneyInv
<1>2. verdicts' \in [Payments -> {"none", "captured", "refused"}] /\ VerdictsSound'
  BY DEF MoneyInv, VerdictsSound, EndCapture
<1> QED
  BY <1>1, <1>2 DEF MoneyInv

\* Only a payment that is a row, and online, has a session at the provider.
LEMMA NoSession ==
    ASSUME MoneyInv, NEW p \in Payments,
           ~Persisted(p) \/ payments[p].method # "online"
    PROVE  sessions[p] = "none"
BY DEF MoneyInv, SessionsSound

\* A request that is no payment yet has no session.
LEMMA NoPaymentNoMoney ==
    ASSUME MoneyInv, NEW p \in Payments, payments[p].status \in {"none", "initiating"},
           NEW r \in PaymentRecords \cup {NoPayment}, r.status \in {"none", "initiating"},
           payments' = [payments EXCEPT ![p] = r], UNCHANGED <<sessions, verdicts>>
    PROVE  MoneyInv'
<1>1. sessions[p] = "none"
  BY NoSession DEF Persisted, PaymentStatuses
<1>2. PaymentsTypeOK' /\ \A q \in Payments : q # p => payments'[q] = payments[q]
  BY DEF MoneyInv, PaymentsTypeOK
<1>3. payments'[p].status \notin Spent
  BY DEF MoneyInv, PaymentsTypeOK, Spent
<1>4. SessionsSound'
  BY <1>1, <1>2, <1>3 DEF MoneyInv, SessionsSound, Persisted
<1> QED
  BY <1>2, <1>4 DEF MoneyInv, VerdictsSound

\* Initiating a payment opens a session and captures nothing.
LEMMA InitiationMoney ==
    ASSUME MoneyInv, NEW p \in Payments, InitiationStep(p)
    PROVE  MoneyInv'
<1>1. ASSUME NEW o \in OrderIds, NEW m \in Methods, BeginPayment(p, o, m) PROVE MoneyInv'
  <2> DEFINE r == [status |-> "initiating", order |-> o, method |-> m, transfer |-> FALSE]
  <2>1. r \in PaymentRecords
    BY DEF PaymentRecords
  <2>2. payments' = [payments EXCEPT ![p] = r] /\ payments[p].status = "none"
        /\ UNCHANGED <<sessions, verdicts>> /\ r.status = "initiating"
    BY <1>1 DEF BeginPayment, NoPayment
  <2> QED
    BY <2>1, <2>2, NoPaymentNoMoney
<1>2. CASE InitiatePayment(p)
  <2>1. payments[p].status = "initiating" /\ sessions[p] = "none"
    BY <1>2, NoSession DEF InitiatePayment, Persisted, PaymentStatuses
  <2>2. /\ SetPaymentStatus(p, "pending") /\ UNCHANGED verdicts
        /\ sessions' = IF payments[p].method = "online"
                       THEN [sessions EXCEPT ![p] = "open"] ELSE sessions
    BY <1>2 DEF InitiatePayment
  <2>3. "pending" \in PaymentStatuses /\ "pending" \notin Spent
    BY DEF PaymentStatuses, Spent
  <2>4. /\ PaymentsTypeOK'
        /\ payments'[p].status = "pending" /\ payments'[p].method = payments[p].method
        /\ \A q \in Payments : q # p => payments'[q] = payments[q]
    BY <2>1, <2>2, <2>3, StatusSet, RealPayment DEF MoneyInv
  <2>5. payments'[p] \in PaymentRecords
    BY <2>4 DEF PaymentsTypeOK, NoPayment
  <2>6. /\ sessions' \in [Payments -> SessionStates]
        /\ sessions'[p] = "open" => payments[p].method = "online"
        /\ sessions'[p] \in {"none", "open"}
        /\ \A q \in Payments : q # p => sessions'[q] = sessions[q]
    BY <2>1, <2>2 DEF MoneyInv, SessionStates
  <2>7. SessionsSound'
    BY <2>3, <2>4, <2>5, <2>6 DEF MoneyInv, SessionsSound, Persisted
  <2> QED
    BY <2>1, <2>2, <2>4, <2>6, <2>7 DEF MoneyInv, VerdictsSound
<1>3. CASE PayWithWallet(p)
  <2>1. payments[p].status # "none" /\ payments[p].method # "online"
    BY <1>3 DEF PayWithWallet
  <2>2. SetPaymentStatus(p, "captured") /\ UNCHANGED <<sessions, verdicts>>
    BY <1>3 DEF PayWithWallet
  <2> QED
    BY <2>1, <2>2, MovedMoneySound DEF PaymentStatuses
<1>4. CASE AbandonInitiation(p)
  BY <1>4, NoPaymentNoMoney DEF AbandonInitiation, NoPayment
<1> QED
  BY <1>1, <1>2, <1>3, <1>4 DEF InitiationStep

\* An approval captures nothing yet, and a callback only asks for a capture.
LEMMA ProviderMoney ==
    ASSUME MoneyInv, NEW p \in Payments, ProviderStep(p)
    PROVE  MoneyInv'
<1>1. CASE ProviderDecides(p)
  <2>1. /\ sessions[p] = "open" /\ sessions' = [sessions EXCEPT ![p] = "approved"]
        /\ UNCHANGED <<payments, verdicts>>
    BY <1>1 DEF ProviderDecides
  <2>2. sessions' \in [Payments -> SessionStates] /\ SessionsSound'
    BY <2>1 DEF MoneyInv, SessionsSound, SessionStates, Persisted
  <2>3. VerdictsSound'
    BY <2>1 DEF MoneyInv, VerdictsSound
  <2> QED
    BY <2>1, <2>2, <2>3 DEF MoneyInv, PaymentsTypeOK
<1>2. ASSUME NEW ok \in BOOLEAN, PaymentCallback(p, ok) PROVE MoneyInv'
  BY <1>2 DEF PaymentCallback, MoneyInv, PaymentsTypeOK, SessionsSound, VerdictsSound, Persisted
<1> QED
  BY <1>1, <1>2 DEF ProviderStep

\* A verify may capture the money, of an open payment only.
LEMMA VerifyMoney ==
    ASSUME MoneyInv, NEW p \in Payments, NEW s \in {sessions[p], "captured"},
           NEW v \in {"none", "captured", "refused"},
           sessions[p] # "none", Settleable(p),
           v = "captured" => s = "captured", v = "refused" => s \in {"open", "approved"},
           sessions' = [sessions EXCEPT ![p] = s], verdicts' = [verdicts EXCEPT ![p] = v],
           UNCHANGED payments
    PROVE  MoneyInv'
<1>1. payments[p].status = "pending"
  BY DEF MoneyInv, SessionsSound, Settleable, SettleableStatuses
<1>2. sessions' \in [Payments -> SessionStates] /\ SessionsSound'
  BY <1>1 DEF MoneyInv, SessionsSound, SessionStates, Persisted
<1>3. verdicts' \in [Payments -> {"none", "captured", "refused"}] /\ VerdictsSound'
  BY DEF MoneyInv, VerdictsSound
<1> QED
  BY <1>2, <1>3 DEF MoneyInv, PaymentsTypeOK

\* Every step of a capture keeps MoneyInv, also when the worker dies or the answer is lost.
LEMMA CaptureMoney ==
    ASSUME MoneyInv, NEW p \in Payments, CaptureStep(p)
    PROVE  MoneyInv'
<1>1. ASSUME NEW ok \in BOOLEAN, CaptureIgnored(p, ok) PROVE MoneyInv'
  BY <1>1 DEF CaptureIgnored, MoneyInv, PaymentsTypeOK, SessionsSound, VerdictsSound, Persisted
<1>2. CASE CaptureCancelled(p)
  <2>1. payments[p].status # "none"
    BY <1>2 DEF CaptureCancelled, Settleable, SettleableStatuses
  <2>2. SetPaymentStatus(p, "failed") /\ UNCHANGED <<sessions, verdicts>>
    BY <1>2 DEF CaptureCancelled
  <2> QED
    BY <2>1, <2>2, MovedMoneySound DEF PaymentStatuses, Spent
<1>3. CASE VerifyCaptured(p)
  <2>1. sessions[p] # "none"
    BY <1>3 DEF VerifyCaptured
  <2> QED
    BY <1>3, <2>1, VerifyMoney DEF VerifyCaptured
<1>4. CASE VerifyRefused(p)
  <2>1. sessions' = [sessions EXCEPT ![p] = sessions[p]]
    BY <1>4 DEF VerifyRefused, MoneyInv
  <2> QED
    BY <1>4, <2>1, VerifyMoney DEF VerifyRefused
<1>5. CASE VerifyLost(p)
  <2>1. PICK s \in {sessions[p], "captured"} : sessions' = [sessions EXCEPT ![p] = s]
    BY <1>5 DEF VerifyLost, MoneyInv
  <2>2. verdicts' = [verdicts EXCEPT ![p] = "none"] /\ UNCHANGED payments
    BY <1>5 DEF VerifyLost, Delivered, MoneyInv
  <2> QED
    BY <1>5, <2>1, <2>2, VerifyMoney DEF VerifyLost
<1>6. CASE SettleCaptured(p)
  <2>1. payments[p].status # "none"
    BY <1>6, CapturedFromOpen DEF SettleCaptured
  <2>2. sessions[p] = "captured"
    BY <1>6 DEF SettleCaptured, MoneyInv, VerdictsSound
  <2> QED
    BY <1>6, <2>1, <2>2, MovedMoneySound DEF SettleCaptured, PaymentStatuses
<1>7. CASE SettleFailed(p)
  <2>1. payments[p].status # "none"
    BY <1>7, FailedFromOpen DEF SettleFailed
  <2> QED
    BY <1>7, <2>1, MovedMoneySound DEF SettleFailed, PaymentStatuses, Spent
<1>8. CASE SettleRolledBack(p) \/ WorkerCrash(p)
  <2>1. UNCHANGED <<payments, sessions>> /\ EndCapture(p)
    BY <1>8 DEF SettleRolledBack, WorkerCrash
  <2> QED
    BY <2>1 DEF EndCapture, MoneyInv, PaymentsTypeOK, SessionsSound, VerdictsSound, Persisted
<1> QED
  BY <1>1, <1>2, <1>3, <1>4, <1>5, <1>6, <1>7, <1>8 DEF CaptureStep, Deliver, Conclude

\* Refunds and card-to-card decisions leave the money of every session accounted for.
LEMMA StaffMoney ==
    ASSUME MoneyInv, NEW p \in Payments, StaffStep(p)
    PROVE  MoneyInv'
<1>1. CASE RefundPayment(p)
  <2>1. payments[p].status = "captured"
    BY <1>1, RefundedFromCaptured DEF RefundPayment
  <2>2. payments[p].method = "online" => sessions[p] = "captured"
    BY <2>1 DEF MoneyInv, SessionsSound, Spent
  <2> QED
    BY <1>1, <2>1, <2>2, MovedMoneySound DEF RefundPayment, PaymentStatuses
<1>2. CASE SubmitCardToCardReference(p)
  <2> DEFINE r == [payments[p] EXCEPT !.transfer = TRUE]
  <2>1. /\ sessions[p] = "none" /\ payments[p] \in PaymentRecords
        /\ payments' = [payments EXCEPT ![p] = r] /\ UNCHANGED <<sessions, verdicts>>
        /\ payments[p].status = "pending"
    BY <1>2, NoSession, RealPayment DEF SubmitCardToCardReference, AwaitsTransfer, MoneyInv
  <2>2. r \in PaymentRecords /\ r.status = "pending"
    BY <2>1 DEF PaymentRecords
  <2>3. /\ PaymentsTypeOK' /\ payments'[p].status \notin Spent
        /\ \A q \in Payments : q # p => payments'[q] = payments[q]
    BY <2>1, <2>2 DEF MoneyInv, PaymentsTypeOK, Spent
  <2> QED
    BY <2>1, <2>3 DEF MoneyInv, SessionsSound, VerdictsSound, Persisted
<1>3. CASE ConfirmCardToCardPayment(p) \/ RejectCardToCardPayment(p)
  <2>1. payments[p].status # "none" /\ payments[p].method # "online"
    BY <1>3 DEF ConfirmCardToCardPayment, RejectCardToCardPayment, AwaitsTransfer
  <2>2. PICK target \in {"captured", "failed"} : SetPaymentStatus(p, target)
    BY <1>3 DEF ConfirmCardToCardPayment, RejectCardToCardPayment
  <2>3. UNCHANGED <<sessions, verdicts>>
    BY <1>3 DEF ConfirmCardToCardPayment, RejectCardToCardPayment
  <2> QED
    BY <2>1, <2>2, <2>3, MovedMoneySound DEF PaymentStatuses
<1> QED
  BY <1>1, <1>2, <1>3 DEF StaffStep

\* The provider's side is sound in every reachable state.
LEMMA MoneyInvHolds == Spec => []MoneyInv
<1>1. Init => MoneyInv
  BY DEF Init, MoneyInv, PaymentsTypeOK, SessionsSound, VerdictsSound, SessionStates, NoPayment,
         Spent
<1>2. MoneyInv /\ [Next]_vars => MoneyInv'
  <2> SUFFICES ASSUME MoneyInv, [Next]_vars PROVE MoneyInv'
    OBVIOUS
  <2>1. CASE OrderStep \/ UNCHANGED vars
    <3>1. UNCHANGED <<payments, sessions, verdicts>>
      BY <2>1 DEF OrderStep, vars
    <3> QED
      BY <3>1 DEF MoneyInv, PaymentsTypeOK, SessionsSound, VerdictsSound, Persisted
  <2> QED
    BY <2>1, InitiationMoney, ProviderMoney, CaptureMoney, StaffMoney DEF Next
<1> QED
  BY <1>1, <1>2, PTL DEF Spec

\* An online payment is captured only when the provider captured its money: whatever statuses
\* the callback is loaded with, no capture rests on a redirect.
THEOREM CapturesAreConfirmed == Spec => []CaptureConfirmed
<1>1. MoneyInv => CaptureConfirmed
  BY DEF MoneyInv, SessionsSound, CaptureConfirmed, Spent
<1> QED
  BY <1>1, MoneyInvHolds, PTL

MoneyStep ==
    \A p \in Payments :
        /\ sessions[p] = "captured"
        /\ payments[p].status \in {"pending", "captured", "refunded"}
        => \/ payments'[p].status \in {"pending", "captured", "refunded"}
           \/ Message(p, FALSE) \in queue \ queue'

\* A step that moves one payment keeps the money of every other.
LEMMA MoneyOfOthers ==
    ASSUME PaymentsTypeOK, NEW p \in Payments, NEW r, payments' = [payments EXCEPT ![p] = r],
           sessions[p] = "captured" /\ payments[p].status \in {"pending", "captured", "refunded"}
           => \/ r.status \in {"pending", "captured", "refunded"}
              \/ Message(p, FALSE) \in queue \ queue'
    PROVE  MoneyStep
BY DEF PaymentsTypeOK, MoneyStep

\* The same for a payment that changes its status only.
LEMMA MoneyOfStatus ==
    ASSUME MoneyInv, NEW p \in Payments, payments[p].status # "none",
           NEW target \in PaymentStatuses, SetPaymentStatus(p, target),
           sessions[p] = "captured"
           => target \in {"pending", "captured", "refunded"} \/ Message(p, FALSE) \in queue \ queue'
    PROVE  MoneyStep
<1>1. PaymentsTypeOK /\ payments[p] \in PaymentRecords
  BY RealPayment DEF MoneyInv
<1>2. payments'[p].status = target /\ \A q \in Payments : q # p => payments'[q] = payments[q]
  BY <1>1, StatusSet
<1> QED
  BY <1>2 DEF MoneyStep

\* Whatever answers are lost, repeated or refused and whichever workers die, money that the
\* provider captured is written off only by a redirect that said the shopper cancelled.
THEOREM CapturedMoneyIsKept == Spec => ProviderMoneyKept
<1>1. ASSUME MoneyInv, [Next]_vars PROVE [MoneyStep]_vars
  <2> SUFFICES ASSUME Next PROVE MoneyStep
    BY <1>1
  <2>0. PaymentsTypeOK
    BY <1>1 DEF MoneyInv
  <2>1. ASSUME UNCHANGED payments PROVE MoneyStep
    BY <2>1 DEF MoneyStep
  <2>2. ASSUME NEW p \in Payments, InitiationStep(p) PROVE MoneyStep
    <3>1. payments[p].status \in {"none", "initiating"} => sessions[p] = "none"
      BY <1>1, NoSession DEF Persisted, PaymentStatuses
    <3>2. payments[p].status \in {"none", "initiating"}
      BY <2>2 DEF InitiationStep, BeginPayment, InitiatePayment, PayWithWallet,
                  AbandonInitiation, NoPayment
    <3>3. \E r : payments' = [payments EXCEPT ![p] = r]
      BY <2>2 DEF InitiationStep, BeginPayment, InitiatePayment, PayWithWallet,
                  AbandonInitiation, SetPaymentStatus
    <3> QED
      BY <2>0, <3>1, <3>2, <3>3, MoneyOfOthers
  <2>3. ASSUME NEW p \in Payments, CaptureCancelled(p) PROVE MoneyStep
    <3>1. Message(p, FALSE) \in queue \ queue' /\ payments[p].status # "none"
      BY <2>3 DEF CaptureCancelled, Delivered, Acknowledge, Settleable, SettleableStatuses
    <3> QED
      BY <1>1, <2>3, <3>1, MoneyOfStatus DEF CaptureCancelled, PaymentStatuses
  <2>4. ASSUME NEW p \in Payments, SettleCaptured(p) PROVE MoneyStep
    BY <1>1, <2>4, CapturedFromOpen, MoneyOfStatus DEF SettleCaptured, PaymentStatuses
  <2>5. ASSUME NEW p \in Payments, SettleFailed(p) PROVE MoneyStep
    <3>1. sessions[p] # "captured"
      BY <1>1, <2>5 DEF SettleFailed, MoneyInv, VerdictsSound
    <3> QED
      BY <1>1, <2>5, <3>1, FailedFromOpen, MoneyOfStatus DEF SettleFailed, PaymentStatuses
  <2>6. ASSUME NEW p \in Payments, StaffStep(p) PROVE MoneyStep
    <3>1. CASE RefundPayment(p)
      BY <1>1, <3>1, RefundedFromCaptured, MoneyOfStatus DEF RefundPayment, PaymentStatuses
    <3>2. CASE ~RefundPayment(p)
      <4>1. sessions[p] = "none"
        BY <1>1, <2>6, <3>2, NoSession
           DEF StaffStep, SubmitCardToCardReference, ConfirmCardToCardPayment,
               RejectCardToCardPayment, AwaitsTransfer
      <4>2. \E r : payments' = [payments EXCEPT ![p] = r]
        BY <2>6, <3>2
           DEF StaffStep, SubmitCardToCardReference, ConfirmCardToCardPayment,
               RejectCardToCardPayment, SetPaymentStatus
      <4> QED
        BY <2>0, <4>1, <4>2, MoneyOfOthers
    <3> QED
      BY <3>1, <3>2
  <2> QED
    BY <2>1, <2>2, <2>3, <2>4, <2>5, <2>6
       DEF Next, OrderStep, ProviderStep, ProviderDecides, PaymentCallback, CaptureStep, Deliver,
           Conclude, CaptureIgnored, VerifyCaptured, VerifyRefused, VerifyLost, SettleRolledBack,
           WorkerCrash
<1> QED
  BY <1>1, MoneyInvHolds, PTL DEF Spec, ProviderMoneyKept, MoneyStep
-----------------------------------------------------------------------------
\* The step formula of SettlementIsFinal.
FinalStep ==
    \A p \in Payments :
        /\ payments[p].status = "captured"
              => payments'[p].status \in {"captured", "refunded"}
        /\ payments[p].status \in {"failed", "refunded"}
              => payments'[p] = payments[p]

\* One payment's row is written: one that is not final, or a captured one that is refunded.
LEMMA OneRowFinal ==
    ASSUME PaymentsTypeOK, NEW p \in Payments, NEW r, payments' = [payments EXCEPT ![p] = r],
           \/ payments[p].status \notin {"captured", "failed", "refunded"}
           \/ payments[p].status = "captured" /\ r.status = "refunded"
    PROVE  FinalStep
BY DEF FinalStep, PaymentsTypeOK

\* A step that sets one payment's status keeps to FinalStep when that status may be set.
LEMMA StatusFinal ==
    ASSUME PaymentsTypeOK, NEW p \in Payments, NEW target \in PaymentStatuses,
           SetPaymentStatus(p, target), payments[p].status # "none",
           \/ payments[p].status \notin {"captured", "failed", "refunded"}
           \/ payments[p].status = "captured" /\ target = "refunded"
    PROVE  FinalStep
<1>1. payments[p] \in PaymentRecords
  BY RealPayment
<1> QED
  BY <1>1, StatusSet DEF FinalStep

\* No step of a payment, repeated or late, leaves a final status.
LEMMA PaymentStepFinal ==
    ASSUME PaymentsTypeOK, NEW p \in Payments,
           InitiationStep(p) \/ ProviderStep(p) \/ CaptureStep(p) \/ StaffStep(p)
    PROVE  FinalStep
<1>1. CASE UNCHANGED payments
  BY <1>1 DEF FinalStep
<1>2. ASSUME NEW o \in OrderIds, NEW m \in Methods, BeginPayment(p, o, m) PROVE FinalStep
  <2>1. payments[p].status = "none"
    BY <1>2 DEF BeginPayment, NoPayment
  <2> QED
    BY <1>2, <2>1, OneRowFinal DEF BeginPayment
<1>3. CASE InitiatePayment(p) \/ PayWithWallet(p)
  BY <1>3, StatusFinal DEF InitiatePayment, PayWithWallet, PaymentStatuses
<1>4. CASE AbandonInitiation(p)
  BY <1>4, OneRowFinal DEF AbandonInitiation
<1>5. CASE CaptureCancelled(p)
  BY <1>5, StatusFinal DEF CaptureCancelled, Settleable, SettleableStatuses, PaymentStatuses
<1>6. CASE SettleCaptured(p) \/ SettleFailed(p)
  BY <1>6, StatusFinal, CapturedFromOpen, FailedFromOpen
     DEF SettleCaptured, SettleFailed, PaymentStatuses
<1>7. CASE RefundPayment(p)
  BY <1>7, StatusFinal, RefundedFromCaptured DEF RefundPayment, PaymentStatuses
<1>8. CASE SubmitCardToCardReference(p)
  <2> DEFINE r == [payments[p] EXCEPT !.transfer = TRUE]
  <2>1. payments' = [payments EXCEPT ![p] = r] /\ payments[p].status = "pending"
    BY <1>8 DEF SubmitCardToCardReference, AwaitsTransfer
  <2> QED
    BY <2>1, OneRowFinal
<1>9. CASE ConfirmCardToCardPayment(p) \/ RejectCardToCardPayment(p)
  BY <1>9, StatusFinal
     DEF ConfirmCardToCardPayment, RejectCardToCardPayment, AwaitsTransfer, PaymentStatuses
<1> QED
  BY <1>1, <1>2, <1>3, <1>4, <1>5, <1>6, <1>7, <1>8, <1>9
     DEF InitiationStep, ProviderStep, ProviderDecides, PaymentCallback, CaptureStep, Deliver,
         Conclude, CaptureIgnored, VerifyCaptured, VerifyRefused, VerifyLost, SettleRolledBack,
         WorkerCrash, StaffStep

\* A captured payment is only ever refunded, and a failed or refunded one never changes,
\* whatever is redelivered.
THEOREM SettlementsAreFinal == Spec => SettlementIsFinal
<1>1. MoneyInv /\ [Next]_vars => [FinalStep]_vars
  <2> SUFFICES ASSUME MoneyInv, Next PROVE FinalStep
    OBVIOUS
  <2>1. PaymentsTypeOK
    BY DEF MoneyInv
  <2> QED
    BY <2>1, PaymentStepFinal DEF Next, OrderStep, FinalStep
<1> QED
  BY <1>1, MoneyInvHolds, PTL DEF Spec, SettlementIsFinal, FinalStep
-----------------------------------------------------------------------------
(* The orders under the payments. *)

\* mark_paid is the order context's MarkPaid, or nothing when the order is paid already.
LEMMA SettleIsMarkPaid ==
    ASSUME OrdersTypeOK, NEW o \in OrderIds, Payable(o), SettleOrder(o)
    PROVE  [OrdersNext]_<<stock, orders>>
<1>1. CASE CanTransition(o, "paid")
  <2>1. MarkPaid(o)
    BY <1>1 DEF SettleOrder, MarkPaid
  <2> QED
    BY <2>1 DEF OrdersNext
<1>2. CASE orders[o].status = "paid"
  <2>1. orders[o] \in OrderRecords
    BY <1>2 DEF OrdersTypeOK, NoOrder
  <2>2. orders[o] = [orders[o] EXCEPT !.status = "paid"]
    BY <1>2, <2>1 DEF OrderRecords
  <2>3. orders' = [orders EXCEPT ![o] = [orders[o] EXCEPT !.status = "paid"]]
    BY DEF SettleOrder, SetStatus
  <2>4. orders' = orders
    BY <2>2, <2>3 DEF OrdersTypeOK
  <2> QED
    BY <2>4 DEF SettleOrder
<1> QED
  BY <1>1, <1>2 DEF Payable

\* Whatever payments do, to the orders and their stock it is a step of the order context.
LEMMA StepOfOrders ==
    ASSUME PayInv, [Next]_vars
    PROVE  [OrdersNext]_<<stock, orders>>
<1>1. CASE UNCHANGED <<stock, orders>>
  BY <1>1
<1>2. CASE OrderStep
  BY <1>2 DEF OrderStep, OrdersNext
<1>3. ASSUME NEW p \in Payments,
             PayWithWallet(p) \/ SettleCaptured(p) \/ ConfirmCardToCardPayment(p)
      PROVE  [OrdersNext]_<<stock, orders>>
  <2>1. Payable(payments[p].order) /\ SettleOrder(payments[p].order)
        /\ payments[p].status # "none"
    BY <1>3, CapturedFromOpen
       DEF PayWithWallet, SettleCaptured, ConfirmCardToCardPayment, AwaitsTransfer
  <2>2. payments[p].order \in OrderIds
    BY <2>1, RealPayment DEF PayInv, PaymentRecords
  <2> QED
    BY <2>1, <2>2, SettleIsMarkPaid DEF PayInv
<1>4. CASE UNCHANGED vars
  BY <1>4 DEF vars
<1>5. ASSUME NEW p \in Payments,
             InitiationStep(p) \/ ProviderStep(p) \/ CaptureStep(p) \/ StaffStep(p)
      PROVE  [OrdersNext]_<<stock, orders>>
  BY <1>1, <1>3, <1>5
     DEF InitiationStep, BeginPayment, InitiatePayment, AbandonInitiation, ProviderStep,
         ProviderDecides, PaymentCallback, CaptureStep, Deliver, Conclude, CaptureIgnored,
         CaptureCancelled, VerifyCaptured, VerifyRefused, VerifyLost, SettleRolledBack,
         SettleFailed, WorkerCrash, StaffStep, RefundPayment, SubmitCardToCardReference,
         RejectCardToCardPayment, Unmoved
<1> QED
  BY <1>2, <1>4, <1>5 DEF Next

\* The stocked shop, with nothing ordered, satisfies the invariant of the orders.
LEMMA InitOrdersInv == Init => OrdersInv
<1> SUFFICES ASSUME Init PROVE OrdersInv
  OBVIOUS
<1> DEFINE full == [EmptyPool EXCEPT !.onHand = MaxQuantity]
<1>1. /\ full \in Pools /\ full.reserved = 0 /\ full.backordered = 0
      /\ full.reserved <= full.onHand
  <2>1. EmptyPool \in Pools /\ EmptyPool.reserved = 0 /\ EmptyPool.backordered = 0
    BY PoolAssumption DEF EmptyPool, Pools
  <2>2. MaxQuantity \in 0..MaxQuantity /\ 0 <= MaxQuantity
    BY PoolAssumption
  <2> QED
    BY <2>1, <2>2 DEF Pools
<1>2. stock = [k \in Skus |-> full]
  BY DEF Init
<1>3. PoolInv /\ \A k \in Skus : Committed(stock[k]) = 0
  <2> HIDE DEF full
  <2> QED
    BY <1>1, <1>2 DEF PoolInv, ReservedWithinOnHand, Committed
<1>4. OrdersTypeOK /\ FulfilledAsChosen
  BY DEF Init, OrdersTypeOK, FulfilledAsChosen, NoOrder
<1>5. ASSUME NEW k \in Skus PROVE Total(HeldIn(orders, k)) = 0
  <2>1. DOMAIN HeldIn(orders, k) = OrderIds /\ \A o \in OrderIds : HeldIn(orders, k)[o] = 0
    BY DEF Init, NoOrder, HeldIn
  <2> QED
    BY <2>1, TotalZero
<1> QED
  BY <1>3, <1>4, <1>5, ConservedIsCommitted DEF OrdersInv

\* The invariant of the orders, stock conservation with it, survives the payment context.
LEMMA OrdersInvUnderPayments == Spec => []OrdersInv
<1>1. PayInv /\ OrdersInv /\ [Next]_vars => OrdersInv'
  BY StepOfOrders, OrdersInvStep
<1> QED
  BY <1>1, InitOrdersInv, PayInvHolds, PTL DEF Spec

\* What holds of orders and stock on their own goes on holding while payments, captures and
\* refunds settle them: no unit leaks, and a pending order can be cancelled to the end.
THEOREM StockConservedUnderPayments == Spec => [](StockConserved /\ PendingCancellable)
<1>1. OrdersInv => StockConserved /\ PendingCancellable
  BY CancellableFromInv DEF OrdersInv
<1> QED
  BY <1>1, OrdersInvUnderPayments, PTL

\* Nor does a payment change what the buyer agreed to, or revive a finished order.
THEOREM SnapshotsUnderPayments == Spec => OrderIsSnapshot
<1>1. PayInv /\ [Next]_vars => [SnapshotStep]_<<stock, orders>>
  BY StepOfOrders, OrdersStepSnapshot DEF PayInv
<1>2. [][SnapshotStep]_<<stock, orders>> => OrderIsSnapshot
  BY PTL DEF OrderIsSnapshot, SnapshotStep
<1> QED
  BY <1>1, <1>2, PayInvHolds, PTL DEF Spec
-----------------------------------------------------------------------------
(* The wallets.  A movement belongs to a payment that is a row, of an order that exists,  *)
(* of a registered user when a wallet paid it: so its owner and its amount never change.  *)

BuyersSound ==
    \A p \in Payments : payments[p].status # "none" =>
        /\ Exists(payments[p].order)
        /\ payments[p].method = "wallet" => Owner(p) \in Users

\* What WalletFollowsPayments says of one recorded movement of user u.
FollowsPayment(u, m) ==
    /\ Persisted(m.source) /\ Owner(m.source) = u /\ Amount(m.source) = m.amount
    /\ m.kind = "debit"  => /\ payments[m.source].method = "wallet"
                            /\ payments[m.source].status \in {"captured", "refunded"}
    /\ m.kind = "credit" => payments[m.source].status = "refunded"

MovesFollow == \A u \in Users : \A m \in accounts[u].moves : FollowsPayment(u, m)

DebitOf(p) == \E m \in accounts[Owner(p)].moves : m.kind = "debit" /\ m.source = p

DebitsRecorded ==
    \A p \in Payments :
        payments[p].status = "captured" /\ payments[p].method = "wallet" => DebitOf(p)

WalletInv ==
    /\ Wallets!LedgerTypeOK
    /\ \A u \in Users : Balanced(accounts[u])
    /\ BuyersSound
    /\ MovesFollow
    /\ DebitsRecorded

\* What the rest of the system offers the wallets, in every state.
Surroundings == PayInv /\ MoneyInv /\ OrdersInv
-----------------------------------------------------------------------------
\* The owner and the total of an order that exists never change.
LEMMA BuyerKept ==
    ASSUME OrdersTypeOK, OrdersTypeOK', SnapshotStep, NEW o \in OrderIds, Exists(o)
    PROVE  /\ Exists(o)'
           /\ orders'[o].owner = orders[o].owner /\ orders'[o].total = orders[o].total
<1>1. orders[o] \in OrderRecords /\ Exists(o)'
      /\ orders'[o] = [orders[o] EXCEPT !.status = orders'[o].status]
  BY DEF OrdersTypeOK, SnapshotStep, Exists, NoOrder
<1> QED
  BY <1>1 DEF OrderRecords

\* A step that writes at most the status and the transfer of one payment: a row stays a
\* row, of its order and its method, and a settled row stays settled.
RowsKept ==
    \A p \in Payments : Persisted(p) =>
        /\ Persisted(p)'
        /\ payments'[p].order = payments[p].order
        /\ payments'[p].method = payments[p].method
        /\ payments[p].status \in Spent => payments'[p].status \in Spent
        /\ payments[p].status = "refunded" => payments'[p].status = "refunded"

\* The movements on record go on following their payments.
LEMMA RecordedFollow ==
    ASSUME Surroundings, PayInv', SnapshotStep, WalletInv, RowsKept,
           NEW u \in Users, NEW m \in accounts[u].moves
    PROVE  FollowsPayment(u, m)'
<1>1. m.source \in Payments /\ FollowsPayment(u, m)
  BY DEF WalletInv, MovesFollow, Wallets!LedgerTypeOK, Wallets!Movements
<1>2. Persisted(m.source) /\ payments[m.source].status # "none"
  BY <1>1 DEF FollowsPayment, Persisted, PaymentStatuses
<1>3. payments[m.source].order \in OrderIds /\ Exists(payments[m.source].order)
  BY <1>1, <1>2, RealPayment DEF Surroundings, PayInv, PaymentRecords, WalletInv, BuyersSound
<1>4. /\ orders'[payments[m.source].order].owner = orders[payments[m.source].order].owner
      /\ orders'[payments[m.source].order].total = orders[payments[m.source].order].total
  BY <1>3, BuyerKept DEF Surroundings, PayInv
<1>5. /\ Persisted(m.source)'
      /\ payments'[m.source].order = payments[m.source].order
      /\ payments'[m.source].method = payments[m.source].method
      /\ payments[m.source].status \in Spent => payments'[m.source].status \in Spent
      /\ payments[m.source].status = "refunded" => payments'[m.source].status = "refunded"
  BY <1>1, <1>2 DEF RowsKept
<1>6. Owner(m.source)' = u /\ Amount(m.source)' = m.amount
  BY <1>1, <1>4, <1>5 DEF FollowsPayment, Owner, Amount
<1>7. m.kind = "debit" => /\ payments'[m.source].method = "wallet"
                          /\ payments'[m.source].status \in {"captured", "refunded"}
  BY <1>1, <1>5 DEF FollowsPayment, Spent
<1>8. m.kind = "credit" => payments'[m.source].status = "refunded"
  BY <1>1, <1>5 DEF FollowsPayment
<1> QED
  BY <1>5, <1>6, <1>7, <1>8 DEF FollowsPayment

\* The debits on record stay: of each payment that was captured before the step.
LEMMA RecordedDebits ==
    ASSUME Surroundings, PayInv', SnapshotStep, WalletInv, RowsKept,
           \A u \in Users : accounts[u].moves \subseteq accounts'[u].moves,
           NEW p \in Payments, payments[p].status = "captured", payments[p].method = "wallet"
    PROVE  DebitOf(p)'
<1>1. payments[p].order \in OrderIds /\ Exists(payments[p].order) /\ Owner(p) \in Users
  BY RealPayment DEF Surroundings, PayInv, PaymentRecords, WalletInv, BuyersSound
<1>2. orders'[payments[p].order].owner = orders[payments[p].order].owner
  BY <1>1, BuyerKept DEF Surroundings, PayInv
<1>3. payments'[p].order = payments[p].order
  BY DEF RowsKept, Persisted, PaymentStatuses
<1>4. Owner(p)' = Owner(p)
  BY <1>2, <1>3 DEF Owner
<1>5. DebitOf(p)
  BY DEF WalletInv, DebitsRecorded
<1> QED
  BY <1>1, <1>4, <1>5 DEF DebitOf

\* No payment changes its order or its method; a request that begins reads its order's
\* owner, a registered user if it is a wallet payment.
BuyersStay ==
    \A p \in Payments : payments'[p].status # "none" =>
        \/ /\ payments[p].status # "none"
           /\ payments'[p].order = payments[p].order
           /\ payments'[p].method = payments[p].method
        \/ /\ payments'[p].order \in OrderIds /\ Exists(payments'[p].order)
           /\ payments'[p].method = "wallet" => orders[payments'[p].order].owner \in Users

\* No wallet payment is captured in the step.
NoWalletCapture ==
    \A p \in Payments :
        payments'[p].status = "captured" /\ payments'[p].method = "wallet" =>
            payments[p].status = "captured" /\ payments[p].method = "wallet"

\* The buyers stay sound when no payment changes them.
LEMMA BuyersKept ==
    ASSUME Surroundings, PayInv', SnapshotStep, WalletInv, BuyersStay
    PROVE  BuyersSound'
<1> SUFFICES ASSUME NEW p \in Payments, payments'[p].status # "none",
                    NEW o, o = payments'[p].order
             PROVE  /\ Exists(o)'
                    /\ payments'[p].method = "wallet" => orders'[o].owner \in Users
  BY DEF BuyersSound, Owner, Exists
<1>1. /\ o \in OrderIds /\ Exists(o)
      /\ payments'[p].method = "wallet" => orders[o].owner \in Users
  <2>1. CASE /\ payments[p].status # "none" /\ o = payments[p].order
             /\ payments'[p].method = payments[p].method
    BY <2>1, RealPayment
       DEF Surroundings, PayInv, PaymentRecords, WalletInv, BuyersSound, Owner
  <2>2. CASE /\ o \in OrderIds /\ Exists(o)
             /\ payments'[p].method = "wallet" => orders[o].owner \in Users
    BY <2>2
  <2> QED
    BY <2>1, <2>2 DEF BuyersStay
<1>2. Exists(o)' /\ orders'[o].owner = orders[o].owner
  <2>1. OrdersTypeOK /\ OrdersTypeOK'
    BY DEF Surroundings, PayInv
  <2> QED
    BY <1>1, <2>1, BuyerKept DEF Exists
<1> QED
  BY <1>1, <1>2

\* A step that moves no money in a wallet keeps the invariant.
LEMMA WalletQuiet ==
    ASSUME Surroundings, PayInv', SnapshotStep, WalletInv, UNCHANGED accounts,
           RowsKept, BuyersStay, NoWalletCapture
    PROVE  WalletInv'
<1>1. BuyersSound'
  BY BuyersKept
<1>2. MovesFollow'
  BY RecordedFollow DEF MovesFollow
<1>3. DebitsRecorded'
  BY RecordedDebits DEF DebitsRecorded, NoWalletCapture
<1>4. Wallets!LedgerTypeOK' /\ \A u \in Users : Balanced(accounts'[u])
  BY DEF WalletInv, Wallets!LedgerTypeOK
<1> QED
  BY <1>1, <1>2, <1>3, <1>4 DEF WalletInv, Balanced

\* A movement that is recorded as it is applied, of a payment that bears it out.
LEMMA WalletMoved ==
    ASSUME Surroundings, PayInv', SnapshotStep, WalletInv, RowsKept, BuyersStay,
           NEW u \in Users, NEW p \in Payments, NEW kind \in {"credit", "debit"},
           NEW amount \in Amounts, NEW after \in Int, after >= 0,
           ~Wallets!Recorded(accounts[u], p),
           NEW new, new = [kind |-> kind, amount |-> amount, source |-> p],
           after = IF kind = "credit" THEN accounts[u].balance + amount
                                      ELSE accounts[u].balance - amount,
           accounts' = [accounts EXCEPT ![u] = [balance |-> after,
                                                moves   |-> accounts[u].moves \cup {new}]],
           FollowsPayment(u, new)',
           \A q \in Payments :
               payments'[q].status = "captured" /\ payments'[q].method = "wallet" =>
                   \/ payments[q].status = "captured" /\ payments[q].method = "wallet"
                   \/ q = p /\ kind = "debit"
    PROVE  WalletInv'
<1>1. BuyersSound'
  BY BuyersKept
<1>2. /\ accounts \in [Users -> [balance : Int, moves : SUBSET Wallets!Movements]]
      /\ new \in Wallets!Movements
      /\ new.kind = kind /\ new.amount = amount /\ new.source = p
      /\ new \notin accounts[u].moves
  BY DEF WalletInv, Wallets!LedgerTypeOK, Wallets!Movements, Wallets!Recorded
<1>3. /\ Wallets!LedgerTypeOK'
      /\ accounts'[u].balance = after /\ accounts'[u].moves = accounts[u].moves \cup {new}
      /\ accounts'[u] = [balance |-> after, moves |-> accounts[u].moves \cup {new}]
      /\ \A v \in Users : v # u => accounts'[v] = accounts[v]
  BY <1>2 DEF Wallets!LedgerTypeOK
<1>4. \A v \in Users : Balanced(accounts'[v])
  <2>1. Balanced([balance |-> accounts[u].balance, moves |-> accounts[u].moves])
    BY DEF WalletInv, Balanced
  <2>2. amount \in Nat
    BY OrdersAssumption
  <2>3. Balanced([balance |-> after, moves |-> accounts[u].moves \cup {new}])
    BY <1>2, <2>1, <2>2, BalancedExtend
  <2> QED
    BY <1>3, <2>3 DEF WalletInv
<1>5. MovesFollow'
  <2> SUFFICES ASSUME NEW v \in Users, NEW m \in accounts'[v].moves
               PROVE  FollowsPayment(v, m)'
    BY DEF MovesFollow
  <2>1. CASE m \in accounts[v].moves
    BY <2>1, RecordedFollow
  <2>2. CASE m \notin accounts[v].moves
    BY <1>3, <2>2
  <2> QED
    BY <2>1, <2>2
<1>6. DebitsRecorded'
  <2> SUFFICES ASSUME NEW q \in Payments, payments'[q].status = "captured",
                      payments'[q].method = "wallet"
               PROVE  DebitOf(q)'
    BY DEF DebitsRecorded
  <2>1. CASE payments[q].status = "captured" /\ payments[q].method = "wallet"
    <3>1. \A v \in Users : accounts[v].moves \subseteq accounts'[v].moves
      BY <1>3
    <3> QED
      BY <2>1, <3>1, RecordedDebits
  <2>2. CASE q = p /\ kind = "debit"
    <3>1. Owner(q)' = u
      BY <1>2, <2>2 DEF FollowsPayment
    <3>2. new \in accounts'[u].moves /\ new.kind = "debit" /\ new.source = q
      BY <1>2, <1>3, <2>2
    <3> QED
      BY <3>1, <3>2 DEF DebitOf
  <2> QED
    BY <2>1, <2>2
<1> QED
  BY <1>1, <1>3, <1>4, <1>5, <1>6 DEF WalletInv, Balanced
-----------------------------------------------------------------------------
\* The three together.
QuietRows == RowsKept /\ BuyersStay /\ NoWalletCapture

\* A status written to a payment that is not settled, by no capture of a wallet payment.
LEMMA OpenRowWritten ==
    ASSUME PaymentsTypeOK, NEW p \in Payments, payments[p].status \notin Spent \cup {"none"},
           NEW target \in PaymentStatuses, SetPaymentStatus(p, target),
           target = "captured" => payments[p].method # "wallet"
    PROVE  QuietRows
<1>1. /\ payments'[p].status = target
      /\ payments'[p].order = payments[p].order /\ payments'[p].method = payments[p].method
      /\ \A q \in Payments : q # p => payments'[q] = payments[q]
  BY StatusSet, RealPayment
<1>2. RowsKept
  BY <1>1 DEF RowsKept, Persisted, Spent
<1>3. BuyersStay
  BY <1>1 DEF BuyersStay
<1>4. NoWalletCapture
  BY <1>1 DEF NoWalletCapture
<1> QED
  BY <1>2, <1>3, <1>4 DEF QuietRows

\* A step that writes no payment.
LEMMA RowsUntouched ==
    ASSUME UNCHANGED payments
    PROVE  QuietRows
BY DEF QuietRows, RowsKept, BuyersStay, NoWalletCapture, Persisted

\* Every step of a payment but the two that move money in a wallet.
LEMMA QuietPaymentStep ==
    ASSUME Surroundings, NEW p \in Payments,
           InitiationStep(p) \/ ProviderStep(p) \/ CaptureStep(p) \/ StaffStep(p),
           ~PayWithWallet(p), ~RefundPayment(p)
    PROVE  QuietRows
<1>0. PaymentsTypeOK
  BY DEF Surroundings, PayInv
<1>1. CASE UNCHANGED payments
  BY <1>1, RowsUntouched
<1>2. ASSUME NEW o \in OrderIds, NEW m \in Methods, BeginPayment(p, o, m) PROVE QuietRows
  <2> DEFINE r == [status |-> "initiating", order |-> o, method |-> m, transfer |-> FALSE]
  <2>1. /\ payments' = [payments EXCEPT ![p] = r] /\ payments[p].status = "none"
        /\ Exists(o) /\ (m = "wallet" => orders[o].owner \in Users)
    BY <1>2 DEF BeginPayment, NoPayment, Exists
  <2>2. /\ payments'[p] = r /\ r.order = o /\ r.method = m /\ r.status = "initiating"
        /\ \A q \in Payments : q # p => payments'[q] = payments[q]
    BY <1>0, <2>1 DEF PaymentsTypeOK
  <2>3. RowsKept
    BY <2>1, <2>2 DEF RowsKept, Persisted, PaymentStatuses
  <2>4. BuyersStay
    BY <2>1, <2>2 DEF BuyersStay
  <2>5. NoWalletCapture
    BY <2>2 DEF NoWalletCapture
  <2> QED
    BY <2>3, <2>4, <2>5 DEF QuietRows
<1>3. CASE InitiatePayment(p)
  BY <1>0, <1>3, OpenRowWritten DEF InitiatePayment, PaymentStatuses, Spent
<1>4. CASE AbandonInitiation(p)
  <2>1. /\ payments'[p].status = "none" /\ payments[p].status = "initiating"
        /\ \A q \in Payments : q # p => payments'[q] = payments[q]
    BY <1>0, <1>4 DEF AbandonInitiation, PaymentsTypeOK, NoPayment
  <2> QED
    BY <2>1 DEF QuietRows, RowsKept, BuyersStay, NoWalletCapture, Persisted, PaymentStatuses
<1>5. CASE CaptureCancelled(p)
  BY <1>0, <1>5, OpenRowWritten
     DEF CaptureCancelled, Settleable, SettleableStatuses, PaymentStatuses, Spent
<1>6. CASE SettleFailed(p)
  BY <1>0, <1>6, FailedFromOpen, OpenRowWritten DEF SettleFailed, PaymentStatuses, Spent
<1>7. CASE SettleCaptured(p)
  <2>1. payments[p].method = "online"
    BY <1>7 DEF SettleCaptured, Surroundings, MoneyInv, VerdictsSound, SessionsSound
  <2> QED
    BY <1>0, <1>7, <2>1, CapturedFromOpen, OpenRowWritten
       DEF SettleCaptured, PaymentStatuses, Spent
<1>8. CASE SubmitCardToCardReference(p)
  <2> DEFINE r == [payments[p] EXCEPT !.transfer = TRUE]
  <2>1. payments' = [payments EXCEPT ![p] = r] /\ payments[p].status = "pending"
    BY <1>8 DEF SubmitCardToCardReference, AwaitsTransfer
  <2>2. payments[p] \in PaymentRecords
    BY <1>0, <2>1, RealPayment
  <2>3. /\ r.status = payments[p].status /\ r.order = payments[p].order
        /\ r.method = payments[p].method
    BY <2>2 DEF PaymentRecords
  <2>4. \A q \in Payments : /\ payments'[q].status = payments[q].status
                            /\ payments'[q].order = payments[q].order
                            /\ payments'[q].method = payments[q].method
    BY <1>0, <2>1, <2>3 DEF PaymentsTypeOK
  <2> QED
    BY <2>4 DEF QuietRows, RowsKept, BuyersStay, NoWalletCapture, Persisted
<1>9. CASE ConfirmCardToCardPayment(p) \/ RejectCardToCardPayment(p)
  BY <1>0, <1>9, OpenRowWritten
     DEF ConfirmCardToCardPayment, RejectCardToCardPayment, AwaitsTransfer, PaymentStatuses, Spent
<1> QED
  BY <1>1, <1>2, <1>3, <1>4, <1>5, <1>6, <1>7, <1>8, <1>9
     DEF InitiationStep, ProviderStep, ProviderDecides, PaymentCallback, CaptureStep, Deliver,
         Conclude, CaptureIgnored, VerifyCaptured, VerifyRefused, VerifyLost, SettleRolledBack,
         WorkerCrash, StaffStep

\* No other step writes an account.
LEMMA AccountsUntouched ==
    ASSUME NEW p \in Payments,
           InitiationStep(p) \/ ProviderStep(p) \/ CaptureStep(p) \/ StaffStep(p),
           ~PayWithWallet(p), ~RefundPayment(p)
    PROVE  UNCHANGED accounts
BY DEF InitiationStep, BeginPayment, InitiatePayment, AbandonInitiation, ProviderStep,
       ProviderDecides, PaymentCallback, CaptureStep, Deliver, Conclude, CaptureIgnored,
       CaptureCancelled, VerifyCaptured, VerifyRefused, VerifyLost, SettleRolledBack,
       SettleCaptured, SettleFailed, WorkerCrash, StaffStep, SubmitCardToCardReference,
       ConfirmCardToCardPayment, RejectCardToCardPayment, Unmoved

\* The buyer and the amount of a payment, before and after the step that settles or
\* refunds it.
LEMMA BuyerOf ==
    ASSUME Surroundings, PayInv', SnapshotStep, WalletInv, NEW p \in Payments,
           payments[p].status # "none", payments'[p].order = payments[p].order
    PROVE  /\ Owner(p)' = Owner(p) /\ Amount(p)' = Amount(p) /\ Amount(p) \in Amounts
           /\ payments[p].order \in OrderIds
<1>1. payments[p].order \in OrderIds /\ Exists(payments[p].order)
  BY RealPayment DEF Surroundings, PayInv, PaymentRecords, WalletInv, BuyersSound
<1>2. orders[payments[p].order] \in OrderRecords
  BY <1>1 DEF Surroundings, PayInv, OrdersTypeOK, Exists, NoOrder
<1>3. /\ orders'[payments[p].order].owner = orders[payments[p].order].owner
      /\ orders'[payments[p].order].total = orders[payments[p].order].total
  BY <1>1, BuyerKept DEF Surroundings, PayInv
<1>4. Amount(p) \in Amounts
  BY <1>2 DEF Amount, OrderRecords
<1> QED
  BY <1>1, <1>3, <1>4 DEF Owner, Amount

\* A wallet payment debits what it pays: none of its movements is on record yet, because
\* no movement precedes its payment's row.
LEMMA PayWithWalletFollows ==
    ASSUME Surroundings, PayInv', SnapshotStep, WalletInv, NEW p \in Payments, PayWithWallet(p)
    PROVE  WalletInv'
<1>0. PaymentsTypeOK
  BY DEF Surroundings, PayInv
<1>1. /\ payments[p].status = "initiating" /\ payments[p].method = "wallet"
      /\ SetPaymentStatus(p, "captured") /\ Wallets!Debit(Owner(p), Amount(p), p)
  BY DEF PayWithWallet
<1>2. /\ payments'[p].status = "captured"
      /\ payments'[p].order = payments[p].order /\ payments'[p].method = "wallet"
      /\ \A q \in Payments : q # p => payments'[q] = payments[q]
  BY <1>0, <1>1, StatusSet, RealPayment DEF PaymentStatuses
<1>3. Owner(p)' = Owner(p) /\ Amount(p)' = Amount(p) /\ Amount(p) \in Amounts
  BY <1>1, <1>2, BuyerOf
<1>4. PICK u \in Users : u = Owner(p)
  BY <1>1 DEF WalletInv, BuyersSound
<1>5. PICK amount \in Amounts : amount = Amount(p)
  BY <1>3
<1>6. PICK new : new = [kind |-> "debit", amount |-> amount, source |-> p]
  OBVIOUS
<1>7. ~Wallets!Recorded(accounts[u], p)
  BY <1>1 DEF Wallets!Recorded, WalletInv, MovesFollow, FollowsPayment, Persisted,
              PaymentStatuses
<1>8. PICK after : after = accounts[u].balance - amount
  OBVIOUS
<1>9. /\ accounts[u].balance \in Int /\ amount \in Int
      /\ amount <= accounts[u].balance
      /\ accounts' = [accounts EXCEPT ![u] = [balance |-> after,
                                              moves   |-> accounts[u].moves \cup {new}]]
  <2>1. amount \in Int /\ accounts[u].balance \in Int
    BY OrdersAssumption DEF WalletInv, Wallets!LedgerTypeOK
  <2>2. Wallets!CanDebit(accounts[u], amount, p)
    BY <1>1, <1>4, <1>5 DEF Wallets!Debit
  <2>3. accounts' = [accounts EXCEPT ![u] = Wallets!Debited(accounts[u], amount, p)]
    BY <1>1, <1>4, <1>5 DEF Wallets!Debit
  <2> QED
    BY <1>6, <1>7, <1>8, <2>1, <2>2, <2>3 DEF Wallets!CanDebit, Wallets!Debited
<1>10. after \in Int /\ after >= 0
  BY <1>8, <1>9
<1>11. FollowsPayment(u, new)'
  BY <1>2, <1>3, <1>4, <1>5, <1>6 DEF FollowsPayment, Persisted, PaymentStatuses
<1>12. RowsKept
  BY <1>1, <1>2 DEF RowsKept, Persisted, PaymentStatuses
<1>13. BuyersStay
  BY <1>1, <1>2 DEF BuyersStay
<1>14. \A q \in Payments :
           payments'[q].status = "captured" /\ payments'[q].method = "wallet" =>
               (payments[q].status = "captured" /\ payments[q].method = "wallet") \/ q = p
  BY <1>2
<1> QED
  BY <1>6, <1>7, <1>8, <1>9, <1>10, <1>11, <1>12, <1>13, <1>14, WalletMoved

\* A refund credits the payment once; a wallet payment already has a movement on record,
\* its debit, and the wallet answers with that one.
LEMMA RefundFollows ==
    ASSUME Surroundings, PayInv', SnapshotStep, WalletInv, NEW p \in Payments, RefundPayment(p)
    PROVE  WalletInv'
<1>0. PaymentsTypeOK
  BY DEF Surroundings, PayInv
<1>1. /\ payments[p].status = "captured" /\ Owner(p) \in Users
      /\ SetPaymentStatus(p, "refunded") /\ Wallets!Credit(Owner(p), Amount(p), p)
  BY RefundedFromCaptured DEF RefundPayment
<1>2. /\ payments'[p].status = "refunded"
      /\ payments'[p].order = payments[p].order /\ payments'[p].method = payments[p].method
      /\ \A q \in Payments : q # p => payments'[q] = payments[q]
  BY <1>0, <1>1, StatusSet, RealPayment DEF PaymentStatuses
<1>3. Owner(p)' = Owner(p) /\ Amount(p)' = Amount(p) /\ Amount(p) \in Amounts
  BY <1>1, <1>2, BuyerOf
<1>4. PICK u \in Users : u = Owner(p)
  BY <1>1
<1>5. PICK amount \in Amounts : amount = Amount(p)
  BY <1>3
<1>6. RowsKept
  BY <1>1, <1>2 DEF RowsKept, Persisted, PaymentStatuses, Spent
<1>7. BuyersStay
  BY <1>1, <1>2 DEF BuyersStay
<1>8. NoWalletCapture
  BY <1>2 DEF NoWalletCapture
<1>9. /\ Wallets!CanCredit(accounts[u], amount, p)
      /\ accounts' = [accounts EXCEPT ![u] = Wallets!Credited(accounts[u], amount, p)]
  BY <1>1, <1>4, <1>5 DEF Wallets!Credit
<1>10. CASE Wallets!Recorded(accounts[u], p)
  <2>1. accounts' = accounts
    BY <1>9, <1>10 DEF Wallets!Credited, WalletInv, Wallets!LedgerTypeOK
  <2> QED
    BY <1>6, <1>7, <1>8, <2>1, WalletQuiet
<1>11. CASE ~Wallets!Recorded(accounts[u], p)
  <2>1. PICK new : new = [kind |-> "credit", amount |-> amount, source |-> p]
    OBVIOUS
  <2>2. PICK after : after = accounts[u].balance + amount
    OBVIOUS
  <2>3. accounts' = [accounts EXCEPT ![u] = [balance |-> after,
                                             moves   |-> accounts[u].moves \cup {new}]]
    BY <1>9, <1>11, <2>1, <2>2 DEF Wallets!Credited
  <2>4. after \in Int /\ after >= 0
    <3>1. accounts[u].balance \in Int /\ accounts[u].balance >= 0 /\ amount \in Nat
      BY OrdersAssumption DEF WalletInv, Wallets!LedgerTypeOK, Balanced
    <3> QED
      BY <2>2, <3>1
  <2>5. FollowsPayment(u, new)'
    BY <1>2, <1>3, <1>4, <1>5, <2>1 DEF FollowsPayment, Persisted, PaymentStatuses
  <2>6. \A q \in Payments :
            payments'[q].status = "captured" /\ payments'[q].method = "wallet" =>
                payments[q].status = "captured" /\ payments[q].method = "wallet"
    BY <1>8 DEF NoWalletCapture
  <2> QED
    BY <1>6, <1>7, <1>11, <2>1, <2>2, <2>3, <2>4, <2>5, <2>6, WalletMoved
<1> QED
  BY <1>10, <1>11
-----------------------------------------------------------------------------
\* The provider's side, the orders and the payments together, in every reachable state.
LEMMA SurroundingsHold == Spec => []Surroundings
BY PayInvHolds, MoneyInvHolds, OrdersInvUnderPayments, PTL DEF Surroundings

\* The wallets' invariant holds in every reachable state.
LEMMA WalletInvHolds == Spec => []WalletInv
<1>1. Init => WalletInv
  <2> SUFFICES ASSUME Init PROVE WalletInv
    OBVIOUS
  <2>1. accounts = [u \in Users |-> [balance |-> 0, moves |-> {}]]
    BY DEF Init, Wallets!LedgerInit
  <2>2. Wallets!LedgerTypeOK /\ \A u \in Users : Balanced(accounts[u])
    BY <2>1, BalancedEmpty DEF Wallets!LedgerTypeOK
  <2> QED
    BY <2>1, <2>2 DEF Init, WalletInv, BuyersSound, MovesFollow, DebitsRecorded, NoPayment
<1>2. Surroundings /\ PayInv' /\ WalletInv /\ [Next]_vars => WalletInv'
  <2> SUFFICES ASSUME Surroundings, PayInv', WalletInv, [Next]_vars PROVE WalletInv'
    OBVIOUS
  <2>1. SnapshotStep
    BY StepOfOrders, OrdersStepSnapshot DEF Surroundings, PayInv
  <2>2. CASE OrderStep \/ UNCHANGED vars
    <3>1. UNCHANGED <<payments, accounts>>
      BY <2>2 DEF OrderStep, vars
    <3> QED
      BY <2>1, <3>1, RowsUntouched, WalletQuiet DEF QuietRows
  <2>3. ASSUME NEW p \in Payments,
               InitiationStep(p) \/ ProviderStep(p) \/ CaptureStep(p) \/ StaffStep(p)
        PROVE  WalletInv'
    <3>1. CASE PayWithWallet(p)
      BY <2>1, <3>1, PayWithWalletFollows
    <3>2. CASE RefundPayment(p)
      BY <2>1, <3>2, RefundFollows
    <3>3. CASE ~PayWithWallet(p) /\ ~RefundPayment(p)
      BY <2>1, <2>3, <3>3, QuietPaymentStep, AccountsUntouched, WalletQuiet DEF QuietRows
    <3> QED
      BY <3>1, <3>2, <3>3
  <2> QED
    BY <2>2, <2>3 DEF Next
<1>3. Surroundings => PayInv
  BY DEF Surroundings
<1> QED
  BY <1>1, <1>2, <1>3, SurroundingsHold, PTL DEF Spec

\* The sum of a wallet's movements of one kind, as module Ledger writes it.
LEMMA MovedIsTotal ==
    ASSUME NEW u \in Users, NEW kind
    PROVE  Wallets!Moved(u, kind) = Total(OfKind(accounts[u].moves, kind))
<1>1. \A f : Wallets!Total(f) = Total(f)
  BY Zenon DEF Wallets!Total, Wallets!Units, Wallets!Cardinality, Total, Units, Cardinality
<1>2. Wallets!Moved(u, kind) = Wallets!Total(OfKind(accounts[u].moves, kind))
  BY DEF Wallets!Moved, OfKind
<1> QED
  BY <1>1, <1>2

\* Wallets move exactly when payments do, each by its payment's amount, and no balance
\* departs from its movements -- whatever else settles, is refunded or fails meanwhile.
THEOREM WalletsFollowPayments == Spec => []WalletFollowsPayments
<1>1. WalletInv => WalletFollowsPayments
  <2> SUFFICES ASSUME WalletInv PROVE WalletFollowsPayments
    OBVIOUS
  <2>1. Wallets!BalanceIsLedger
    BY MovedIsTotal DEF WalletInv, Balanced, Wallets!BalanceIsLedger
  <2> QED
    BY <2>1 DEF WalletFollowsPayments, WalletInv, MovesFollow, FollowsPayment, DebitsRecorded,
                DebitOf
<1> QED
  BY <1>1, WalletInvHolds, PTL
-----------------------------------------------------------------------------
(* Payments use the orders and the wallets only through what those promise.               *)

\* Whatever a payment does, its step is one of the order context, or of no order and no
\* stock (Payable, SettleOrder and their likes are called, never written around).
THEOREM SettlementKeepsToOrders == Spec => [][OrdersNext]_<<stock, orders>>
<1>1. PayInv /\ [Next]_vars => [OrdersNext]_<<stock, orders>>
  BY StepOfOrders
<1> QED
  BY <1>1, PayInvHolds, PTL DEF Spec

\* A payment and a refund move an account as the ledger does.
LEMMA StepOfLedger ==
    ASSUME Surroundings, WalletInv, [Next]_vars
    PROVE  [Wallets!LedgerNext]_accounts
<1>1. CASE OrderStep \/ UNCHANGED vars
  BY <1>1 DEF OrderStep, vars
<1>2. ASSUME NEW p \in Payments, payments[p].status # "none"
      PROVE  Amount(p) \in Amounts
  <2>1. payments[p].order \in OrderIds /\ Exists(payments[p].order)
    BY <1>2, RealPayment DEF Surroundings, PayInv, PaymentRecords, WalletInv, BuyersSound
  <2>2. orders[payments[p].order] \in OrderRecords
    BY <2>1 DEF Surroundings, PayInv, OrdersTypeOK, Exists, NoOrder
  <2> QED
    BY <2>2 DEF Amount, OrderRecords
<1>3. ASSUME NEW p \in Payments, PayWithWallet(p)
      PROVE  Wallets!LedgerNext
  <2>1. /\ Owner(p) \in Users /\ Amount(p) \in Amounts
        /\ Wallets!Debit(Owner(p), Amount(p), p)
    BY <1>2, <1>3 DEF PayWithWallet, WalletInv, BuyersSound
  <2> QED
    BY <2>1 DEF Wallets!LedgerNext
<1>4. ASSUME NEW p \in Payments, RefundPayment(p)
      PROVE  Wallets!LedgerNext
  <2>1. /\ Owner(p) \in Users /\ Amount(p) \in Amounts
        /\ Wallets!Credit(Owner(p), Amount(p), p)
    BY <1>2, <1>4, RefundedFromCaptured DEF RefundPayment, Surroundings
  <2> QED
    BY <2>1 DEF Wallets!LedgerNext
<1>5. ASSUME NEW p \in Payments,
             InitiationStep(p) \/ ProviderStep(p) \/ CaptureStep(p) \/ StaffStep(p)
      PROVE  [Wallets!LedgerNext]_accounts
  BY <1>3, <1>4, <1>5, AccountsUntouched
<1> QED
  BY <1>1, <1>5 DEF Next

\* The wallets of a payment system are a ledger of store credit: every debit is covered and
\* every source moves an account once, as WalletImplementsLedger shows of the wallet's own
\* transactions (PayWithWallet, RefundPayment).
THEOREM SettlementKeepsToLedger == Spec => Wallets!LedgerSpec
<1>1. Init => Wallets!LedgerInit
  BY DEF Init
<1>2. Surroundings /\ WalletInv /\ [Next]_vars => [Wallets!LedgerNext]_accounts
  BY StepOfLedger
<1> QED
  BY <1>1, <1>2, SurroundingsHold, WalletInvHolds, PTL DEF Spec, Wallets!LedgerSpec
-----------------------------------------------------------------------------
\* What waits in the broker is a capture message, however often it is redelivered.
LEMMA QueueTyped == Spec => [](queue \subseteq Messages)
<1>1. Init => queue \subseteq Messages
  BY DEF Init
<1>2. queue \subseteq Messages /\ [Next]_vars => (queue \subseteq Messages)'
  <2> SUFFICES ASSUME queue \subseteq Messages, [Next]_vars PROVE queue' \subseteq Messages
    OBVIOUS
  <2>1. ASSUME NEW p \in Payments, NEW ok \in BOOLEAN, PaymentCallback(p, ok)
        PROVE  queue' \subseteq Messages
    <3>1. queue' = queue \cup {[payment |-> p, succeeded |-> ok]}
      BY <2>1, Zenon DEF PaymentCallback, Message
    <3>2. [payment |-> p, succeeded |-> ok] \in Messages
      BY Zenon DEF Messages
    <3> QED
      BY <3>1, <3>2, Zenon
  <2>2. CASE queue' \subseteq queue
    BY <2>2
  <2> QED
    BY <2>1, <2>2
       DEF Next, vars, OrderStep, InitiationStep, BeginPayment, InitiatePayment, PayWithWallet,
           AbandonInitiation, ProviderStep, ProviderDecides, CaptureStep, Deliver, Conclude,
           CaptureIgnored, CaptureCancelled, VerifyCaptured, VerifyRefused, VerifyLost,
           SettleCaptured, SettleRolledBack, SettleFailed, WorkerCrash, StaffStep, RefundPayment,
           SubmitCardToCardReference, ConfirmCardToCardPayment, RejectCardToCardPayment,
           Acknowledge
<1> QED
  BY <1>1, <1>2, PTL DEF Spec

\* Every table stays well typed: stock, orders, payments, sessions, queue, wallets.
THEOREM SettlementTyped == Spec => []TypeOK
<1>1. Surroundings /\ WalletInv /\ queue \subseteq Messages => TypeOK
  BY DEF Surroundings, PayInv, MoneyInv, OrdersInv, PoolInv, StockTypeOK, PaymentsTypeOK,
         WalletInv, TypeOK
<1> QED
  BY <1>1, SurroundingsHold, WalletInvHolds, QueueTyped, PTL
=============================================================================
