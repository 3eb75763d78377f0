----------------------------- MODULE Settlement -----------------------------
(***************************************************************************)
(* The payment context and everything it settles: orders, their payments,  *)
(* the online provider, the Celery queue that captures online payments, and*)
(* the wallets.  Payments are started by concurrent requests whose checks  *)
(* of the order and of its active payment are unlocked reads; a capture    *)
(* calls the provider in the middle of a transaction that holds only the   *)
(* payment's row.  Those moments are actions of their own here; what       *)
(* happens under locks, up to the commit, is one action.                   *)
(***************************************************************************)
EXTENDS Orders

CONSTANTS Payments,   \* payment references that may be generated
          Users       \* the owners that are registered users (the others are guests)

ASSUME SettlementAssumption == Users \subseteq Owners

VARIABLES payments,   \* payment reference -> the payment
          sessions,   \* payment reference -> its session at the online provider
          queue,      \* messages of capture_online_payment not yet acknowledged
          verdicts,   \* payment -> what the provider answered to the capture that
                      \* holds the payment's row, or "none"
          accounts    \* user -> wallet, as module Ledger has it

vars == <<stock, orders, payments, sessions, queue, verdicts, accounts>>

Wallets == INSTANCE Ledger WITH Sources <- Payments, Values <- Amounts

Methods == {"cod", "card_to_card", "online", "wallet"}

PaymentStatuses ==
    {"pending", "authorized", "captured", "failed", "cancelled", "voided", "refunded"}

\* The state machine of a payment (_ALLOWED_TRANSITIONS).
PaymentTransitions ==
    [pending    |-> {"authorized", "captured", "failed", "cancelled"},
     authorized |-> {"captured", "voided", "failed"},
     captured   |-> {"refunded"},
     failed     |-> {}, cancelled |-> {}, voided |-> {}, refunded |-> {}]

ActiveStatuses     == {"pending", "authorized", "captured"}
SettleableStatuses == {"pending", "authorized"}

\* "initiating" is no row: a request that read the order and found no active payment, and
\* has yet to insert its payment.  The amount is the order's total, which never changes.
NoPayment == [status |-> "none"]

PaymentRecords == [status : PaymentStatuses \cup {"initiating"}, order : OrderIds,
                   method : Methods, transfer : BOOLEAN]

\* A session is open until the shopper approves it; one they cancel is never approved.
SessionStates == {"none", "open", "approved", "captured"}

Messages == [payment : Payments, succeeded : BOOLEAN]

TypeOK ==
    /\ StockTypeOK
    /\ OrdersTypeOK
    /\ payments \in [Payments -> PaymentRecords \cup {NoPayment}]
    /\ sessions \in [Payments -> SessionStates]
    /\ queue \subseteq Messages
    /\ verdicts \in [Payments -> {"none", "captured", "refused"}]
    /\ Wallets!LedgerTypeOK

\* A stocked shop, nothing ordered, no wallets.
Init ==
    /\ stock = [k \in Skus |-> [EmptyPool EXCEPT !.onHand = MaxQuantity]]
    /\ orders = [o \in OrderIds |-> NoOrder]
    /\ payments = [p \in Payments |-> NoPayment]
    /\ sessions = [p \in Payments |-> "none"]
    /\ queue = {}
    /\ verdicts = [p \in Payments |-> "none"]
    /\ Wallets!LedgerInit
-----------------------------------------------------------------------------
Owner(p)  == orders[payments[p].order].owner
Amount(p) == orders[payments[p].order].total

\* The row exists (a request still initiating has none).
Persisted(p) == payments[p].status \in PaymentStatuses

IsActive(p, o) == payments[p].status \in ActiveStatuses /\ payments[p].order = o

HasActivePayment(o) == \E p \in Payments : IsActive(p, o)

CanMove(p, target) ==
    Persisted(p) /\ target \in PaymentTransitions[payments[p].status]

SetPaymentStatus(p, target) == payments' = [payments EXCEPT ![p].status = target]

\* mark_paid under the order's lock: an order already paid is left as it is, any other
\* order must be able to become paid or the whole transaction rolls back.
Payable(o) == orders[o].status = "paid" \/ CanTransition(o, "paid")

SettleOrder(o) == SetStatus(o, "paid") /\ UNCHANGED stock

Unmoved == UNCHANGED <<stock, orders, accounts>>
-----------------------------------------------------------------------------
\* InitiatePayment and PayWithWallet check, without a lock, that the order is pending
\* and has no active payment.
BeginPayment(p, o, method) ==
    /\ payments[p] = NoPayment
    /\ orders[o].status = "pending"
    /\ ~HasActivePayment(o)
    /\ method = "wallet" => orders[o].owner \in Users
    /\ payments' = [payments EXCEPT ![p] = [status |-> "initiating", order |-> o,
                                            method |-> method, transfer |-> FALSE]]
    /\ Unmoved /\ UNCHANGED <<sessions, queue, verdicts>>

\* Mutant of InitiatePayment: the unique constraint is missing.
InitiateUnguarded(p) ==
    /\ payments[p].status = "initiating" /\ payments[p].method # "wallet"
    /\ SetPaymentStatus(p, "pending")
    /\ sessions' = IF payments[p].method = "online"
                   THEN [sessions EXCEPT ![p] = "open"] ELSE sessions
    /\ Unmoved /\ UNCHANGED <<queue, verdicts>>

\* InitiatePayment inserts the payment, guarded by uniq_active_payment_per_order; an
\* online payment has got its session from the provider by then.
InitiatePayment(p) ==
    /\ payments[p].status = "initiating" /\ payments[p].method # "wallet"
    /\ ~HasActivePayment(payments[p].order)
    /\ SetPaymentStatus(p, "pending")
    /\ sessions' = IF payments[p].method = "online"
                   THEN [sessions EXCEPT ![p] = "open"] ELSE sessions
    /\ Unmoved /\ UNCHANGED <<queue, verdicts>>

\* PayWithWallet: insert, debit, capture and mark the order paid in one transaction.
PayWithWallet(p) ==
    LET o == payments[p].order
        u == Owner(p)
    IN
    /\ payments[p].status = "initiating" /\ payments[p].method = "wallet"
    /\ ~HasActivePayment(o)
    /\ Wallets!Debit(u, Amount(p), p)
    /\ SetPaymentStatus(p, "captured")
    /\ Payable(o) /\ SettleOrder(o)
    /\ UNCHANGED <<sessions, queue, verdicts>>

\* A refused or failed initiation leaves nothing behind.
AbandonInitiation(p) ==
    /\ payments[p].status = "initiating"
    /\ payments' = [payments EXCEPT ![p] = NoPayment]
    /\ Unmoved /\ UNCHANGED <<sessions, queue, verdicts>>
-----------------------------------------------------------------------------
\* The shopper approves the payment on the provider's page.
ProviderDecides(p) ==
    /\ sessions[p] = "open"
    /\ sessions' = [sessions EXCEPT ![p] = "approved"]
    /\ Unmoved /\ UNCHANGED <<payments, queue, verdicts>>

Message(p, ok) == [payment |-> p, succeeded |-> ok]

\* The callback enqueues a capture each time it is loaded, with the status of the address
\* that was loaded: a shopper who pays in one tab, cancels in another and reloads both
\* sends either status at any time, whatever the session has come to.
PaymentCallback(p, ok) ==
    /\ sessions[p] # "none"
    /\ queue' = queue \cup {Message(p, ok)}
    /\ Unmoved /\ UNCHANGED <<payments, sessions, verdicts>>

Acknowledge(p, ok) == queue' = queue \ {Message(p, ok)}

\* A worker takes the message and locks the payment's row: no capture holds it.
Delivered(p, ok) == Message(p, ok) \in queue /\ verdicts[p] = "none"

Settleable(p) == payments[p].status \in SettleableStatuses

\* Already settled: the message is dropped, nothing changes.
CaptureIgnored(p, ok) ==
    /\ Delivered(p, ok) /\ ~Settleable(p)
    /\ Acknowledge(p, ok)
    /\ Unmoved /\ UNCHANGED <<payments, sessions, verdicts>>

\* The redirect said that the shopper cancelled: the payment fails without a verify.
CaptureCancelled(p) ==
    /\ Delivered(p, FALSE) /\ Settleable(p)
    /\ SetPaymentStatus(p, "failed")
    /\ Acknowledge(p, FALSE)
    /\ Unmoved /\ UNCHANGED <<sessions, verdicts>>

\* Mutant of VerifyCaptured: the redirect's word is taken for the provider's.
VerifyTrusted(p) ==
    /\ Delivered(p, TRUE) /\ Settleable(p)
    /\ verdicts' = [verdicts EXCEPT ![p] = "captured"]
    /\ Unmoved /\ UNCHANGED <<payments, sessions, queue>>

\* verify: the provider captures the money of an approved session, or says again that it
\* did (code 101); or refuses.  The transaction goes on holding the payment's row.
VerifyCaptured(p) ==
    /\ Delivered(p, TRUE) /\ Settleable(p)
    /\ sessions[p] \in {"approved", "captured"}
    /\ sessions' = [sessions EXCEPT ![p] = "captured"]
    /\ verdicts' = [verdicts EXCEPT ![p] = "captured"]
    /\ Unmoved /\ UNCHANGED <<payments, queue>>

VerifyRefused(p) ==
    /\ Delivered(p, TRUE) /\ Settleable(p)
    /\ sessions[p] \in {"open", "approved"}
    /\ verdicts' = [verdicts EXCEPT ![p] = "refused"]
    /\ Unmoved /\ UNCHANGED <<payments, sessions, queue>>

\* The call to the provider fails: the transaction rolls back and the task swallows the
\* error.  The request may or may not have reached the provider.
VerifyLost(p) ==
    /\ Delivered(p, TRUE) /\ Settleable(p)
    /\ sessions[p] # "none"
    /\ \/ UNCHANGED sessions
       \/ /\ sessions[p] = "approved"
          /\ sessions' = [sessions EXCEPT ![p] = "captured"]
    /\ Acknowledge(p, TRUE)
    /\ Unmoved /\ UNCHANGED <<payments, verdicts>>

\* Mutant of EndCapture: an answer that is not one of verify's.
EndCaptureUnknown(p) == verdicts' = [verdicts EXCEPT ![p] = "unknown"]

EndCapture(p) == verdicts' = [verdicts EXCEPT ![p] = "none"]

\* The money was captured: payment captured and order paid, in the same transaction.
SettleCaptured(p) ==
    /\ verdicts[p] = "captured"
    /\ CanMove(p, "captured") /\ SetPaymentStatus(p, "captured")
    /\ Payable(payments[p].order) /\ SettleOrder(payments[p].order)
    /\ EndCapture(p) /\ Acknowledge(p, TRUE)
    /\ UNCHANGED <<sessions, accounts>>

\* Mutant of SettleRolledBack: the order's refusal is swallowed inside the transaction.
SettleDespiteOrder(p) ==
    /\ verdicts[p] = "captured"
    /\ ~Payable(payments[p].order)
    /\ SetPaymentStatus(p, "captured")
    /\ EndCapture(p) /\ Acknowledge(p, TRUE)
    /\ Unmoved /\ UNCHANGED sessions

\* Mutant of SettleRolledBack: the error is raised, so the message is delivered again.
SettleRaised(p) ==
    /\ verdicts[p] = "captured"
    /\ ~Payable(payments[p].order)
    /\ EndCapture(p)
    /\ Unmoved /\ UNCHANGED <<payments, sessions, queue>>

\* The order can no longer be paid: everything rolls back, the task swallows the error.
SettleRolledBack(p) ==
    /\ verdicts[p] = "captured"
    /\ ~Payable(payments[p].order)
    /\ EndCapture(p) /\ Acknowledge(p, TRUE)
    /\ Unmoved /\ UNCHANGED <<payments, sessions>>

SettleFailed(p) ==
    /\ verdicts[p] = "refused"
    /\ CanMove(p, "failed") /\ SetPaymentStatus(p, "failed")
    /\ EndCapture(p) /\ Acknowledge(p, TRUE)
    /\ Unmoved /\ UNCHANGED sessions

\* The worker dies: its transaction rolls back and the message, not acknowledged
\* (CELERY_TASK_ACKS_LATE), is delivered again.
WorkerCrash(p) ==
    /\ verdicts[p] # "none"
    /\ EndCapture(p)
    /\ Unmoved /\ UNCHANGED <<payments, sessions, queue>>
-----------------------------------------------------------------------------
\* Mutant of RefundPayment: the payment's new status is not saved.
RefundUnsaved(p) ==
    /\ CanMove(p, "refunded")
    /\ Owner(p) \in Users
    /\ Wallets!Credit(Owner(p), Amount(p), p)
    /\ UNCHANGED <<stock, orders, payments, sessions, queue, verdicts>>

\* Staff refund a captured payment of a user to their wallet.
RefundPayment(p) ==
    /\ CanMove(p, "refunded")
    /\ Owner(p) \in Users
    /\ SetPaymentStatus(p, "refunded")
    /\ Wallets!Credit(Owner(p), Amount(p), p)
    /\ UNCHANGED <<stock, orders, sessions, queue, verdicts>>

AwaitsTransfer(p) == payments[p].status = "pending" /\ payments[p].method = "card_to_card"

\* The buyer reports the transfer of their open card-to-card payment, once.
SubmitCardToCardReference(p) ==
    /\ AwaitsTransfer(p) /\ ~payments[p].transfer
    /\ payments' = [payments EXCEPT ![p].transfer = TRUE]
    /\ Unmoved /\ UNCHANGED <<sessions, queue, verdicts>>

\* Mutant of ConfirmCardToCardPayment: a payment that is not open any more pays too.
ConfirmLate(p) ==
    /\ payments[p].status # "none" /\ payments[p].method = "card_to_card"
    /\ payments[p].transfer
    /\ Payable(payments[p].order) /\ SettleOrder(payments[p].order)
    /\ UNCHANGED <<payments, sessions, queue, verdicts, accounts>>

\* Staff confirm a reported transfer, which captures the payment and pays the order...
ConfirmCardToCardPayment(p) ==
    /\ AwaitsTransfer(p) /\ payments[p].transfer
    /\ SetPaymentStatus(p, "captured")
    /\ Payable(payments[p].order) /\ SettleOrder(payments[p].order)
    /\ UNCHANGED <<sessions, queue, verdicts, accounts>>

\* Mutants of RejectCardToCardPayment: of any method; in any status.
RejectAnyMethod(p) ==
    /\ payments[p].status = "pending"
    /\ SetPaymentStatus(p, "failed")
    /\ Unmoved /\ UNCHANGED <<sessions, queue, verdicts>>

RejectAnyStatus(p) ==
    /\ Persisted(p) /\ payments[p].method = "card_to_card"
    /\ SetPaymentStatus(p, "failed")
    /\ Unmoved /\ UNCHANGED <<sessions, queue, verdicts>>

\* ... or reject it, reported or not.
RejectCardToCardPayment(p) ==
    /\ AwaitsTransfer(p)
    /\ SetPaymentStatus(p, "failed")
    /\ Unmoved /\ UNCHANGED <<sessions, queue, verdicts>>
-----------------------------------------------------------------------------
OrderStep ==
    /\ \E o \in OrderIds : PlaceAnyOrder(o) \/ CancelOrder(o) \/ Fulfilment(o)
    /\ UNCHANGED <<payments, sessions, queue, verdicts, accounts>>

InitiationStep(p) ==
    \/ \E o \in OrderIds, m \in Methods : BeginPayment(p, o, m)
    \/ InitiatePayment(p) \/ PayWithWallet(p) \/ AbandonInitiation(p)

ProviderStep(p) ==
    \/ ProviderDecides(p)
    \/ \E ok \in BOOLEAN : PaymentCallback(p, ok)

\* A worker takes up a message: it answers it, or gets the provider's verdict first.
Deliver(p, ok) ==
    \/ CaptureIgnored(p, ok)
    \/ ~ok /\ CaptureCancelled(p)
    \/ ok /\ (VerifyCaptured(p) \/ VerifyRefused(p) \/ VerifyLost(p))

\* The verdict is acted upon and the transaction ends.
Conclude(p) == SettleCaptured(p) \/ SettleRolledBack(p) \/ SettleFailed(p)

CaptureStep(p) == (\E ok \in BOOLEAN : Deliver(p, ok)) \/ Conclude(p) \/ WorkerCrash(p)

StaffStep(p) ==
    \/ RefundPayment(p)
    \/ SubmitCardToCardReference(p)
    \/ ConfirmCardToCardPayment(p) \/ RejectCardToCardPayment(p)

Next ==
    \/ OrderStep
    \/ \E p \in Payments :
           InitiationStep(p) \/ ProviderStep(p) \/ CaptureStep(p) \/ StaffStep(p)

Spec == Init /\ [][Next]_vars

\* The broker's queue is first in, first out, so a message that can be taken up again and
\* again between the captures of others is taken up; and workers do not die in every single
\* capture: the broker redelivers until one is acknowledged.  Nothing is assumed of
\* shoppers, the provider's answers or staff.
CaptureFairness ==
    \A p \in Payments : /\ \A ok \in BOOLEAN : SF_vars(Deliver(p, ok))
                        /\ SF_vars(Conclude(p))

FairSpec == Spec /\ CaptureFairness
-----------------------------------------------------------------------------
Settled(o) == orders[o].status \in {"paid", "fulfilled", "ready_for_pickup", "picked_up"}

\* "At most one active payment per order": however initiations race, an order never has
\* two payments that are pending or captured, so it is never charged twice at once.
OneActivePayment ==
    \A p, q \in Payments :
        payments[p].status \in ActiveStatuses /\ IsActive(q, payments[p].order) => p = q

\* A captured payment's order is paid or already on its way -- never pending, and never
\* cancelled, however the capture raced with the shopper's cancellation.
CapturedIsSettled ==
    \A p \in Payments : payments[p].status \in {"captured", "refunded"}
                            => Settled(payments[p].order)

\* No order is handed over, prepared or marked paid without a payment that was captured.
SettledWasPaid ==
    \A o \in OrderIds : Settled(o) =>
        \E p \in Payments : /\ payments[p].status \in {"captured", "refunded"}
                            /\ payments[p].order = o

\* Nothing is marked captured on the word of a redirect: an online payment is captured, or
\* refunded, only if the provider captured its money ("a spoofed 'success' cannot capture
\* without the gateway's confirmation") -- though any status may be sent at any time.
CaptureConfirmed ==
    \A p \in Payments :
        payments[p].status \in {"captured", "refunded"} /\ payments[p].method = "online"
            => sessions[p] = "captured"

\* Money the provider has captured is written off in one way only: a redirect that said the
\* shopper cancelled is believed without a verify.  No lost answer, refusal, redelivery,
\* dead worker or decision of staff closes a payment whose money the provider holds.
ProviderMoneyKept ==
    [][\A p \in Payments :
          /\ sessions[p] = "captured"
          /\ payments[p].status \in {"pending", "captured", "refunded"}
          => \/ payments'[p].status \in {"pending", "captured", "refunded"}
             \/ Message(p, FALSE) \in queue \ queue']_vars

\* Wallets move exactly when payments do: a debit belongs to a wallet payment of that user
\* that was captured, a credit to a refunded payment, each of the payment's amount; and
\* every captured wallet payment was debited.
WalletFollowsPayments ==
    /\ Wallets!BalanceIsLedger
    /\ \A u \in Users : \A m \in accounts[u].moves :
          LET p == m.source IN
          /\ Persisted(p) /\ Owner(p) = u /\ Amount(p) = m.amount
          /\ m.kind = "debit"  => /\ payments[p].method = "wallet"
                                  /\ payments[p].status \in {"captured", "refunded"}
          /\ m.kind = "credit" => payments[p].status = "refunded"
    /\ \A p \in Payments :
          payments[p].status = "captured" /\ payments[p].method = "wallet" =>
              \E m \in accounts[Owner(p)].moves : m.kind = "debit" /\ m.source = p

\* A refunded payment was credited to the shopper's wallet: "the payment moves to
\* refunded, the shopper's wallet is credited with the full amount".
RefundIsCredited ==
    \A p \in Payments : payments[p].status = "refunded" =>
        \E m \in accounts[Owner(p)].moves :
            m.kind = "credit" /\ m.source = p /\ m.amount = Amount(p)


\* No message is poison: whatever the provider answers, whatever became of the order, and
\* though workers die, a queued capture is acknowledged in the end ("one bad message never
\* crashes the worker").
MessagesAnswered ==
    \A p \in Payments, ok \in BOOLEAN : Message(p, ok) \in queue ~> Message(p, ok) \notin queue

\* A capture never undoes or repeats a settlement: once captured, a payment is only ever
\* refunded, and a failed or refunded one is final -- for every redelivered message.
SettlementIsFinal ==
    [][\A p \in Payments :
          /\ payments[p].status = "captured"
                => payments'[p].status \in {"captured", "refunded"}
          /\ payments[p].status \in {"failed", "refunded"}
                => payments'[p] = payments[p]]_vars
=============================================================================
