------------------------------- MODULE Ledger -------------------------------
(***************************************************************************)
(* What the wallet context promises its callers: every user has an account *)
(* of store credit, and a movement on it -- a credit or a debit -- happens *)
(* at once, never overdraws, and is recorded at most once for the source   *)
(* (a payment reference) that caused it.  Module Wallet implements it with *)
(* concurrent transactions; module Settlement uses it.                     *)
(***************************************************************************)
EXTENDS Totals

CONSTANTS Users,    \* registered users, the only owners of a wallet
          Sources,  \* payment references that cause movements
          Values    \* amounts that may be moved

VARIABLE accounts   \* user -> balance and recorded movements

Movements == [kind : {"credit", "debit"}, amount : Values, source : Sources]

LedgerTypeOK == accounts \in [Users -> [balance : Int, moves : SUBSET Movements]]

LedgerInit == accounts = [u \in Users |-> [balance |-> 0, moves |-> {}]]
-----------------------------------------------------------------------------
\* Any movement already recorded for the source, of either kind, is the answer.
Recorded(a, source) == \E m \in a.moves : m.source = source

CanCredit(a, amount, source) == Recorded(a, source) \/ amount > 0

CanDebit(a, amount, source) == Recorded(a, source) \/ (amount > 0 /\ amount <= a.balance)

Credited(a, amount, source) ==
    IF Recorded(a, source) THEN a
    ELSE [balance |-> a.balance + amount,
          moves   |-> a.moves \cup {[kind |-> "credit", amount |-> amount, source |-> source]}]

Debited(a, amount, source) ==
    IF Recorded(a, source) THEN a
    ELSE [balance |-> a.balance - amount,
          moves   |-> a.moves \cup {[kind |-> "debit", amount |-> amount, source |-> source]}]

Credit(u, amount, source) ==
    /\ CanCredit(accounts[u], amount, source)
    /\ accounts' = [accounts EXCEPT ![u] = Credited(@, amount, source)]

Debit(u, amount, source) ==
    /\ CanDebit(accounts[u], amount, source)
    /\ accounts' = [accounts EXCEPT ![u] = Debited(@, amount, source)]

LedgerNext == \E u \in Users, a \in Values, s \in Sources : Credit(u, a, s) \/ Debit(u, a, s)

LedgerSpec == LedgerInit /\ [][LedgerNext]_accounts
-----------------------------------------------------------------------------
Moved(u, kind) ==
    Total([m \in {x \in accounts[u].moves : x.kind = kind} |-> m.amount])

\* The balance is what the recorded movements say, and never negative: no movement is
\* lost, doubled or applied without being recorded.
BalanceIsLedger ==
    \A u \in Users : /\ accounts[u].balance = Moved(u, "credit") - Moved(u, "debit")
                     /\ accounts[u].balance >= 0
=============================================================================
