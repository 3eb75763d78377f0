------------------------------- MODULE Wallet -------------------------------
(***************************************************************************)
(* The wallet context as concurrent transactions at READ COMMITTED.  A call*)
(* probes the ledger for its source without a lock, then locks the wallet  *)
(* row -- or, for a first credit, inserts it, racing other first credits   *)
(* against the one-wallet-per-owner constraint -- and then writes the new  *)
(* balance as an absolute value together with the ledger entry, guarded by *)
(* the unique (wallet, source_reference) constraint.                       *)
(***************************************************************************)
EXTENDS Integers, Sequences

CONSTANTS Users,    \* wallet owners
          Sources,  \* source references
          Values,   \* amounts
          Calls,    \* calls of CreditWallet / DebitWallet in flight together
          NoRow     \* the balance of a user without a wallet row

ASSUME WalletAssumption == /\ Values \subseteq Nat
                           /\ NoRow \notin Int

VARIABLES balances,  \* user -> committed balance of the wallet row, or NoRow
          ledger,    \* user -> committed ledger entries, oldest first
          calls      \* call -> its transaction

vars == <<balances, ledger, calls>>

Kinds   == {"credit", "debit"}
Entries == [kind : Kinds, amount : Values, source : Sources, after : Int]

Idle == [phase |-> "idle"]

\* probed:  found no movement for its source;
\* missing: a credit that found no wallet row to lock;
\* holding: owns the wallet row (locked, or inserted and uncommitted) and read balance.
Transactions ==
    [phase : {"probed", "missing"}, user : Users, kind : Kinds, amount : Values, source : Sources]
      \cup [phase : {"holding"}, user : Users, kind : Kinds, amount : Values,
            source : Sources, balance : Int]
      \cup {Idle}

TypeOK ==
    /\ balances \in [Users -> Int \cup {NoRow}]
    /\ ledger \in [Users -> Seq(Entries)]
    /\ calls \in [Calls -> Transactions]

Init ==
    /\ balances = [u \in Users |-> NoRow]
    /\ ledger = [u \in Users |-> <<>>]
    /\ calls = [c \in Calls |-> Idle]
-----------------------------------------------------------------------------
Recorded(u, source) == \E i \in DOMAIN ledger[u] : ledger[u][i].source = source

Held(u) == \E c \in Calls : calls[c].phase = "holding" /\ calls[c].user = u

Goto(c, phase) == calls' = [calls EXCEPT ![c].phase = phase]

Hold(c, balance) ==
    calls' = [calls EXCEPT ![c] = [phase |-> "holding", user |-> @.user, kind |-> @.kind,
                                   amount |-> @.amount, source |-> @.source,
                                   balance |-> balance]]

\* A source already recorded -- whatever its kind and amount -- is answered with the
\* movement it has, and nothing is written.
AnswerRecorded(c, u, source) ==
    /\ calls[c] = Idle
    /\ Recorded(u, source)
    /\ UNCHANGED vars

\* The idempotency probe, unlocked, finds no movement.
Probe(c, u, kind, amount, source) ==
    /\ calls[c] = Idle
    /\ ~Recorded(u, source)
    /\ calls' = [calls EXCEPT ![c] = [phase |-> "probed", user |-> u, kind |-> kind,
                                      amount |-> amount, source |-> source]]
    /\ UNCHANGED <<balances, ledger>>

\* Mutant of LockWallet: the balance is read without the lock.
ReadWallet(c) ==
    LET u == calls[c].user IN
    /\ calls[c].phase = "probed"
    /\ balances[u] # NoRow
    /\ Hold(c, balances[u])
    /\ UNCHANGED <<balances, ledger>>

\* get_for_update: waits for the lock, then reads the committed balance.
LockWallet(c) ==
    LET u == calls[c].user IN
    /\ calls[c].phase = "probed"
    /\ balances[u] # NoRow /\ ~Held(u)
    /\ Hold(c, balances[u])
    /\ UNCHANGED <<balances, ledger>>

\* get_for_update finds no committed row: a credit goes on to create one.
FindNoWallet(c) ==
    /\ calls[c].phase = "probed" /\ calls[c].kind = "credit"
    /\ balances[calls[c].user] = NoRow
    /\ Goto(c, "missing")
    /\ UNCHANGED <<balances, ledger>>

\* The INSERT waits for a rival's uncommitted row; with none left it succeeds.
CreateWallet(c) ==
    LET u == calls[c].user IN
    /\ calls[c].phase = "missing"
    /\ balances[u] = NoRow /\ ~Held(u)
    /\ Hold(c, 0)
    /\ UNCHANGED <<balances, ledger>>

\* Mutant of AdoptWallet: the loser of the race goes on with the wallet it built.
AdoptWalletUnread(c) ==
    LET u == calls[c].user IN
    /\ calls[c].phase = "missing"
    /\ balances[u] # NoRow /\ ~Held(u)
    /\ Hold(c, 0)
    /\ UNCHANGED <<balances, ledger>>

\* The INSERT lost the race: its savepoint is rolled back and the row that now exists
\* is locked and read instead.
AdoptWallet(c) ==
    LET u == calls[c].user IN
    /\ calls[c].phase = "missing"
    /\ balances[u] # NoRow /\ ~Held(u)
    /\ Hold(c, balances[u])
    /\ UNCHANGED <<balances, ledger>>

NewBalance(t) == IF t.kind = "credit" THEN t.balance + t.amount ELSE t.balance - t.amount

Commit(c, t) ==
    /\ balances' = [balances EXCEPT ![t.user] = NewBalance(t)]
    /\ ledger' = [ledger EXCEPT ![t.user] =
                     Append(@, [kind |-> t.kind, amount |-> t.amount, source |-> t.source,
                                after |-> NewBalance(t)])]
    /\ calls' = [calls EXCEPT ![c] = Idle]

\* Mutants of SaveMovement: the unique constraint is missing; the funds are not checked.
SaveAnyMovement(c) ==
    LET t == calls[c] IN
    /\ t.phase = "holding" /\ t.amount > 0
    /\ t.kind = "debit" => t.amount <= t.balance
    /\ Commit(c, t)

SaveOverdrawn(c) ==
    LET t == calls[c] IN
    /\ t.phase = "holding" /\ t.amount > 0
    /\ ~Recorded(t.user, t.source)
    /\ Commit(c, t)

\* The movement is applied to the balance that was read under the lock and committed with
\* its entry, unless the amount, the funds or the unique constraint refuse it.
SaveMovement(c) ==
    LET t == calls[c] IN
    /\ t.phase = "holding"
    /\ t.amount > 0
    /\ t.kind = "debit" => t.amount <= t.balance
    /\ ~Recorded(t.user, t.source)
    /\ Commit(c, t)

\* A refusal, a failure of the enclosing transaction (a refund, a payment) or a crash
\* rolls everything back, an uncommitted wallet row included.
Rollback(c) ==
    /\ calls[c] # Idle
    /\ calls' = [calls EXCEPT ![c] = Idle]
    /\ UNCHANGED <<balances, ledger>>

Next ==
    \E c \in Calls :
        \/ \E u \in Users, k \in Kinds, a \in Values, s \in Sources : Probe(c, u, k, a, s)
        \/ \E u \in Users, s \in Sources : AnswerRecorded(c, u, s)
        \/ LockWallet(c) \/ FindNoWallet(c) \/ CreateWallet(c) \/ AdoptWallet(c)
        \/ SaveMovement(c) \/ Rollback(c)

Spec == Init /\ [][Next]_vars
-----------------------------------------------------------------------------
Before(u, i) == IF i = 1 THEN 0 ELSE ledger[u][i - 1].after

\* The statement of a wallet adds up: each entry's balance_after is the previous one moved
\* by its amount, never below zero, and the materialised balance is the last of them --
\* whatever the interleaving of probes, locks, create races and rollbacks (and the tables
\* keep their types).
StatementAddsUp ==
    TypeOK /\ \A u \in Users :
        /\ \A i \in DOMAIN ledger[u] :
              LET e == ledger[u][i] IN
              /\ e.after = IF e.kind = "credit" THEN Before(u, i) + e.amount
                                                ELSE Before(u, i) - e.amount
              /\ e.after >= 0
        /\ balances[u] = IF ledger[u] = <<>> THEN NoRow ELSE ledger[u][Len(ledger[u])].after

\* "At most one movement per (wallet, source_reference)": two concurrent calls for the
\* same source that both passed the unlocked probe cannot both move money.
OneMovementPerSource ==
    \A u \in Users : \A i, j \in DOMAIN ledger[u] :
        ledger[u][i].source = ledger[u][j].source => i = j

\* The ledger that callers are promised.
Account(u) ==
    [balance |-> IF balances[u] = NoRow THEN 0 ELSE balances[u],
     moves   |-> {[kind |-> ledger[u][i].kind, amount |-> ledger[u][i].amount,
                   source |-> ledger[u][i].source] : i \in DOMAIN ledger[u]}]

Promise == INSTANCE Ledger WITH accounts <- [u \in Users |-> Account(u)]

\* Concurrent credits and debits behave as if each happened at once: every committed
\* movement is one step of the ledger, everything else leaves it alone.
ImplementsLedger == Promise!LedgerSpec

\* So the balance is always the sum of the recorded movements.
LedgerBalanced == Promise!BalanceIsLedger
=============================================================================
