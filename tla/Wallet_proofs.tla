----------------------------- MODULE Wallet_proofs -----------------------------
(***************************************************************************)
(* Proofs about the wallet.  The invariant that makes it work: a call that *)
(* holds a wallet holds it alone, and the balance it read under the lock is*)
(* still the committed one when it writes.                                 *)
(***************************************************************************)
EXTENDS Wallet, Totals_proofs

\* At most one call owns a wallet's row.
HeldAlone ==
    \A c, d \in Calls :
        /\ calls[c].phase = "holding" /\ calls[d].phase = "holding"
        /\ calls[c].user = calls[d].user
        => c = d

\* What a call read under the lock is what a call that locks now would read.
ReadIsCurrent ==
    \A c \in Calls : calls[c].phase = "holding" =>
        calls[c].balance = IF balances[calls[c].user] = NoRow THEN 0
                           ELSE balances[calls[c].user]

WalletInv == StatementAddsUp /\ OneMovementPerSource /\ HeldAlone /\ ReadIsCurrent

\* The phases tell which fields a transaction has.
LEMMA CallFields ==
    ASSUME TypeOK, NEW c \in Calls
    PROVE  /\ calls[c].phase \in {"probed", "missing"} =>
                  /\ calls[c].user \in Users /\ calls[c].kind \in Kinds
                  /\ calls[c].amount \in Values /\ calls[c].source \in Sources
                  /\ calls[c] = [phase |-> calls[c].phase, user |-> calls[c].user,
                                 kind |-> calls[c].kind, amount |-> calls[c].amount,
                                 source |-> calls[c].source]
           /\ calls[c].phase = "holding" =>
                  /\ calls[c].user \in Users /\ calls[c].kind \in Kinds
                  /\ calls[c].amount \in Values /\ calls[c].source \in Sources
                  /\ calls[c].balance \in Int
BY DEF TypeOK, Transactions, Idle

\* A step that writes no row and gives no call a wallet keeps the invariant.
LEMMA QuietStep ==
    ASSUME WalletInv, UNCHANGED <<balances, ledger>>, calls' \in [Calls -> Transactions],
           \A c \in Calls : calls'[c].phase = "holding" => calls'[c] = calls[c]
    PROVE  WalletInv'
<1>1. StatementAddsUp'
  BY DEF WalletInv, StatementAddsUp, TypeOK, Before
<1>2. OneMovementPerSource'
  BY DEF WalletInv, OneMovementPerSource
<1>3. HeldAlone' /\ ReadIsCurrent'
  BY DEF WalletInv, HeldAlone, ReadIsCurrent
<1> QED
  BY <1>1, <1>2, <1>3 DEF WalletInv

\* A call that takes a free wallet with the balance of its row, or 0 without one.
LEMMA HoldStep ==
    ASSUME WalletInv, NEW c \in Calls, calls[c].phase \in {"probed", "missing"},
           ~Held(calls[c].user),
           Hold(c, IF balances[calls[c].user] = NoRow THEN 0 ELSE balances[calls[c].user]),
           UNCHANGED <<balances, ledger>>
    PROVE  WalletInv'
<1> DEFINE u == calls[c].user
           read == IF balances[u] = NoRow THEN 0 ELSE balances[u]
<1>1. TypeOK /\ u \in Users
  BY CallFields DEF WalletInv, StatementAddsUp
<1>2. read \in Int
  BY <1>1 DEF TypeOK
<1>3. /\ calls'[c].phase = "holding" /\ calls'[c].user = u /\ calls'[c].balance = read
      /\ calls'[c] \in Transactions
      /\ \A d \in Calls \ {c} : calls'[d] = calls[d]
  BY <1>1, <1>2, CallFields DEF Hold, TypeOK, Transactions
<1>4. calls' \in [Calls -> Transactions]
  BY <1>1, <1>3 DEF Hold, TypeOK
<1>5. StatementAddsUp'
  BY <1>4 DEF WalletInv, StatementAddsUp, TypeOK, Before
<1>6. OneMovementPerSource'
  BY DEF WalletInv, OneMovementPerSource
<1>7. HeldAlone'
  BY <1>3 DEF WalletInv, HeldAlone, Held
<1>8. ReadIsCurrent'
  BY <1>3 DEF WalletInv, ReadIsCurrent
<1> QED
  BY <1>5, <1>6, <1>7, <1>8 DEF WalletInv

\* What a call commits: its balance is moved from the one it read under the lock.
LEMMA SaveStep ==
    ASSUME WalletInv, NEW c \in Calls, SaveMovement(c),
           NEW t, t = calls[c], NEW u, u = t.user
    PROVE  WalletInv'
<1> DEFINE e == [kind |-> t.kind, amount |-> t.amount, source |-> t.source,
                 after |-> NewBalance(t)]
           n == Len(ledger[u])
<1>1. /\ TypeOK /\ u \in Users /\ t.kind \in Kinds /\ t.amount \in Nat /\ t.source \in Sources
      /\ t.amount \in Values /\ t.balance \in Int
      /\ t.balance = IF balances[u] = NoRow THEN 0 ELSE balances[u]
  BY CallFields, WalletAssumption DEF WalletInv, StatementAddsUp, SaveMovement, ReadIsCurrent
<1>2. /\ NewBalance(t) = IF t.kind = "credit" THEN t.balance + t.amount
                                              ELSE t.balance - t.amount
      /\ NewBalance(t) \in Int
  BY <1>1 DEF NewBalance
<1>3. e \in Entries /\ ledger[u] \in Seq(Entries) /\ n \in Nat
  <2>1. ledger[u] \in Seq(Entries)
    BY <1>1 DEF TypeOK
  <2>2. e \in Entries
    BY <1>1, <1>2 DEF Entries
  <2> QED
    BY <2>1, <2>2
<1>4. /\ ledger' = [ledger EXCEPT ![u] = Append(ledger[u], e)]
      /\ balances' = [balances EXCEPT ![u] = NewBalance(t)]
      /\ calls' = [calls EXCEPT ![c] = Idle]
  BY DEF SaveMovement, Commit
<1>5. /\ ledger'[u] = Append(ledger[u], e)
      /\ Len(ledger'[u]) = n + 1 /\ DOMAIN ledger'[u] = 1..n + 1 /\ DOMAIN ledger[u] = 1..n
      /\ \A i \in 1..n : ledger'[u][i] = ledger[u][i]
      /\ ledger'[u][n + 1] = e
      /\ \A v \in Users \ {u} : ledger'[v] = ledger[v] /\ balances'[v] = balances[v]
      /\ balances'[u] = NewBalance(t)
  BY <1>1, <1>3, <1>4 DEF TypeOK
<1>6. TypeOK'
  BY <1>1, <1>2, <1>3, <1>4 DEF TypeOK, Transactions
<1>7. t.balance = IF n = 0 THEN 0 ELSE ledger[u][n].after
  <2>1. balances[u] = IF ledger[u] = <<>> THEN NoRow ELSE ledger[u][n].after
    BY <1>1 DEF WalletInv, StatementAddsUp
  <2>2. CASE n = 0
    BY <1>1, <1>3, <2>1, <2>2
  <2>3. CASE n # 0
    <3>1. n \in DOMAIN ledger[u] /\ ledger[u] # <<>>
      BY <1>3, <1>5, <2>3
    <3>2. ledger[u][n] \in Entries
      BY <1>3, <3>1
    <3>3. ledger[u][n].after \in Int
      BY <3>2 DEF Entries
    <3> QED
      BY <1>1, <2>1, <2>3, <3>1, <3>3, WalletAssumption
  <2> QED
    BY <2>2, <2>3
<1>8. ASSUME NEW i \in DOMAIN ledger'[u]
      PROVE  LET x == ledger'[u][i] IN
             /\ x.after = IF x.kind = "credit" THEN Before(u, i)' + x.amount
                                               ELSE Before(u, i)' - x.amount
             /\ x.after >= 0
  <2>1. CASE i = n + 1
    <3>1. Before(u, i)' = IF i = 1 THEN 0 ELSE ledger'[u][i - 1].after
      BY DEF Before
    <3>2. i # 1 => ledger'[u][i - 1] = ledger[u][n]
      BY <1>3, <1>5, <2>1
    <3>3. Before(u, i)' = t.balance
      BY <1>3, <1>7, <2>1, <3>1, <3>2
    <3>4. NewBalance(t) >= 0
      <4>1. t.balance >= 0
        <5>1. \A j \in DOMAIN ledger[u] : ledger[u][j].after >= 0
          BY <1>1 DEF WalletInv, StatementAddsUp
        <5>2. n # 0 => n \in DOMAIN ledger[u]
          BY <1>3, <1>5
        <5> QED
          BY <1>7, <5>1, <5>2
      <4>2. t.amount > 0 /\ (t.kind = "debit" => t.amount <= t.balance)
        BY DEF SaveMovement
      <4>3. t.kind \in {"credit", "debit"}
        BY <1>1 DEF Kinds
      <4> QED
        BY <1>1, <1>2, <4>1, <4>2, <4>3
    <3> QED
      BY <1>2, <1>5, <2>1, <3>3, <3>4
  <2>2. CASE i \in 1..n
    <3>1. Before(u, i)' = Before(u, i)
      BY <1>3, <1>5, <2>2 DEF Before
    <3> QED
      BY <1>1, <1>5, <2>2, <3>1 DEF WalletInv, StatementAddsUp
  <2> QED
    BY <1>3, <1>5, <2>1, <2>2
<1>9. StatementAddsUp'
  <2>1. ASSUME NEW v \in Users \ {u}
        PROVE  /\ \A i \in DOMAIN ledger'[v] :
                     LET x == ledger'[v][i] IN
                     /\ x.after = IF x.kind = "credit" THEN Before(v, i)' + x.amount
                                                       ELSE Before(v, i)' - x.amount
                     /\ x.after >= 0
               /\ balances'[v] = IF ledger'[v] = <<>> THEN NoRow
                                 ELSE ledger'[v][Len(ledger'[v])].after
    BY <1>5, <2>1 DEF WalletInv, StatementAddsUp, Before
  <2>2. balances'[u] = IF ledger'[u] = <<>> THEN NoRow ELSE ledger'[u][Len(ledger'[u])].after
    BY <1>3, <1>5
  <2> QED
    BY <1>6, <1>8, <2>1, <2>2 DEF StatementAddsUp
<1>10. OneMovementPerSource'
  <2>1. \A i \in 1..n : ledger[u][i].source # t.source
    BY <1>5 DEF SaveMovement, Recorded
  <2>2. ASSUME NEW i \in DOMAIN ledger'[u], NEW j \in DOMAIN ledger'[u],
               ledger'[u][i].source = ledger'[u][j].source
        PROVE  i = j
    <3>1. \A x, y \in 1..n : ledger[u][x].source = ledger[u][y].source => x = y
      BY <1>1, <1>5 DEF WalletInv, OneMovementPerSource
    <3>2. e.source = t.source
      OBVIOUS
    <3> QED
      BY <1>3, <1>5, <2>1, <2>2, <3>1, <3>2
  <2>3. ASSUME NEW v \in Users \ {u}, NEW i \in DOMAIN ledger'[v], NEW j \in DOMAIN ledger'[v],
               ledger'[v][i].source = ledger'[v][j].source
        PROVE  i = j
    BY <1>5, <2>3 DEF WalletInv, OneMovementPerSource
  <2> QED
    BY <2>2, <2>3 DEF OneMovementPerSource
<1>11. HeldAlone' /\ ReadIsCurrent'
  BY <1>1, <1>4, <1>5 DEF WalletInv, HeldAlone, ReadIsCurrent, SaveMovement, Idle, TypeOK
<1> QED
  BY <1>9, <1>10, <1>11 DEF WalletInv

\* The invariant is inductive.
LEMMA WalletStep ==
    ASSUME WalletInv, [Next]_vars
    PROVE  WalletInv'
<1>1. TypeOK
  BY DEF WalletInv, StatementAddsUp
<1>2. CASE UNCHANGED vars
  BY <1>1, <1>2, QuietStep DEF vars, TypeOK
<1>3. ASSUME NEW c \in Calls, NEW u \in Users, NEW k \in Kinds, NEW a \in Values,
             NEW s \in Sources, Probe(c, u, k, a, s)
      PROVE  WalletInv'
  BY <1>1, <1>3, QuietStep DEF Probe, TypeOK, Transactions
<1>4. ASSUME NEW c \in Calls, NEW u \in Users, NEW s \in Sources, AnswerRecorded(c, u, s)
      PROVE  WalletInv'
  BY <1>1, <1>4, QuietStep DEF AnswerRecorded, vars, TypeOK
<1>5. ASSUME NEW c \in Calls, LockWallet(c) \/ CreateWallet(c) \/ AdoptWallet(c)
      PROVE  WalletInv'
  BY <1>5, HoldStep DEF LockWallet, CreateWallet, AdoptWallet
<1>6. ASSUME NEW c \in Calls, FindNoWallet(c)
      PROVE  WalletInv'
  <2>1. calls' \in [Calls -> Transactions]
    BY <1>1, <1>6, CallFields DEF FindNoWallet, Goto, TypeOK, Transactions
  <2> QED
    BY <1>1, <1>6, <2>1, QuietStep DEF FindNoWallet, Goto, TypeOK
<1>7. ASSUME NEW c \in Calls, Rollback(c)
      PROVE  WalletInv'
  BY <1>1, <1>7, QuietStep DEF Rollback, TypeOK, Transactions, Idle
<1> QED
  BY <1>2, <1>3, <1>4, <1>5, <1>6, <1>7, SaveStep DEF Next

LEMMA WalletInvariantInit == Init => WalletInv
BY DEF Init, WalletInv, StatementAddsUp, TypeOK, Transactions, OneMovementPerSource,
       HeldAlone, ReadIsCurrent, Idle

LEMMA WalletInvariant == Spec => []WalletInv
BY WalletInvariantInit, WalletStep, PTL DEF Spec

\* For any users, sources, amounts and number of concurrent calls, the statement of a wallet
\* adds up entry by entry, never below zero, to the balance that is stored.
THEOREM StatementsAddUp == Spec => []StatementAddsUp
<1>1. WalletInv => StatementAddsUp
  BY DEF WalletInv
<1> QED
  BY <1>1, WalletInvariant, PTL

\* No two entries of a wallet have the same source, although the probe takes no lock.
THEOREM SourcesMoveOnce == Spec => []OneMovementPerSource
<1>1. WalletInv => OneMovementPerSource
  BY DEF WalletInv
<1> QED
  BY <1>1, WalletInvariant, PTL
-----------------------------------------------------------------------------
(* The ledger that callers see. *)

Accounts == [u \in Users |-> Account(u)]

Movement(e) == [kind |-> e.kind, amount |-> e.amount, source |-> e.source]

\* What a commit adds to the account of its user, and to no other.
LEMMA SavedAccount ==
    ASSUME WalletInv, NEW c \in Calls, SaveMovement(c),
           NEW t, t = calls[c], NEW u, u = t.user
    PROVE  /\ u \in Users /\ t.amount \in Values /\ t.source \in Sources /\ t.amount \in Nat
           /\ t.kind \in {"credit", "debit"} /\ t.balance \in Int
           /\ Account(u).balance = t.balance
           /\ \A m \in Account(u).moves : m.source # t.source
           /\ Account(u)' = [balance |-> NewBalance(t),
                            moves |-> Account(u).moves \cup {Movement(t)}]
           /\ \A v \in Users \ {u} : Account(v)' = Account(v)
<1> DEFINE e == [kind |-> t.kind, amount |-> t.amount, source |-> t.source,
                 after |-> NewBalance(t)]
           n == Len(ledger[u])
<1>1. /\ TypeOK /\ u \in Users /\ t.kind \in Kinds /\ t.amount \in Nat /\ t.source \in Sources
      /\ t.amount \in Values /\ t.balance \in Int
      /\ t.balance = IF balances[u] = NoRow THEN 0 ELSE balances[u]
  BY CallFields, WalletAssumption DEF WalletInv, StatementAddsUp, SaveMovement, ReadIsCurrent
<1>2. NewBalance(t) \in Int
  BY <1>1 DEF NewBalance
<1>3. ledger[u] \in Seq(Entries) /\ n \in Nat /\ DOMAIN ledger[u] = 1..n
  BY <1>1 DEF TypeOK
<1>4. /\ ledger' = [ledger EXCEPT ![u] = Append(ledger[u], e)]
      /\ balances' = [balances EXCEPT ![u] = NewBalance(t)]
  BY DEF SaveMovement, Commit
<1>5. /\ DOMAIN ledger'[u] = 1..n + 1
      /\ \A i \in 1..n : ledger'[u][i] = ledger[u][i]
      /\ ledger'[u][n + 1] = e
      /\ balances'[u] = NewBalance(t)
  BY <1>1, <1>3, <1>4 DEF TypeOK
<1>6. Account(u)' = [balance |-> NewBalance(t),
                            moves |-> Account(u).moves \cup {Movement(t)}]
  <2>1. Account(u)' = [balance |-> NewBalance(t),
                       moves   |-> {Movement(ledger'[u][i]) : i \in 1..n + 1}]
    BY <1>2, <1>5, WalletAssumption DEF Account, Movement
  <2>2. Account(u).moves = {Movement(ledger[u][i]) : i \in 1..n}
    BY <1>3 DEF Account, Movement
  <2>3. {Movement(ledger'[u][i]) : i \in 1..n + 1}
            = {Movement(ledger[u][i]) : i \in 1..n} \cup {Movement(ledger'[u][n + 1])}
    BY <1>3, <1>5
  <2>4. Movement(ledger'[u][n + 1]) = Movement(t)
    BY <1>5 DEF Movement
  <2> QED
    BY <2>1, <2>2, <2>3, <2>4
<1>7. \A m \in Account(u).moves : m.source # t.source
  BY DEF SaveMovement, Recorded, Account
<1>8. \A v \in Users \ {u} : Account(v)' = Account(v)
  BY <1>1, <1>4 DEF Account, TypeOK
<1>9. Account(u).balance = t.balance
  BY <1>1 DEF Account
<1> QED
  BY <1>1, <1>6, <1>7, <1>8, <1>9 DEF Kinds

\* A commit is a movement of the ledger; every other step leaves the accounts alone.
LEMMA LedgerStep ==
    ASSUME WalletInv, [Next]_vars
    PROVE  [Promise!LedgerNext]_Accounts
<1>1. ASSUME UNCHANGED <<balances, ledger>>
      PROVE  UNCHANGED Accounts
  BY <1>1 DEF Accounts, Account
<1>2. ASSUME NEW c \in Calls, SaveMovement(c), NEW t, t = calls[c], NEW u, u = t.user
      PROVE  Promise!LedgerNext
  <2>1. /\ u \in Users /\ t.amount \in Values /\ t.source \in Sources /\ t.amount \in Nat
        /\ t.kind \in {"credit", "debit"} /\ t.balance \in Int
        /\ Account(u).balance = t.balance
        /\ \A m \in Account(u).moves : m.source # t.source
        /\ Account(u)' = [balance |-> NewBalance(t),
                            moves |-> Account(u).moves \cup {Movement(t)}]
        /\ \A v \in Users \ {u} : Account(v)' = Account(v)
    BY <1>2, SavedAccount
  <2>2. t.amount > 0 /\ (t.kind = "debit" => t.amount <= t.balance)
    BY <1>2 DEF SaveMovement
  <2>3. Accounts' = [Accounts EXCEPT ![u] = [balance |-> NewBalance(t),
                                             moves |-> Account(u).moves \cup {Movement(t)}]]
    BY <2>1 DEF Accounts
  <2>4. ~Promise!Recorded(Accounts[u], t.source)
    BY <2>1 DEF Promise!Recorded, Accounts
  <2>5. CASE t.kind = "credit"
    <3>1. Promise!Credited(Accounts[u], t.amount, t.source)
              = [balance |-> NewBalance(t),
                            moves |-> Account(u).moves \cup {Movement(t)}]
      BY <2>1, <2>4, <2>5 DEF Promise!Credited, NewBalance, Movement, Accounts
    <3>2. Promise!Credit(u, t.amount, t.source)
      BY <2>1, <2>2, <2>3, <3>1 DEF Promise!Credit, Promise!CanCredit, Accounts
    <3> QED
      BY <2>1, <3>2 DEF Promise!LedgerNext
  <2>6. CASE t.kind = "debit"
    <3>1. Promise!Debited(Accounts[u], t.amount, t.source)
              = [balance |-> NewBalance(t),
                            moves |-> Account(u).moves \cup {Movement(t)}]
      BY <2>1, <2>4, <2>6 DEF Promise!Debited, NewBalance, Movement, Accounts
    <3>2. Promise!Debit(u, t.amount, t.source)
      BY <2>1, <2>2, <2>3, <2>6, <3>1 DEF Promise!Debit, Promise!CanDebit, Accounts
    <3> QED
      BY <2>1, <3>2 DEF Promise!LedgerNext
  <2> QED
    BY <2>1, <2>5, <2>6
<1>3. ASSUME NEW c \in Calls, SaveMovement(c)
      PROVE  Promise!LedgerNext
  BY <1>2, <1>3
<1> QED
  BY <1>1, <1>3 DEF Next, vars, Probe, AnswerRecorded, LockWallet, FindNoWallet, CreateWallet,
                    AdoptWallet, Rollback

\* Concurrent credits and debits, with their unlocked probe and the race to create the
\* wallet, behave as the ledger: each committed movement happens at once.
THEOREM WalletImplementsLedger == Spec => ImplementsLedger
<1>1. Init => Promise!LedgerInit
  <2> SUFFICES ASSUME Init, NEW u \in Users
               PROVE  Account(u) = [balance |-> 0, moves |-> {}]
    BY DEF Promise!LedgerInit
  <2>1. balances[u] = NoRow /\ ledger[u] = <<>>
    BY DEF Init
  <2>2. DOMAIN ledger[u] = {}
    BY <2>1
  <2> QED
    BY <2>1, <2>2 DEF Account
<1>2. WalletInv /\ [Next]_vars => [Promise!LedgerNext]_Accounts
  BY LedgerStep
<1> QED
  BY <1>1, <1>2, WalletInvariant, PTL DEF Spec, ImplementsLedger, Promise!LedgerSpec, Accounts
-----------------------------------------------------------------------------
(* The balance is the sum of the movements. *)

\* A commit keeps the account of its user balanced.
LEMMA BalancedStep ==
    ASSUME WalletInv, NEW c \in Calls, SaveMovement(c),
           NEW t, t = calls[c], NEW u, u = t.user, Balanced(Account(u))
    PROVE  Balanced(Account(u)')
<1> DEFINE moves == Account(u).moves
           new   == Movement(t)
<1>1. /\ t.amount \in Nat /\ t.kind \in {"credit", "debit"} /\ t.balance \in Int
      /\ Account(u).balance = t.balance
      /\ \A m \in moves : m.source # t.source
      /\ Account(u)' = [balance |-> NewBalance(t), moves |-> moves \cup {new}]
  BY SavedAccount
<1>2. t.kind = "debit" => t.amount <= t.balance
  BY DEF SaveMovement
<1>3. new.kind = t.kind /\ new.amount = t.amount /\ new \notin moves
  BY <1>1 DEF Movement
<1>4. Balanced([balance |-> t.balance, moves |-> moves]) /\ t.balance >= 0
  BY <1>1 DEF Balanced
<1>5. /\ NewBalance(t) >= 0
      /\ NewBalance(t) = IF t.kind = "credit" THEN t.balance + t.amount ELSE t.balance - t.amount
  BY <1>1, <1>2, <1>4 DEF NewBalance
<1> HIDE DEF moves, new
<1> QED
  BY <1>1, <1>3, <1>4, <1>5, BalancedExtend

\* For any users, sources and amounts, the balance of a wallet is the sum of its credits
\* less that of its debits, and never negative.
THEOREM WalletsBalanced == Spec => []LedgerBalanced
<1> DEFINE Inv == WalletInv /\ \A u \in Users : Balanced(Account(u))
<1>1. Init => Inv
  <2>1. ASSUME Init, NEW u \in Users PROVE Balanced(Account(u))
    <3>1. Account(u).balance = 0 /\ Account(u).moves = {}
      BY <2>1 DEF Init, Account
    <3> QED
      BY <3>1, BalancedEmpty
  <2> QED
    BY <2>1, WalletInvariantInit
<1>2. Inv /\ [Next]_vars => Inv'
  <2> SUFFICES ASSUME Inv, [Next]_vars PROVE Inv'
    OBVIOUS
  <2>1. WalletInv'
    BY WalletStep
  <2>2. ASSUME UNCHANGED <<balances, ledger>>, NEW u \in Users
        PROVE  Balanced(Account(u))'
    BY <2>2 DEF Account
  <2>3. ASSUME NEW c \in Calls, SaveMovement(c), NEW u \in Users
        PROVE  Balanced(Account(u))'
    <3>1. CASE u = calls[c].user
      BY <2>3, <3>1, BalancedStep
    <3>2. CASE u # calls[c].user
      BY <2>3, <3>2, SavedAccount
    <3> QED
      BY <3>1, <3>2
  <2> QED
    BY <2>1, <2>2, <2>3 DEF Next, vars, Probe, AnswerRecorded, LockWallet, FindNoWallet,
                            CreateWallet, AdoptWallet, Rollback
<1>3. Inv => LedgerBalanced
  <2> SUFFICES ASSUME NEW u \in Users, Balanced(Account(u))
               PROVE  /\ Account(u).balance = Promise!Moved(u, "credit") - Promise!Moved(u, "debit")
                      /\ Account(u).balance >= 0
    BY DEF LedgerBalanced, Promise!BalanceIsLedger
  <2>1. \A kind : Promise!Moved(u, kind) = Total(OfKind(Account(u).moves, kind))
    <3>1. \A f : Promise!Total(f) = Total(f)
      BY Zenon DEF Promise!Total, Promise!Units, Promise!Cardinality, Total, Units, Cardinality
    <3>2. \A kind : Promise!Moved(u, kind) = Promise!Total(OfKind(Account(u).moves, kind))
      BY DEF Promise!Moved, OfKind
    <3> QED
      BY <3>1, <3>2
  <2> QED
    BY <2>1 DEF Balanced
<1> QED
  BY <1>1, <1>2, <1>3, PTL DEF Spec
=============================================================================
