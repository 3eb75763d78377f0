# polymart: a TLA+ verification of the backend

polymart is a multi-channel shop. Its backend (`src/backend/src`) is a Django application in
four layers (`domain`, `application`, `infrastructure`, `interface`), one package per bounded
context, with PostgreSQL for state and Celery for background work. This directory models the
contexts that move stock and money, checks them with TLC on small instances, and proves the
properties that matter most for instances of every size.

Modelled and checked: inventory, orders, checkout, wallet, payment, identity, access control
with channels and stock sources, the address book, guest carts and their merge, the catalog with
its import and its replaced lists, the storefront's queries, and the pricing of an order
(shipping, tax, totals). Each of them is also proved about, for instances of every size: every
safety property that a run checks is a theorem, and only liveness is left to TLC alone.

Paths below are relative to `src/backend/src`.

## 1. The system

### Components

| Component | State | Operations | What makes it correct |
|---|---|---|---|
| Inventory (`*/inventory`) | sources; a level (on hand, reserved) for each variant and source; a policy (backorderable, backordered) for each variant | reserve, release, set / adjust on-hand, set policy, create source | no source oversold; a backorder only when physical stock is exhausted; release gives back what reserve took |
| Order (`*/order`) | orders with captured lines, delivery method, total, status | place from a cart, enter manually, cancel, ship, ready for pickup, picked up, mark paid | stock of all live orders accounted for; the status machine; the snapshot never changes |
| Cart (`*/cart`) | one cart per owner and channel, with lines | add, update, remove, merge a guest's cart at login, clear at checkout | concurrent mutations do not lose one another; a merge takes what it adds; a cart becomes an order as a whole |
| Wallet (`*/wallet`) | a wallet row (balance) and ledger entries | credit, debit, list | the balance is the sum of the ledger, never negative; one movement for each source reference |
| Payment (`*/payment`) | payments with a status, a method, a gateway reference, a reported transfer | initiate (cash on delivery, card to card, online), pay with wallet, callback and capture, refund, submit / confirm / reject a transfer | one active payment per order; payment and order settle together; nothing is captured on a redirect's word, and captured money is written off only on one |
| Identity (`*/identity`) | OTP challenges, accounts, refresh tokens | request and verify a code, register, reset the password, log in and out, accounts made by staff | wrong answers to a code stay bounded; a password changes only by a verified reset; a reset ends the old sessions but those of logins in flight |
| Access (`*/access`) | groups, their permissions, memberships, per-object grants | synchronise roles, assign a role, grant a channel or a source | nothing is written for somebody who may not |
| Channel (`*/channel`) | channels | create, activate | behind the permission for that channel |
| Address book (`*/address`) | addresses with a default flag | add, edit, delete, set default | at most one default, kept by its owner; a limited book |
| Catalog (`*/catalog`) | attributes, types, products, variants, categories, collections; lists of links, rules and prices | create, publish, import and export sheets, replace a list, search, price a card | rows conform to their types; imports and replaced lists are whole; card, filter and page agree |
| Shipping, Tax (`*/shipping`, `*/tax`) | settings | resolve a zone, list methods, quote; tax a charge | the charge is what the chooser showed; rounding within half a quantum a charge |
| Audit (`*/audit`) | append-only entries | record, list | an entry says what really changed |
| Domain events (`infrastructure/events`) | none | publish after commit | nothing published for a rolled-back transaction |
| HTTP API (`interface/api`) | none of its own | views, permission classes, the guest cookie | -- |
| Health, frontend, developer tools | none | -- | -- |

### How they interact

Most use cases run in one database transaction (`UnitOfWork.atomic`) at PostgreSQL's READ
COMMITTED; those of identity do not, each of their repository calls commits by itself. Contexts
call one another through ports inside the same transaction:

    PlaceOrder --> Cart (read, clear)  --> Catalog (prices), Shipping, Tax  --> Inventory.deduct
    CancelMyOrder --> Inventory.restock
    PayWithWallet --> Wallet.debit --> Order.mark_paid
    PaymentCallback --> Celery: capture_online_payment --> provider.verify --> Order.mark_paid
    RefundPayment --> Wallet.credit
    LoginView --> Identity (authenticate, issue tokens) --> Cart.merge_guest_into_user
    every staff view --> Access (permission class), then its use case
    CollectionRuleView, StorefrontProductListView --> Catalog queries over lists and prices

Some reads lock their row (`select_for_update`): stock levels and policies, the order at
cancel, fulfil and mark-paid, the payment at capture, refund and transfer, the wallet, the
cart in its own mutations. Others do not: the cart at checkout, the order and its active
payment at initiation, the wallet's idempotency probe. Unique constraints (one active payment
per order, one movement per source, one wallet per owner) guard the latter.

### What is hard

- Unlocked reads followed by writes: two initiations, a cancellation during an initiation, two
  first credits, a cart edited during its checkout.
- `verify` captures money at the provider in the middle of a database transaction. A worker can
  die between the two, the answer can be lost, the message can be delivered again, the shopper
  can load the callback with either status or cancel the order meanwhile.
- A reservation splits over sources and a backorder promise, and a release does not know the
  split: it frees backorders first.
- Idempotency keys shared by two kinds of movement.
- Codes, accounts and sessions changed call by call, on entities read earlier without a lock, by
  workers that may die between two calls.
- Rows that a lock does not cover because they are not committed yet: a cart that is created
  while a login merges.
- Two endpoints, under different permissions, that write the same stock; definitions, parents and
  codes validated by unlocked reads before an insert that only a unique constraint guards.
- Lists replaced by delete and insert, where a `DELETE` sees only the rows committed before it.
- Prices, zones and methods read separately by the cart, the chooser and the checkout.

`PROJECT.json` lists every hazard with its line, and the properties that cover it or the reason
why none does.

## 2. The modules

| Module | Models | Builds on |
|---|---|---|
| `Totals` | sums over rows | -- |
| `StockPool` | what inventory promises: one pool per variant | `Totals` |
| `Inventory` | the real rows: levels at sources, policies, greedy plans | `Totals`, refines `StockPool` |
| `Orders` | orders and the stock they hold | extends `StockPool` |
| `Checkout` | concurrent requests on carts and checkouts | extends `Orders` |
| `Ledger` | what the wallet promises: atomic movements | `Totals` |
| `Wallet` | concurrent credit and debit transactions | refines `Ledger` |
| `Settlement` | payments, provider, queue, workers, orders, wallets together | extends `Orders`, instantiates `Ledger` |
| `Identity` | codes, accounts and sessions, call by call | -- |
| `Access` | roles, grants, and the channels and sources they guard | -- |
| `AddressBook` | one statement of a request at a time | -- |
| `GuestCart` | carts of guests and users, merges at login | -- |
| `Catalog` | definitions, products, variants, categories, imports | -- |
| `CatalogLists` | the four lists that are replaced as a whole | -- |
| `Storefront` | what searches and cards read out of those lists | extends `CatalogLists` |
| `Pricing` | what an order costs: goods, delivery, tax | `Totals` |
| `Totals_proofs` | facts about sums over rows | `Totals` |
| `Inventory_proofs`, `Checkout_proofs`, `Settlement_proofs`, `Wallet_proofs` | theorems about the module they are named after | that module |
| `Orders_proofs` | theorems about stock pools and orders | `StockPool`, `Orders` |
| `Shopper_proofs` | theorems about address books, guest carts, pricing, and the three together | `MCShopper` |
| `BackOffice_proofs` | theorems about authority, accounts, the catalog, its lists and the storefront, and the four together | `MCBackOffice` |
| `MC*` | small instances for TLC | the module they are named after |
| `MCShopper` | one instance of what a shopper keeps and pays | `AddressBook`, `GuestCart`, `Pricing` |
| `MCBackOffice` | one instance of what staff and accounts do | `Identity`, `Access`, `Catalog`, `Storefront` |

Abstract specifications sit between contexts where the code has a port: `Orders` is written on
`StockPool` because the order context sees inventory through the port `Inventory.deduct /
restock`; `Settlement` uses `Ledger` because payment sees the wallet through `WalletDebit` and
`WalletCredit`. `Inventory` and `Wallet` are shown to implement those promises.

The models that `MCShopper` and `MCBackOffice` bring together share no state in the code either.
A behaviour therefore moves in one of them only: `AddressMove` requires the other models to be as
they began, and likewise for the others. TLC then explores the sum of their states instead of the
product, and each model is explored exactly as it would be alone.

### Granularity

An operation whose reads are all locked is one action: at READ COMMITTED its effect is that of
its commit. A read that takes no lock, and is used by a later write of the same transaction, is
an action of its own. So:

- `Inventory`, `Orders`: one action for each use case. A transaction that locks two variants'
  rows is one action too, so a deadlock of row locks is not visible here.
- `Checkout`: `LockCart` + `AddCartItem` / `UpdateCartItem` / `RemoveCartItem` (a mutation);
  `ReadCart` + `SnapshotCart` + `PlaceOrder` (a checkout). The snapshot action is there because
  the `DELETE` of the lines sees the rows of its own start: rows that a mutation inserts while
  the delete waits survive it (`visible`).
- `Wallet`: `Probe` (unlocked), `LockWallet` or `FindNoWallet` + `CreateWallet` / `AdoptWallet`,
  `SaveMovement`; `Rollback` at any moment.
- `Settlement`: `BeginPayment` (unlocked checks) + `InitiatePayment` / `PayWithWallet` (insert,
  guarded by `uniq_active_payment_per_order`) or `AbandonInitiation`; `VerifyCaptured` /
  `VerifyRefused` / `VerifyLost` (the provider's call) + `SettleCaptured` / `SettleFailed` /
  `SettleRolledBack`; `WorkerCrash` in between.
- `Identity`: each repository call is an action, so a `Crash` falls between any two of them.
  `Verify` reads a challenge without a lock; `RecordMiss` or `Consume` writes the whole entity
  back (`SaveChallenge`). A registration is `Verify`, `CreateUser`, `Consume`; a reset is
  `Verify`, `SetPassword`, `Consume`, `RevokeAll`. `RevokeAll` is one action, and `DieRevoking`
  leaves any part of its loop undone. `Authenticate` and `IssueTokens` are apart.
- `Access`: the permission class (`...View`) is one action, the use case another; where the use
  case reads without a lock and writes, it is two (`CreateChannel` + `InsertChannel`,
  `SetChannelStatus` + `UpdateChannel`, which writes back the whole entity that it read). A
  source's stock has two endpoints, `SourceStockView` and the catalog's `VariantStockView`.
- `AddressBook`: each SQL statement is an action, an `UPDATE` two: the snapshot that picks its
  rows and, once their locks are free, the write (`SnapshotDefaults` + `InsertDefault`,
  `SnapshotOthers` + `SwapDefault`).
- `GuestCart`: a write is sent (`AskWrite`), with the owner its cookies name then, takes its
  cart's lock or inserts its row (`LockOrCreate`), and commits (`WriteCart`), all in steps of
  their own. A login is sent (`SendLogin`); its merge sees the guest's rows that are committed when
  its statement starts (`BeginMerge`), waits for those (`LockRows`), takes the user's carts one by
  one (`AbsorbChannel`), and commits. A row inserted and not committed is neither seen nor waited
  for. `MergeFails` is the database's choice of a victim in a cycle of waits.
- `Catalog`: a creation is its validation (unlocked reads) and its insert (`Add...`, or
  `AlreadyExists`); an import is a validation, one `ImportRow` a row, and `CommitImport`,
  `ImportRaceLost`, `ImportDeadlocked` or `CatalogCrash`.
- `CatalogLists`: `LockOwner`, `DeleteRows` (sees what is committed then), `CommitReplace`.
- `Storefront`: operators; the state is that of `CatalogLists`.
- `Pricing`: a checkout quotes delivery (`PlaceOrder`), prices one line a step (`CaptureLine`)
  while staff replace prices (`SetVariantPrices`), and captures the sums (`CommitOrder`).

### State, against the code

| Variable | Code |
|---|---|
| `onHand`, `reserved` (`Inventory`) | `StockLevelModel`; no row is `0, 0` (`_lock_or_create`) |
| `backorderable`, `backordered` | `StockPolicyModel`; no row is `FALSE, 0` |
| `stock[k]` (`StockPool`) | the sums of those rows |
| `orders[o]` | `OrderModel` and its lines; `NoOrder` for a number not used yet |
| `carts[w]` | `CartLineModel` rows; a line of quantity 0 is no row |
| `balances`, `ledger` (`Wallet`) | `WalletModel`, `WalletTransactionModel` |
| `accounts` (`Ledger`, `Settlement`) | the same two, as callers see them |
| `payments[p]` | `PaymentModel`; `initiating` is a request before its insert, no row |
| `sessions[p]` | the provider's side of an online payment (external) |
| `queue` | unacknowledged Celery messages (external; a set: a duplicate that is still queued adds nothing that a redelivery does not) |
| `accounts[p]` (`Identity`) | the user row of a phone; its password is the number of times it was set, `cleared` the last password whose reset has revoked the tokens |
| `challenges[p][u]` | `OtpChallengeModel` rows; `misses` (wrong answers told apart) is no part of the program, `MissesBounded` needs it |
| `tokens[p][n]` | refresh tokens not blacklisted, of logins that authenticated with password `n` |
| `groups`, `carried`, `memberships`, `grants` | Django groups, their permissions, memberships; guardian rows |
| `shops`, `warehouses` | `ChannelModel`, `StockSourceModel` with one number for its stock |
| `books[w]`, `issued` | `AddressModel` rows of an owner; public ids given out |
| `carts`, `opened`, `lastRow`, `cookies` (`GuestCart`) | cart lines; the ids of the guest's committed rows, and the last one given out; browsers that still carry the guest token |
| `catalog[table]` | rows by their code; `desks` are the requests of staff in flight |
| `lists`, `owners` (`CatalogLists`) | rows of the four link, rule and price tables by owner; who holds the owner's row lock |
| `prices`, `checkouts` (`Pricing`) | price rows in one channel; what a checkout has captured (`seen`, the prices that were in force meanwhile, is no part of the program) |
| `verdicts[p]` | local state of the worker between `verify` and the commit |

### Abstractions, and what the environment is assumed to do

- In `Orders` and `Settlement` an order's amounts are one captured total (`Amounts`); `Pricing`
  computes it. One channel, one currency. A payment's amount is its order's total,
  which the code captures from the order and which never changes (`OrderIsSnapshot`).
- Greedy draws are defined by what they leave (`Draws`: nothing is taken from a source before
  every source ahead of it is drained), not by the loop; `PlanUnique` shows the definition
  determines the draw whenever the guards admit the request.
- The callback's status comes with the address that is loaded, so a message of either status can be
  queued at any time in the life of a session. The provider confirms a capture again when asked
  again (code 101 in `_ZARINPAL_SUCCESS_CODES`), and does not refuse one it made. A session whose
  initiation failed after `start` is never mentioned again: its authority resolves to no payment.
- Quantities are bounded by `MaxQuantity` (the column's maximum), calls by `MaxLine`.
- A code of `Identity` is right or wrong for the challenge that was read. A phone number is
  modelled by the ways of writing it: those `PhoneNumber` accepts mean one canonical number.
- In `Catalog` a spelling (what a request or a cell carries) is told apart from what it is
  trimmed, folded or parsed to: `Code`, `Word`, `Decimal`, `Lower` are tables of the instance.
  In `Pricing`, `Fold` is `str.casefold`, and money is counted in the stored quantum, 0.0001, so
  half-up rounding is to a whole number.
- A `DELETE` or `UPDATE` at READ COMMITTED picks its rows from the snapshot of its start, waits
  for their locks, and checks each again. Locks are granted first in, first out; the database
  ends a cycle of waits by aborting one transaction.
- Log lines, the low-stock alert, audit entries and domain events are left out.

## 3. What is checked

| Run | Instance | Properties |
|---|---|---|
| `inventory` | 1 variant, 3 sources, levels to 2, calls to 3 units | `LevelsSound`, `PlanUnique`, `BackorderOnlyWhenDrained`, `ImplementsPool` |
| `checkout` | 2 requests on one cart, 2 variants, 2 orders, 2 units a line, pools of 1 and a promise of 1 | `TypeOK`, `StockConserved`, `PendingCancellable`, `FulfilledAsChosen`, `OrderIsSnapshot`, `CartWritesSerial` |
| `wallet` | 1 user, 3 calls in flight, 3 sources, amounts 1 and 2 | `StatementAddsUp`, `OneMovementPerSource`, `LedgerBalanced`, `ImplementsLedger` |
| `settlement` | 2 orders, 3 payments, a user and a guest | `TypeOK`, `OneActivePayment`, `CapturedIsSettled`, `SettledWasPaid`, `CaptureConfirmed`, `ProviderMoneyKept`, `WalletFollowsPayments`, `SettlementIsFinal` |
| `capture_delivery` | 1 order, 2 payments, with fairness | `MessagesAnswered` |
| `shopper` | a book for 2 addresses under 2 requests; 2 browsers, 2 channels, 2 requests of login or write, with fairness; 1 checkout of 2 variants under price changes | `ShopperTypeOK`, `AtMostOneDefault`, `OvershootBounded`, `DefaultKept`, `MergeSerial`, `LoginsAnswered`, `OrderAsShown` |
| `backoffice` | 2 requests in flight in each model: 1 phone with 2 codes of 2 attempts; 2 people, 2 roles, 1 channel, 2 sources; 2 attributes, 1 type, 2 products in up to 5 rows; lists of up to 2 entries | `BackOfficeTypeOK`, `MissesBounded`, `OldSessionsBounded`, `CredentialsKept`, `WritesAuthorized`, `CatalogSound`, `CatalogReads`, `ImportWhole`, `ListsWhole`, `StorefrontSound` |
| `cart_conversion`, `wallet_refund`, `capture_retry`, `otp_attempts`, `guest_cart_left` | as `checkout` with 1 unit a line; as `settlement`; 1 code, 2 requests; the carts of `shopper` | one property each, violated: see *Findings* |

What the newer ones say. `MissesBounded`: wrong answers to a code are lost when verifications
overlap (`NoAttemptLost` fails), but fewer of them can be given than the code has `Outlooks`, of
which there are `C(m + c, c)`, `m` being the budget and `c` the requests in flight; with one request
no more than `m` can be given. `OldSessionsBounded`: a reset that ran to its end can leave working
tokens of earlier passwords, but only of logins that were past their authentication, one each, the
reset being a request too. `CaptureConfirmed` and `ProviderMoneyKept`: an OK that nobody confirmed
captures nothing, and only a cancellation that a redirect reported closes a payment whose money the
provider holds. `WritesAuthorized`: a grant for one object opens no other, and of the two endpoints
that write stock the catalog's reaches the default source only. It is about scopes: since nothing in
the code takes authority back, a check made early is as good as one made late. `MergeSerial`: of the
carts that a merge saw, it takes from the guest what it adds to the user, at the state of its
commit, and it touches no other; what it did not see may be lost with the cookie
(`NothingLeftBehind` fails). `ListsWhole`, `ImportWhole`: a step of many rows is one request's work
or nothing. `CatalogSound`: rows conform to the definitions as they are, not as they were read.
`StorefrontSound`: price filter, card and product page agree and leafing through pages loses and
repeats nothing; it is of one moment, and evaluated by TLC only where no list is being replaced,
since it reads nothing else (the theorem says it of every state). `OrderAsShown`: the goods at
prices in force, the delivery at the chooser's price, the tax within its rounding, and the row read
back as the order that was written.

Every property of a passing run has a mutant in the module it is about: a plausible slip of the
code (a dropped lock, guard, constraint or save) under which TLC finds the property violated.

Why the bounds are enough. In `inventory`, three sources with levels 0..2 give ties, a draw that
ends inside a source, a full drain, and an overflow (3 units against 2). Variants do not interact,
so one is enough; several meet in `checkout`, where two make an order fail on its second line, a
line of two units is split between the one in stock and the one that may be promised, and a
cancellation frees units for the other order. Two requests on one cart are the least that race, and
two variants the least for one write to lose another's line. In `wallet`, three calls give a race to
create the wallet with a debit waiting behind it; wallets of different users do not interact. In
`settlement`, three payments on two orders allow a failed payment followed by another, two rivals
for one order, and a refund of one order paying for the other. In `shopper`, two requests on a book
of two addresses reach the third address that the limit should refuse; two browsers that opened two
channels in opposite orders, logged in by one user, are the least cycle of waits; the methods and
zones of `Pricing` hold each kind of entry the settings may hold, malformed ones included, and
destinations differ in case, alias and coverage. In `backoffice`, two requests in flight are the
least that race, two codes the least for a later one to replace an earlier, two passwords the least
for an old session; two sheets write the same two products in opposite orders. Symmetry is used for
orders, variants, payments, requests, calls and sources, none of which the modules order; not for
stock source codes, which are ordered, and in no run that checks a property under fairness.

`CHECK_DEADLOCK FALSE` in the settlement instances, where a shop whose orders are all spent stops,
and in `shopper`, `backoffice` and the runs of single findings, where the bounds on ids, rows and
codes end the exploration.

### Fairness

`MessagesAnswered` is checked under `FairSpec`: strong fairness of `Deliver(p, ok)`, for each
message (the queue is first in, first out, so a message that can be taken up again and again,
between the deliveries of the other one for its payment, is taken up) and strong fairness of
`Conclude(p)` (a worker that has the provider's answer does not die every single time before the
commit; `CELERY_TASK_ACKS_LATE` makes the broker deliver until one gets through). Strong fairness is
needed because each crash disables `Conclude` until the next delivery. Nothing is assumed of
shoppers, of staff, or of what the provider answers.

`LoginsAnswered` is checked under `GuestCartFairness`: a request that holds its locks goes on, the
deadlock detector acts, and a request that waits for a row gets it in the end (strong fairness of
`LockRows` and `AbsorbChannel`: lock queues are first in, first out). Nothing is assumed of
shoppers.

## 4. What is proved

All theorems hold for every value of the constants, under the named assumptions of the modules,
which TLC evaluates in the runs:

- `PoolAssumption`, `InventoryAssumption`: the bounds are natural numbers, the sources are
  finitely many and ordered by their codes, the default source is one of them.
- `OrdersAssumption` (finitely many order numbers, natural amounts), `CheckoutAssumption` (a cart
  line is a legal line of an order), `WalletAssumption`, `SettlementAssumption` (users are owners).
- `AddressAssumption` (a positive limit, finitely many requests in flight), `GuestCartAssumption`
  (requests ask for quantities of a line; nobody is both a guest and a user).
- `PricingAssumption`: what settings, requests and saved addresses may hold. A price or a rate is
  a natural number of quanta or of grams, a method that was read has a code (`IsEntry`), a place
  has a province. An entry may still be malformed in the ways the code checks for.
- `AccessAssumption` (those who are given authority are people, the roles are the registry's),
  `IdentityAssumption` (positive budgets of attempts and of passwords, finitely many requests in
  flight).
- `StorefrontAssumption` (finitely many products, whose codes are ordered; each has its variants; a
  criterion that was left out is no amount), `ListsAssumption` (each outlet has its currency),
  `CatalogAssumption` (requests and sheets carry rows of their tables), `CodeAssumption` and
  `WordAssumption`: to trim, fold or parse what was trimmed, folded or parsed changes nothing, and a
  number is not written as a blank. These are facts about `str.strip`, `str.lower` and
  `str(Decimal(...))`, which the modules take as tables.

| Theorem | Says |
|---|---|
| `Inventory_proofs!LevelsAlwaysSound` | `LevelsSound`: no source is oversold |
| `Inventory_proofs!BackordersWaitForStock` | `BackorderOnlyWhenDrained` |
| `Inventory_proofs!PlanAlwaysUnique` | `PlanUnique`: an admitted request has exactly one plan |
| `Inventory_proofs!LevelsImplementPool` | `ImplementsPool`: levels at sources refine one pool per variant |
| `Orders_proofs!PoolsNeverOversold` | pools are typed, `reserved <= onHand` |
| `Orders_proofs!StockIsConserved` | `StockConserved` |
| `Orders_proofs!PendingOrdersCancellable` | `PendingCancellable` |
| `Orders_proofs!OrdersFulfilledAsChosen` | `FulfilledAsChosen` |
| `Orders_proofs!OrdersAreSnapshots` | `OrderIsSnapshot` |
| `Orders_proofs!OrdersAlwaysTyped`, `Checkout_proofs!CheckoutTyped` | the table of orders keeps its type; so does every table of the checkout (`TypeOK`) |
| `Checkout_proofs!CheckoutImplementsOrders` | the checkout refines `OrdersSpec` |
| `Checkout_proofs!CheckoutConservesStock` | `StockConserved` under concurrent checkouts |
| `Checkout_proofs!CartWritesAreSerial` | `CartWritesSerial` |
| `Settlement_proofs!OrdersNeverPaidTwice` | `OneActivePayment` |
| `Settlement_proofs!CapturesSettleTheirOrder`, `SettledOrdersWerePaid` | `CapturedIsSettled`, `SettledWasPaid` |
| `Settlement_proofs!CapturesAreConfirmed` | `CaptureConfirmed` |
| `Settlement_proofs!CapturedMoneyIsKept` | `ProviderMoneyKept` |
| `Settlement_proofs!SettlementsAreFinal` | `SettlementIsFinal` |
| `Settlement_proofs!WalletsFollowPayments` | `WalletFollowsPayments` |
| `Settlement_proofs!SettlementKeepsToOrders` | every step is a step of `Orders` or leaves stock and orders alone |
| `Settlement_proofs!SettlementKeepsToLedger` | the accounts are moved as `Ledger` allows |
| `Settlement_proofs!StockConservedUnderPayments`, `SnapshotsUnderPayments` | `StockConserved` with `PendingCancellable`, and `OrderIsSnapshot`, inherited |
| `Settlement_proofs!SettlementTyped` | `TypeOK` |
| `Wallet_proofs!StatementsAddUp` | `StatementAddsUp` |
| `Wallet_proofs!SourcesMoveOnce` | `OneMovementPerSource` |
| `Wallet_proofs!WalletImplementsLedger` | `ImplementsLedger`: credit and debit transactions refine atomic movements |
| `Wallet_proofs!WalletsBalanced` | `LedgerBalanced` |
| `Shopper_proofs!DefaultIsUnique` | `AtMostOneDefault` |
| `Shopper_proofs!LimitOvershootIsBounded` | `OvershootBounded` |
| `Shopper_proofs!DefaultIsKept` | `DefaultKept` |
| `Shopper_proofs!MergesAreSerial` | `MergeSerial` |
| `Shopper_proofs!OrdersAsShown` | `OrderAsShown` |
| `Shopper_proofs!ShopperParts`, `ShopperSafe` | the shopper's specification is its three models side by side, and has `ShopperTypeOK` and every other safety property of its run |
| `BackOffice_proofs!WritesAreAuthorized` | `WritesAuthorized` |
| `BackOffice_proofs!MissesAreBounded` | `MissesBounded` |
| `BackOffice_proofs!MissesOfOne` | with one request in flight, at most `MaxAttempts` wrong answers |
| `BackOffice_proofs!OldSessionsAreBounded` | `OldSessionsBounded` |
| `BackOffice_proofs!CredentialsAlwaysKept` | `CredentialsKept` |
| `BackOffice_proofs!ListsAlwaysWhole` | `ListsWhole` |
| `BackOffice_proofs!CatalogAlwaysSound` | `CatalogSound` |
| `BackOffice_proofs!ImportsAlwaysWhole` | `ImportWhole` |
| `BackOffice_proofs!CatalogReadsAsWritten` | `CatalogReads` |
| `BackOffice_proofs!StorefrontIsSound` | `StorefrontSound` |
| `BackOffice_proofs!BackOfficeParts`, `BackOfficeSafe` | the back office's specification is its four models side by side, and has `BackOfficeTypeOK` and every other property of its run |
| `BooksTyped`, `GuestCartsTyped`, `PricesTyped` (`Shopper_proofs`); `AuthorityTyped`, `AccountsTyped`, `CatalogTyped`, `ListsTyped` (`BackOffice_proofs`) | the parts of `ShopperTypeOK` and `BackOfficeTypeOK` |

The arguments:

- *Sums.* A sum over rows is the cardinality of the set of its units (`Totals`), so that facts
  about sums need no induction: `Totals_proofs` derives from the theorems on finite sets that
  one row's units add to the total, that no row exceeds it, and that the total of a row-by-row sum
  or difference is the sum or difference of the totals, and that rows near a multiple of other rows
  have totals near that multiple (`SumWithin`).
- *Inventory.* A draw takes what was asked for, so by additivity it moves the variant's total by
  exactly that, which is the step of the pool (`LevelsImplementPool`). There is such a draw because
  a smaller one can take one more unit, from the first source not yet drained (`DrawOneMore`, by the
  least-counterexample principle instead of induction). Two draws of one amount from
  the same levels are equal: sources are ranked without ties, so of two different draws one takes
  more at the first source where they differ and the other takes more further on, which it may only
  do once the first is drained.
- *Stock.* `OrdersInv` is the sound pools (`PoolInv`), the types, `StockConserved` and
  `FulfilledAsChosen`. Soundness is needed because the split of a reservation adds up to its
  units only in terms of numbers that are in range; `FulfilledAsChosen` carries itself, a
  collected order having been a pickup order when it became ready. `PendingCancellable` is a
  consequence: a line is one summand of what is reserved and promised together, and `FromBackorder`
  takes the smaller of the line and the promise.
- *Checkout.* `CheckoutInv` only says that carts and requests carry well-formed lines. Then each
  commit is a `PlaceAnyOrder`, each other step leaves stock and orders alone or is a step of
  `Orders`, and its theorems are inherited. For `CartWritesSerial` the invariant adds the row lock:
  one mutation at a time holds a cart, and what it read is the cart, unless a checkout has emptied
  it meanwhile.
- *Settlement.* `PayInv` joins the three relations between payments and orders. None is inductive
  alone: to capture is to become active *and* to settle the order, so each needs the others'
  account of the payment's status before. `MoneyInv` is about the provider's side: only an online
  payment has a session, an online payment that captured or was refunded has a captured one, and a
  verdict agrees with its session. Nothing is said of the queue: any status may be in it. Of the
  steps that fail a payment, the one that a cancellation takes consumes its message, and the
  others find a verdict, or a method, that a captured session does not have. Each step is a step of
  `Orders` or leaves its variables alone, so its theorems hold under payments. `WalletInv` is the
  ledger's balance with: every movement follows from a payment of its owner, and a captured wallet
  payment has its debit. It is kept because an order's total and a payment's amount never change
  and a payment's status moves only forward.
- *Wallet.* `WalletInv` is the two invariants with `HeldAlone` (one call at a time holds a wallet's
  row) and `ReadIsCurrent` (what the holder read is what is committed): without them a movement
  could be computed from a stale balance. Every step is then a `Credit` or `Debit` of the ledger or
  none, since the constraint at the write, not the unlocked probe, decides whether a source is new.
  `WalletsBalanced` adds an entry to the sums (`TotalExtend`, `KindTotalAdd`), which are again
  cardinalities.
- *Address book.* A write keeps `UniqueDefault` because the index checks the book that results. A
  swap's locked target stays in its book (`EditsSound`), which is why a swap never leaves the book
  without a default. `RoomLeft` counts, with the saved addresses, the requests that have counted
  and not inserted; it is the inductive form of `OvershootBounded`.
- *Guest carts.* `MergeInv`: a cart has one holder at most (`OneHolder`); an id is not given out
  twice (`IdsGiven`), so a row that a merge saw and that is there is the row it saw; and a merge in
  flight holds just those rows, and has computed, for the channels behind it, the merge of the two
  carts as they still are, because it holds both (`MergesRight`).
- *Pricing.* `PricingInv` says that a capture in flight holds a quotation as the chooser listed it
  and lines at prices it has seen, the present ones among them, and that a placed order is as it
  was shown. Most of the work is in the commit. The zone of a place does not depend on its spelling
  (`OneZone`); the first bracket that covers a weight is the tightest, because a table that parses
  has increasing bounds (`BoundsIncrease`, `TightestBracket`); the tax of a charge is within half a
  quantum of the exact one (`HalfUp`), so the sum over the rated charges is within as many halves
  (`SumWithin`); an amount that fits its column is read back as it was written (`RoundTrip`).
- *Access.* `AccessInv` says that a request in flight still has the permission it was found to
  have (`Permitted`). It holds because `AuthorityGrows`: no operation of the code withdraws a role
  or a grant, a synchronisation gives a group what the registry says it has
  (`CarriedFromRegistry`), and no channel or source is deleted. What is left to show is that each
  write is to the object that was checked, and that of the catalog's endpoint to the default
  source. An operation that withdrew authority would break the argument, and the property with it.
- *Identity.* `IdentityInv` says what a request between two of its calls may rely on
  (`RequestRight`): a verified code exists and was not exhausted, the password that a reset set is
  not later than the account's. `OldSessionsBounded` needs to count, with the tokens of a password,
  the logins that have authenticated with it and not issued theirs (`Late`, `SessionsCounted`):
  a reset that revokes sets the tokens to none and is itself no such login, so the two together are
  fewer than the requests, and since nobody authenticates with an earlier password they do not
  grow. `CredentialsKept` follows from who writes an account that exists:
  a registration finds the number taken, so it is a reset past its verification (`SetPassword`) or
  past its code (`RevokeAll`).
- *Wrong answers.* No function of the row alone bounds them: a save that rewinds the count gives
  answers back. What it cannot give back is the stale read it came from. The outlook of a code is,
  for each count below the budget, how many requests know that count or a lower one of it, by having
  read it or because they would read it now (`Outlook`), and outlooks are ordered by the first count
  at which they differ (`Behind`). Each wrong answer moves the outlook ahead, although it may rewind
  the row, and no other step moves it back. `BudgetInv` therefore bounds the wrong answers given and
  the outlooks still ahead, taken together. There are finitely many outlooks, and one request has at
  most one for each count and one for a closed code (`MissesOfOne`).
- *Lists.* `ListsInv` says that an editor who has locked holds the owner's row alone and that what
  it deleted is the whole list (`EditHolds`), so nothing it did not see is left at its commit.
- *Storefront.* `PricesInv` adds to `ListsInv` that a list of prices, committed or asked for, names
  a channel once. The amounts on a product's page are then those of its rows (`ShownAmounts`), so
  that the card, the filter and the page have one lowest price (`FromIsLowest`, `RangeIsWithin`).
  The number of smaller members is a bijection from a finite set of codes to their places
  (`NthInOrder`), and a place is on exactly one page of a given size (`Paged`).
- *Catalog.* `CatalogInv` says that every row fits the definitions (`TablesOK`), that every checked
  request still does (`DesksOK`), and that an import's codes are fresh and apart from those of
  other imports in flight (`PendingFresh`, `PendingApart`). A checked row still fits when it is
  inserted because `CatalogGrows`: no operation changes or deletes a definition. The categories
  stay a forest because a new one is under an old one and none is moved. `CatalogReads` rests on
  normal forms staying as they are (`NormalOfNormal`).

Only model-checked: the liveness properties (`MessagesAnswered`, `LoginsAnswered`), since properties
under fairness, like ENABLED, are out of the prover's reach. Where a fact would need an induction
over data, a least counterexample stands in for it (`LeastNatural`), and what the code computes by
folding, filtering or sorting is defined by sets of positions and by cardinalities. The exact number
of outlooks, `C(m + c, c)`, is said in a comment only; the theorems use that they are finitely many.

No module declares a RECURSIVE operator.

## 5. Findings

1. **A refund of a wallet payment credits nothing** (`wallet_refund`). `CreditWallet` asks for
   *any* movement with the source reference (`application/wallet/use_cases.py:131`). A payment
   from the wallet was debited under the same reference, so its refund finds the debit, takes it
   for the credit and returns; `RefundPayment` commits the payment as refunded. Its docstring
   promises "the shopper's wallet is credited with the full amount".
2. **A checkout can delete lines it did not order** (`cart_conversion`). `PlaceOrder` reads the
   cart without the row lock that cart mutations take, and clears it later; a line added in
   between is deleted. The docstring says "Convert the owner's cart in a channel into a placed
   order, atomically".
3. **A capture that fails transiently is not retried** (`capture_retry`). The task swallows every
   exception and acknowledges the message; the docstring says "the capture is retryable if it
   fails transiently". Only another load of the callback by the shopper captures the payment.
4. **Concurrent wrong answers to a code lose attempts** (`otp_attempts`). `OtpVerifier.verify`
   reads the challenge without a lock and counts on the entity it read; `_update` locks the row
   only to write that entity over it, so two verifications that read the same count write the
   same count. The comment at `infrastructure/identity/otp_repository.py:39` says the lock is there
   so that they "cannot lose an attempt increment". `MissesBounded` says how many can be lost.
5. **A guest's cart can be left behind by a merge** (`guest_cart_left`). `select_for_update` locks
   the rows that are committed. A guest write that creates its cart in another channel while a
   login merges is neither blocked nor seen, the login clears the cookie, and no request can name
   that cart again. The comment at `infrastructure/cart/repositories.py:74` says that the lock
   "blocks a concurrent guest write from slipping a line in between the read and the delete", and
   ADR 0035 that "the shopper simply keeps their items".

One more disagreement has no run of its own. `LoginView` authenticates and issues its refresh token
in two steps (`interface/api/identity/views.py:121, 126`); a reset in between revokes the tokens
there are, and the login then issues one more, of the old password. The docstring of `ResetPassword`
says that "any session opened with the old password [...] cannot survive it"
(`application/identity/use_cases.py:177`). `OldSessionsBounded` allows for such logins and says how
many there can be.

Limits of the system that no document denies, hence no finding: a cash-on-delivery or abandoned
online payment stays `pending` for ever and keeps its order from any other payment (no operation
ends it); a refunded order stays `paid` and can still be shipped; two checkouts of one cart that
both read it order it twice. A callback that reports a cancellation is believed without a verify,
as ADR 0038 decides: if the provider had captured by then (a worker died after `verify`, or its
answer was lost, and the shopper loads the other address), the payment fails with the money at
the provider, and nothing in the code returns it. `ProviderMoneyKept` says that this is the only
way. Of the newer models:

- An address that was counted as the first is the default even if others came meanwhile, and a
  first address that was not wanted as default can be inserted after a racing delete without
  becoming one. Deleting the default promotes no other address.
- The cooldown of codes is an unlocked check: two requests in flight both issue a code.
- Who manages the catalog, and no source, sets the stock of the default source and creates it where
  it is missing, through the catalog's own endpoint (ADR 0048 keeps it as "the simple single-source
  surface for now"). No operation takes a role or a grant back.
- A rule's values are only trimmed, so a number or a choice in another spelling selects nothing,
  where `domain/catalog/enums.py:37` speaks of an equality that is exact for every input type.
- The catalog's stock endpoint sets the default source and shows the total of all sources; a
  variant whose levels together pass the column's maximum cannot be read or set there. Its
  `set_quantity` does not translate the refusal of a level below the reserved units, `adjust` does.
- `price_summaries` runs its queries outside a transaction, so a card can mix two moments.
- An exported sheet leaves out metadata and the tax class, which an import therefore cannot restore.
- Audited `before` values are read before the locked update (recounts, stock, channel status,
  address edits), `after` values of replaced lists after the commit: the trail can show a change
  that never happened as written.

## 6. Not modelled

- *Audit*: append-only; no operation reads an entry back, so no state of the system depends on it.
  What its entries can get wrong is listed above and among the hazards.
- *Domain events*: published after the commit, with no subscriber in the repository.
- *Health*, *frontend*, *developer tools*: probes, a client, and seeding; they hold no state that
  the backend relies on.
- *HTTP API*: views that change state are the entry points of the models, with their permissions
  and the input they refuse. Serialisation, throttling, the mapping of errors to statuses and
  lists that are only read are left out.
- *Identity*: access tokens (stateless, they expire by themselves), their refresh, profile fields.
- *Catalog*: media assets, metadata, the tax class endpoint, text search and the filter by type.
- *Pricing*: one channel and currency, one checkout in flight; settings, weights and tax classes
  do not change; a blank target in `SHIPPING_PROVINCE_ALIASES`.
- *Access*: taking authority away, which the code has no operation for.
- The stock rows of a checkout are locked line by line, and two orders that list two variants in
  opposite orders can deadlock. `Orders` takes a checkout's stock in one action, so the wait is not
  modelled; its outcome, one of them aborted and rolled back, is `Rollback` of `Checkout`.
  Deadlocks of guest merges and of imports are modelled, for two requests.

## 7. What could follow

The models were written in the order `Totals`, `StockPool`, `Inventory`, `Orders`, `Checkout`,
`Ledger`, `Wallet`, `Settlement`, then `Identity`, `Access`, `AddressBook`, `GuestCart`, `Catalog`,
`CatalogLists`, `Storefront`, `Pricing`; the proofs in the same order. Still worth doing:

1. `LockOrder`: checkouts and cancellations that lock stock rows line by line, where two orders can
   wait for each other.
2. Compose the concurrent `Wallet` with `Settlement`. Both are tied to `Ledger`, one by a
   refinement and one by `SettlementKeepsToLedger`; a single specification of the two would say of
   the code's transactions what is now said of the ledger between them.
3. The proofs of liveness, which need a prover for fairness and ENABLED: that a delivered message is
   concluded in the end, and that a cycle of waits between two logins is broken.
