------------------------------- MODULE GuestCart -------------------------------
(***************************************************************************)
(* Guest carts and the login that folds them into a user's.  One           *)
(* transaction locks the guest's cart rows that it sees, oldest first, and *)
(* then, in that order, the user's cart of each channel.  A row that is    *)
(* not committed when the login looks is neither seen nor waited for.  Two *)
(* logins of one user from two browsers can wait on each other; the        *)
(* database aborts one, and the login goes on without the merge.           *)
(***************************************************************************)
EXTENDS Integers, FiniteSets

CONSTANTS Guests,        \* browsers, each with a guest token in its cookie
          Users,         \* the users that log in
          Channels,
          Variants,
          Logins,        \* requests in flight together: logins and cart writes
          MaxQuantity,   \* greatest quantity of a line (1_000_000)
          Wanted         \* quantities a shopper gives a line, 0 to remove it

ASSUME GuestCartAssumption ==
    /\ MaxQuantity \in Nat \ {0} /\ Wanted \subseteq 0..MaxQuantity
    /\ Guests \cap Users = {}

VARIABLES carts,     \* owner -> channel -> variant -> quantity, 0 when it has no line
          opened,    \* guest -> channel -> id of its committed cart row, 0 when it has none
          lastRow,   \* guest -> the greatest id its rows have had
          cookies,   \* guests whose browser still carries the cookie
          logins     \* request -> what it is doing

cartVars == <<carts, opened, lastRow, cookies, logins>>

CartOwners == Guests \cup Users

Contents == [Variants -> 0..MaxQuantity]

Empty == [k \in Variants |-> 0]

NoLogin == [phase |-> "idle"]

\* asked: a write in flight, with the owner its cookies named when it was sent.
\* writing: holds the lock of one cart and has read it.
\* login: a login in flight, with the guest its cookies named when it was sent.
\* locking: has read which rows the guest has (seen) and waits for their locks.
\* merging: holds the guest's carts of todo and merged, and the user's of merged.
LoginRecords ==
    [phase : {"asked"}, owner : CartOwners, channel : Channels]
      \cup [phase : {"writing"}, owner : CartOwners, channel : Channels, read : Contents]
      \cup [phase : {"login"}, guest : Guests, user : Users]
      \cup [phase : {"locking"}, guest : Guests, user : Users, seen : [Channels -> Nat]]
      \cup [phase : {"merging"}, guest : Guests, user : Users, seen : [Channels -> Nat],
            todo : SUBSET Channels, merged : UNION {[S -> Contents] : S \in SUBSET Channels}]
      \cup {NoLogin}

GuestCartTypeOK ==
    /\ carts \in [CartOwners -> [Channels -> Contents]]
    /\ opened \in [Guests -> [Channels -> Nat]]
    /\ lastRow \in [Guests -> Nat]
    /\ cookies \subseteq Guests
    /\ logins \in [Logins -> LoginRecords]

GuestCartInit ==
    /\ carts = [w \in CartOwners |-> [c \in Channels |-> Empty]]
    /\ opened = [g \in Guests |-> [c \in Channels |-> 0]]
    /\ lastRow = [g \in Guests |-> 0]
    /\ cookies = Guests
    /\ logins = [l \in Logins |-> NoLogin]
-----------------------------------------------------------------------------
\* Whether request l holds the lock of the cart row, or has inserted it and not committed.
Holds(l, w, c) ==
    LET q == logins[l] IN
    \/ q.phase = "writing" /\ q.owner = w /\ q.channel = c
    \/ /\ q.phase = "merging"
       /\ \/ q.guest = w /\ c \in q.todo \cup DOMAIN q.merged
          \/ q.user = w /\ c \in DOMAIN q.merged

CartLocked(w, c) == \E l \in Logins : Holds(l, w, c)

Continue(l, login) == logins' = [logins EXCEPT ![l] = login]

Untouched == UNCHANGED <<carts, opened, lastRow, cookies>>

\* A write is sent: by a user, or by a guest whose browser has the cookie.
AskWrite(l, w, c) ==
    /\ logins[l] = NoLogin
    /\ w \in cookies \cup Users
    /\ Continue(l, [phase |-> "asked", owner |-> w, channel |-> c])
    /\ Untouched

\* apply, up to the mutation: _lock_or_create, then the lines.
LockOrCreate(l) ==
    LET w == logins[l].owner
        c == logins[l].channel
    IN
    /\ logins[l].phase = "asked"
    /\ ~CartLocked(w, c)
    /\ Continue(l, [phase |-> "writing", owner |-> w, channel |-> c, read |-> carts[w][c]])
    /\ Untouched

\* The line set is replaced and the transaction commits, with the row it created.
WriteCart(l, k, n) ==
    LET w == logins[l].owner
        c == logins[l].channel
        creates == w \in Guests /\ opened[w][c] = 0
    IN
    /\ logins[l].phase = "writing"
    /\ carts' = [carts EXCEPT ![w][c] = [logins[l].read EXCEPT ![k] = n]]
    /\ opened' = IF creates THEN [opened EXCEPT ![w][c] = lastRow[w] + 1] ELSE opened
    /\ lastRow' = IF creates THEN [lastRow EXCEPT ![w] = @ + 1] ELSE lastRow
    /\ Continue(l, NoLogin)
    /\ UNCHANGED cookies
-----------------------------------------------------------------------------
Least(a, b) == IF a < b THEN a ELSE b

\* Mutant of MergeFrom: the sum is not capped.
SumUncapped(user, guest) == [k \in Variants |-> user[k] + guest[k]]

\* Cart.merge_from: shared variants are summed and capped, the others appended.
MergeFrom(user, guest) == [k \in Variants |-> Least(user[k] + guest[k], MaxQuantity)]

\* A login is sent from a browser that has the cookie; it may be sent twice.
SendLogin(l, g, u) ==
    /\ logins[l] = NoLogin
    /\ g \in cookies
    /\ Continue(l, [phase |-> "login", guest |-> g, user |-> u])
    /\ Untouched

\* The merge starts: its statement sees the rows of the guest that are committed by now.
BeginMerge(l) ==
    LET q == logins[l] IN
    /\ q.phase = "login"
    /\ Continue(l, [phase |-> "locking", guest |-> q.guest, user |-> q.user,
                    seen |-> opened[q.guest]])
    /\ Untouched

\* The channels of the rows a merge has seen and that nobody deleted meanwhile.
Present(q) == {c \in Channels : q.seen[c] # 0 /\ opened[q.guest][c] = q.seen[c]}

\* It waits until it has them all, and reads their lines.
LockRows(l) ==
    LET q == logins[l] IN
    /\ q.phase = "locking"
    /\ \A c \in Present(q) : ~CartLocked(q.guest, c)
    /\ Continue(l, [phase |-> "merging", guest |-> q.guest, user |-> q.user, seen |-> q.seen,
                    todo |-> Present(q), merged |-> <<>>])
    /\ Untouched

\* The channel of the oldest row among those left to absorb.
IsNext(q, c) == c \in q.todo /\ \A d \in q.todo : q.seen[c] <= q.seen[d]

\* The merge of channel c beside what was merged before.
Absorbed(q, c) ==
    [q EXCEPT !.todo = @ \ {c},
              !.merged = [d \in DOMAIN @ \cup {c} |->
                  IF d = c THEN MergeFrom(carts[q.user][c], carts[q.guest][c]) ELSE @[d]]]

\* Mutant of AbsorbChannel: the user's cart is read without its lock.
AbsorbUnlocked(l, c) ==
    /\ logins[l].phase = "merging" /\ IsNext(logins[l], c)
    /\ Continue(l, Absorbed(logins[l], c))
    /\ Untouched

\* Mutant of AbsorbChannel: the loop stays at its first channel.
AbsorbSameChannel(l, c) ==
    /\ logins[l].phase = "merging" /\ IsNext(logins[l], c)
    /\ ~CartLocked(logins[l].user, c)
    /\ Continue(l, [Absorbed(logins[l], c) EXCEPT !.todo = logins[l].todo])
    /\ Untouched

\* The next channel: the user's cart is locked (or created) and absorbs the guest's.
AbsorbChannel(l, c) ==
    /\ logins[l].phase = "merging" /\ IsNext(logins[l], c)
    /\ ~CartLocked(logins[l].user, c)
    /\ Continue(l, Absorbed(logins[l], c))
    /\ Untouched

\* The merge commits: the merged lines replace the user's and the guest's rows it locked are
\* gone; only then is the cookie cleared.
CommitMerge(l) ==
    LET q == logins[l]
        merged == DOMAIN q.merged
    IN
    /\ q.phase = "merging" /\ q.todo = {}
    /\ carts' = [carts EXCEPT
           ![q.user]  = [c \in Channels |-> IF c \in merged THEN q.merged[c] ELSE @[c]],
           ![q.guest] = [c \in Channels |-> IF c \in merged THEN Empty ELSE @[c]]]
    /\ opened' = [opened EXCEPT
           ![q.guest] = [c \in Channels |-> IF c \in merged THEN 0 ELSE @[c]]]
    /\ cookies' = cookies \ {q.guest}
    /\ Continue(l, NoLogin)
    /\ UNCHANGED lastRow

\* Merge l waits for a cart that merge m holds.
WaitsFor(l, m) ==
    /\ logins[l].phase = "merging"
    /\ m # l
    /\ \E c \in Channels : IsNext(logins[l], c) /\ Holds(m, logins[l].user, c)

\* The database aborts a merge in a cycle of waits; the login swallows the failure and
\* keeps the cookie.
MergeFails(l) ==
    /\ \E m \in Logins : WaitsFor(l, m) /\ WaitsFor(m, l)
    /\ Continue(l, NoLogin)
    /\ Untouched

\* The mutation is refused, its cart was deleted while it waited for the lock, or the worker
\* is lost: the transaction has written nothing.
LoseRequest(l) ==
    /\ logins[l] # NoLogin
    /\ Continue(l, NoLogin)
    /\ Untouched

FinishWrite(l) == \E k \in Variants, n \in Wanted : WriteCart(l, k, n)

AbsorbNext(l) == \E c \in Channels : AbsorbChannel(l, c)

GuestCartNext ==
    \E l \in Logins :
        \/ \E w \in CartOwners, c \in Channels : AskWrite(l, w, c)
        \/ LockOrCreate(l) \/ FinishWrite(l)
        \/ \E g \in Guests, u \in Users : SendLogin(l, g, u)
        \/ BeginMerge(l) \/ LockRows(l) \/ AbsorbNext(l) \/ CommitMerge(l) \/ MergeFails(l)
        \/ LoseRequest(l)

\* A request that holds its locks goes on, and so does the deadlock detector; the queue of
\* a row's lock is first in, first out, so a merge that waits for one gets it in the end.
GuestCartFairness ==
    \A l \in Logins :
        /\ WF_cartVars(FinishWrite(l)) /\ WF_cartVars(BeginMerge(l))
        /\ WF_cartVars(CommitMerge(l)) /\ WF_cartVars(MergeFails(l))
        /\ SF_cartVars(LockRows(l)) /\ SF_cartVars(AbsorbNext(l))

GuestCartSpec == GuestCartInit /\ [][GuestCartNext]_cartVars /\ GuestCartFairness
-----------------------------------------------------------------------------
\* A merge is serial: of the carts its login saw, every one that is still there when it
\* commits has become, in the user's cart, what merging the two carts of that moment gives,
\* so neither a concurrent write nor a second login loses or doubles a unit; and every other
\* cart of the two is left as it was ("locked, absorbed into the same-channel user cart, and
\* deleted together"; merge_guest_into_user).
MergeSerial ==
    [][\A l \in Logins :
          logins[l].phase = "merging" /\ carts' # carts /\ logins'[l] = NoLogin =>
              LET g == logins[l].guest
                  u == logins[l].user
              IN  \A c \in Channels :
                      IF c \in Present(logins[l])
                      THEN /\ carts'[g][c] = Empty
                           /\ carts'[u][c] = MergeFrom(carts[u][c], carts[g][c])
                      ELSE carts'[g][c] = carts[g][c] /\ carts'[u][c] = carts[u][c]]_cartVars

\* A login always gets past its merge, though merges lock the user's carts in whatever
\* order the guests opened theirs and can wait on each other ("a cart merge must never
\* break authentication", LoginView).
LoginsAnswered ==
    \A l \in Logins :
        logins[l].phase \in {"login", "locking", "merging"} ~> logins[l] = NoLogin

\* No cart is lost with its cookie: what the code says of a merge ("a merged guest cart is
\* never left behind", merge_guest_into_user; "the guest identity is then spent",
\* LoginView).
NothingLeftBehind ==
    \A g \in Guests \ cookies, c \in Channels : carts[g][c] = Empty
=============================================================================
