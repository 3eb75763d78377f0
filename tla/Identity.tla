------------------------------- MODULE Identity -------------------------------
(***************************************************************************)
(* The identity context: one-time codes, registration, password reset and  *)
(* login, as concurrent requests.  No request is one transaction: each     *)
(* repository call commits by itself, a challenge is read without a lock   *)
(* and written back whole, and a worker may die between two calls.         *)
(*                                                                         *)
(* A code is right or wrong for the challenge that was read; which digits  *)
(* it has does not matter.  A password is the number of times it was set.  *)
(***************************************************************************)
EXTENDS Integers, Sequences, FiniteSets

CONSTANTS Phones,         \* canonical phone numbers
          DialPrefixes,   \* what requests write before a national number
          Requests,       \* requests in flight together
          MaxAttempts,    \* wrong answers allowed to one code
          MaxChallenges,  \* bound of the exploration: codes issued to a phone
          MaxTokens,      \* bound of the exploration: open sessions under one password
          MaxPassword,    \* bound of the exploration: times a password is set
          NoUser

\* cleared: the latest password whose reset has revoked the tokens.
Accounts == [password : 1..MaxPassword, cleared : 0..MaxPassword]

ASSUME IdentityAssumption ==
    /\ {MaxAttempts, MaxPassword} \subseteq Nat \ {0}
    /\ {MaxChallenges, MaxTokens} \subseteq Nat
    /\ NoUser \notin Accounts
    /\ IsFiniteSet(Requests)

VARIABLES accounts,    \* phone -> its account, or NoUser
          challenges,  \* phone -> purpose -> challenges, oldest first
          tokens,      \* phone -> password -> refresh tokens that work, of logins with it
          requests     \* request -> what it is doing

identityVars == <<accounts, challenges, tokens, requests>>

Purposes == {"registration", "password_reset"}

\* Age of a code: younger than the resend cooldown, past it, past its time to live.
Ages == {"cooling", "live", "expired"}

\* misses counts the wrong answers that were told apart from the code: attempts is what
\* the row says of them, never more than the budget.
Challenges == [age : Ages, attempts : 0..MaxAttempts, consumed : BOOLEAN, misses : Nat]

\* A token that is revoked is not counted any more.
Tokens == [1..MaxPassword -> 0..MaxTokens]

NoTokens == [n \in 1..MaxPassword |-> 0]

NoRequest == [phase |-> "idle"]

InFlight ==
    [phase : {"asked"}, phone : Phones, purpose : Purposes]
      \cup [phase : {"missed", "verified", "changed"}, phone : Phones, purpose : Purposes,
            id : 1..MaxChallenges, attempts : 0..MaxAttempts, password : 0..MaxPassword]
      \cup [phase : {"spent", "authenticated"}, phone : Phones, password : 1..MaxPassword]
      \cup {NoRequest}

IdentityTypeOK ==
    /\ accounts \in [Phones -> Accounts \cup {NoUser}]
    /\ challenges \in [Phones -> [Purposes -> Seq(Challenges)]]
    /\ tokens \in [Phones -> Tokens]
    /\ requests \in [Requests -> InFlight]

IdentityInit ==
    /\ accounts = [p \in Phones |-> NoUser]
    /\ challenges = [p \in Phones |-> [u \in Purposes |-> <<>>]]
    /\ tokens = [p \in Phones |-> NoTokens]
    /\ requests = [r \in Requests |-> NoRequest]
-----------------------------------------------------------------------------
Exists(p) == accounts[p] # NoUser

Goto(r, request) == requests' = [requests EXCEPT ![r] = request]

Finish(r) == Goto(r, NoRequest)

\* get_latest: the id of the newest challenge, 0 when there is none.
Latest(p, u) == Len(challenges[p][u])

Expired(challenge)   == challenge.age = "expired"
Exhausted(challenge) == challenge.attempts >= MaxAttempts

\* Time passes for the newest code (only the newest is ever read).
Age(p, u) ==
    /\ Latest(p, u) > 0
    /\ challenges[p][u][Latest(p, u)].age # "expired"
    /\ challenges' = [challenges EXCEPT ![p][u][Latest(p, u)].age =
                         IF @ = "cooling" THEN "live" ELSE "expired"]
    /\ UNCHANGED <<accounts, tokens, requests>>

\* Registration is for new numbers, reset for existing ones; a mismatch is skipped.
Eligible(p, u) == IF u = "registration" THEN ~Exists(p) ELSE Exists(p)

WithinCooldown(p, u) ==
    Latest(p, u) > 0 /\ challenges[p][u][Latest(p, u)].age = "cooling"

\* RequestOtp, up to its insert: both checks are unlocked reads.
RequestOtp(r, p, u) ==
    /\ requests[r] = NoRequest
    /\ Eligible(p, u) /\ ~WithinCooldown(p, u)
    /\ Goto(r, [phase |-> "asked", phone |-> p, purpose |-> u])
    /\ UNCHANGED <<accounts, challenges, tokens>>

NewChallenge == [age |-> "cooling", attempts |-> 0, consumed |-> FALSE, misses |-> 0]

IssueOtp(r) ==
    LET q == requests[r] IN
    /\ q.phase = "asked"
    /\ Latest(q.phone, "registration") + Latest(q.phone, "password_reset") < MaxChallenges
    /\ challenges' = [challenges EXCEPT ![q.phone][q.purpose] = Append(@, NewChallenge)]
    /\ Finish(r)
    /\ UNCHANGED <<accounts, tokens>>

\* Mutant of Acceptable: the attempt budget is checked with the wrong comparison.
AcceptableOnceMore(challenge) ==
    /\ ~challenge.consumed
    /\ ~Expired(challenge)
    /\ challenge.attempts <= MaxAttempts

\* The challenge may still be answered.
Acceptable(challenge) ==
    /\ ~challenge.consumed
    /\ ~Expired(challenge)
    /\ ~Exhausted(challenge)

\* OtpVerifier.verify, up to its save: the newest challenge is read without a lock.  The
\* right code goes on; a wrong one is yet to be counted, on what was read.
Verify(r, p, u, right) ==
    LET challenge == challenges[p][u][Latest(p, u)] IN
    /\ requests[r] = NoRequest
    /\ Latest(p, u) > 0
    /\ Acceptable(challenge)
    /\ Goto(r, [phase |-> IF right THEN "verified" ELSE "missed", phone |-> p, purpose |-> u,
                id |-> Latest(p, u), attempts |-> challenge.attempts, password |-> 0])
    /\ UNCHANGED <<accounts, challenges, tokens>>

\* DjangoOtpRepository._update writes the whole entity as the request holds it.
SaveChallenge(q, attempts, consumed, missed) ==
    LET row == challenges[q.phone][q.purpose][q.id] IN
    challenges' = [challenges EXCEPT ![q.phone][q.purpose][q.id] =
                      [row EXCEPT !.attempts = attempts, !.consumed = consumed,
                                  !.misses = row.misses + missed]]

\* Mutant of RecordMiss: the failure is raised before the save.
ForgetMiss(r) ==
    LET q == requests[r] IN
    /\ q.phase = "missed"
    /\ SaveChallenge(q, q.attempts, FALSE, 1)
    /\ Finish(r)
    /\ UNCHANGED <<accounts, tokens>>

\* A wrong answer is counted against the budget and persisted before the failure is
\* raised; the row gets the challenge that was read, not consumed, with one attempt more.
RecordMiss(r) ==
    LET q == requests[r] IN
    /\ q.phase = "missed"
    /\ SaveChallenge(q, q.attempts + 1, FALSE, 1)
    /\ Finish(r)
    /\ UNCHANGED <<accounts, tokens>>

NewAccount == [password |-> 1, cleared |-> 0]

\* Mutant of CreateUser: a registration for a number that is taken rewrites its account.
CreateOrReplaceUser(r) ==
    LET q == requests[r] IN
    /\ q.phase = "verified" /\ q.purpose = "registration"
    /\ accounts' = [accounts EXCEPT ![q.phone] = NewAccount]
    /\ Goto(r, [q EXCEPT !.phase = "changed"])
    /\ UNCHANGED <<challenges, tokens>>

\* RegisterUser creates the account, guarded by the unique phone number, before it
\* consumes the code.
CreateUser(r) ==
    LET q == requests[r] IN
    /\ q.phase = "verified" /\ q.purpose = "registration"
    /\ ~Exists(q.phone)
    /\ accounts' = [accounts EXCEPT ![q.phone] = NewAccount]
    /\ Goto(r, [q EXCEPT !.phase = "changed"])
    /\ UNCHANGED <<challenges, tokens>>

\* The number was taken meanwhile: the request fails with its code unspent.
UserAlreadyExists(r) ==
    LET q == requests[r] IN
    /\ q.phase = "verified" /\ q.purpose = "registration"
    /\ Exists(q.phone)
    /\ Finish(r)
    /\ UNCHANGED <<accounts, challenges, tokens>>

\* ResetPassword sets the password first.
SetPassword(r) ==
    LET q == requests[r]
        password == accounts[q.phone].password + 1
    IN
    /\ q.phase = "verified" /\ q.purpose = "password_reset"
    /\ Exists(q.phone)
    /\ password <= MaxPassword
    /\ accounts' = [accounts EXCEPT ![q.phone].password = password]
    /\ Goto(r, [q EXCEPT !.phase = "changed", !.password = password])
    /\ UNCHANGED <<challenges, tokens>>

\* OtpVerifier.consume: the row gets the challenge that was read, consumed.  A
\* registration is then finished; a reset goes on to the tokens.
Consume(r) ==
    LET q == requests[r] IN
    /\ q.phase = "changed"
    /\ SaveChallenge(q, q.attempts, TRUE, 0)
    /\ Goto(r, IF q.purpose = "registration" THEN NoRequest
               ELSE [phase |-> "spent", phone |-> q.phone, password |-> q.password])
    /\ UNCHANGED <<accounts, tokens>>

Later(a, b) == IF a > b THEN a ELSE b

\* Mutant of RevokeAll: the tokens of one password are revoked, the others forgotten.
RevokeNewest(r) ==
    LET q == requests[r] IN
    /\ q.phase = "spent"
    /\ tokens' = [tokens EXCEPT ![q.phone][q.password] = 0]
    /\ accounts' = [accounts EXCEPT ![q.phone].cleared = Later(@, q.password)]
    /\ Finish(r)
    /\ UNCHANGED challenges

\* Every refresh token outstanding for the account is revoked.
RevokeAll(r) ==
    LET q == requests[r] IN
    /\ q.phase = "spent"
    /\ tokens' = [tokens EXCEPT ![q.phone] = NoTokens]
    /\ accounts' = [accounts EXCEPT ![q.phone].cleared = Later(@, q.password)]
    /\ Finish(r)
    /\ UNCHANGED challenges

\* The worker dies, or its connection does, with part of the tokens revoked: the loop
\* commits token by token.
DieRevoking(r, left) ==
    LET q == requests[r] IN
    /\ q.phase = "spent"
    /\ \A n \in 1..MaxPassword : left[n] <= tokens[q.phone][n]
    /\ tokens' = [tokens EXCEPT ![q.phone] = left]
    /\ Finish(r)
    /\ UNCHANGED <<accounts, challenges>>

\* LoginView: the password is right at this moment ...
Authenticate(r, p) ==
    /\ requests[r] = NoRequest
    /\ Exists(p)
    /\ Goto(r, [phase |-> "authenticated", phone |-> p, password |-> accounts[p].password])
    /\ UNCHANGED <<accounts, challenges, tokens>>

\* ... and the tokens are issued at a later one, whatever the password is by then.
IssueTokens(r) ==
    LET q == requests[r] IN
    /\ q.phase = "authenticated"
    /\ tokens[q.phone][q.password] < MaxTokens
    /\ tokens' = [tokens EXCEPT ![q.phone][q.password] = @ + 1]
    /\ Finish(r)
    /\ UNCHANGED <<accounts, challenges>>

\* LogoutView revokes the refresh token it was sent.
Logout(p, n) ==
    /\ tokens[p][n] > 0
    /\ tokens' = [tokens EXCEPT ![p][n] = @ - 1]
    /\ UNCHANGED <<accounts, challenges, requests>>

\* AdminCreateUser: an account without the round trip of a code.
AdminCreateUser(p) ==
    /\ ~Exists(p)
    /\ accounts' = [accounts EXCEPT ![p] = NewAccount]
    /\ UNCHANGED <<challenges, tokens, requests>>

\* The worker of a request dies between two of its calls.
Crash(r) ==
    /\ requests[r] # NoRequest
    /\ Finish(r)
    /\ UNCHANGED <<accounts, challenges, tokens>>

-----------------------------------------------------------------------------
(* The endpoints: what a request carries. *)

Spellings == [prefix : DialPrefixes, number : Phones]

\* PhoneNumber: the ways an Iranian mobile number is written; they all mean the one
\* canonical number.
IsPhoneNumber(spelling) == spelling.prefix \in {"+98", "0098", "98", "0", ""}

Dialled == {spelling.number : spelling \in {n \in Spellings : IsPhoneNumber(n)}}

RequestOtpView(r) == \E p \in Dialled, u \in Purposes : RequestOtp(r, p, u)

RegisterView(r) == \E p \in Dialled, right \in BOOLEAN : Verify(r, p, "registration", right)

PasswordResetView(r) == \E p \in Dialled, right \in BOOLEAN : Verify(r, p, "password_reset", right)

LoginView(r) == \E p \in Dialled : Authenticate(r, p)

LogoutView == \E p \in Phones, n \in 1..MaxPassword : Logout(p, n)

UserAdminView == \E p \in Dialled : AdminCreateUser(p)

IdentityNext ==
    \/ \E r \in Requests :
           \/ RequestOtpView(r) \/ RegisterView(r) \/ PasswordResetView(r) \/ LoginView(r)
           \/ IssueOtp(r) \/ RecordMiss(r)
           \/ CreateUser(r) \/ UserAlreadyExists(r) \/ SetPassword(r)
           \/ Consume(r) \/ RevokeAll(r) \/ IssueTokens(r)
           \/ \E left \in Tokens : DieRevoking(r, left)
           \/ Crash(r)
    \/ \E p \in Phones, u \in Purposes : Age(p, u)
    \/ LogoutView \/ UserAdminView

IdentitySpec == IdentityInit /\ [][IdentityNext]_identityVars
-----------------------------------------------------------------------------
Rows == UNION {{challenges[p][u][i] : i \in 1..Latest(p, u)} : p \in Phones, u \in Purposes}

\* What the requests in flight can still make of the counts of one code: for each count that
\* leaves the code open, how many of them would save over it.  With a budget of m and c
\* requests there are (m + c choose c) of these.
Outlooks ==
    {f \in [0..MaxAttempts - 1 -> 0..Cardinality(Requests)] :
        \A i, j \in 0..MaxAttempts - 1 : i <= j => f[i] <= f[j]}

\* The limit on wrong answers survives lost increments, though weakened: a code takes at
\* most (m + c choose c) - 1 of them, m being the budget and c the requests in flight,
\* because a save that rewinds the row also uses up a stale read (OtpVerifier,
\* DjangoOtpRepository._update).  With one request at a time that is the budget itself.
MissesBounded == \A challenge \in Rows : challenge.misses < Cardinality(Outlooks)

\* Once a reset has run to its end, of the sessions opened with an earlier password only
\* those survive whose login had passed its authentication and not issued its tokens when
\* the reset revoked them: they are fewer than the requests in flight, the reset being one
\* (ResetPassword, LoginView).  That none "can survive it", as ResetPassword has it, holds
\* only of logins that are over by then.
OldSessionsBounded ==
    \A p \in Phones : Exists(p) =>
        \A n \in 1..MaxPassword :
            n < accounts[p].cleared => tokens[p][n] < Cardinality(Requests)

\* The password of an account changes only by a reset that verified a code for that
\* number: a registration that raced another one for the number never takes the account
\* over, though its code was right ("the unique-phone constraint is the real guard").
CredentialsKept ==
    [][\A p \in Phones : Exists(p) /\ accounts'[p] # accounts[p] =>
          \E r \in Requests :
              /\ requests[r].phase \in {"verified", "spent"} /\ requests[r].phone = p
              /\ requests[r].phase = "verified" => requests[r].purpose = "password_reset"]_identityVars

\* Every wrong answer is counted: concurrent verifications lose no attempt increment.
NoAttemptLost == \A challenge \in Rows : challenge.attempts >= challenge.misses
=============================================================================
