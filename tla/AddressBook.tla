------------------------------ MODULE AddressBook ------------------------------
(***************************************************************************)
(* The address book: a shopper's addresses, one of them the default.       *)
(* Requests run concurrently at READ COMMITTED.  The count that limits a   *)
(* book is read before the insert and without a lock; an UPDATE picks its  *)
(* rows from a snapshot, waits for their locks and checks each row again;  *)
(* only the partial unique index sees every committed default.             *)
(***************************************************************************)
EXTENDS Integers, FiniteSets

CONSTANTS Shoppers,      \* owners of a book
          AddressIds,    \* public ids, each issued once
          Details,       \* contact and location details of an address
          Edits,         \* requests in flight together
          MaxAddresses   \* addresses an owner may save (20)

ASSUME AddressAssumption == MaxAddresses \in Nat \ {0} /\ IsFiniteSet(Edits)

VARIABLES books,   \* owner -> id -> the address, for the ids in the book
          issued,  \* ids given out so far
          edits    \* request -> what it is doing

addressVars == <<books, issued, edits>>

Addresses == [default : BOOLEAN, details : Details]

NoEdit == [phase |-> "idle"]

\* counted: AddAddress has read the count.  clearing: its UPDATE picked the rows in seen.
\* locked, swapping: the same for SetDefaultAddress, which holds the lock of its target.
\* editing, deleting: has found the address.
EditRecords ==
    [phase : {"counted"}, owner : Shoppers, default : BOOLEAN]
      \cup [phase : {"clearing"}, owner : Shoppers, seen : SUBSET AddressIds]
      \cup [phase : {"locked", "editing", "deleting"}, owner : Shoppers, id : AddressIds,
            read : Addresses]
      \cup [phase : {"swapping"}, owner : Shoppers, id : AddressIds, seen : SUBSET AddressIds]
      \cup {NoEdit}

Saved(w) == DOMAIN books[w]

AddressTypeOK ==
    /\ \A w \in Shoppers : books[w] \in [Saved(w) -> Addresses]
    /\ UNION {Saved(w) : w \in Shoppers} \subseteq issued
    /\ issued \subseteq AddressIds
    /\ edits \in [Edits -> EditRecords]
    /\ \A r \in Edits : edits[r].phase \in {"locked", "swapping"} =>
           edits[r].id \in Saved(edits[r].owner)

AddressInit ==
    /\ books = [w \in Shoppers |-> <<>>]
    /\ issued = {}
    /\ edits = [r \in Edits |-> NoEdit]
-----------------------------------------------------------------------------
Defaults(w) == {a \in Saved(w) : books[w][a].default}

\* Another request has the row of address a for update.
RowLocked(w, a, r) ==
    \E x \in Edits \ {r} :
        edits[x].phase \in {"locked", "swapping"} /\ edits[x].owner = w /\ edits[x].id = a

Proceed(r, edit) == edits' = [edits EXCEPT ![r] = edit]

\* An IntegrityError, a missing address, a refusal or a lost worker ends a request; a
\* transaction it has open has written nothing yet.
Abandon(r) ==
    /\ edits[r] # NoEdit
    /\ Proceed(r, NoEdit)
    /\ UNCHANGED <<books, issued>>

\* The book with the rows of seen that are still there no longer default.
Cleared(w, seen) ==
    [a \in Saved(w) |-> [books[w][a] EXCEPT !.default = @ /\ a \notin seen]]

\* The book with a new row.
Added(book, a, address) ==
    [b \in DOMAIN book \cup {a} |-> IF b = a THEN address ELSE book[b]]

\* Mutant of UniqueDefault: the table has no such constraint.
NoConstraint(book) == TRUE

\* uniq_default_address_per_owner.
UniqueDefault(book) ==
    \A a, b \in DOMAIN book :
        book[a].default /\ book[b].default => a = b
-----------------------------------------------------------------------------
\* Mutant of CountAddresses: one address too many passes.
CountLoosely(r, w, wanted) ==
    LET count == Cardinality(Saved(w)) IN
    /\ edits[r] = NoEdit
    /\ count <= MaxAddresses
    /\ Proceed(r, [phase |-> "counted", owner |-> w, default |-> count = 0 \/ wanted])
    /\ UNCHANGED <<books, issued>>

\* AddAddress: the first address of an owner is the default whatever was wanted.
CountAddresses(r, w, wanted) ==
    LET count == Cardinality(Saved(w)) IN
    /\ edits[r] = NoEdit
    /\ count < MaxAddresses
    /\ Proceed(r, [phase |-> "counted", owner |-> w, default |-> count = 0 \/ wanted])
    /\ UNCHANGED <<books, issued>>

\* DjangoAddressRepository.add: an address that is not the default is just inserted ...
InsertAddress(r, a, details) ==
    LET w == edits[r].owner IN
    /\ edits[r].phase = "counted" /\ ~edits[r].default
    /\ a \notin issued
    /\ books' = [books EXCEPT ![w] = Added(@, a, [default |-> FALSE, details |-> details])]
    /\ issued' = issued \cup {a}
    /\ Proceed(r, NoEdit)

\* ... a default one has the defaults cleared first: the UPDATE takes its snapshot ...
SnapshotDefaults(r) ==
    LET w == edits[r].owner IN
    /\ edits[r].phase = "counted" /\ edits[r].default
    /\ Proceed(r, [phase |-> "clearing", owner |-> w, seen |-> Defaults(w)])
    /\ UNCHANGED <<books, issued>>

\* ... waits for the rows it picked, clears them and inserts; the index has the last word.
InsertDefault(r, a, details) ==
    LET w == edits[r].owner
        book == Added(Cleared(w, edits[r].seen), a, [default |-> TRUE, details |-> details])
    IN
    /\ edits[r].phase = "clearing"
    /\ a \notin issued
    /\ \A b \in edits[r].seen : ~RowLocked(w, b, r)
    /\ UniqueDefault(book)
    /\ books' = [books EXCEPT ![w] = book]
    /\ issued' = issued \cup {a}
    /\ Proceed(r, NoEdit)
-----------------------------------------------------------------------------
\* SetDefaultAddress locks its target and reads it ...
LockTarget(r, w, a) ==
    /\ edits[r] = NoEdit
    /\ a \in Saved(w)
    /\ ~RowLocked(w, a, r)
    /\ Proceed(r, [phase |-> "locked", owner |-> w, id |-> a, read |-> books[w][a]])
    /\ UNCHANGED <<books, issued>>

\* ... picks the other defaults ...
SnapshotOthers(r) ==
    LET q == edits[r] IN
    /\ q.phase = "locked"
    /\ Proceed(r, [phase |-> "swapping", owner |-> q.owner, id |-> q.id,
                   seen |-> Defaults(q.owner) \ {q.id}])
    /\ UNCHANGED <<books, issued>>

\* ... and clears them, once their locks are free, and marks the target.
SwapDefault(r) ==
    LET q == edits[r]
        book == [Cleared(q.owner, q.seen) EXCEPT ![q.id].default = TRUE]
    IN
    /\ q.phase = "swapping"
    /\ \A b \in q.seen : ~RowLocked(q.owner, b, r)
    /\ UniqueDefault(book)
    /\ books' = [books EXCEPT ![q.owner] = book]
    /\ Proceed(r, NoEdit)
    /\ UNCHANGED issued

\* UpdateAddress and DeleteAddress first look the address up, in the owner's book only.
FindAddress(r, w, a, phase) ==
    /\ edits[r] = NoEdit
    /\ a \in Saved(w)
    /\ Proceed(r, [phase |-> phase, owner |-> w, id |-> a, read |-> books[w][a]])
    /\ UNCHANGED <<books, issued>>

\* Mutant of UpdateAddress: the whole entity that was read is written back.
SaveAddress(r, details) ==
    LET q == edits[r] IN
    /\ q.phase = "editing"
    /\ q.id \in Saved(q.owner) /\ ~RowLocked(q.owner, q.id, r)
    /\ books' = [books EXCEPT ![q.owner][q.id] = [q.read EXCEPT !.details = details]]
    /\ Proceed(r, NoEdit)
    /\ UNCHANGED issued

\* The UPDATE writes the details alone, onto the row as it is by then.
UpdateAddress(r, details) ==
    LET q == edits[r] IN
    /\ q.phase = "editing"
    /\ q.id \in Saved(q.owner) /\ ~RowLocked(q.owner, q.id, r)
    /\ books' = [books EXCEPT ![q.owner][q.id].details = details]
    /\ Proceed(r, NoEdit)
    /\ UNCHANGED issued

\* No other address becomes the default in its place.
DeleteAddress(r) ==
    LET q == edits[r] IN
    /\ q.phase = "deleting"
    /\ q.id \in Saved(q.owner) /\ ~RowLocked(q.owner, q.id, r)
    /\ books' = [books EXCEPT ![q.owner] = [a \in Saved(q.owner) \ {q.id} |-> @[a]]]
    /\ Proceed(r, NoEdit)
    /\ UNCHANGED issued

(* The endpoints. *)

AddressCollectionView(r) ==
    \/ \E w \in Shoppers, wanted \in BOOLEAN : CountAddresses(r, w, wanted)
    \/ SnapshotDefaults(r)
    \/ \E a \in AddressIds, d \in Details : InsertAddress(r, a, d) \/ InsertDefault(r, a, d)

AddressDetailView(r) ==
    \/ \E w \in Shoppers, a \in AddressIds, phase \in {"editing", "deleting"} :
           FindAddress(r, w, a, phase)
    \/ \E d \in Details : UpdateAddress(r, d)
    \/ DeleteAddress(r)

AddressSetDefaultView(r) ==
    \/ \E w \in Shoppers, a \in AddressIds : LockTarget(r, w, a)
    \/ SnapshotOthers(r) \/ SwapDefault(r)

AddressNext ==
    \E r \in Edits :
        \/ AddressCollectionView(r) \/ AddressDetailView(r) \/ AddressSetDefaultView(r)
        \/ Abandon(r)

AddressSpec == AddressInit /\ [][AddressNext]_addressVars
-----------------------------------------------------------------------------
\* However adds, swaps, edits and deletions interleave, an owner never has two default
\* addresses (DjangoAddressRepository: "Default exclusivity (at most one default per
\* owner) is enforced both here ... and by the database's partial unique constraint").
AtMostOneDefault == \A w \in Shoppers : Cardinality(Defaults(w)) <= 1

\* The limit on a book is checked without a lock, so it can be passed, but only by one
\* address for each further request that was in flight (AddAddress).
OvershootBounded ==
    \A w \in Shoppers : Cardinality(Saved(w)) <= MaxAddresses + Cardinality(Edits) - 1

\* A book that has a default address loses it only with that address: no race of swaps,
\* and no edit that read the address before a swap, leaves the owner without one
\* (SetDefaultAddress: "Make one address the owner's sole default, atomically").
DefaultKept ==
    [][\A w \in Shoppers :
          Defaults(w) # {} /\ Defaults(w)' = {} =>
              Defaults(w) \cap Saved(w)' = {}]_addressVars
=============================================================================
