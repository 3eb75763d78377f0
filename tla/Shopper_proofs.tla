-------------------------- MODULE Shopper_proofs ---------------------------
(***************************************************************************)
(* Proofs about what shoppers keep.  What the concurrent requests of an    *)
(* address book do to one book is what a write does to it: the partial     *)
(* unique index admits only a book with one default, and a write that      *)
(* leaves none deletes it.  The limit needs an account of the requests     *)
(* that have counted already.  A merge of guest carts is serial because of *)
(* the locks it holds.                                                     *)
(*                                                                         *)
(* What an order charges is what the checkout screen showed: a quotation   *)
(* takes the one zone of an address and the tightest bracket of a method,  *)
(* and a checkout works each amount out again from the rows it has seen, so *)
(* that they agree when the order says so.  The amounts are natural numbers, *)
(* and the rounded lines stay within half a unit each of the exact tax.    *)
(***************************************************************************)
EXTENDS MCShopper, Totals_proofs, SequenceTheorems

\* Requests that have counted the addresses of w and have not inserted yet.
Adding(w) == {r \in Edits : edits[r].phase \in {"counted", "clearing"} /\ edits[r].owner = w}

BooksSound ==
    /\ DOMAIN books = Shoppers
    /\ \A w \in Shoppers :
           /\ books[w] \in [Saved(w) -> Addresses]
           /\ IsFiniteSet(Saved(w))
           /\ Saved(w) \subseteq issued
           /\ UniqueDefault(books[w])
    /\ issued \subseteq AddressIds

\* The row that a swap has locked stays in its book.
EditsSound ==
    /\ edits \in [Edits -> EditRecords]
    /\ \A r \in Edits : edits[r].phase \in {"locked", "swapping"} =>
           edits[r].id \in Saved(edits[r].owner)

\* Each request that has counted has a place, but for one: the last that could count.
RoomLeft ==
    \A w \in Shoppers :
        Cardinality(Saved(w)) + Cardinality(Adding(w)) <= MaxAddresses + Cardinality(Edits) - 1

AddressInv == BooksSound /\ EditsSound /\ RoomLeft

DefaultKeptStep ==
    \A w \in Shoppers :
        Defaults(w) # {} /\ Defaults(w)' = {} => Defaults(w) \cap Saved(w)' = {}

\* What is shown of every step.
Kept == AddressInv' /\ DefaultKeptStep

LEMMA EditFields ==
    ASSUME EditsSound, NEW r \in Edits
    PROVE  /\ edits[r] \in EditRecords
           /\ edits[r].phase \in {"idle", "counted", "clearing", "locked", "editing", "deleting",
                                  "swapping"}
           /\ edits[r].phase = "idle" <=> edits[r] = NoEdit
           /\ edits[r].phase # "idle" => edits[r].owner \in Shoppers
           /\ edits[r].phase \in {"locked", "editing", "deleting", "swapping"} =>
                  edits[r].id \in AddressIds
BY DEF EditsSound, EditRecords, NoEdit

LEMMA AddingFinite ==
    ASSUME NEW w
    PROVE  /\ IsFiniteSet(Adding(w)) /\ Cardinality(Adding(w)) \in Nat
           /\ Cardinality(Adding(w)) <= Cardinality(Edits)
           /\ Cardinality(Edits) \in Nat
<1>1. Adding(w) \subseteq Edits /\ IsFiniteSet(Edits)
  BY AddressAssumption DEF Adding
<1> QED
  BY <1>1, FS_Subset, FS_CardinalityType

\* A step of a request that writes no address.
LEMMA QuietStep ==
    ASSUME AddressInv, NEW r \in Edits, NEW e \in EditRecords,
           UNCHANGED <<books, issued>>, Proceed(r, e),
           e.phase \in {"locked", "swapping"} => e.id \in Saved(e.owner),
           e.phase \in {"counted", "clearing"} =>
               \/ edits[r].phase \in {"counted", "clearing"} /\ edits[r].owner = e.owner
               \/ Cardinality(Saved(e.owner)) < MaxAddresses
    PROVE  Kept
<1>1. /\ edits' = [edits EXCEPT ![r] = e] /\ edits \in [Edits -> EditRecords]
      /\ edits'[r] = e /\ \A x \in Edits \ {r} : edits'[x] = edits[x]
  BY DEF Proceed, AddressInv, EditsSound
<1>2. BooksSound' /\ EditsSound' /\ DefaultKeptStep
  <2>1. BooksSound' /\ DefaultKeptStep
    BY DEF AddressInv, BooksSound, Saved, UniqueDefault, DefaultKeptStep, Defaults
  <2>2. edits' \in [Edits -> EditRecords]
    BY <1>1
  <2>3. ASSUME NEW x \in Edits, edits'[x].phase \in {"locked", "swapping"}
        PROVE  edits'[x].id \in DOMAIN books'[edits'[x].owner]
    BY <1>1, <2>3 DEF AddressInv, EditsSound, Saved
  <2> QED
    BY <2>1, <2>2, <2>3 DEF EditsSound, Saved
<1>3. ASSUME NEW w \in Shoppers
      PROVE  Cardinality(Saved(w))' + Cardinality(Adding(w))'
                 <= MaxAddresses + Cardinality(Edits) - 1
  <2>1. /\ Saved(w)' = Saved(w) /\ Cardinality(Saved(w)) \in Nat
        /\ Cardinality(Saved(w)) + Cardinality(Adding(w)) <= MaxAddresses + Cardinality(Edits) - 1
    BY FS_CardinalityType DEF AddressInv, BooksSound, RoomLeft, Saved
  <2>2. Cardinality(Adding(w))' \in Nat /\ Cardinality(Adding(w))' <= Cardinality(Edits)
    <3>1. Adding(w)' \subseteq Edits /\ IsFiniteSet(Edits)
      BY AddressAssumption DEF Adding
    <3> QED
      BY <3>1, FS_Subset, FS_CardinalityType
  <2>3. CASE Adding(w)' \subseteq Adding(w)
    <3>1. Cardinality(Adding(w))' <= Cardinality(Adding(w))
      BY <2>3, AddingFinite, FS_Subset
    <3> QED
      BY <2>1, <2>2, <3>1, AddingFinite, AddressAssumption
  <2>4. CASE Cardinality(Saved(w)) < MaxAddresses
    BY <2>1, <2>2, <2>4, AddingFinite, AddressAssumption
  <2> QED
    BY <1>1, <2>3, <2>4 DEF Adding
<1> QED
  BY <1>2, <1>3 DEF Kept, AddressInv, RoomLeft

\* What a request's write to the book of w keeps.
LEMMA WriteStep ==
    ASSUME AddressInv, NEW r \in Edits, NEW w \in Shoppers, NEW book,
           book \in [DOMAIN book -> Addresses], UniqueDefault(book),
           books' = [books EXCEPT ![w] = book], Proceed(r, NoEdit),
           \/ /\ DOMAIN book \subseteq Saved(w) /\ issued' = issued
              /\ edits[r].phase \notin {"counted", "clearing"}
              /\ \A a \in Saved(w) \ DOMAIN book : ~RowLocked(w, a, r)
           \/ /\ edits[r].phase \in {"counted", "clearing"} /\ edits[r].owner = w
              /\ \E a \in AddressIds \ issued :
                     DOMAIN book = Saved(w) \cup {a} /\ issued' = issued \cup {a},
           Defaults(w) # {} /\ (\A a \in DOMAIN book : ~book[a].default) =>
               Defaults(w) \cap DOMAIN book = {}
    PROVE  Kept
<1>1. /\ edits' = [edits EXCEPT ![r] = NoEdit] /\ edits \in [Edits -> EditRecords]
      /\ edits'[r] = NoEdit /\ \A x \in Edits \ {r} : edits'[x] = edits[x]
  BY DEF Proceed, AddressInv, EditsSound
<1>2. /\ DOMAIN books' = Shoppers /\ books'[w] = book /\ Saved(w)' = DOMAIN book
      /\ \A v \in Shoppers \ {w} : books'[v] = books[v] /\ Saved(v)' = Saved(v)
  BY DEF AddressInv, BooksSound, Saved
<1>3. DefaultKeptStep
  <2>1. Defaults(w)' = {a \in DOMAIN book : book[a].default}
    BY <1>2 DEF Defaults
  <2>2. \A v \in Shoppers \ {w} : Defaults(v)' = Defaults(v)
    BY <1>2 DEF Defaults
  <2> QED
    BY <1>2, <2>1, <2>2 DEF DefaultKeptStep
<1>4. IsFiniteSet(Saved(w)) /\ Cardinality(Saved(w)) \in Nat /\ Saved(w) \subseteq issued
  BY FS_CardinalityType DEF AddressInv, BooksSound
<1>5. BooksSound'
  <2>1. /\ issued' \subseteq AddressIds /\ issued \subseteq issued' /\ DOMAIN book \subseteq issued'
        /\ IsFiniteSet(DOMAIN book)
    BY <1>4, FS_Subset, FS_AddElement DEF AddressInv, BooksSound
  <2>2. \A v \in Shoppers : /\ books'[v] \in [Saved(v)' -> Addresses] /\ IsFiniteSet(Saved(v)')
                            /\ Saved(v)' \subseteq issued' /\ UniqueDefault(books'[v])
    BY <1>2, <2>1 DEF AddressInv, BooksSound
  <2> QED
    BY <1>2, <2>1, <2>2 DEF BooksSound, UniqueDefault
<1>6. EditsSound'
  <2>1. edits' \in [Edits -> EditRecords]
    BY <1>1 DEF EditRecords
  <2>2. ASSUME NEW x \in Edits, edits'[x].phase \in {"locked", "swapping"}
        PROVE  edits'[x].id \in DOMAIN books'[edits'[x].owner]
    <3>1. x # r /\ edits'[x] = edits[x]
      BY <1>1, <2>2 DEF NoEdit
    <3>2. edits[x].owner \in Shoppers /\ edits[x].id \in Saved(edits[x].owner)
      BY <2>2, <3>1, EditFields DEF AddressInv, EditsSound
    <3>3. CASE edits[x].owner = w
      BY <1>2, <2>2, <3>1, <3>2, <3>3 DEF RowLocked, Saved
    <3>4. CASE edits[x].owner # w
      BY <1>2, <3>1, <3>2, <3>4 DEF Saved
    <3> QED
      BY <3>3, <3>4
  <2> QED
    BY <2>1, <2>2 DEF EditsSound, Saved
<1>7. RoomLeft'
  <2> SUFFICES ASSUME NEW v \in Shoppers
               PROVE  Cardinality(Saved(v)') + Cardinality(Adding(v)')
                          <= MaxAddresses + Cardinality(Edits) - 1
    BY DEF RoomLeft
  <2>1. /\ Cardinality(Saved(v)) \in Nat
        /\ Cardinality(Saved(v)) + Cardinality(Adding(v)) <= MaxAddresses + Cardinality(Edits) - 1
    BY FS_CardinalityType DEF AddressInv, BooksSound, RoomLeft
  <2>2. Adding(v)' = Adding(v) \ {r}
    BY <1>1 DEF Adding, NoEdit
  <2>3. /\ Cardinality(Adding(v)') = IF r \in Adding(v) THEN Cardinality(Adding(v)) - 1
                                                       ELSE Cardinality(Adding(v))
        /\ Cardinality(Adding(v)) \in Nat
    BY <2>2, AddingFinite, FS_RemoveElement
  <2>4. CASE Saved(v)' \subseteq Saved(v)
    <3>1. Cardinality(Saved(v)') <= Cardinality(Saved(v)) /\ Cardinality(Saved(v)') \in Nat
      BY <2>4, FS_Subset, FS_CardinalityType DEF AddressInv, BooksSound
    <3> QED
      BY <2>1, <2>3, <3>1, AddingFinite, AddressAssumption
  <2>5. CASE v = w /\ edits[r].phase \in {"counted", "clearing"} /\ edits[r].owner = w
    <3>1. PICK a \in AddressIds \ issued : Saved(w)' = Saved(w) \cup {a}
      BY <1>2, <2>5
    <3>2. Cardinality(Saved(w)') = Cardinality(Saved(w)) + 1
      BY <1>4, <3>1, FS_AddElement
    <3>3. r \in Adding(v)
      BY <2>5 DEF Adding
    <3> QED
      BY <2>1, <2>3, <2>5, <3>2, <3>3, AddingFinite, AddressAssumption
  <2> QED
    BY <1>2, <2>4, <2>5
<1> QED
  BY <1>3, <1>5, <1>6, <1>7 DEF Kept, AddressInv
-----------------------------------------------------------------------------
(* Every step. *)

LEMMA NoEditIsEdit == NoEdit \in EditRecords /\ NoEdit.phase = "idle"
BY DEF EditRecords, NoEdit

LEMMA AbandonStep ==
    ASSUME AddressInv, NEW r \in Edits, Abandon(r)
    PROVE  Kept
BY QuietStep, NoEditIsEdit DEF Abandon

LEMMA CountStep ==
    ASSUME AddressInv, NEW r \in Edits, NEW w \in Shoppers, NEW wanted \in BOOLEAN,
           CountAddresses(r, w, wanted)
    PROVE  Kept
<1> DEFINE e == [phase |-> "counted", owner |-> w,
                 default |-> Cardinality(Saved(w)) = 0 \/ wanted]
<1>1. e \in EditRecords
  BY DEF EditRecords
<1>2. Proceed(r, e) /\ UNCHANGED <<books, issued>> /\ Cardinality(Saved(w)) < MaxAddresses
  BY DEF CountAddresses
<1> QED
  BY <1>1, <1>2, QuietStep

LEMMA SnapshotStep ==
    ASSUME AddressInv, NEW r \in Edits, SnapshotDefaults(r)
    PROVE  Kept
<1> DEFINE e == [phase |-> "clearing", owner |-> edits[r].owner, seen |-> Defaults(edits[r].owner)]
<1>1. edits[r].owner \in Shoppers
  BY EditFields DEF AddressInv, SnapshotDefaults
<1>2. e \in EditRecords
  BY <1>1 DEF EditRecords, Defaults, AddressInv, BooksSound
<1>3. Proceed(r, e) /\ UNCHANGED <<books, issued>> /\ edits[r].phase = "counted"
  BY DEF SnapshotDefaults
<1> QED
  BY <1>2, <1>3, QuietStep

LEMMA LockStep ==
    ASSUME AddressInv, NEW r \in Edits, NEW w \in Shoppers, NEW a \in AddressIds,
           LockTarget(r, w, a)
    PROVE  Kept
<1> DEFINE e == [phase |-> "locked", owner |-> w, id |-> a, read |-> books[w][a]]
<1>1. Proceed(r, e) /\ UNCHANGED <<books, issued>> /\ a \in Saved(w)
  BY DEF LockTarget
<1>2. e \in EditRecords
  BY <1>1 DEF EditRecords, AddressInv, BooksSound
<1> QED
  BY <1>1, <1>2, QuietStep

LEMMA OthersStep ==
    ASSUME AddressInv, NEW r \in Edits, SnapshotOthers(r)
    PROVE  Kept
<1> DEFINE e == [phase |-> "swapping", owner |-> edits[r].owner, id |-> edits[r].id,
                 seen |-> Defaults(edits[r].owner) \ {edits[r].id}]
<1>1. /\ Proceed(r, e) /\ UNCHANGED <<books, issued>> /\ edits[r].phase = "locked"
      /\ edits[r].owner \in Shoppers /\ edits[r].id \in AddressIds
      /\ edits[r].id \in Saved(edits[r].owner)
  BY EditFields DEF SnapshotOthers, AddressInv, EditsSound
<1>2. e \in EditRecords
  BY <1>1 DEF EditRecords, Defaults, AddressInv, BooksSound
<1> QED
  BY <1>1, <1>2, QuietStep

LEMMA FindStep ==
    ASSUME AddressInv, NEW r \in Edits, NEW w \in Shoppers, NEW a \in AddressIds,
           NEW phase \in {"editing", "deleting"}, FindAddress(r, w, a, phase)
    PROVE  Kept
<1> DEFINE e == [phase |-> phase, owner |-> w, id |-> a, read |-> books[w][a]]
<1>1. Proceed(r, e) /\ UNCHANGED <<books, issued>> /\ a \in Saved(w)
  BY DEF FindAddress
<1>2. e \in EditRecords
  BY <1>1 DEF EditRecords, AddressInv, BooksSound
<1> QED
  BY <1>1, <1>2, QuietStep

\* What the steps that clear defaults are built of.
LEMMA ClearedBook ==
    ASSUME AddressInv, NEW w \in Shoppers, NEW seen
    PROVE  Cleared(w, seen) \in [Saved(w) -> Addresses]
BY DEF Cleared, AddressInv, BooksSound, Addresses

LEMMA InsertStep ==
    ASSUME AddressInv, NEW r \in Edits, NEW a \in AddressIds, NEW details \in Details,
           InsertAddress(r, a, details)
    PROVE  Kept
<1> DEFINE w == edits[r].owner
           address == [default |-> FALSE, details |-> details]
           book == Added(books[w], a, address)
<1>1. /\ edits[r].phase = "counted" /\ w \in Shoppers /\ a \notin issued
      /\ issued' = issued \cup {a} /\ Proceed(r, NoEdit)
      /\ books' = [books EXCEPT ![w] = book]
  BY EditFields DEF InsertAddress, AddressInv
<1>2. /\ address \in Addresses /\ ~address.default
      /\ books[w] \in [Saved(w) -> Addresses] /\ Saved(w) = DOMAIN books[w] /\ a \notin Saved(w)
      /\ UniqueDefault(books[w])
  BY <1>1 DEF Addresses, AddressInv, BooksSound, Saved
<1>3. /\ DOMAIN book = Saved(w) \cup {a} /\ book \in [Saved(w) \cup {a} -> Addresses]
      /\ book[a] = address /\ \A b \in Saved(w) : book[b] = books[w][b]
  <2> HIDE DEF address, w
  <2>1. /\ DOMAIN Added(books[w], a, address) = Saved(w) \cup {a}
        /\ Added(books[w], a, address) \in [Saved(w) \cup {a} -> Addresses]
        /\ Added(books[w], a, address)[a] = address
        /\ \A b \in Saved(w) \ {a} : Added(books[w], a, address)[b] = books[w][b]
    BY <1>2 DEF Added
  <2> QED
    BY <1>2, <2>1
<1> HIDE DEF book, address
<1>4. UniqueDefault(book)
  BY <1>2, <1>3 DEF UniqueDefault
<1>5. Defaults(w) # {} => \E b \in DOMAIN book : book[b].default
  BY <1>3 DEF Defaults
<1> QED
  BY <1>1, <1>3, <1>4, <1>5, WriteStep

LEMMA InsertDefaultStep ==
    ASSUME AddressInv, NEW r \in Edits, NEW a \in AddressIds, NEW details \in Details,
           InsertDefault(r, a, details)
    PROVE  Kept
<1> DEFINE w == edits[r].owner
           address == [default |-> TRUE, details |-> details]
           book == Added(Cleared(w, edits[r].seen), a, address)
<1>1. /\ edits[r].phase = "clearing" /\ w \in Shoppers /\ a \notin issued
      /\ issued' = issued \cup {a} /\ Proceed(r, NoEdit)
      /\ books' = [books EXCEPT ![w] = book] /\ UniqueDefault(book)
  BY EditFields DEF InsertDefault, AddressInv
<1>2. address \in Addresses /\ address.default = TRUE
  BY DEF Addresses
<1>3. /\ DOMAIN book = Saved(w) \cup {a} /\ book \in [Saved(w) \cup {a} -> Addresses]
      /\ book[a] = address
  <2> DEFINE cleared == Cleared(w, edits[r].seen)
  <2>1. cleared \in [Saved(w) -> Addresses] /\ DOMAIN cleared = Saved(w)
    BY <1>1, ClearedBook
  <2> HIDE DEF address, cleared
  <2>2. /\ DOMAIN Added(cleared, a, address) = Saved(w) \cup {a}
        /\ Added(cleared, a, address) \in [Saved(w) \cup {a} -> Addresses]
        /\ Added(cleared, a, address)[a] = address
    BY <1>2, <2>1 DEF Added
  <2> QED
    BY <2>2 DEF cleared
<1>4. \E b \in DOMAIN book : book[b].default
  BY <1>2, <1>3
<1> HIDE DEF book, address
<1> QED
  BY <1>1, <1>3, <1>4, WriteStep

LEMMA SwapStep ==
    ASSUME AddressInv, NEW r \in Edits, SwapDefault(r)
    PROVE  Kept
<1> DEFINE w == edits[r].owner
           id == edits[r].id
           cleared == Cleared(w, edits[r].seen)
           book == [cleared EXCEPT ![id].default = TRUE]
<1>1. /\ edits[r].phase = "swapping" /\ w \in Shoppers /\ id \in Saved(w)
      /\ issued' = issued /\ Proceed(r, NoEdit)
      /\ books' = [books EXCEPT ![w] = book] /\ UniqueDefault(book)
  BY EditFields DEF SwapDefault, AddressInv, EditsSound
<1>2. cleared \in [Saved(w) -> Addresses]
  BY <1>1, ClearedBook
<1> HIDE DEF cleared
<1>3. /\ [cleared[id] EXCEPT !.default = TRUE] \in Addresses
      /\ [cleared[id] EXCEPT !.default = TRUE].default = TRUE
  BY <1>1, <1>2 DEF Addresses
<1>4. /\ DOMAIN book = Saved(w) /\ book \in [Saved(w) -> Addresses]
      /\ book[id].default
  BY <1>1, <1>2, <1>3
<1>5. \E b \in DOMAIN book : book[b].default
  BY <1>1, <1>4
<1> HIDE DEF book
<1> QED
  BY <1>1, <1>4, <1>5, WriteStep

LEMMA UpdateStep ==
    ASSUME AddressInv, NEW r \in Edits, NEW details \in Details, UpdateAddress(r, details)
    PROVE  Kept
<1> DEFINE w == edits[r].owner
           id == edits[r].id
           book == [books[w] EXCEPT ![id].details = details]
<1>1. /\ edits[r].phase = "editing" /\ w \in Shoppers /\ id \in Saved(w)
      /\ issued' = issued /\ Proceed(r, NoEdit)
      /\ books' = [books EXCEPT ![w] = book]
  BY EditFields DEF UpdateAddress, AddressInv
<1>2. /\ books[w] \in [Saved(w) -> Addresses] /\ Saved(w) = DOMAIN books[w]
      /\ UniqueDefault(books[w])
  BY <1>1 DEF AddressInv, BooksSound, Saved
<1>3. /\ [books[w][id] EXCEPT !.details = details] \in Addresses
      /\ [books[w][id] EXCEPT !.details = details].default = books[w][id].default
  BY <1>1, <1>2 DEF Addresses
<1>4. /\ DOMAIN book = Saved(w) /\ book \in [Saved(w) -> Addresses]
      /\ \A b \in Saved(w) : book[b].default = books[w][b].default
  BY <1>1, <1>2, <1>3
<1> HIDE DEF book
<1>5. UniqueDefault(book)
  BY <1>2, <1>4 DEF UniqueDefault
<1>6. Defaults(w) # {} => \E b \in DOMAIN book : book[b].default
  BY <1>4 DEF Defaults
<1> QED
  BY <1>1, <1>4, <1>5, <1>6, WriteStep

LEMMA DeleteStep ==
    ASSUME AddressInv, NEW r \in Edits, DeleteAddress(r)
    PROVE  Kept
<1> DEFINE w == edits[r].owner
           id == edits[r].id
           book == [a \in Saved(w) \ {id} |-> books[w][a]]
<1>1. /\ edits[r].phase = "deleting" /\ w \in Shoppers /\ ~RowLocked(w, id, r)
      /\ issued' = issued /\ Proceed(r, NoEdit)
      /\ books' = [books EXCEPT ![w] = book]
  BY EditFields DEF DeleteAddress, AddressInv, BooksSound
<1>2. /\ books[w] \in [Saved(w) -> Addresses] /\ Saved(w) = DOMAIN books[w]
      /\ UniqueDefault(books[w])
  BY <1>1 DEF AddressInv, BooksSound, Saved
<1>3. /\ DOMAIN book = Saved(w) \ {id} /\ book \in [Saved(w) \ {id} -> Addresses]
      /\ \A b \in Saved(w) \ {id} : book[b] = books[w][b]
  BY <1>2
<1> HIDE DEF book
<1>4. UniqueDefault(book)
  BY <1>2, <1>3 DEF UniqueDefault
<1>5. (\A b \in DOMAIN book : ~book[b].default) => Defaults(w) \cap DOMAIN book = {}
  BY <1>3 DEF Defaults
<1> QED
  BY <1>1, <1>3, <1>4, <1>5, WriteStep
-----------------------------------------------------------------------------
(* The theorems. *)

LEMMA AddressInitInv ==
    ASSUME AddressInit
    PROVE  AddressInv
<1>1. DOMAIN books = Shoppers /\ \A w \in Shoppers : books[w] = <<>> /\ Saved(w) = {}
  BY DEF AddressInit, Saved
<1>2. BooksSound
  BY <1>1, FS_EmptySet DEF AddressInit, BooksSound, UniqueDefault, Saved
<1>3. edits \in [Edits -> EditRecords] /\ \A r \in Edits : edits[r].phase = "idle"
  BY NoEditIsEdit DEF AddressInit
<1>4. ASSUME NEW w \in Shoppers
      PROVE  Cardinality(Saved(w)) + Cardinality(Adding(w)) <= MaxAddresses + Cardinality(Edits) - 1
  <2>1. Saved(w) = {} /\ Adding(w) = {} /\ Cardinality({}) = 0
    BY <1>1, <1>3, FS_EmptySet DEF Adding
  <2> QED
    BY <2>1, AddingFinite, AddressAssumption
<1> QED
  BY <1>2, <1>3, <1>4 DEF AddressInv, EditsSound, RoomLeft

LEMMA AddressStep ==
    ASSUME AddressInv, [AddressNext]_addressVars
    PROVE  AddressInv' /\ [DefaultKeptStep]_addressVars
<1>1. CASE AddressNext
  <2>1. PICK r \in Edits : \/ AddressCollectionView(r) \/ AddressDetailView(r)
                           \/ AddressSetDefaultView(r) \/ Abandon(r)
    BY <1>1 DEF AddressNext
  <2>2. CASE AddressCollectionView(r)
    BY <2>2, CountStep, SnapshotStep, InsertStep, InsertDefaultStep DEF AddressCollectionView, Kept
  <2>3. CASE AddressDetailView(r)
    BY <2>3, FindStep, UpdateStep, DeleteStep DEF AddressDetailView, Kept
  <2>4. CASE AddressSetDefaultView(r)
    BY <2>4, LockStep, OthersStep, SwapStep DEF AddressSetDefaultView, Kept
  <2> QED
    BY <2>1, <2>2, <2>3, <2>4, AbandonStep DEF Kept
<1>2. CASE UNCHANGED addressVars
  BY <1>2 DEF addressVars, AddressInv, BooksSound, EditsSound, RoomLeft, Saved, Adding,
     UniqueDefault
<1> QED
  BY <1>1, <1>2

LEMMA AddressInvariant == AddressSpec => []AddressInv
<1>1. AddressInit => AddressInv
  BY AddressInitInv
<1>2. AddressInv /\ [AddressNext]_addressVars => AddressInv'
  BY AddressStep
<1> QED
  BY <1>1, <1>2, PTL DEF AddressSpec

\* The book of every owner holds addresses that were given out, and a swap in flight has a
\* row of its book.
THEOREM BooksTyped == AddressSpec => []AddressTypeOK
<1>1. AddressInv => AddressTypeOK
  BY DEF AddressInv, BooksSound, EditsSound, AddressTypeOK
<1> QED
  BY <1>1, AddressInvariant, PTL

\* An owner never has two default addresses, with any number of requests on the book.
THEOREM DefaultIsUnique == AddressSpec => []AtMostOneDefault
<1>1. AddressInv => AtMostOneDefault
  <2> SUFFICES ASSUME AddressInv, NEW w \in Shoppers
               PROVE  Cardinality(Defaults(w)) <= 1
    BY DEF AtMostOneDefault
  <2>1. \A a, b \in Defaults(w) : a = b
    BY DEF AddressInv, BooksSound, UniqueDefault, Defaults, Saved
  <2>2. Defaults(w) = {} \/ \E a : Defaults(w) = {a}
    BY <2>1
  <2>3. CASE Defaults(w) = {}
    BY <2>3, FS_EmptySet
  <2>4. CASE \E a : Defaults(w) = {a}
    <3>1. PICK a : Defaults(w) = {a}
      BY <2>4
    <3>2. Cardinality(Defaults(w)) = 1
      BY <3>1, FS_Singleton
    <3> QED
      BY <3>2
  <2> QED
    BY <2>2, <2>3, <2>4
<1> QED
  BY <1>1, AddressInvariant, PTL

\* A book passes its limit by no more than the requests that were in flight besides one.
THEOREM LimitOvershootIsBounded == AddressSpec => []OvershootBounded
<1>1. AddressInv => OvershootBounded
  <2> SUFFICES ASSUME AddressInv, NEW w \in Shoppers
               PROVE  Cardinality(Saved(w)) <= MaxAddresses + Cardinality(Edits) - 1
    BY DEF OvershootBounded
  <2>1. /\ Cardinality(Saved(w)) + Cardinality(Adding(w)) <= MaxAddresses + Cardinality(Edits) - 1
        /\ Cardinality(Saved(w)) \in Nat
    BY FS_CardinalityType DEF AddressInv, BooksSound, RoomLeft
  <2> QED
    BY <2>1, AddingFinite, AddressAssumption
<1> QED
  BY <1>1, AddressInvariant, PTL

\* A default goes only with its address: no swap and no edit leaves a book without one.
THEOREM DefaultIsKept == AddressSpec => DefaultKept
<1>1. AddressInv /\ [AddressNext]_addressVars => [DefaultKeptStep]_addressVars
  BY AddressStep
<1> QED
  BY <1>1, AddressInvariant, PTL DEF AddressSpec, DefaultKept, DefaultKeptStep
-----------------------------------------------------------------------------
(* Guest carts.  A merge is serial because it holds, from the moment it     *)
(* reads a cart to its commit, the locks of the rows of the guest that it   *)
(* has seen and of the user's carts that it has read.  The id of a row that *)
(* is gone is never given again, so the rows that are left to be deleted    *)
(* are the ones it locked.                                                  *)

\* One request at a time holds a cart.
OneHolder ==
    \A l, m \in Logins, w \in CartOwners, c \in Channels :
        Holds(l, w, c) /\ Holds(m, w, c) => l = m

\* An id that a guest's rows have or that a merge has seen has been given.
IdsGiven ==
    /\ \A g \in Guests, c \in Channels : opened[g][c] <= lastRow[g]
    /\ \A l \in Logins : logins[l].phase \in {"locking", "merging"} =>
           \A c \in Channels : logins[l].seen[c] <= lastRow[logins[l].guest]

\* What merge q has done is right for the carts as they are, and what it has not done yet is
\* on its list.
MergeRight(q) ==
    /\ q.todo \cup DOMAIN q.merged = Present(q)
    /\ \A c \in DOMAIN q.merged : q.merged[c] = MergeFrom(carts[q.user][c], carts[q.guest][c])

MergesRight == \A l \in Logins : logins[l].phase = "merging" => MergeRight(logins[l])

MergeInv == GuestCartTypeOK /\ OneHolder /\ IdsGiven /\ MergesRight

\* The fields of a request in flight.
LEMMA LoginFields ==
    ASSUME GuestCartTypeOK, NEW l \in Logins
    PROVE  /\ logins[l] \in LoginRecords
           /\ logins[l].phase \in {"idle", "asked", "writing", "login", "locking", "merging"}
           /\ logins[l].phase = "idle" <=> logins[l] = NoLogin
           /\ logins[l].phase \in {"asked", "writing"} =>
                  logins[l].owner \in CartOwners /\ logins[l].channel \in Channels
           /\ logins[l].phase = "writing" => logins[l].read \in Contents
           /\ logins[l].phase \in {"login", "locking", "merging"} =>
                  logins[l].guest \in Guests /\ logins[l].user \in Users
           /\ logins[l].phase \in {"locking", "merging"} => logins[l].seen \in [Channels -> Nat]
           /\ logins[l].phase = "merging" =>
                  /\ DOMAIN logins[l] = {"phase", "guest", "user", "seen", "todo", "merged"}
                  /\ logins[l].todo \subseteq Channels
                  /\ DOMAIN logins[l].merged \subseteq Channels
                  /\ logins[l].merged \in [DOMAIN logins[l].merged -> Contents]
<1>1. logins[l] \in LoginRecords
  BY DEF GuestCartTypeOK
<1>2. CASE logins[l].phase = "merging"
  <2>1. logins[l] \in [phase : {"merging"}, guest : Guests, user : Users,
                       seen : [Channels -> Nat], todo : SUBSET Channels,
                       merged : UNION {[S -> Contents] : S \in SUBSET Channels}]
    BY <1>1, <1>2 DEF LoginRecords, NoLogin
  <2>2. PICK S \in SUBSET Channels : logins[l].merged \in [S -> Contents]
    BY <2>1
  <2> QED
    BY <1>1, <2>1, <2>2 DEF NoLogin
<1>3. CASE logins[l].phase # "merging"
  BY <1>1, <1>3 DEF LoginRecords, NoLogin
<1> QED
  BY <1>2, <1>3

LEMMA NoLoginIsRecord == NoLogin \in LoginRecords
BY DEF LoginRecords

\* The record of a merge.
LEMMA MergingRecord ==
    ASSUME NEW g \in Guests, NEW u \in Users, NEW seen \in [Channels -> Nat],
           NEW todo \in SUBSET Channels, NEW merged, DOMAIN merged \subseteq Channels,
           merged \in [DOMAIN merged -> Contents]
    PROVE  [phase |-> "merging", guest |-> g, user |-> u, seen |-> seen, todo |-> todo,
            merged |-> merged] \in LoginRecords
<1>1. merged \in UNION {[S -> Contents] : S \in SUBSET Channels}
  OBVIOUS
<1> QED
  BY <1>1 DEF LoginRecords

\* Merging two carts gives a cart.
LEMMA MergeFromCart ==
    ASSUME NEW a \in Contents, NEW b \in Contents
    PROVE  MergeFrom(a, b) \in Contents
<1>1. \A k \in Variants : a[k] \in 0..MaxQuantity /\ b[k] \in 0..MaxQuantity /\ MaxQuantity \in Nat
  BY GuestCartAssumption DEF Contents
<1>2. \A k \in Variants : Least(a[k] + b[k], MaxQuantity) \in 0..MaxQuantity
  BY <1>1 DEF Least
<1> QED
  BY <1>2 DEF MergeFrom, Contents

\* A step that writes no cart: request l goes on with q.  It may take a lock that nobody
\* held, of a cart that it records as it is.
LEMMA GoesOn ==
    ASSUME MergeInv, NEW l \in Logins, NEW q \in LoginRecords, Continue(l, q), Untouched,
           \A w \in CartOwners, c \in Channels :
               Holds(l, w, c)' => Holds(l, w, c) \/ ~CartLocked(w, c),
           q.phase \in {"locking", "merging"} => \A c \in Channels : q.seen[c] <= lastRow[q.guest],
           q.phase = "merging" => MergeRight(q)
    PROVE  MergeInv'
<1>1. /\ logins' \in [Logins -> LoginRecords] /\ logins'[l] = q
      /\ \A m \in Logins : m # l => logins'[m] = logins[m]
  BY DEF Continue, MergeInv, GuestCartTypeOK
<1>2. GuestCartTypeOK'
  BY <1>1 DEF MergeInv, GuestCartTypeOK, Untouched
<1>3. OneHolder'
  <2> SUFFICES ASSUME NEW m \in Logins, NEW n \in Logins, NEW w \in CartOwners, NEW c \in Channels,
                      Holds(m, w, c)', Holds(n, w, c)'
               PROVE  m = n
    BY DEF OneHolder
  <2>1. \A x \in Logins : x # l /\ Holds(x, w, c)' => Holds(x, w, c)
    BY <1>1 DEF Holds
  <2>2. Holds(m, w, c) \/ (m = l /\ ~CartLocked(w, c))
    BY <2>1
  <2>3. Holds(n, w, c) \/ (n = l /\ ~CartLocked(w, c))
    BY <2>1
  <2> QED
    BY <2>2, <2>3 DEF MergeInv, OneHolder, CartLocked
<1>4. IdsGiven'
  BY <1>1 DEF MergeInv, IdsGiven, Untouched
<1>5. MergesRight'
  BY <1>1 DEF MergeInv, MergesRight, MergeRight, Present, Untouched
<1> QED
  BY <1>2, <1>3, <1>4, <1>5 DEF MergeInv

\* A request that ends without a write lets its locks go, and one that waits for its first
\* has none.
LEMMA HoldsNothing ==
    ASSUME MergeInv, NEW l \in Logins, NEW q \in LoginRecords, Continue(l, q), Untouched,
           q.phase \in {"idle", "asked", "login", "locking"},
           q.phase = "locking" => \A c \in Channels : q.seen[c] <= lastRow[q.guest]
    PROVE  MergeInv'
<1>1. \A w \in CartOwners, c \in Channels : ~ Holds(l, w, c)'
  BY DEF Continue, MergeInv, GuestCartTypeOK, Holds
<1> QED
  BY <1>1, GoesOn

LEMMA GivesUp ==
    ASSUME MergeInv, NEW l \in Logins, Continue(l, NoLogin), Untouched
    PROVE  MergeInv'
BY NoLoginIsRecord, HoldsNothing DEF NoLogin

LEMMA AskWriteInv ==
    ASSUME MergeInv, NEW l \in Logins, NEW w \in CartOwners, NEW c \in Channels, AskWrite(l, w, c)
    PROVE  MergeInv'
<1>1. [phase |-> "asked", owner |-> w, channel |-> c] \in LoginRecords
  BY DEF LoginRecords
<1> QED
  BY <1>1, HoldsNothing DEF AskWrite

LEMMA SendLoginInv ==
    ASSUME MergeInv, NEW l \in Logins, NEW g \in Guests, NEW u \in Users, SendLogin(l, g, u)
    PROVE  MergeInv'
<1>1. [phase |-> "login", guest |-> g, user |-> u] \in LoginRecords
  BY DEF LoginRecords
<1> QED
  BY <1>1, HoldsNothing DEF SendLogin

LEMMA BeginMergeInv ==
    ASSUME MergeInv, NEW l \in Logins, BeginMerge(l)
    PROVE  MergeInv'
<1> DEFINE g == logins[l].guest
           q == [phase |-> "locking", guest |-> g, user |-> logins[l].user, seen |-> opened[g]]
<1>1. g \in Guests /\ logins[l].user \in Users
  BY LoginFields DEF MergeInv, BeginMerge
<1>2. opened[g] \in [Channels -> Nat] /\ \A c \in Channels : opened[g][c] <= lastRow[g]
  BY <1>1 DEF MergeInv, GuestCartTypeOK, IdsGiven
<1>3. q \in LoginRecords
  BY <1>1, <1>2 DEF LoginRecords
<1>4. Continue(l, q) /\ Untouched
  BY DEF BeginMerge
<1>5. q.phase = "locking" /\ q.seen = opened[g] /\ q.guest = g
  OBVIOUS
<1> HIDE DEF q, g
<1> QED
  BY <1>2, <1>3, <1>4, <1>5, HoldsNothing

LEMMA LockOrCreateInv ==
    ASSUME MergeInv, NEW l \in Logins, LockOrCreate(l)
    PROVE  MergeInv'
<1> DEFINE w == logins[l].owner
           c == logins[l].channel
           q == [phase |-> "writing", owner |-> w, channel |-> c, read |-> carts[w][c]]
<1>1. w \in CartOwners /\ c \in Channels
  BY LoginFields DEF MergeInv, LockOrCreate
<1>2. carts[w][c] \in Contents
  BY <1>1 DEF MergeInv, GuestCartTypeOK
<1>3. q \in LoginRecords /\ q.phase = "writing" /\ q.owner = w /\ q.channel = c
  BY <1>1, <1>2 DEF LoginRecords
<1>4. Continue(l, q) /\ Untouched /\ ~CartLocked(w, c)
  BY DEF LockOrCreate
<1> HIDE DEF q, w, c
<1>5. ASSUME NEW v \in CartOwners, NEW d \in Channels, Holds(l, v, d)' PROVE ~CartLocked(v, d)
  <2>1. logins'[l] = q
    BY <1>4 DEF Continue, MergeInv, GuestCartTypeOK
  <2>2. v = w /\ d = c
    BY <1>3, <1>5, <2>1 DEF Holds
  <2> QED
    BY <1>4, <2>2
<1> QED
  BY <1>3, <1>4, <1>5, GoesOn

LEMMA LockRowsInv ==
    ASSUME MergeInv, NEW l \in Logins, LockRows(l)
    PROVE  MergeInv'
<1> DEFINE p == logins[l]
           q == [phase |-> "merging", guest |-> p.guest, user |-> p.user, seen |-> p.seen,
                 todo |-> Present(p), merged |-> <<>>]
<1>1. /\ p.phase = "locking" /\ p.guest \in Guests /\ p.user \in Users
      /\ p.seen \in [Channels -> Nat]
      /\ \A c \in Channels : p.seen[c] <= lastRow[p.guest]
  BY LoginFields DEF MergeInv, LockRows, IdsGiven
<1>2. /\ Continue(l, q) /\ Untouched
      /\ \A c \in Present(p) : ~CartLocked(p.guest, c)
  BY DEF LockRows
<1>3. Present(p) \subseteq Channels
  BY DEF Present
<1>4. DOMAIN <<>> = {} /\ <<>> \in [DOMAIN <<>> -> Contents]
  <2>1. <<>> = [x \in {} |-> x]
    OBVIOUS
  <2> QED
    BY <2>1
<1>5. q \in LoginRecords
  BY <1>1, <1>3, <1>4, MergingRecord
<1>6. /\ q.phase = "merging" /\ q.guest = p.guest /\ q.user = p.user /\ q.seen = p.seen
      /\ q.todo = Present(p) /\ DOMAIN q.merged = {}
  BY <1>4
<1>7. Present(q) = Present(p)
  BY <1>6 DEF Present
<1>8. MergeRight(q)
  BY <1>6, <1>7 DEF MergeRight
<1> HIDE DEF q, p
<1>9. ASSUME NEW v \in CartOwners, NEW d \in Channels, Holds(l, v, d)' PROVE ~CartLocked(v, d)
  <2>1. logins'[l] = q
    BY <1>2 DEF Continue, MergeInv, GuestCartTypeOK
  <2>2. v = p.guest /\ d \in Present(p)
    BY <1>6, <1>9, <2>1 DEF Holds
  <2> QED
    BY <1>2, <2>2
<1> QED
  BY <1>1, <1>2, <1>5, <1>6, <1>8, <1>9, GoesOn

\* The record of a merge that has absorbed one more channel.
LEMMA MergeUpdated ==
    ASSUME NEW p, NEW todo, NEW merged,
           DOMAIN p = {"phase", "guest", "user", "seen", "todo", "merged"}, p.phase = "merging"
    PROVE  [p EXCEPT !.todo = todo, !.merged = merged] =
               [phase |-> "merging", guest |-> p.guest, user |-> p.user, seen |-> p.seen,
                todo |-> todo, merged |-> merged]
<1> DEFINE q == [p EXCEPT !.todo = todo, !.merged = merged]
<1>1. /\ DOMAIN q = {"phase", "guest", "user", "seen", "todo", "merged"}
      /\ q = [x \in DOMAIN q |-> q[x]]
  OBVIOUS
<1>2. /\ q.phase = "merging" /\ q.guest = p.guest /\ q.user = p.user /\ q.seen = p.seen
      /\ q.todo = todo /\ q.merged = merged
  OBVIOUS
<1> HIDE DEF q
<1>3. q = [phase |-> "merging", guest |-> p.guest, user |-> p.user, seen |-> p.seen,
           todo |-> todo, merged |-> merged]
  BY <1>1, <1>2
<1> QED
  BY <1>3 DEF q

LEMMA AbsorbChannelInv ==
    ASSUME MergeInv, NEW l \in Logins, NEW c \in Channels, AbsorbChannel(l, c)
    PROVE  MergeInv'
<1> DEFINE p == logins[l]
           more == [d \in DOMAIN p.merged \cup {c} |->
                       IF d = c THEN MergeFrom(carts[p.user][c], carts[p.guest][c])
                       ELSE p.merged[d]]
           q == [p EXCEPT !.todo = p.todo \ {c}, !.merged = more]
<1>1. p.phase = "merging" /\ c \in p.todo /\ ~CartLocked(p.user, c) /\ Untouched
  BY DEF AbsorbChannel, IsNext
<1>2. Continue(l, q)
  BY DEF AbsorbChannel, Absorbed
<1>3. /\ p.guest \in Guests /\ p.user \in Users /\ p.seen \in [Channels -> Nat]
      /\ DOMAIN p = {"phase", "guest", "user", "seen", "todo", "merged"}
      /\ p.todo \subseteq Channels
      /\ DOMAIN p.merged \subseteq Channels /\ p.merged \in [DOMAIN p.merged -> Contents]
      /\ \A d \in Channels : p.seen[d] <= lastRow[p.guest]
      /\ MergeRight(p)
  BY <1>1, LoginFields DEF MergeInv, IdsGiven, MergesRight
<1>4. MergeFrom(carts[p.user][c], carts[p.guest][c]) \in Contents
  <2>1. carts[p.user][c] \in Contents /\ carts[p.guest][c] \in Contents
    BY <1>3 DEF MergeInv, GuestCartTypeOK, CartOwners
  <2> QED
    BY <2>1, MergeFromCart
<1>5. more \in [DOMAIN more -> Contents] /\ DOMAIN more = DOMAIN p.merged \cup {c}
  BY <1>3, <1>4
<1>6. /\ q = [phase |-> "merging", guest |-> p.guest, user |-> p.user, seen |-> p.seen,
              todo |-> p.todo \ {c}, merged |-> more]
      /\ q.phase = "merging" /\ q.guest = p.guest /\ q.user = p.user /\ q.seen = p.seen
      /\ q.todo = p.todo \ {c} /\ q.merged = more
  <2> HIDE DEF p, more
  <2>1. q = [phase |-> "merging", guest |-> p.guest, user |-> p.user, seen |-> p.seen,
             todo |-> p.todo \ {c}, merged |-> more]
    BY <1>1, <1>3, MergeUpdated DEF q
  <2> QED
    BY <2>1
<1>7. \A d \in DOMAIN more : more[d] = MergeFrom(carts[p.user][d], carts[p.guest][d])
  BY <1>3 DEF MergeRight
<1> HIDE DEF more, q
<1>8. MergeRight(q)
  <2>1. Present(q) = Present(p)
    BY <1>6 DEF Present
  <2>2. q.todo \cup DOMAIN q.merged = p.todo \cup DOMAIN p.merged
    BY <1>1, <1>5, <1>6
  <2> QED
    BY <1>3, <1>6, <1>7, <2>1, <2>2 DEF MergeRight
<1>9. ASSUME NEW v \in CartOwners, NEW d \in Channels, Holds(l, v, d)'
      PROVE  Holds(l, v, d) \/ ~CartLocked(v, d)
  <2>1. logins'[l] = q
    BY <1>2 DEF Continue, MergeInv, GuestCartTypeOK
  <2>2. \/ v = p.guest /\ d \in p.todo \cup DOMAIN p.merged
        \/ v = p.user /\ d \in DOMAIN p.merged \cup {c}
    BY <1>1, <1>5, <1>6, <1>9, <2>1 DEF Holds
  <2> QED
    BY <1>1, <2>2 DEF Holds
<1>10. q \in LoginRecords
  <2>1. p.todo \ {c} \in SUBSET Channels /\ DOMAIN more \subseteq Channels
    BY <1>3, <1>5
  <2> QED
    BY <1>3, <1>5, <1>6, <2>1, MergingRecord
<1> HIDE DEF p
<1> QED
  BY <1>1, <1>2, <1>3, <1>6, <1>8, <1>9, <1>10, GoesOn

\* A write holds the cart it writes, so it is none that a merge has read or is about to; and
\* a row it creates has an id that no merge has seen.
LEMMA WriteCartInv ==
    ASSUME MergeInv, NEW l \in Logins, NEW k \in Variants, NEW n \in Wanted, WriteCart(l, k, n)
    PROVE  MergeInv'
<1> DEFINE w == logins[l].owner
           c == logins[l].channel
           lines == [logins[l].read EXCEPT ![k] = n]
           creates == w \in Guests /\ opened[w][c] = 0
<1>1. /\ logins[l].phase = "writing" /\ w \in CartOwners /\ c \in Channels
      /\ logins[l].read \in Contents
  BY LoginFields DEF WriteCart, MergeInv
<1>2. lines \in Contents
  BY <1>1, GuestCartAssumption DEF Contents
<1>3. /\ carts' = [carts EXCEPT ![w][c] = lines]
      /\ opened' = IF creates THEN [opened EXCEPT ![w][c] = lastRow[w] + 1] ELSE opened
      /\ lastRow' = IF creates THEN [lastRow EXCEPT ![w] = lastRow[w] + 1] ELSE lastRow
      /\ Continue(l, NoLogin) /\ UNCHANGED cookies
  BY DEF WriteCart
<1>4. Holds(l, w, c)
  BY <1>1 DEF Holds
<1> HIDE DEF lines
<1>5. /\ logins' \in [Logins -> LoginRecords] /\ logins'[l] = NoLogin
      /\ \A m \in Logins : m # l => logins'[m] = logins[m]
  BY <1>3, NoLoginIsRecord DEF Continue, MergeInv, GuestCartTypeOK
<1>6. /\ \A v \in CartOwners, d \in Channels : ~(v = w /\ d = c) => carts'[v][d] = carts[v][d]
      /\ carts' \in [CartOwners -> [Channels -> Contents]]
  BY <1>1, <1>2, <1>3 DEF MergeInv, GuestCartTypeOK
<1>7. /\ opened' \in [Guests -> [Channels -> Nat]] /\ lastRow' \in [Guests -> Nat]
      /\ \A g \in Guests : lastRow[g] <= lastRow'[g]
      /\ \A g \in Guests, d \in Channels :
             \/ opened'[g][d] = opened[g][d]
             \/ opened[g][d] = 0 /\ opened'[g][d] = lastRow[g] + 1 /\ lastRow'[g] = lastRow[g] + 1
  <2>1. CASE creates
    <3>1. lastRow[w] \in Nat
      BY <2>1 DEF MergeInv, GuestCartTypeOK
    <3> QED
      BY <1>1, <1>3, <2>1, <3>1 DEF MergeInv, GuestCartTypeOK
  <2>2. CASE ~creates
    BY <1>3, <2>2 DEF MergeInv, GuestCartTypeOK
  <2> QED
    BY <2>1, <2>2
<1> HIDE DEF creates
<1>8. GuestCartTypeOK'
  BY <1>3, <1>5, <1>6, <1>7 DEF MergeInv, GuestCartTypeOK
<1>9. \A m \in Logins, v \in CartOwners, d \in Channels :
            Holds(m, v, d)' => m # l /\ Holds(m, v, d)
  BY <1>5 DEF Holds, NoLogin
<1>10. OneHolder'
  BY <1>9 DEF MergeInv, OneHolder
<1>11. IdsGiven'
  <2>1. ASSUME NEW g \in Guests, NEW d \in Channels PROVE opened'[g][d] <= lastRow'[g]
    BY <1>7 DEF MergeInv, IdsGiven, GuestCartTypeOK
  <2>2. ASSUME NEW m \in Logins, logins'[m].phase \in {"locking", "merging"}, NEW d \in Channels
        PROVE  logins'[m].seen[d] <= lastRow'[logins'[m].guest]
    <3>1. logins'[m] = logins[m]
      BY <1>5, <2>2 DEF NoLogin
    <3>2. logins[m].guest \in Guests /\ logins[m].seen[d] \in Nat
      BY <2>2, <3>1, LoginFields DEF MergeInv
    <3> QED
      BY <1>7, <2>2, <3>1, <3>2 DEF MergeInv, IdsGiven, GuestCartTypeOK
  <2> QED
    BY <2>1, <2>2 DEF IdsGiven
<1>12. MergesRight'
  <2> SUFFICES ASSUME NEW m \in Logins, logins'[m].phase = "merging"
               PROVE  MergeRight(logins[m])'
    BY DEF MergesRight
  <2>1. m # l /\ logins'[m] = logins[m] /\ logins[m].phase = "merging"
    BY <1>5 DEF NoLogin
  <2>2. /\ logins[m].guest \in Guests /\ logins[m].user \in Users
        /\ DOMAIN logins[m].merged \subseteq Channels
        /\ logins[m].seen \in [Channels -> Nat]
        /\ \A d \in Channels : logins[m].seen[d] <= lastRow[logins[m].guest]
        /\ MergeRight(logins[m])
    BY <2>1, LoginFields DEF MergeInv, IdsGiven, MergesRight
  <2>3. ~ Holds(m, w, c)
    BY <1>1, <1>4, <2>1 DEF MergeInv, OneHolder
  <2>4. /\ ~(logins[m].guest = w /\ c \in DOMAIN logins[m].merged)
        /\ ~(logins[m].user = w /\ c \in DOMAIN logins[m].merged)
    BY <2>1, <2>3 DEF Holds
  <2>5. Present(logins[m])' = Present(logins[m])
    <3>1. \A d \in Channels :
              (logins[m].seen[d] # 0 /\ opened'[logins[m].guest][d] = logins[m].seen[d])
                  <=> (logins[m].seen[d] # 0 /\ opened[logins[m].guest][d] = logins[m].seen[d])
      <4> TAKE d \in Channels
      <4>1. /\ logins[m].seen[d] \in Nat /\ lastRow[logins[m].guest] \in Nat
            /\ logins[m].seen[d] <= lastRow[logins[m].guest]
        BY <2>2 DEF MergeInv, GuestCartTypeOK
      <4> QED
        BY <1>7, <2>2, <4>1
    <3> QED
      BY <2>1, <3>1 DEF Present
  <2>6. \A d \in DOMAIN logins[m].merged :
            /\ carts'[logins[m].user][d] = carts[logins[m].user][d]
            /\ carts'[logins[m].guest][d] = carts[logins[m].guest][d]
    BY <1>6, <2>2, <2>4 DEF CartOwners
  <2> QED
    BY <2>1, <2>2, <2>5, <2>6 DEF MergeRight
<1> QED
  BY <1>8, <1>10, <1>11, <1>12 DEF MergeInv

\* What a merge that commits makes of the carts.
MergedInto(l) ==
    LET g == logins[l].guest
        u == logins[l].user
    IN  \A c \in Channels :
            IF c \in Present(logins[l])
            THEN /\ carts'[g][c] = Empty
                 /\ carts'[u][c] = MergeFrom(carts[u][c], carts[g][c])
            ELSE carts'[g][c] = carts[g][c] /\ carts'[u][c] = carts[u][c]

\* A merge commits what is right for the carts of that moment, and they are its own.
LEMMA CommitMergeInv ==
    ASSUME MergeInv, NEW l \in Logins, CommitMerge(l)
    PROVE  MergeInv' /\ MergedInto(l)
<1> DEFINE q == logins[l]
           user == [c \in Channels |->
                       IF c \in DOMAIN q.merged THEN q.merged[c] ELSE carts[q.user][c]]
           left == [c \in Channels |->
                       IF c \in DOMAIN q.merged THEN Empty ELSE carts[q.guest][c]]
           rows == [c \in Channels |->
                       IF c \in DOMAIN q.merged THEN 0 ELSE opened[q.guest][c]]
<1>1. /\ q.guest \in Guests /\ q.user \in Users /\ q.guest # q.user
      /\ q.guest \in CartOwners /\ q.user \in CartOwners
      /\ DOMAIN q.merged \subseteq Channels /\ q.merged \in [DOMAIN q.merged -> Contents]
  BY LoginFields, GuestCartAssumption DEF CommitMerge, MergeInv, CartOwners
<1>2. /\ q.phase = "merging" /\ q.todo = {}
      /\ cookies' = cookies \ {q.guest}
      /\ Continue(l, NoLogin) /\ UNCHANGED lastRow
      /\ opened' = [opened EXCEPT ![q.guest] = rows]
      /\ carts' = [carts EXCEPT ![q.user] = user, ![q.guest] = left]
  BY <1>1 DEF CommitMerge, MergeInv, GuestCartTypeOK
<1>3. /\ DOMAIN q.merged = Present(q)
      /\ \A c \in DOMAIN q.merged : q.merged[c] = MergeFrom(carts[q.user][c], carts[q.guest][c])
  BY <1>2 DEF MergeInv, MergesRight, MergeRight
<1>4. /\ user \in [Channels -> Contents] /\ left \in [Channels -> Contents]
      /\ rows \in [Channels -> Nat]
  <2>1. Empty \in Contents
    BY GuestCartAssumption DEF Empty, Contents
  <2>2. /\ carts[q.user] \in [Channels -> Contents] /\ carts[q.guest] \in [Channels -> Contents]
        /\ opened[q.guest] \in [Channels -> Nat]
    BY <1>1 DEF MergeInv, GuestCartTypeOK
  <2> QED
    BY <1>1, <2>1, <2>2
<1>5. /\ \A c \in DOMAIN q.merged :
             /\ user[c] = MergeFrom(carts[q.user][c], carts[q.guest][c])
             /\ left[c] = Empty /\ rows[c] = 0
      /\ \A c \in Channels \ DOMAIN q.merged :
             /\ user[c] = carts[q.user][c] /\ left[c] = carts[q.guest][c]
             /\ rows[c] = opened[q.guest][c]
  BY <1>1, <1>3
<1> HIDE DEF user, left, rows
<1>6. /\ carts' \in [CartOwners -> [Channels -> Contents]]
      /\ carts'[q.user] = user /\ carts'[q.guest] = left
      /\ \A v \in CartOwners : v # q.user /\ v # q.guest => carts'[v] = carts[v]
  BY <1>1, <1>2, <1>4 DEF MergeInv, GuestCartTypeOK
<1>7. MergedInto(l)
  BY <1>1, <1>3, <1>5, <1>6 DEF MergedInto
<1>8. /\ logins' \in [Logins -> LoginRecords] /\ logins'[l] = NoLogin
      /\ \A m \in Logins : m # l => logins'[m] = logins[m]
  BY <1>2, NoLoginIsRecord DEF Continue, MergeInv, GuestCartTypeOK
<1>9. /\ opened' \in [Guests -> [Channels -> Nat]] /\ opened'[q.guest] = rows
      /\ \A g \in Guests : g # q.guest => opened'[g] = opened[g]
  BY <1>1, <1>2, <1>4 DEF MergeInv, GuestCartTypeOK
<1>10. GuestCartTypeOK'
  BY <1>2, <1>6, <1>8, <1>9 DEF MergeInv, GuestCartTypeOK
<1>11. OneHolder'
  <2>1. \A m \in Logins, v \in CartOwners, d \in Channels :
            Holds(m, v, d)' => m # l /\ Holds(m, v, d)
    BY <1>8 DEF Holds, NoLogin
  <2> QED
    BY <2>1 DEF MergeInv, OneHolder
<1>12. IdsGiven'
  <2>1. ASSUME NEW g \in Guests, NEW d \in Channels PROVE opened'[g][d] <= lastRow'[g]
    <3>1. opened'[g][d] = opened[g][d] \/ opened'[g][d] = 0
      BY <1>5, <1>9
    <3>2. opened[g][d] \in Nat /\ lastRow[g] \in Nat /\ opened[g][d] <= lastRow[g]
      BY DEF MergeInv, GuestCartTypeOK, IdsGiven
    <3> QED
      BY <1>2, <3>1, <3>2
  <2>2. \A m \in Logins : logins'[m].phase \in {"locking", "merging"} => logins'[m] = logins[m]
    BY <1>8 DEF NoLogin
  <2> QED
    BY <1>2, <2>1, <2>2 DEF MergeInv, IdsGiven
<1>13. MergesRight'
  <2> SUFFICES ASSUME NEW m \in Logins, logins'[m].phase = "merging"
               PROVE  MergeRight(logins[m])'
    BY DEF MergesRight
  <2>1. m # l /\ logins'[m] = logins[m] /\ logins[m].phase = "merging"
    BY <1>8 DEF NoLogin
  <2>2. /\ logins[m].guest \in Guests /\ logins[m].user \in Users
        /\ logins[m].guest \in CartOwners /\ logins[m].user \in CartOwners
        /\ DOMAIN logins[m].merged \subseteq Channels
        /\ MergeRight(logins[m])
    BY <2>1, LoginFields DEF MergeInv, CartOwners, MergesRight
  <2>3. ASSUME NEW d \in DOMAIN q.merged
        PROVE  /\ ~(logins[m].guest = q.guest /\ d \in logins[m].todo \cup DOMAIN logins[m].merged)
               /\ ~(logins[m].user = q.user /\ d \in DOMAIN logins[m].merged)
    <3>1. Holds(l, q.guest, d) /\ Holds(l, q.user, d) /\ d \in Channels
      BY <1>1, <1>2 DEF Holds
    <3>2. ~Holds(m, q.guest, d) /\ ~Holds(m, q.user, d)
      BY <1>1, <2>1, <3>1 DEF MergeInv, OneHolder
    <3> QED
      BY <2>1, <3>2 DEF Holds
  <2>4. logins[m].guest # q.user /\ logins[m].user # q.guest
    BY <1>1, <2>2, GuestCartAssumption
  <2>5. Present(logins[m])' = Present(logins[m])
    <3>1. ASSUME NEW d \in Channels
          PROVE  (logins[m].seen[d] # 0 /\ opened'[logins[m].guest][d] = logins[m].seen[d])
                     <=> (logins[m].seen[d] # 0 /\ opened[logins[m].guest][d] = logins[m].seen[d])
      <4>1. CASE logins[m].guest # q.guest
        BY <1>9, <2>2, <4>1
      <4>2. CASE logins[m].guest = q.guest /\ d \notin DOMAIN q.merged
        BY <1>5, <1>9, <4>2
      <4>3. CASE logins[m].guest = q.guest /\ d \in DOMAIN q.merged
        <5>1. opened'[logins[m].guest][d] = 0
          BY <1>5, <1>9, <4>3
        <5>2. d \notin Present(logins[m])
          BY <2>2, <2>3, <4>3 DEF MergeRight
        <5> QED
          BY <5>1, <5>2 DEF Present
      <4> QED
        BY <4>1, <4>2, <4>3
    <3> QED
      BY <2>1, <3>1 DEF Present
  <2>6. ASSUME NEW d \in DOMAIN logins[m].merged
        PROVE  /\ carts'[logins[m].user][d] = carts[logins[m].user][d]
               /\ carts'[logins[m].guest][d] = carts[logins[m].guest][d]
    <3>1. d \in Channels
      BY <2>2
    <3>2. carts'[logins[m].user][d] = carts[logins[m].user][d]
      BY <1>5, <1>6, <2>2, <2>3, <2>4, <3>1
    <3>3. carts'[logins[m].guest][d] = carts[logins[m].guest][d]
      BY <1>5, <1>6, <2>2, <2>3, <2>4, <3>1
    <3> QED
      BY <3>2, <3>3
  <2> QED
    BY <2>1, <2>2, <2>5, <2>6 DEF MergeRight
<1> QED
  BY <1>7, <1>10, <1>11, <1>12, <1>13 DEF MergeInv

LEMMA GuestCartInitInv == GuestCartInit => MergeInv
<1> SUFFICES ASSUME GuestCartInit PROVE MergeInv
  OBVIOUS
<1>1. Empty \in Contents
  BY GuestCartAssumption DEF Empty, Contents
<1>2. GuestCartTypeOK
  BY <1>1, NoLoginIsRecord DEF GuestCartInit, GuestCartTypeOK
<1>3. \A l \in Logins : logins[l].phase = "idle"
  BY DEF GuestCartInit, NoLogin
<1>4. IdsGiven
  BY <1>3 DEF GuestCartInit, IdsGiven
<1> QED
  BY <1>2, <1>3, <1>4 DEF MergeInv, OneHolder, Holds, MergesRight

\* Every step keeps the invariant, and one that ends a merge with a write merges.
LEMMA GuestCartStep ==
    ASSUME MergeInv, [GuestCartNext]_cartVars
    PROVE  /\ MergeInv'
           /\ \A l \in Logins :
                  logins[l].phase = "merging" /\ carts' # carts /\ logins'[l] = NoLogin
                      => MergedInto(l)
<1>1. CASE UNCHANGED cartVars
  BY <1>1 DEF cartVars, MergeInv, GuestCartTypeOK, OneHolder, Holds, IdsGiven, MergesRight,
              MergeRight, Present
<1>2. ASSUME NEW m \in Logins, LoseRequest(m) \/ MergeFails(m) PROVE MergeInv' /\ carts' = carts
  BY <1>2, GivesUp DEF LoseRequest, MergeFails, Untouched
<1>3. ASSUME NEW m \in Logins, NEW w \in CartOwners, NEW c \in Channels, AskWrite(m, w, c)
      PROVE  MergeInv' /\ carts' = carts
  BY <1>3, AskWriteInv DEF AskWrite, Untouched
<1>4. ASSUME NEW m \in Logins, NEW g \in Guests, NEW u \in Users, SendLogin(m, g, u)
      PROVE  MergeInv' /\ carts' = carts
  BY <1>4, SendLoginInv DEF SendLogin, Untouched
<1>5. ASSUME NEW m \in Logins, LockOrCreate(m) PROVE MergeInv' /\ carts' = carts
  BY <1>5, LockOrCreateInv DEF LockOrCreate, Untouched
<1>6. ASSUME NEW m \in Logins, BeginMerge(m) PROVE MergeInv' /\ carts' = carts
  BY <1>6, BeginMergeInv DEF BeginMerge, Untouched
<1>7. ASSUME NEW m \in Logins, LockRows(m) PROVE MergeInv' /\ carts' = carts
  BY <1>7, LockRowsInv DEF LockRows, Untouched
<1>8. ASSUME NEW m \in Logins, AbsorbNext(m) PROVE MergeInv' /\ carts' = carts
  BY <1>8, AbsorbChannelInv DEF AbsorbNext, AbsorbChannel, Untouched
<1>9. ASSUME NEW m \in Logins, FinishWrite(m)
      PROVE  /\ MergeInv'
             /\ \A l \in Logins : logins[l].phase = "merging" => logins'[l] # NoLogin
  <2>1. logins[m].phase = "writing" /\ logins' = [logins EXCEPT ![m] = NoLogin]
    BY <1>9 DEF FinishWrite, WriteCart, Continue
  <2>2. \A l \in Logins : logins[l].phase = "merging" => logins'[l] = logins[l]
    BY <2>1 DEF MergeInv, GuestCartTypeOK
  <2> QED
    BY <1>9, <2>2, WriteCartInv DEF FinishWrite, NoLogin
<1>10. ASSUME NEW m \in Logins, CommitMerge(m)
       PROVE  /\ MergeInv' /\ MergedInto(m)
              /\ \A l \in Logins : logins[l].phase = "merging" /\ l # m => logins'[l] # NoLogin
  <2>1. \A l \in Logins : l # m => logins'[l] = logins[l]
    BY <1>10 DEF CommitMerge, Continue, MergeInv, GuestCartTypeOK
  <2> QED
    BY <1>10, <2>1, CommitMergeInv DEF NoLogin
<1>11. CASE GuestCartNext
  BY <1>2, <1>3, <1>4, <1>5, <1>6, <1>7, <1>8, <1>9, <1>10, <1>11 DEF GuestCartNext
<1> QED
  BY <1>1, <1>11 DEF cartVars

\* Carts, rows, cookies and requests have their types.
THEOREM GuestCartsTyped == GuestCartSpec => []GuestCartTypeOK
<1>1. MergeInv /\ [GuestCartNext]_cartVars => MergeInv'
  BY GuestCartStep
<1>2. MergeInv => GuestCartTypeOK
  BY DEF MergeInv
<1> QED
  BY <1>1, <1>2, GuestCartInitInv, PTL DEF GuestCartSpec

\* A merge is serial, for any number of guests, users, channels and requests: of the rows its
\* login saw, it takes those that are still there, and leaves in the user's cart of each
\* channel what merging the two carts of that moment gives; it touches no other cart, so a row
\* committed after it looked stays (merge_guest_into_user).
THEOREM MergesAreSerial == GuestCartSpec => MergeSerial
<1>1. MergeInv /\ [GuestCartNext]_cartVars => MergeInv'
  BY GuestCartStep
<1>2. MergeInv /\ [GuestCartNext]_cartVars =>
          [\A l \in Logins : logins[l].phase = "merging" /\ carts' # carts /\ logins'[l] = NoLogin
              => MergedInto(l)]_cartVars
  BY GuestCartStep
<1> QED
  BY <1>1, <1>2, GuestCartInitInv, PTL DEF GuestCartSpec, MergeSerial, MergedInto
-----------------------------------------------------------------------------
(* What an order costs. *)

LEMMA LeastIndex ==
    ASSUME NEW S \in SUBSET Nat, S # {}
    PROVE  Min(S) \in S /\ \A i \in S : Min(S) <= i
BY LeastNatural DEF Min

\* A set of percentages has a greatest one.
LEMMA HighestRate ==
    ASSUME NEW S \in SUBSET (0..100), S # {}
    PROVE  Max(S) \in S /\ \A x \in S : x <= Max(S)
<1> DEFINE T == {100 - x : x \in S}
<1>1. T \in SUBSET Nat /\ T # {}
  <2>1. \A x \in S : x \in 0..100
    OBVIOUS
  <2>2. \A x \in S : 100 - x \in Nat
    BY <2>1
  <2>3. T \in SUBSET Nat
    BY <2>2, Zenon
  <2> QED
    BY <2>3
<1>2. PICK n \in T : \A m \in T : n <= m
  <2> HIDE DEF T
  <2> QED
    BY <1>1, LeastNatural
<1>3. PICK y \in S : n = 100 - y
  OBVIOUS
<1>4. \A x \in S : y >= x
  <2>1. ASSUME NEW x \in S PROVE y >= x
    <3>1. 100 - x \in T
      OBVIOUS
    <3>2. n <= 100 - x
      BY <1>2, <3>1
    <3> QED
      BY <1>3, <3>2
  <2> QED
    BY <2>1
<1> HIDE DEF T
<1> QED
  BY <1>4 DEF Max

Items == [sku : Goods, quantity : Nat]

Stored == 0..MaxMoney \cup {None}

\* The entries of a list have their places.
LEMMA ListedMethods ==
    /\ DOMAIN MethodList \in SUBSET Nat /\ DOMAIN ZoneList \in SUBSET Nat
    /\ Offered \in SUBSET Nat
    /\ \A i \in DOMAIN MethodList : IsEntry(MethodList[i]) /\ MethodList[i] \in ToSet(MethodList)
<1>1. /\ Len(MethodList) \in Nat /\ DOMAIN MethodList = 1..Len(MethodList)
      /\ Len(ZoneList) \in Nat /\ DOMAIN ZoneList = 1..Len(ZoneList)
  <2>1. ZoneList \in Seq(ToSet(ZoneList)) /\ MethodList \in Seq(ToSet(MethodList))
    BY PricingAssumption
  <2> QED
    BY <2>1, LenProperties
<1>2. DOMAIN MethodList \in SUBSET Nat /\ DOMAIN ZoneList \in SUBSET Nat
  BY <1>1
<1>3. \A i \in DOMAIN MethodList : MethodList[i] \in ToSet(MethodList)
  BY DEF ToSet
<1>4. \A i \in DOMAIN MethodList : IsEntry(MethodList[i])
  <2>1. \A method \in ToSet(MethodList) : IsEntry(method)
    BY PricingAssumption
  <2> QED
    BY <1>3, <2>1
<1> QED
  BY <1>2, <1>3, <1>4 DEF Offered

Brackets == [upTo : Nat \cup {None}, price : Nat]

\* A table's rows are brackets, and all but the last have a bound.
LEMMA TableTyped ==
    ASSUME NEW table \in Seq(Brackets), WellFormedTable(table)
    PROVE  /\ None \notin Int /\ Len(table) \in Nat /\ DOMAIN table = 1..Len(table)
           /\ Len(table) >= 1
           /\ \A i \in 1..Len(table) : table[i] \in Brackets
           /\ table[Len(table)].upTo = None
           /\ \A i \in 1..(Len(table) - 1) : table[i].upTo \in Nat /\ table[i].upTo # None
<1>1. None \notin Int
  BY PricingAssumption
<1>2. Len(table) \in Nat /\ DOMAIN table = 1..Len(table)
  OBVIOUS
<1>3. \A i \in 1..Len(table) : table[i] \in Brackets
  BY ElementOfSeq
<1>4. Len(table) >= 1
  BY <1>2, EmptySeq DEF WellFormedTable
<1>5. \A i \in DOMAIN table : table[i].upTo = None <=> i = Len(table)
  BY DEF WellFormedTable
<1>6. table[Len(table)].upTo = None
  BY <1>2, <1>4, <1>5
<1>7. ASSUME NEW i \in 1..(Len(table) - 1)
      PROVE  table[i].upTo \in Nat /\ table[i].upTo # None
  <2>1. i \in 1..Len(table) /\ i # Len(table)
    <3>1. \A len \in Nat : \A j \in 1..(len - 1) : j \in 1..len /\ j # len
      OBVIOUS
    <3> QED
      BY <1>2, <3>1
  <2>2. table[i].upTo # None
    BY <1>2, <1>5, <2>1
  <2>3. table[i].upTo \in Nat \cup {None}
    BY <1>3, <2>1 DEF Brackets
  <2> QED
    BY <2>2, <2>3
<1> QED
  BY <1>1, <1>2, <1>3, <1>4, <1>6, <1>7

\* The bounds of a table increase.
LEMMA BoundsIncrease ==
    ASSUME NEW table \in Seq(Brackets), WellFormedTable(table),
           NEW j \in 1..(Len(table) - 1), NEW i \in 1..(j - 1)
    PROVE  table[i].upTo < table[j].upTo
<1> DEFINE T == {m \in 1..(Len(table) - 1) :
                    \E n \in 1..(m - 1) : ~ (table[n].upTo < table[m].upTo)}
           len == Len(table)
<1>1. len \in Nat /\ \A m \in 1..(len - 1) : table[m].upTo \in Nat
  BY TableTyped
<1>2. \A m \in 1..(len - 2) : table[m].upTo < table[m + 1].upTo
  BY DEF WellFormedTable
<1>3. T \in SUBSET Nat /\ T \in SUBSET (1..(len - 1))
  BY <1>1
<1>4. T = {}
  <2> SUFFICES ASSUME T # {} PROVE FALSE
    OBVIOUS
  <2>1. PICK m \in T : \A x \in T : m <= x
    <3> HIDE DEF T
    <3> QED
      BY <1>3, LeastNatural
  <2>2. PICK n \in 1..(m - 1) : ~ (table[n].upTo < table[m].upTo)
    OBVIOUS
  <2> HIDE DEF len
  <2>a. m \in 1..(len - 1)
    BY <1>3
  <2>3. m \in 1..(len - 1) /\ n \in 1..(m - 1) /\ m \in Nat /\ n \in Nat
    BY <1>1, <2>2, <2>a
  <2>4. /\ m - 1 \in 1..(len - 1) /\ m - 1 \in 1..(len - 2) /\ (m - 1) + 1 = m
        /\ n \in 1..(len - 1) /\ ~ (m <= m - 1) /\ n <= m - 1
    BY <1>1, <2>3
  <2>5. table[m - 1].upTo < table[m].upTo
    BY <1>2, <2>4
  <2>6. /\ table[m].upTo \in Nat /\ table[m - 1].upTo \in Nat /\ table[n].upTo \in Nat
    BY <1>1, <2>3, <2>4
  <2>7. n # m - 1
    BY <2>2, <2>5
  <2>8. m - 1 \notin T
    BY <2>1, <2>4
  <2>9. n \in 1..((m - 1) - 1)
    BY <2>3, <2>4, <2>7
  <2>10. table[n].upTo < table[m - 1].upTo
    BY <2>4, <2>8, <2>9 DEF len
  <2>11. \A a, b, c \in Nat : a < b /\ b < c => a < c
    OBVIOUS
  <2> QED
    BY <2>2, <2>5, <2>6, <2>10, <2>11
<1> QED
  BY <1>4

\* By weight: the first bracket that covers the order is the tightest.
LEMMA TightestBracket ==
    ASSUME NEW table \in Seq(Brackets), WellFormedTable(table),
           NEW grams \in Nat
    PROVE  LET first    == Min({i \in DOMAIN table : CoversWeight(table[i], grams)})
               covering == {b \in ToSet(table) : CoversWeight(b, grams)}
           IN  /\ table[first].price \in Nat
               /\ table[first] \in covering
               /\ \A c \in covering \ {table[first]} :
                      c.upTo = None \/ (table[first].upTo # None /\ table[first].upTo < c.upTo)
<1> DEFINE places == {i \in DOMAIN table : CoversWeight(table[i], grams)}
           first == Min(places)
<1>0. /\ None \notin Int /\ Len(table) \in Nat /\ DOMAIN table = 1..Len(table) /\ Len(table) >= 1
      /\ \A i \in 1..Len(table) : table[i] \in Brackets
      /\ table[Len(table)].upTo = None
      /\ \A i \in 1..(Len(table) - 1) : table[i].upTo \in Nat /\ table[i].upTo # None
  BY TableTyped
<1>1. places \in SUBSET Nat /\ Len(table) \in places
  BY <1>0 DEF CoversWeight
<1>2. first \in places /\ \A i \in places : first <= i
  <2> HIDE DEF places
  <2> QED
    BY <1>1, LeastIndex
<1> HIDE DEF first
<1>3. /\ first \in 1..Len(table) /\ first \in Nat
      /\ table[first] \in Brackets /\ CoversWeight(table[first], grams)
  BY <1>0, <1>2
<1>4. ASSUME NEW c \in ToSet(table), CoversWeight(c, grams), c # table[first], c.upTo # None
      PROVE  table[first].upTo # None /\ table[first].upTo < c.upTo
  <2>1. PICK j \in DOMAIN table : c = table[j]
    BY DEF ToSet
  <2>2. j \in places /\ j \in 1..Len(table)
    BY <1>0, <1>4, <2>1
  <2>3. first <= j /\ first # j /\ j # Len(table)
    BY <1>0, <1>2, <1>4, <2>1, <2>2
  <2> DEFINE len == Len(table)
  <2>4. len \in Nat /\ j \in 1..len /\ first \in 1..len /\ j # len
    BY <1>0, <1>3, <2>2, <2>3
  <2> HIDE DEF len
  <2>5. j \in 1..(len - 1) /\ first \in 1..(j - 1) /\ first \in 1..(len - 1)
    BY <2>3, <2>4
  <2>6. table[first].upTo # None
    BY <1>0, <2>5 DEF len
  <2>7. table[first].upTo < table[j].upTo
    BY <2>5, BoundsIncrease DEF len
  <2> QED
    BY <2>1, <2>6, <2>7
<1>5. table[first] \in ToSet(table)
  BY <1>0, <1>3 DEF ToSet
<1>6. table[first].price \in Nat
  BY <1>3 DEF Brackets
<1> QED
  BY <1>3, <1>4, <1>5, <1>6 DEF first

\* A quotation comes from the first entry that is offered under its code.
QuotedUnder(code, place, grams) ==
    LET quote  == Quote(code, place, grams)
        listed == {i \in Offered : MethodList[i].code = code}
        method == GetMethod(code)
    IN  /\ listed # {} /\ Min(listed) \in listed /\ method = MethodList[Min(listed)]
        /\ IsEntry(method) /\ WellFormed(method) /\ method.code = code
        /\ quote = [code |-> code, cost |-> Cost(method, place, grams), pickup |-> method.pickup]
        /\ quote \in Quotes /\ code # ""

LEMMA QuotedEntry ==
    ASSUME NEW code, NEW place, NEW grams \in Nat, Quote(code, place, grams) # None
    PROVE  QuotedUnder(code, place, grams)
<1> DEFINE listed == {i \in Offered : MethodList[i].code = code}
           method == GetMethod(code)
           quote == Quote(code, place, grams)
<1>1. method # None /\ quote = [code |-> code, cost |-> Cost(method, place, grams),
                                pickup |-> method.pickup]
  BY DEF Quote
<1>2. listed # {} /\ method = MethodList[Min(listed)]
  BY <1>1 DEF GetMethod
<1>3. Min(listed) \in listed
  <2>1. listed \in SUBSET Nat
    BY ListedMethods
  <2> HIDE DEF listed
  <2> QED
    BY <1>2, <2>1, LeastIndex
<1>4. IsEntry(method) /\ WellFormed(method) /\ method.code = code /\ method \in ToSet(MethodList)
  BY <1>2, <1>3, ListedMethods DEF Offered
<1> HIDE DEF method
<1>5. Cost(method, place, grams) \in Nat
  <2>1. CASE Weighed(method)
    <3>1. /\ method.brackets \in Seq(Brackets)
          /\ WellFormedTable(method.brackets)
      BY <1>4, <2>1 DEF IsEntry, WellFormed, Weighed, Brackets
    <3> QED
      BY <2>1, <3>1, TightestBracket DEF Cost
  <2>2. CASE ~Weighed(method)
    BY <1>4, <2>2 DEF Cost, ListedPrice, ForZone, IsEntry
  <2> QED
    BY <2>1, <2>2
<1>6. quote \in Quotes /\ code # ""
  <2>1. method.pickup \in BOOLEAN /\ code # "" /\ code \in {m.code : m \in ToSet(MethodList)}
    BY <1>4 DEF IsEntry
  <2>2. [code |-> code, cost |-> Cost(method, place, grams), pickup |-> method.pickup] \in Quotes
    BY <1>5, <2>1 DEF Quotes
  <2> QED
    BY <1>1, <2>1, <2>2
<1> QED
  BY <1>1, <1>2, <1>3, <1>4, <1>6 DEF method, QuotedUnder

\* Places that are spelt differently but are one area lie in one zone.
LEMMA OneZone ==
    ASSUME NEW p \in Places \cup {NoPlace}, NEW q \in Places \cup {NoPlace}, SameArea(p, q)
    PROVE  ZoneFor(p) = ZoneFor(q)
<1>1. CASE p = q
  BY <1>1
<1>2. CASE p # q
  <2>1. /\ p \in Places /\ q \in Places /\ p # NoPlace /\ q # NoPlace
        /\ MatchKey(Canonical(p)) = MatchKey(Canonical(q)) /\ Fold[p.city] = Fold[q.city]
    BY <1>2 DEF SameArea
  <2>2. \A place \in Places : Canonical(place).city = place.city
    BY PricingAssumption DEF Canonical
  <2>3. \A zone : Covers(zone, Canonical(p)) <=> Covers(zone, Canonical(q))
    BY <2>1, <2>2 DEF Covers
  <2>4. {i \in DOMAIN ZoneList : Covers(ZoneList[i], Canonical(p))}
          = {i \in DOMAIN ZoneList : Covers(ZoneList[i], Canonical(q))}
    BY <2>3
  <2> QED
    BY <2>1, <2>4 DEF ZoneFor, ResolveZone
<1> QED
  BY <1>1, <1>2

\* The delivery that a quotation charges is what the chooser lists.
LEMMA QuoteAsListed ==
    ASSUME NEW q, q.weight \in Nat, q.place \in Places \cup {NoPlace},
           NEW code, Quote(code, q.place, q.weight) # None
    PROVE  ChargedAsListed(q, Quote(code, q.place, q.weight))
<1> DEFINE quote == Quote(code, q.place, q.weight)
           listed == {i \in Offered : MethodList[i].code = code}
           method == GetMethod(code)
<1>1. /\ Min(listed) \in listed /\ method = MethodList[Min(listed)]
      /\ IsEntry(method) /\ WellFormed(method)
      /\ quote.code = code /\ quote.cost = Cost(method, q.place, q.weight)
  <2>1. quote = [code |-> code, cost |-> Cost(method, q.place, q.weight), pickup |-> method.pickup]
    BY QuotedEntry DEF QuotedUnder
  <2>2. quote.code = code /\ quote.cost = Cost(method, q.place, q.weight)
    <3> HIDE DEF quote, method
    <3> QED
      BY <2>1
  <2>3. /\ Min(listed) \in listed /\ method = MethodList[Min(listed)]
        /\ IsEntry(method) /\ WellFormed(method)
    <3>1. QuotedUnder(code, q.place, q.weight)
      BY QuotedEntry
    <3> HIDE DEF quote
    <3> QED
      BY <3>1 DEF QuotedUnder
  <2> QED
    BY <2>2, <2>3
<1>2. CASE Weighed(method)
  <2>1. /\ method.brackets \in Seq(Brackets)
        /\ WellFormedTable(method.brackets)
    BY <1>1, <1>2 DEF IsEntry, WellFormed, Weighed, Brackets
  <2> DEFINE covering == {b \in ToSet(method.brackets) : CoversWeight(b, q.weight)}
             first == Min({i \in DOMAIN method.brackets :
                               CoversWeight(method.brackets[i], q.weight)})
             b == method.brackets[first]
  <2>2. /\ b \in covering
        /\ \A c \in covering \ {b} : c.upTo = None \/ (b.upTo # None /\ b.upTo < c.upTo)
    <3> HIDE DEF method
    <3> QED
      BY <2>1, TightestBracket
  <2>3. quote.cost = b.price
    BY <1>1, <1>2 DEF Cost
  <2> HIDE DEF b, method, quote
  <2>4. \E x \in covering :
             /\ quote.cost = x.price
             /\ \A c \in covering \ {x} : c.upTo = None \/ (x.upTo # None /\ x.upTo < c.upTo)
    BY <2>2, <2>3
  <2> QED
    BY <1>1, <1>2, <2>4 DEF ChargedAsListed, method, quote
<1>3. CASE ~Weighed(method)
  <2>1. ASSUME NEW place \in Places \cup {NoPlace}, SameArea(place, q.place)
        PROVE  Chooser(place)[Min(listed)].price = quote.cost
    <3>1. ZoneFor(place) = ZoneFor(q.place)
      BY <2>1, OneZone
    <3>2. Chooser(place)[Min(listed)].price = ListedPrice(method, place)
      BY <1>1 DEF Chooser
    <3>3. ListedPrice(method, place) = ListedPrice(method, q.place)
      BY <1>3, <3>1 DEF ListedPrice
    <3> QED
      BY <1>1, <1>3, <3>2, <3>3 DEF Cost
  <2> QED
    BY <1>1, <1>3, <2>1 DEF ChargedAsListed
<1> QED
  BY <1>2, <1>3
-----------------------------------------------------------------------------
\* calculate_tax rounds half up.
LEMMA HalfUp ==
    ASSUME NEW amount \in Nat, NEW rate \in Nat
    PROVE  /\ TaxDue(amount, rate) \in Nat
           /\ 200 * TaxDue(amount, rate) <= 2 * (amount * rate) + 100
           /\ 2 * (amount * rate) <= 200 * TaxDue(amount, rate) + 100
<1>1. \A x \in Nat : LET d == (x + 100) \div 200 IN
          d \in Nat /\ 200 * d <= x + 100 /\ x <= 200 * d + 100
  OBVIOUS
<1>2. amount * rate \in Nat /\ 2 * amount * rate = 2 * (amount * rate)
  OBVIOUS
<1>3. TaxDue(amount, rate) = (2 * (amount * rate) + 100) \div 200
  BY <1>2 DEF TaxDue
<1>4. 2 * (amount * rate) \in Nat
  BY <1>2
<1> QED
  BY <1>1, <1>3, <1>4

LEMMA RateTyped ==
    ASSUME NEW class, RateFor(class) # None
    PROVE  RateFor(class) \in 0..100
BY DEF RateFor, IsRate

ChargesTyped(charges) ==
    /\ IsFiniteSet(DOMAIN charges)
    /\ \A i \in DOMAIN charges : charges[i].amount \in Nat

\* The tax of a list of charges is within the rounding of each.
LEMMA CapturedTaxRight ==
    ASSUME NEW charges, ChargesTyped(charges)
    PROVE  LET tax   == CapturedTax(charges)
               rated == Rated(charges)
               exact == Total([i \in rated |-> charges[i].amount * RateFor(charges[i].class)])
               rounding == 100 * Cardinality(rated)
           IN  /\ tax = None <=> rated = {}
               /\ tax # None =>
                      /\ tax.rate \in 0..100 /\ tax.amount \in Nat
                      /\ tax = [rate |-> tax.rate, amount |-> tax.amount]
                      /\ 200 * tax.amount - 2 * exact \in -rounding..rounding
                      /\ \A i \in rated : RateFor(charges[i].class) <= tax.rate
<1> DEFINE tax == CapturedTax(charges)
           rated == Rated(charges)
           due == [i \in rated |-> TaxOf(charges[i])]
           exactly == [i \in rated |-> charges[i].amount * RateFor(charges[i].class)]
           rates == {RateFor(charges[i].class) : i \in rated}
           n == Cardinality(rated)
<1>1. IsFiniteSet(rated) /\ n \in Nat
  <2>1. rated \subseteq DOMAIN charges
    BY DEF Rated
  <2>2. IsFiniteSet(rated)
    BY <2>1, FS_Subset DEF ChargesTyped
  <2> QED
    BY <2>2, FS_CardinalityType
<1>2. \A i \in rated : charges[i].amount \in Nat /\ RateFor(charges[i].class) \in 0..100
  BY RateTyped DEF Rated, ChargesTyped
<1>3. ASSUME NEW i \in rated
      PROVE  /\ TaxOf(charges[i]) \in Nat
             /\ charges[i].amount * RateFor(charges[i].class) \in Nat
             /\ 200 * TaxOf(charges[i]) <= 2 * (charges[i].amount * RateFor(charges[i].class)) + 100
             /\ 2 * (charges[i].amount * RateFor(charges[i].class)) <= 200 * TaxOf(charges[i]) + 100
  <2>1. charges[i].amount \in Nat /\ RateFor(charges[i].class) \in Nat
    BY <1>2
  <2>2. charges[i].amount * RateFor(charges[i].class) \in Nat
    BY <2>1
  <2> QED
    BY <2>1, <2>2, HalfUp DEF TaxOf
<1> HIDE DEF rated
<1>4. due \in [rated -> Nat] /\ exactly \in [rated -> Nat]
  BY <1>3
<1>5. /\ Times(2, exactly) \in [rated -> Nat] /\ Total(Times(2, exactly)) = 2 * Total(exactly)
  BY <1>1, <1>4, SumTimes, 2 \in Nat
<1>6. \A i \in rated : 200 * due[i] <= Times(2, exactly)[i] + 100
                       /\ Times(2, exactly)[i] <= 200 * due[i] + 100
  BY <1>3 DEF Times
<1>7. /\ 200 * Total(due) <= Total(Times(2, exactly)) + 100 * n
      /\ Total(Times(2, exactly)) <= 200 * Total(due) + 100 * n
  <2> HIDE DEF due, exactly
  <2> QED
    BY <1>1, <1>4, <1>5, <1>6, SumWithin, 200 \in Nat, 100 \in Nat
<1>8. Total(due) \in Nat /\ Total(exactly) \in Nat
  <2> HIDE DEF due, exactly
  <2> QED
    BY <1>1, <1>4, SumType
<1>9. 200 * Total(due) - 2 * Total(exactly) \in -(100 * n)..(100 * n)
  <2> HIDE DEF due, exactly, n
  <2> QED
    BY <1>1, <1>5, <1>7, <1>8
<1>10. CASE rated = {}
  <2>1. tax = None
    BY <1>10 DEF CapturedTax, rated
  <2> QED
    BY <1>10, <2>1 DEF rated
<1>11. CASE rated # {}
  <2>1. rates \in SUBSET (0..100) /\ rates # {}
    BY <1>2, <1>11
  <2>2. Max(rates) \in rates /\ \A x \in rates : x <= Max(rates)
    <3> HIDE DEF rates
    <3> QED
      BY <2>1, HighestRate
  <2>3. \A i \in rated : RateFor(charges[i].class) \in rates
    OBVIOUS
  <2>4. Max(rates) \in 0..100 /\ \A i \in rated : RateFor(charges[i].class) <= Max(rates)
    <3> HIDE DEF rates
    <3> QED
      BY <2>1, <2>2, <2>3
  <2>5. tax = [rate |-> Max(rates), amount |-> Total(due)]
    BY <1>11 DEF CapturedTax, rated
  <2> DEFINE rate == Max(rates)
             amount == Total(due)
  <2> HIDE DEF rate, amount
  <2>6. tax = [rate |-> rate, amount |-> amount] /\ rate \in 0..100 /\ amount \in Nat
    BY <1>8, <2>4, <2>5 DEF rate, amount
  <2>7. tax # None /\ tax.rate = rate /\ tax.amount = amount
    <3>1. [rate |-> rate, amount |-> amount] # None
      <4>1. None \notin [rate : Nat, amount : Nat]
        BY PricingAssumption
      <4>2. [rate |-> rate, amount |-> amount] \in [rate : Nat, amount : Nat]
        BY <2>6
      <4> QED
        BY <4>1, <4>2
    <3> QED
      BY <2>6, <3>1
  <2> QED
    BY <1>9, <1>11, <2>4, <2>6, <2>7 DEF rate, amount, rated
<1> QED
  BY <1>10, <1>11
-----------------------------------------------------------------------------
\* A checkout that captures its lines: what it was quoted holds, and its lines are those of
\* the cart at prices it has seen.
Captures ==
    [phase : {"capturing"}, items : Seq(Items), shipping : Quotes \cup {None},
     place : Places \cup {NoPlace}, lines : Seq(OrderLines), cart : Nat,
     seen : [Goods -> SUBSET Stored]]

QuotedRight(q) ==
    \/ q.shipping = None /\ q.place \in Places
    \/ /\ q.shipping # None
       /\ q.shipping = Quote(q.shipping.code, q.place, OrderWeight(q.items))
       /\ q.shipping.pickup \/ q.place # NoPlace

LinesRight(q) ==
    /\ Len(q.lines) <= Len(q.items)
    /\ \A i \in 1..Len(q.lines) :
           /\ q.lines[i].sku = q.items[i].sku
           /\ q.lines[i].total = q.lines[i].unit * q.items[i].quantity
           /\ q.lines[i].unit \in q.seen[q.items[i].sku]

CartRight(q) ==
    \E start \in [Goods -> Stored] :
        /\ \A k \in Goods : start[k] \in q.seen[k]
        /\ q.cart = PriceCart(q.items, start)

Captured(q) == q \in Captures /\ QuotedRight(q) /\ LinesRight(q) /\ CartRight(q)

PlacedRow(row) ==
    /\ row.lines \in Seq(OrderLines)
    /\ {row.cost, row.taxAmount, row.total} \subseteq 0..MaxMoney
    /\ row.taxRate \in 0..100 \cup {None}

AsShown(q) ==
    LET order == OrderToDomain(q.row) IN
    /\ CapturedAsPriced(q, order)
    /\ order.shipping # None => ChargedAsListed(q, order.shipping)
    /\ TaxedWithinRounding(order)
    /\ ReadsBack(order)

\* The goods of a list weigh, and cost, a number.
LEMMA ItemsTyped ==
    ASSUME NEW items \in Seq(Items)
    PROVE  /\ Len(items) \in Nat /\ DOMAIN items = 1..Len(items) /\ IsFiniteSet(DOMAIN items)
           /\ \A i \in 1..Len(items) : items[i].sku \in Goods /\ items[i].quantity \in Nat
<1>1. Len(items) \in Nat /\ DOMAIN items = 1..Len(items)
  BY LenProperties
<1>2. IsFiniteSet(DOMAIN items)
  BY <1>1, FS_Interval
<1>3. \A i \in 1..Len(items) : items[i] \in Items
  BY ElementOfSeq
<1> QED
  BY <1>1, <1>2, <1>3 DEF Items

LEMMA WeightTyped ==
    ASSUME NEW items \in Seq(Items)
    PROVE  OrderWeight(items) \in Nat
<1> DEFINE f == [i \in DOMAIN items |-> Grams[items[i].sku] * items[i].quantity]
<1>1. f \in [DOMAIN items -> Nat]
  <2>1. ASSUME NEW i \in DOMAIN items PROVE Grams[items[i].sku] * items[i].quantity \in Nat
    <3>1. items[i].sku \in Goods /\ items[i].quantity \in Nat
      BY ItemsTyped
    <3>2. Grams[items[i].sku] \in Nat
      BY <3>1, PricingAssumption
    <3> QED
      BY <3>1, <3>2
  <2> QED
    BY <2>1
<1> HIDE DEF f
<1>2. Total(f) \in Nat
  BY <1>1, ItemsTyped, SumType
<1> QED
  BY <1>2 DEF OrderWeight, f

LEMMA StoredNumber == \A x \in Stored : x # None => x \in 0..MaxMoney /\ x \in Nat
<1>1. MaxMoney \in Nat
  BY PricingAssumption
<1> QED
  BY <1>1 DEF Stored

LEMMA CartTyped ==
    ASSUME NEW items \in Seq(Items), NEW unit \in [Goods -> Stored]
    PROVE  PriceCart(items, unit) \in Nat
<1> DEFINE saleable == {i \in DOMAIN items : unit[items[i].sku] # None}
           f == [i \in saleable |-> unit[items[i].sku] * items[i].quantity]
<1>1. f \in [saleable -> Nat]
  <2>1. ASSUME NEW i \in saleable PROVE unit[items[i].sku] * items[i].quantity \in Nat
    <3>1. items[i].sku \in Goods /\ items[i].quantity \in Nat
      BY ItemsTyped
    <3>2. unit[items[i].sku] \in Stored /\ unit[items[i].sku] # None
      BY <3>1
    <3>3. unit[items[i].sku] \in Nat
      BY <3>2, StoredNumber
    <3> QED
      BY <3>1, <3>3
  <2> QED
    BY <2>1
<1>2. IsFiniteSet(saleable)
  <2>1. saleable \subseteq DOMAIN items
    OBVIOUS
  <2> HIDE DEF saleable
  <2> QED
    BY <2>1, ItemsTyped, FS_Subset
<1> HIDE DEF f, saleable
<1>3. Total(f) \in Nat
  BY <1>1, <1>2, SumType
<1> QED
  BY <1>3 DEF PriceCart, f, saleable

\* The charges of an order are amounts.
LEMMA LinesTyped ==
    ASSUME NEW lines \in Seq(OrderLines), NEW cost \in Nat
    PROVE  /\ Len(lines) \in Nat /\ DOMAIN lines = 1..Len(lines)
           /\ \A i \in 1..Len(lines) : lines[i] \in OrderLines
           /\ Subtotal(lines) \in Nat
           /\ ChargesTyped(Charges(lines, cost))
<1>1. /\ Len(lines) \in Nat /\ DOMAIN lines = 1..Len(lines) /\ IsFiniteSet(DOMAIN lines)
      /\ \A i \in 1..Len(lines) : lines[i] \in OrderLines
  <2>1. Len(lines) \in Nat /\ DOMAIN lines = 1..Len(lines)
    BY LenProperties
  <2>2. IsFiniteSet(DOMAIN lines)
    BY <2>1, FS_Interval
  <2>3. \A i \in 1..Len(lines) : lines[i] \in OrderLines
    BY ElementOfSeq
  <2> QED
    BY <2>1, <2>2, <2>3
<1>2. \A i \in 1..Len(lines) : lines[i].total \in Nat
  <2>1. MaxMoney \in Nat
    BY PricingAssumption
  <2> QED
    BY <1>1, <2>1 DEF OrderLines
<1>3. Subtotal(lines) \in Nat
  <2> DEFINE f == [i \in DOMAIN lines |-> lines[i].total]
  <2>1. f \in [DOMAIN lines -> Nat]
    BY <1>1, <1>2
  <2> HIDE DEF f
  <2>2. Total(f) \in Nat
    BY <1>1, <2>1, SumType
  <2> QED
    BY <2>2 DEF Subtotal, f
<1>4. ChargesTyped(Charges(lines, cost))
  <2> DEFINE Classes == {TaxClassOf[k] : k \in Goods} \cup {"standard"}
             Amounts == [amount : Nat, class : Classes]
             goods == [i \in DOMAIN lines |->
                          [amount |-> lines[i].total, class |-> TaxClassOf[lines[i].sku]]]
             delivery == IF cost > 0 THEN <<[amount |-> cost, class |-> "standard"]>> ELSE <<>>
  <2>1. goods \in Seq(Amounts)
    <3>1. \A i \in 1..Len(lines) : goods[i] \in Amounts
      <4>1. \A i \in 1..Len(lines) : lines[i].sku \in Goods
        BY <1>1 DEF OrderLines
      <4> QED
        BY <1>1, <1>2, <4>1
    <3>2. goods = [i \in 1..Len(lines) |-> goods[i]]
      BY <1>1
    <3> HIDE DEF goods, Amounts
    <3> QED
      BY <1>1, <3>1, <3>2, IsASeq
  <2>2. delivery \in Seq(Amounts)
    <3>1. [amount |-> cost, class |-> "standard"] \in Amounts
      OBVIOUS
    <3> HIDE DEF Amounts
    <3> QED
      BY <3>1
  <2>3. Charges(lines, cost) = goods \o delivery
    BY DEF Charges
  <2> DEFINE charges == goods \o delivery
  <2>4. charges \in Seq(Amounts)
    <3> HIDE DEF goods, delivery, Amounts
    <3> QED
      BY <2>1, <2>2, ConcatProperties
  <2> HIDE DEF charges, Amounts
  <2>5. Len(charges) \in Nat /\ DOMAIN charges = 1..Len(charges)
    BY <2>4, LenProperties
  <2>6. \A i \in 1..Len(charges) : charges[i] \in Amounts
    BY <2>4, ElementOfSeq
  <2>7. IsFiniteSet(DOMAIN charges)
    BY <2>5, FS_Interval
  <2>8. ChargesTyped(charges)
    BY <2>5, <2>6, <2>7 DEF ChargesTyped, Amounts
  <2> QED
    BY <2>3, <2>8 DEF charges
<1> QED
  BY <1>1, <1>3, <1>4
-----------------------------------------------------------------------------
\* The aggregate that a checkout captures.
LEMMA NewOrderTyped ==
    ASSUME NEW q, q \in Captures, QuotedRight(q)
    PROVE  LET order == NewOrder(q)
               cost  == ShippingCost(q.shipping)
               tax   == CapturedTax(Charges(q.lines, cost))
               due   == IF tax = None THEN 0 ELSE tax.amount
           IN  /\ q.lines \in Seq(OrderLines) /\ cost \in Nat /\ Subtotal(q.lines) \in Nat
               /\ ChargesTyped(Charges(q.lines, cost)) /\ due \in Nat
               /\ order.lines = q.lines /\ order.shipping = q.shipping /\ order.tax = tax
               /\ order.total = Subtotal(q.lines) + cost + due
               /\ tax # None => tax.rate \in 0..100 /\ tax.amount \in Nat
                                /\ tax = [rate |-> tax.rate, amount |-> tax.amount]
<1> DEFINE cost  == ShippingCost(q.shipping)
           tax   == CapturedTax(Charges(q.lines, cost))
           due   == IF tax = None THEN 0 ELSE tax.amount
<1>1. q.lines \in Seq(OrderLines) /\ q.shipping \in Quotes \cup {None}
  BY DEF Captures
<1>2. cost \in Nat
  BY <1>1 DEF ShippingCost, Quotes
<1> HIDE DEF cost
<1>3. Subtotal(q.lines) \in Nat /\ ChargesTyped(Charges(q.lines, cost))
  BY <1>1, <1>2, LinesTyped
<1>4. tax # None => tax.rate \in 0..100 /\ tax.amount \in Nat
                    /\ tax = [rate |-> tax.rate, amount |-> tax.amount]
  BY <1>3, CapturedTaxRight
<1>5. due \in Nat
  BY <1>4
<1>6. /\ NewOrder(q).lines = q.lines /\ NewOrder(q).shipping = q.shipping /\ NewOrder(q).tax = tax
      /\ NewOrder(q).total = Subtotal(q.lines) + cost + due
  BY DEF NewOrder, OrderTotal, cost
<1> QED
  BY <1>1, <1>2, <1>3, <1>4, <1>5, <1>6 DEF cost

\* An order is read back as it was captured.
LEMMA RoundTrip ==
    ASSUME NEW q, q \in Captures, QuotedRight(q)
    PROVE  OrderToDomain(OrderRow(NewOrder(q))) = NewOrder(q)
<1> DEFINE order == NewOrder(q)
           row   == OrderRow(order)
           back  == OrderToDomain(row)
<1>1. order = [lines |-> order.lines, shipping |-> order.shipping, tax |-> order.tax,
               address |-> order.address, total |-> order.total]
  BY DEF NewOrder
<1>2. /\ order.shipping = q.shipping
      /\ order.tax # None => order.tax.rate \in 0..100
                             /\ order.tax = [rate |-> order.tax.rate, amount |-> order.tax.amount]
  BY NewOrderTyped
<1>3. order.address \in Places \cup {NoPlace}
  <2>1. q.place \in Places \cup {NoPlace}
    BY DEF Captures
  <2> QED
    BY <2>1 DEF NewOrder
<1>4. q.shipping # None =>
          q.shipping.code # "" /\ q.shipping = [code |-> q.shipping.code, cost |-> q.shipping.cost,
                                                pickup |-> q.shipping.pickup]
  <2> SUFFICES ASSUME q.shipping # None
               PROVE  q.shipping.code # "" /\ q.shipping = [code |-> q.shipping.code,
                          cost |-> q.shipping.cost, pickup |-> q.shipping.pickup]
    OBVIOUS
  <2>1. q.shipping \in Quotes /\ q.items \in Seq(Items)
    BY DEF Captures
  <2>2. q.shipping = Quote(q.shipping.code, q.place, OrderWeight(q.items))
    BY DEF QuotedRight
  <2>3. OrderWeight(q.items) \in Nat
    BY <2>1, WeightTyped
  <2>4. QuotedUnder(q.shipping.code, q.place, OrderWeight(q.items))
    BY <2>2, <2>3, QuotedEntry
  <2>5. q.shipping.code # ""
    BY <2>4 DEF QuotedUnder
  <2> QED
    BY <2>1, <2>5 DEF Quotes
<1> HIDE DEF order
<1>5. back = [lines |-> row.lines,
              shipping |-> IF row.methodCode = "" THEN None
                  ELSE [code |-> row.methodCode, cost |-> row.cost, pickup |-> row.isPickup],
              tax |-> IF row.taxRate = None THEN None
                  ELSE [rate |-> row.taxRate, amount |-> row.taxAmount],
              address |-> IF row.province = "" THEN NoPlace
                  ELSE [province |-> row.province, city |-> row.city],
              total |-> row.total]
  BY DEF OrderToDomain
<1>6. /\ row.lines = order.lines /\ row.total = order.total
      /\ row.methodCode = (IF order.shipping = None THEN "" ELSE order.shipping.code)
      /\ row.cost = ShippingCost(order.shipping)
      /\ row.isPickup = (order.shipping # None /\ order.shipping.pickup)
      /\ row.taxRate = (IF order.tax = None THEN None ELSE order.tax.rate)
      /\ row.taxAmount = (IF order.tax = None THEN 0 ELSE order.tax.amount)
      /\ row.province = order.address.province /\ row.city = order.address.city
  BY DEF OrderRow
<1> HIDE DEF row, back
<1>7. (IF row.methodCode = "" THEN None
       ELSE [code |-> row.methodCode, cost |-> row.cost, pickup |-> row.isPickup]) = order.shipping
  <2>1. CASE q.shipping = None
    BY <1>2, <1>6, <2>1
  <2>2. CASE q.shipping # None
    <3>1. row.isPickup = q.shipping.pickup
      <4>1. q.shipping \in Quotes
        BY <2>2 DEF Captures
      <4>2. q.shipping.pickup \in BOOLEAN
        BY <4>1 DEF Quotes
      <4> QED
        BY <1>2, <1>6, <2>2, <4>2
    <3>2. row.cost = q.shipping.cost
      BY <1>2, <1>6, <2>2 DEF ShippingCost
    <3> QED
      BY <1>2, <1>4, <1>6, <2>2, <3>1, <3>2
  <2> QED
    BY <2>1, <2>2
<1>8. (IF row.taxRate = None THEN None
       ELSE [rate |-> row.taxRate, amount |-> row.taxAmount]) = order.tax
  <2>1. None \notin 0..100
    <3>1. None \notin Int
      BY PricingAssumption
    <3> QED
      BY <3>1
  <2> QED
    BY <1>2, <1>6, <2>1
<1>9. (IF row.province = "" THEN NoPlace
       ELSE [province |-> row.province, city |-> row.city]) = order.address
  <2>1. CASE order.address = NoPlace
    BY <1>6, <2>1 DEF NoPlace
  <2>2. CASE order.address \in Places
    <3>1. order.address \in [province : DOMAIN Fold \ {""}, city : DOMAIN Fold]
      BY <2>2, PricingAssumption
    <3> QED
      BY <1>6, <3>1
  <2> QED
    BY <1>3, <2>1, <2>2
<1>10. back = order
  BY <1>1, <1>5, <1>6, <1>7, <1>8, <1>9
<1> QED
  BY <1>10 DEF back, row, order
-----------------------------------------------------------------------------
\* What an order that commits charges is what the shopper was shown.
LEMMA CommittedAsShown ==
    ASSUME NEW q, Captured(q), Len(q.lines) = Len(q.items), IsMoney(NewOrder(q).total)
    PROVE  LET p == [phase |-> "placed", row |-> OrderRow(NewOrder(q)), place |-> q.place,
                     weight |-> OrderWeight(q.items), cart |-> q.cart, seen |-> q.seen]
           IN  PlacedRow(p.row) /\ AsShown(p)
<1> DEFINE p == [phase |-> "placed", row |-> OrderRow(NewOrder(q)), place |-> q.place,
                 weight |-> OrderWeight(q.items), cart |-> q.cart, seen |-> q.seen]
           order == NewOrder(q)
           cost  == ShippingCost(q.shipping)
           charges == Charges(q.lines, cost)
           tax   == CapturedTax(charges)
           due   == IF tax = None THEN 0 ELSE tax.amount
<1>1. q \in Captures /\ QuotedRight(q) /\ LinesRight(q) /\ CartRight(q)
  BY DEF Captured
<1>2. /\ q.lines \in Seq(OrderLines) /\ cost \in Nat /\ Subtotal(q.lines) \in Nat
      /\ ChargesTyped(charges) /\ due \in Nat
      /\ order.lines = q.lines /\ order.shipping = q.shipping /\ order.tax = tax
      /\ order.total = Subtotal(q.lines) + cost + due
      /\ tax # None => tax.rate \in 0..100 /\ tax.amount \in Nat
  BY <1>1, NewOrderTyped
<1>3. OrderToDomain(p.row) = order
  BY <1>1, RoundTrip
<1>4. /\ q.items \in Seq(Items) /\ q.shipping \in Quotes \cup {None}
      /\ q.place \in Places \cup {NoPlace} /\ q.seen \in [Goods -> SUBSET Stored]
  BY <1>1 DEF Captures
<1>5. /\ p.row.lines = q.lines /\ p.row.total = order.total /\ p.row.cost = cost
      /\ p.row.taxRate = (IF tax = None THEN None ELSE tax.rate) /\ p.row.taxAmount = due
  BY <1>2 DEF OrderRow
<1>6. /\ p.place = q.place /\ p.weight = OrderWeight(q.items) /\ p.cart = q.cart /\ p.seen = q.seen
  OBVIOUS
<1> HIDE DEF p, order, due, tax, charges, cost
<1>7. PlacedRow(p.row)
  <2>1. order.total \in 0..MaxMoney /\ MaxMoney \in Nat
    BY PricingAssumption DEF IsMoney, order
  <2>2. \A a, b, c, m \in Nat : a + b + c \in 0..m => b \in 0..m /\ c \in 0..m
    OBVIOUS
  <2>3. cost \in 0..MaxMoney /\ due \in 0..MaxMoney
    BY <1>2, <2>1, <2>2
  <2> QED
    BY <1>2, <1>5, <2>1, <2>3 DEF PlacedRow
<1>8. CapturedAsPriced(p, order)
  <2>1. /\ Len(q.items) \in Nat /\ DOMAIN q.items = 1..Len(q.items)
        /\ \A i \in 1..Len(q.items) : q.items[i].sku \in Goods /\ q.items[i].quantity \in Nat
    BY <1>4, ItemsTyped
  <2>2. /\ DOMAIN q.lines = 1..Len(q.items)
        /\ \A i \in 1..Len(q.items) : q.lines[i] \in OrderLines
    BY <1>2, LinesTyped
  <2>3. \A i \in 1..Len(q.items) :
            /\ q.lines[i].sku = q.items[i].sku
            /\ q.lines[i].total = q.lines[i].unit * q.items[i].quantity
            /\ q.lines[i].unit \in q.seen[q.items[i].sku]
    BY <1>1 DEF LinesRight
  <2>4. \A i \in 1..Len(q.items) : q.lines[i].unit \in 0..MaxMoney
    BY <2>2 DEF OrderLines
  <2>5. \A i \in 1..Len(q.items) : q.lines[i].unit \in q.seen[q.lines[i].sku] \ {None}
    <3>1. None \notin 0..MaxMoney
      <4>1. None \notin Int
        BY PricingAssumption
      <4> QED
        BY <4>1
    <3> QED
      BY <2>3, <2>4, <3>1
  <2>6. ASSUME \A i \in 1..Len(q.items) : q.seen[q.lines[i].sku] = {q.lines[i].unit}
        PROVE  Subtotal(q.lines) = q.cart
    <3>1. PICK start \in [Goods -> Stored] :
              (\A k \in Goods : start[k] \in q.seen[k]) /\ q.cart = PriceCart(q.items, start)
      BY <1>1 DEF CartRight
    <3>2. \A i \in 1..Len(q.items) : start[q.items[i].sku] = q.lines[i].unit
      BY <2>1, <2>3, <2>6, <3>1
    <3> DEFINE saleable == {i \in DOMAIN q.items : start[q.items[i].sku] # None}
    <3>3. saleable = DOMAIN q.items
      BY <2>1, <2>5, <3>2
    <3>4. \A i \in DOMAIN q.items :
              start[q.items[i].sku] * q.items[i].quantity = q.lines[i].total
      BY <2>1, <2>3, <3>2
    <3> DEFINE f == [i \in saleable |-> start[q.items[i].sku] * q.items[i].quantity]
               g == [i \in DOMAIN q.lines |-> q.lines[i].total]
    <3>5. f = g
      BY <2>1, <2>2, <3>3, <3>4
    <3>6. PriceCart(q.items, start) = Total(f) /\ Subtotal(q.lines) = Total(g)
      BY DEF PriceCart, Subtotal
    <3> HIDE DEF f, g
    <3> QED
      BY <3>1, <3>5, <3>6
  <2>7. OrderPayload(order).subtotal = Subtotal(q.lines)
    BY <1>2 DEF OrderPayload
  <2> QED
    BY <1>2, <1>6, <2>2, <2>5, <2>6, <2>7 DEF CapturedAsPriced
<1>9. ASSUME order.shipping # None
      PROVE  ChargedAsListed(p, order.shipping)
  <2>1. q.shipping = Quote(q.shipping.code, p.place, p.weight) /\ q.shipping # None
    BY <1>1, <1>2, <1>6, <1>9 DEF QuotedRight
  <2>2. p.weight \in Nat /\ p.place \in Places \cup {NoPlace}
    BY <1>4, <1>6, WeightTyped
  <2>3. ChargedAsListed(p, Quote(q.shipping.code, p.place, p.weight))
    BY <2>1, <2>2, QuoteAsListed
  <2> QED
    BY <1>2, <2>1, <2>3
<1>10. TaxedWithinRounding(order)
  <2>1. /\ Charges(order.lines, ShippingCost(order.shipping)) = charges
        /\ order.tax = CapturedTax(charges)
    BY <1>2 DEF charges, cost, tax
  <2> QED
    BY <1>2, <2>1, CapturedTaxRight DEF TaxedWithinRounding
<1>11. ReadsBack(order)
  <2>1. /\ OrderPayload(order).total = order.total
        /\ OrderPayload(order).subtotal = Subtotal(q.lines)
        /\ OrderPayload(order).shippingCost = cost
        /\ OrderPayload(order).tax = (IF tax = None THEN None ELSE tax.amount)
    BY <1>2 DEF OrderPayload, cost
  <2>2. order.total = Subtotal(q.lines) + cost + due
    BY <1>2
  <2>3. due = IF OrderPayload(order).tax = None THEN 0 ELSE OrderPayload(order).tax
    <3>1. None \notin Int
      BY PricingAssumption
    <3> QED
      BY <1>2, <2>1, <3>1 DEF due
  <2>4. order.address = NoPlace <=> (order.shipping # None /\ order.shipping.pickup)
    <3>1. order.address = IF q.shipping # None /\ q.shipping.pickup THEN NoPlace ELSE q.place
      BY DEF NewOrder, order
    <3>2. NoPlace \notin Places
      BY PricingAssumption DEF NoPlace
    <3>3. q.shipping = None => q.place # NoPlace
      BY <1>1, <3>2 DEF QuotedRight
    <3>4. q.shipping # None /\ ~q.shipping.pickup => q.place # NoPlace
      BY <1>1 DEF QuotedRight
    <3> QED
      BY <1>2, <3>1, <3>3, <3>4
  <2> QED
    BY <2>1, <2>2, <2>3, <2>4 DEF ReadsBack
<1>12. AsShown(p)
  BY <1>3, <1>8, <1>9, <1>10, <1>11 DEF AsShown
<1> QED
  BY <1>7, <1>12 DEF p
-----------------------------------------------------------------------------
\* A checkout is idle, capturing with the prices of the moment among those it has seen, or
\* placed as it was shown.
CheckoutSound(q, now) ==
    \/ q = NoCheckout
    \/ Captured(q) /\ \A k \in Goods : now[k] \in q.seen[k]
    \/ q.phase = "placed" /\ PlacedRow(q.row) /\ AsShown(q)

PricingInv ==
    /\ prices \in [Goods -> Stored]
    /\ DOMAIN checkouts = Pricings /\ checkouts = [r \in Pricings |-> checkouts[r]]
    /\ \A r \in Pricings : CheckoutSound(checkouts[r], prices)

\* A checkout that captures is told from the others by its phase.
LEMMA CapturingCheckout ==
    ASSUME NEW q, NEW now, CheckoutSound(q, now), q.phase = "capturing"
    PROVE  Captured(q) /\ \A k \in Goods : now[k] \in q.seen[k]
BY DEF CheckoutSound, NoCheckout

\* One checkout goes on while the prices stay.
LEMMA OneCheckout ==
    ASSUME PricingInv, NEW r \in Pricings, NEW q, CheckoutSound(q, prices),
           checkouts' = [checkouts EXCEPT ![r] = q], UNCHANGED prices
    PROVE  PricingInv'
BY DEF PricingInv

LEMMA BeginStep ==
    ASSUME PricingInv, NEW r \in Pricings, NEW items \in ItemLists,
           NEW shipping \in Quotes \cup {None}, NEW place \in Places \cup {NoPlace},
           \/ shipping = None /\ place \in Places
           \/ /\ shipping # None /\ shipping = Quote(shipping.code, place, OrderWeight(items))
              /\ shipping.pickup \/ place # NoPlace,
           Begin(r, items, shipping, place)
    PROVE  PricingInv'
<1> DEFINE q == [phase |-> "capturing", items |-> items, shipping |-> shipping, place |-> place,
                 lines |-> <<>>, cart |-> CartView(items), seen |-> [k \in Goods |-> {prices[k]}]]
<1>1. items \in Seq(Items)
  BY PricingAssumption DEF Items
<1>2. prices \in [Goods -> Stored]
  BY DEF PricingInv
<1>3. CartView(items) \in Nat
  BY <1>1, <1>2, CartTyped DEF CartView
<1>4. [k \in Goods |-> {prices[k]}] \in [Goods -> SUBSET Stored]
  BY <1>2
<1>5. q \in Captures
  <2>1. <<>> \in Seq(OrderLines)
    OBVIOUS
  <2> QED
    BY <1>1, <1>3, <1>4, <2>1 DEF Captures
<1>6. /\ q.items = items /\ q.shipping = shipping /\ q.place = place /\ q.lines = <<>>
      /\ q.cart = CartView(items) /\ \A k \in Goods : q.seen[k] = {prices[k]}
  OBVIOUS
<1>7. checkouts' = [checkouts EXCEPT ![r] = q] /\ UNCHANGED prices
  BY DEF Begin
<1> HIDE DEF q
<1>8. QuotedRight(q)
  BY <1>6 DEF QuotedRight
<1>9. LinesRight(q)
  <2>1. Len(items) \in Nat
    BY <1>1, ItemsTyped
  <2>2. Len(q.lines) = 0
    BY <1>6
  <2> QED
    BY <1>6, <2>1, <2>2 DEF LinesRight
<1>10. CartRight(q)
  BY <1>2, <1>6 DEF CartRight, CartView
<1>11. CheckoutSound(q, prices)
  BY <1>5, <1>6, <1>8, <1>9, <1>10 DEF CheckoutSound, Captured
<1> QED
  BY <1>7, <1>11, OneCheckout

LEMMA PlaceOrderStep ==
    ASSUME PricingInv, NEW r \in Pricings, NEW items \in ItemLists, NEW code,
           NEW place \in Places \cup {NoPlace}, PlaceOrder(r, items, code, place)
    PROVE  PricingInv'
<1> DEFINE quote == Quote(code, place, OrderWeight(items))
<1>1. quote # None /\ (quote.pickup \/ place # NoPlace) /\ Begin(r, items, quote, place)
  BY DEF PlaceOrder
<1>2. OrderWeight(items) \in Nat
  <2>1. items \in Seq(Items)
    BY PricingAssumption DEF Items
  <2> QED
    BY <2>1, WeightTyped
<1>3. QuotedUnder(code, place, OrderWeight(items))
  BY <1>1, <1>2, QuotedEntry
<1>4. quote \in Quotes
  BY <1>3 DEF QuotedUnder
<1>5. quote.code = code
  <2>1. quote = [code |-> code, cost |-> Cost(GetMethod(code), place, OrderWeight(items)),
                 pickup |-> GetMethod(code).pickup]
    BY <1>3 DEF QuotedUnder
  <2> HIDE DEF quote
  <2> QED
    BY <2>1
<1>6. quote = Quote(quote.code, place, OrderWeight(items))
  BY <1>5
<1> HIDE DEF quote
<1> QED
  BY <1>1, <1>4, <1>6, BeginStep

LEMMA ManualOrderStep ==
    ASSUME PricingInv, NEW r \in Pricings, NEW items \in ItemLists, NEW place \in Places,
           CreateManualOrder(r, items, place)
    PROVE  PricingInv'
BY BeginStep DEF CreateManualOrder

LEMMA CaptureLineStep ==
    ASSUME PricingInv, NEW r \in Pricings, CaptureLine(r)
    PROVE  PricingInv'
<1> DEFINE q == checkouts[r]
           item == q.items[Len(q.lines) + 1]
           line == [sku |-> item.sku, unit |-> prices[item.sku],
                    total |-> prices[item.sku] * item.quantity]
           new == [q EXCEPT !.lines = Append(@, line)]
<1>1. /\ q.phase = "capturing" /\ Len(q.lines) < Len(q.items)
      /\ prices[item.sku] # None /\ IsMoney(line.total)
      /\ checkouts' = [checkouts EXCEPT ![r].lines = Append(@, line)] /\ UNCHANGED prices
  BY DEF CaptureLine
<1>2. Captured(q) /\ \A k \in Goods : prices[k] \in q.seen[k]
  BY <1>1, CapturingCheckout DEF PricingInv
<1>3. q \in Captures /\ QuotedRight(q) /\ LinesRight(q) /\ CartRight(q)
  BY <1>2 DEF Captured
<1>4. q.items \in Seq(Items) /\ q.lines \in Seq(OrderLines)
  BY <1>3 DEF Captures
<1>5. checkouts' = [checkouts EXCEPT ![r] = new]
  BY <1>1 DEF PricingInv
<1> HIDE DEF q
<1>6. Len(q.lines) \in Nat /\ Len(q.items) \in Nat /\ Len(q.lines) + 1 \in 1..Len(q.items)
  BY <1>1, <1>4, LenProperties
<1>7. item.sku \in Goods /\ item.quantity \in Nat
  BY <1>4, <1>6, ItemsTyped
<1>8. prices[item.sku] \in 0..MaxMoney
  BY <1>1, <1>7, StoredNumber DEF PricingInv
<1> HIDE DEF item
<1>9. line \in OrderLines
  BY <1>1, <1>7, <1>8 DEF OrderLines, IsMoney
<1>10. /\ line.sku = item.sku /\ line.unit = prices[item.sku]
       /\ line.total = prices[item.sku] * item.quantity
  OBVIOUS
<1> HIDE DEF line
<1> DEFINE lines == Append(q.lines, line)
<1>11. /\ lines \in Seq(OrderLines) /\ Len(lines) = Len(q.lines) + 1
       /\ \A i \in 1..Len(q.lines) : lines[i] = q.lines[i]
       /\ lines[Len(q.lines) + 1] = line
  BY <1>4, <1>9, AppendProperties
<1> HIDE DEF lines
<1>12. /\ new \in Captures /\ new.lines = lines /\ new.items = q.items /\ new.shipping = q.shipping
       /\ new.place = q.place /\ new.cart = q.cart /\ new.seen = q.seen
  BY <1>3, <1>11 DEF Captures, lines
<1> HIDE DEF new
<1>13. QuotedRight(new) /\ CartRight(new)
  BY <1>3, <1>12 DEF QuotedRight, CartRight
<1>14. LinesRight(new)
  <2> DEFINE m == Len(q.lines)
  <2>1. Len(new.lines) <= Len(new.items)
    BY <1>6, <1>11, <1>12
  <2>2. ASSUME NEW i \in 1..Len(new.lines)
        PROVE  /\ new.lines[i].sku = new.items[i].sku
               /\ new.lines[i].total = new.lines[i].unit * new.items[i].quantity
               /\ new.lines[i].unit \in new.seen[new.items[i].sku]
    <3>1. i \in 1..m \/ i = m + 1
      BY <1>6, <1>11, <1>12
    <3>2. CASE i \in 1..m
      BY <1>3, <1>11, <1>12, <3>2 DEF LinesRight
    <3>3. CASE i = m + 1
      <4>1. new.lines[i] = line /\ new.items[i] = item
        BY <1>11, <1>12, <3>3 DEF item
      <4>2. prices[item.sku] \in q.seen[item.sku]
        BY <1>2, <1>7
      <4> QED
        BY <1>10, <1>12, <4>1, <4>2
    <3> QED
      BY <3>1, <3>2, <3>3
  <2> QED
    BY <2>1, <2>2 DEF LinesRight
<1>15. CheckoutSound(new, prices)
  BY <1>2, <1>12, <1>13, <1>14 DEF CheckoutSound, Captured
<1> QED
  BY <1>1, <1>5, <1>15, OneCheckout

LEMMA CommitOrderStep ==
    ASSUME PricingInv, NEW r \in Pricings, CommitOrder(r)
    PROVE  PricingInv'
<1> DEFINE q == checkouts[r]
           p == [phase |-> "placed", row |-> OrderRow(NewOrder(q)), place |-> q.place,
                 weight |-> OrderWeight(q.items), cart |-> q.cart, seen |-> q.seen]
<1>1. /\ q.phase = "capturing" /\ Len(q.lines) = Len(q.items) /\ IsMoney(NewOrder(q).total)
      /\ checkouts' = [checkouts EXCEPT ![r] = p] /\ UNCHANGED prices
  BY DEF CommitOrder
<1>2. Captured(q)
  BY <1>1, CapturingCheckout DEF PricingInv
<1>3. p.phase = "placed"
  OBVIOUS
<1>4. PlacedRow(p.row) /\ AsShown(p)
  <2> HIDE DEF q
  <2> QED
    BY <1>1, <1>2, CommittedAsShown
<1> HIDE DEF p
<1>5. CheckoutSound(p, prices)
  BY <1>3, <1>4 DEF CheckoutSound
<1> QED
  BY <1>1, <1>5, OneCheckout

LEMMA RefuseStep ==
    ASSUME PricingInv, NEW r \in Pricings, Refuse(r)
    PROVE  PricingInv'
<1>1. CheckoutSound(NoCheckout, prices)
  BY DEF CheckoutSound
<1> QED
  BY <1>1, OneCheckout DEF Refuse

LEMMA SetPricesStep ==
    ASSUME PricingInv, NEW k \in Goods, NEW price \in NewPrices, SetVariantPrices(k, price)
    PROVE  PricingInv'
<1>1. price \in Stored
  BY PricingAssumption DEF Stored
<1>2. /\ prices' \in [Goods -> Stored]
      /\ \A j \in Goods : prices'[j] = IF j = k THEN price ELSE prices[j]
  BY <1>1 DEF PricingInv, SetVariantPrices
<1>3. DOMAIN checkouts' = Pricings /\ checkouts' = [r \in Pricings |-> checkouts'[r]]
  BY DEF SetVariantPrices
<1>4. ASSUME NEW r \in Pricings
      PROVE  CheckoutSound(checkouts'[r], prices')
  <2> DEFINE q == checkouts[r]
             new == [q EXCEPT !.seen[k] = @ \cup {price}]
  <2>1. checkouts'[r] = IF q.phase = "capturing" THEN new ELSE q
    BY DEF SetVariantPrices
  <2>2. CheckoutSound(q, prices)
    BY DEF PricingInv
  <2> HIDE DEF q
  <2>3. CASE q.phase # "capturing"
    <3>1. ~Captured(q)
      BY <2>3 DEF Captured, Captures
    <3> QED
      BY <2>1, <2>2, <2>3, <3>1 DEF CheckoutSound
  <2>4. CASE q.phase = "capturing"
    <3>1. Captured(q) /\ \A j \in Goods : prices[j] \in q.seen[j]
      BY <2>2, <2>4, CapturingCheckout
    <3>2. q \in Captures /\ QuotedRight(q) /\ LinesRight(q) /\ CartRight(q)
      BY <3>1 DEF Captured
    <3>3. /\ q.seen \in [Goods -> SUBSET Stored]
          /\ q.lines \in Seq(OrderLines) /\ q.items \in Seq(Items)
      BY <3>2 DEF Captures
    <3> DEFINE seen == [q.seen EXCEPT ![k] = @ \cup {price}]
    <3>4. seen \in [Goods -> SUBSET Stored]
      BY <1>1, <3>3
    <3>5. /\ \A j \in Goods : q.seen[j] \subseteq seen[j]
          /\ \A j \in Goods : prices'[j] \in seen[j]
      BY <1>2, <3>1, <3>3
    <3>6. new = [q EXCEPT !.seen = seen]
      BY <3>2 DEF Captures
    <3> HIDE DEF seen, new
    <3>7. /\ new \in Captures /\ new.seen = seen /\ new.lines = q.lines /\ new.items = q.items
          /\ new.shipping = q.shipping /\ new.place = q.place /\ new.cart = q.cart
      BY <3>2, <3>4, <3>6 DEF Captures
    <3>8. QuotedRight(new)
      BY <3>2, <3>7 DEF QuotedRight
    <3>9. CartRight(new)
      BY <3>2, <3>5, <3>7 DEF CartRight
    <3>10. LinesRight(new)
      <4>1. \A i \in 1..Len(q.lines) : q.items[i].sku \in Goods
        <5>1. /\ Len(q.lines) \in Nat /\ Len(q.items) \in Nat /\ Len(q.lines) <= Len(q.items)
          BY <3>2, <3>3, LenProperties DEF LinesRight
        <5>2. \A i \in 1..Len(q.lines) : i \in 1..Len(q.items)
          BY <5>1
        <5> QED
          BY <3>3, <5>2, ItemsTyped
      <4> QED
        BY <3>2, <3>5, <3>7, <4>1 DEF LinesRight
    <3>11. Captured(new)
      BY <3>7, <3>8, <3>9, <3>10 DEF Captured
    <3> QED
      BY <2>1, <2>4, <3>5, <3>7, <3>11 DEF CheckoutSound
  <2> QED
    BY <2>3, <2>4
<1> QED
  BY <1>2, <1>3, <1>4 DEF PricingInv

LEMMA PricingInitInv == PricingInit => PricingInv
<1> SUFFICES ASSUME PricingInit PROVE PricingInv
  OBVIOUS
<1>1. prices \in [Goods -> Stored]
  BY PricingAssumption DEF PricingInit, Stored
<1>2. DOMAIN checkouts = Pricings /\ \A r \in Pricings : checkouts[r] = NoCheckout
  BY DEF PricingInit
<1>3. checkouts = [r \in Pricings |-> checkouts[r]]
  BY DEF PricingInit
<1> QED
  BY <1>1, <1>2, <1>3 DEF PricingInv, CheckoutSound

LEMMA PricingStep == PricingInv /\ [PricingNext]_priceVars => PricingInv'
<1> SUFFICES ASSUME PricingInv, [PricingNext]_priceVars
             PROVE  PricingInv'
  OBVIOUS
<1>1. CASE UNCHANGED priceVars
  BY <1>1 DEF PricingInv, priceVars
<1>2. ASSUME NEW r \in Pricings, NEW items \in ItemLists, NEW place \in Places,
             CreateManualOrder(r, items, place)
      PROVE  PricingInv'
  BY <1>2, ManualOrderStep
<1>3. ASSUME NEW r \in Pricings, NEW items \in ItemLists, NEW m \in ToSet(MethodList),
             NEW place \in Places \cup {NoPlace}, PlaceOrder(r, items, m.code, place)
      PROVE  PricingInv'
  BY <1>3, PlaceOrderStep
<1>4. ASSUME NEW r \in Pricings, CaptureLine(r) PROVE PricingInv'
  BY <1>4, CaptureLineStep
<1>5. ASSUME NEW r \in Pricings, CommitOrder(r) PROVE PricingInv'
  BY <1>5, CommitOrderStep
<1>6. ASSUME NEW r \in Pricings, Refuse(r) PROVE PricingInv'
  BY <1>6, RefuseStep
<1>7. ASSUME NEW k \in Goods, NEW price \in NewPrices, SetVariantPrices(k, price)
      PROVE  PricingInv'
  BY <1>7, SetPricesStep
<1> QED
  BY <1>1, <1>2, <1>3, <1>4, <1>5, <1>6, <1>7 DEF PricingNext

\* The prices and what checkouts have captured keep their types: no amount exceeds what a
\* column stores and no rate is other than a percentage.
THEOREM PricesTyped == PricingSpec => []PricingTypeOK
<1>1. PricingInv => PricingTypeOK
  <2> SUFFICES ASSUME PricingInv PROVE PricingTypeOK
    OBVIOUS
  <2>1. ASSUME NEW r \in Pricings
        PROVE  LET q == checkouts[r] IN
               \/ q = NoCheckout
               \/ /\ q.phase = "capturing"
                  /\ q.shipping \in Quotes \cup {None} /\ q.lines \in Seq(OrderLines)
               \/ /\ q.phase = "placed"
                  /\ q.row.lines \in Seq(OrderLines)
                  /\ {q.row.cost, q.row.taxAmount, q.row.total} \subseteq 0..MaxMoney
                  /\ q.row.taxRate \in 0..100 \cup {None}
    <3>1. CheckoutSound(checkouts[r], prices)
      BY DEF PricingInv
    <3> QED
      BY <3>1 DEF CheckoutSound, Captured, Captures, PlacedRow
  <2> QED
    BY <2>1 DEF PricingInv, PricingTypeOK, Stored
<1> QED
  BY <1>1, PricingInitInv, PricingStep, PTL DEF PricingSpec

\* Whatever staff do to the prices while checkouts capture their lines, a placed order, read
\* back from its row, charges what the shopper was shown: goods at prices in force during
\* the checkout, delivery as the chooser lists it, tax within the rounding of its charges.
THEOREM OrdersAsShown == PricingSpec => []OrderAsShown
<1>1. PricingInv => OrderAsShown
  <2> SUFFICES ASSUME PricingInv, NEW r \in Placed PROVE AsShown(checkouts[r])
    BY DEF OrderAsShown, AsShown
  <2>1. r \in Pricings /\ checkouts[r].phase = "placed"
    BY DEF Placed
  <2>2. CheckoutSound(checkouts[r], prices)
    BY <2>1 DEF PricingInv
  <2> QED
    BY <2>1, <2>2 DEF CheckoutSound, Captured, Captures, NoCheckout
<1> QED
  BY <1>1, PricingInitInv, PricingStep, PTL DEF PricingSpec
-----------------------------------------------------------------------------
(* The three together. *)

\* A behaviour of the shopper's models is one of each of them.
THEOREM ShopperParts == ShopperSpec => AddressSpec /\ GuestCartSpec /\ PricingSpec
<1> DEFINE vars == <<addressVars, cartVars, priceVars>>
<1>1. ShopperInit => AddressInit /\ GuestCartInit /\ PricingInit
  BY DEF ShopperInit
<1>2. [ShopperNext]_vars =>
          [AddressNext]_addressVars /\ [GuestCartNext]_cartVars /\ [PricingNext]_priceVars
  BY DEF ShopperNext, AddressMove, GuestCartMove, PricingMove
<1> QED
  BY <1>1, <1>2, PTL DEF ShopperSpec, AddressSpec, GuestCartSpec, PricingSpec

\* All that is claimed of an address book, of the merges of guest carts and of what an order
\* charges holds of them together.
THEOREM ShopperSafe ==
    ShopperSpec => /\ [](ShopperTypeOK /\ AtMostOneDefault /\ OvershootBounded /\ OrderAsShown)
                   /\ DefaultKept /\ MergeSerial
<1>1. AddressTypeOK /\ GuestCartTypeOK /\ PricingTypeOK => ShopperTypeOK
  BY DEF ShopperTypeOK
<1> QED
  BY <1>1, ShopperParts, BooksTyped, DefaultIsUnique, LimitOvershootIsBounded, DefaultIsKept,
     GuestCartsTyped, MergesAreSerial, PricesTyped, OrdersAsShown, PTL
=============================================================================
