----------------------------- MODULE CatalogLists ------------------------------
(***************************************************************************)
(* The lists that staff replace as a whole: the categories of a product,   *)
(* the products of a collection, the rule of a collection and the prices   *)
(* of a variant.  All four are written the same way: the request locks the *)
(* row of the list's owner, deletes the list's rows, inserts its own in    *)
(* the order they were sent, and commits.                                  *)
(*                                                                         *)
(* Under read-committed isolation the DELETE removes the rows that were    *)
(* committed when it ran.  The reads for the audit trail are left out.     *)
(***************************************************************************)
EXTENDS Integers, SequencesExt

CONSTANTS Editors,      \* requests in flight together
          Products, Collections, Variants,  \* the owners of lists
          Categories, Attributes, Outlets,  \* what the lists refer to, with the products
          Currency,     \* outlet (channel) -> the currency it was created with
          Comparisons,  \* operators that requests name
          Operand,      \* spelling of a rule's value -> the value trimmed, "" when blank
          Sums,         \* amounts that requests name
          MaxEntries    \* bound of the exploration: entries a request names

NoEditor == "nobody"

ASSUME ListsAssumption ==
    /\ DOMAIN Currency = Outlets
    /\ NoEditor \notin Editors
    /\ MaxEntries \in Nat

VARIABLES lists,      \* list -> its entries, as committed
          collected,  \* the collections that were created
          owners,     \* owner -> the request that holds its row's lock, or NoEditor
          edits       \* request -> what it is doing

listVars == <<lists, collected, owners, edits>>

\* The lists: the rows they are in, and the row that is locked to replace them.
Lists ==
    [kind : {"categories"}, owner : Products] \cup [kind : {"prices"}, owner : Variants]
      \cup [kind : {"products", "rule"}, owner : Collections]

Owners == Products \cup Variants \cup Collections

RuleOperators == {"equals", "not_equals"}

\* What a list of each kind may hold.
CategoryLinks == Categories
CollectionLinks == Products
Conditions ==
    [attribute : Attributes, operator : RuleOperators, value : {Operand[s] : s \in DOMAIN Operand}]
Prices == [channel : Outlets, currency : {Currency[c] : c \in Outlets}, amount : Sums]

Entries(kind) ==
    CASE kind = "categories" -> CategoryLinks
      [] kind = "products"   -> CollectionLinks
      [] kind = "rule"       -> Conditions
      [] kind = "prices"     -> Prices

\* No entry twice.
IsListOf(list, kind) == list \in Seq(Entries(kind)) /\ IsInjective(list)

NoEdit == [phase |-> "idle"]

\* entries: the list that is asked for; seen: the entries whose rows the DELETE found.
IsEdit(edit) ==
    /\ edit.phase \in {"read", "locked", "cleared"}
    /\ edit.list \in Lists
    /\ IsListOf(edit.entries, edit.list.kind)
    /\ edit.seen \subseteq Entries(edit.list.kind)

ListsTypeOK ==
    /\ DOMAIN lists = Lists
    /\ \A l \in Lists : IsListOf(lists[l], l.kind)
    /\ collected \subseteq Collections
    /\ owners \in [Owners -> Editors \cup {NoEditor}]
    /\ DOMAIN edits = Editors
    /\ \A e \in Editors : edits[e] = NoEdit \/ IsEdit(edits[e])

ListsInit ==
    /\ lists = [l \in Lists |-> <<>>]
    /\ collected = {}
    /\ owners = [o \in Owners |-> NoEditor]
    /\ edits = [e \in Editors |-> NoEdit]
-----------------------------------------------------------------------------
(* What a request may ask for. *)

\* CreateCollection: one row; a second one of the slug is refused.
CreateCollection(c) ==
    /\ c \notin collected
    /\ collected' = collected \cup {c}
    /\ UNCHANGED <<lists, owners, edits>>

\* reject_duplicate_...: an entry that is listed twice is an error, never merged.
RejectDuplicates(keys) == IsInjective(keys)

\* The request is well formed and its owner exists; it goes on to replace the list.
Replace(e, list, entries) ==
    /\ edits[e] = NoEdit
    /\ edits' = [edits EXCEPT ![e] =
                    [phase |-> "read", list |-> list, entries |-> entries, seen |-> {}]]
    /\ UNCHANGED <<lists, collected, owners>>

SetProductCategories(e, product, categories) ==
    /\ RejectDuplicates(categories)
    /\ Replace(e, [kind |-> "categories", owner |-> product], categories)

SetCollectionProducts(e, collection, products) ==
    /\ RejectDuplicates(products)
    /\ collection \in collected
    /\ Replace(e, [kind |-> "products", owner |-> collection], products)

\* A condition is trimmed; a blank value or an unknown operator is refused.
RuleCondition(raw) == [raw EXCEPT !.value = Operand[@]]

IsCondition(raw) == raw.operator \in RuleOperators /\ Operand[raw.value] # ""

SetCollectionRule(e, collection, conditions) ==
    LET rule == [i \in DOMAIN conditions |-> RuleCondition(conditions[i])] IN
    /\ \A i \in DOMAIN conditions : IsCondition(conditions[i])
    /\ RejectDuplicates(rule)
    /\ collection \in collected
    /\ Replace(e, [kind |-> "rule", owner |-> collection], rule)

\* A base price is positive.
IsMoney(amount) == amount > 0

\* The currency of a price is its channel's, never the caller's.
ChannelPrice(raw) ==
    [channel |-> raw.channel, currency |-> Currency[raw.channel], amount |-> raw.amount]

\* One price for a channel; the prices of a variant have the order of their channels.
SetVariantPrices(e, variant, prices) ==
    /\ \A i \in DOMAIN prices : IsMoney(prices[i].amount)
    /\ RejectDuplicates([i \in DOMAIN prices |-> prices[i].channel])
    /\ Replace(e, [kind |-> "prices", owner |-> variant],
               SetToSeq({ChannelPrice(prices[i]) : i \in DOMAIN prices}))
-----------------------------------------------------------------------------
(* The transaction of a replacement. *)

OwnerOf(e) == edits[e].list.owner

\* Mutant of LockOwner: the owner is read without FOR UPDATE.
ReadOwner(e) ==
    /\ edits[e].phase = "read"
    /\ edits' = [edits EXCEPT ![e].phase = "locked"]
    /\ UNCHANGED <<lists, collected, owners>>

\* The row of the owner is locked; a second request waits here.
LockOwner(e) ==
    /\ edits[e].phase = "read"
    /\ owners[OwnerOf(e)] = NoEditor
    /\ owners' = [owners EXCEPT ![OwnerOf(e)] = e]
    /\ edits' = [edits EXCEPT ![e].phase = "locked"]
    /\ UNCHANGED <<lists, collected>>

DeleteRows(e) ==
    /\ edits[e].phase = "locked"
    /\ edits' = [edits EXCEPT ![e].phase = "cleared", ![e].seen = ToSet(lists[edits[e].list])]
    /\ UNCHANGED <<lists, collected, owners>>

Released(e) == [o \in Owners |-> IF owners[o] = e THEN NoEditor ELSE owners[o]]

\* The rows of a list that a DELETE did not see.
Unseen(list, seen) ==
    LET upto[i \in 0..Len(list)] ==
            IF i = 0 THEN <<>>
            ELSE IF list[i] \in seen THEN upto[i - 1] ELSE Append(upto[i - 1], list[i])
    IN  upto[Len(list)]

\* The rows that the DELETE did not see stay; a unique constraint refuses a row twice.
CommitReplace(e) ==
    LET edit == edits[e]
        kept == Unseen(lists[edit.list], edit.seen)
    IN
    /\ edit.phase = "cleared"
    /\ ToSet(kept) \cap ToSet(edit.entries) = {}
    /\ lists' = [lists EXCEPT ![edit.list] = kept \o edit.entries]
    /\ owners' = Released(e)
    /\ edits' = [edits EXCEPT ![e] = NoEdit]
    /\ UNCHANGED collected

\* The worker dies, or its connection does: an open transaction is rolled back.
EditFails(e) ==
    /\ edits[e] # NoEdit
    /\ owners' = Released(e)
    /\ edits' = [edits EXCEPT ![e] = NoEdit]
    /\ UNCHANGED <<lists, collected>>
-----------------------------------------------------------------------------
(* The endpoints: what a request carries. *)

CollectionListCreateView == \E c \in Collections : CreateCollection(c)

ProductCategoriesView(e) ==
    \E p \in Products, categories \in SeqOf(Categories, MaxEntries) :
        SetProductCategories(e, p, categories)

CollectionProductsView(e) ==
    \E c \in Collections, products \in SeqOf(Products, MaxEntries) :
        SetCollectionProducts(e, c, products)

RawConditions == [attribute : Attributes, operator : Comparisons, value : DOMAIN Operand]

CollectionRuleView(e) ==
    \E c \in Collections, conditions \in SeqOf(RawConditions, MaxEntries) :
        SetCollectionRule(e, c, conditions)

VariantPricesView(e) ==
    \E v \in Variants, prices \in SeqOf([channel : Outlets, amount : Sums], MaxEntries) :
        SetVariantPrices(e, v, prices)

ListsNext ==
    \/ \E e \in Editors :
           \/ ProductCategoriesView(e) \/ CollectionProductsView(e)
           \/ CollectionRuleView(e) \/ VariantPricesView(e)
           \/ LockOwner(e) \/ DeleteRows(e) \/ CommitReplace(e) \/ EditFails(e)
    \/ CollectionListCreateView

ListsSpec == ListsInit /\ [][ListsNext]_listVars
-----------------------------------------------------------------------------
\* A list is replaced as a whole: whatever interleaves or dies, a step that changes a list
\* leaves in it exactly what one request asked for, in that order, never what two of them
\* did together (the four replace methods: "must be all-or-nothing").
ListsWhole ==
    [][\A l \in Lists : lists'[l] # lists[l] =>
          \E e \in Editors : edits[e] # NoEdit /\ edits[e].list = l /\ lists'[l] = edits[e].entries]_listVars
=============================================================================
