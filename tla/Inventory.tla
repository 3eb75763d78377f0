------------------------------ MODULE Inventory ------------------------------
(***************************************************************************)
(* The inventory context (domain, application and infrastructure layers):  *)
(* stock levels of each variant at each source, the selling policy of each *)
(* variant, and the operations on them.  Every operation is one            *)
(* transaction that locks the rows it reads (select_for_update), so it is  *)
(* one action.                                                             *)
(***************************************************************************)
EXTENDS Totals

CONSTANTS Skus,         \* variants
          SourceCodes,  \* codes a stock source may be created with, as integers in
                        \* the order in which the code strings sort
          DefaultSource,\* the source of the catalog's single count ("main")
          MaxQuantity,  \* the greatest value of a stock column (2^31 - 1)
          MaxLine       \* bound of the exploration: units moved by one call

ASSUME InventoryAssumption ==
    /\ IsFiniteSet(SourceCodes) /\ SourceCodes \subseteq Int
    /\ DefaultSource \in SourceCodes
    /\ MaxQuantity \in Nat
    /\ MaxLine \in Nat

VARIABLES sources,        \* the sources that exist
          onHand,         \* sku -> source -> physical units (0: no row)
          reserved,       \* sku -> source -> units reserved
          backorderable,  \* sku -> sold beyond physical stock?
          backordered     \* sku -> units promised beyond physical stock

vars == <<sources, onHand, reserved, backorderable, backordered>>

TypeOK ==
    /\ sources \subseteq SourceCodes
    /\ onHand        \in [Skus -> [SourceCodes -> 0..MaxQuantity]]
    /\ reserved      \in [Skus -> [SourceCodes -> 0..MaxQuantity]]
    /\ backorderable \in [Skus -> BOOLEAN]
    /\ backordered   \in [Skus -> 0..MaxQuantity]

Init ==
    /\ sources = {}
    /\ onHand   = [k \in Skus |-> [s \in SourceCodes |-> 0]]
    /\ reserved = [k \in Skus |-> [s \in SourceCodes |-> 0]]
    /\ backorderable = [k \in Skus |-> FALSE]
    /\ backordered   = [k \in Skus |-> 0]
-----------------------------------------------------------------------------
Available(k) == Minus(onHand[k], reserved[k])

AvailableToPromise(k) == Total(Available(k))

\* Mutant of Before: the sort key has no tie-break.
FullerThan(f, s, t) == f[s] > f[t]

\* Fullest source first, ties by source code: the sort key of both plans.
Before(f, s, t) == f[s] > f[t] \/ (f[s] = f[t] /\ s < t)

\* The greedy draw of q units from f: never more than a source has, q together, and
\* nothing from a source before every source ahead of it is drained.
Draws(f, q) ==
    {take \in [SourceCodes -> 0..q] :
        /\ \A s \in SourceCodes : take[s] <= f[s]
        /\ Total(take) = q
        /\ \A s, t \in SourceCodes : Before(f, s, t) /\ take[t] > 0 => take[s] = f[s]}

\* Mutant of Reserve: a short variant is backordered whole, its physical units left.
ReserveAllOrNothing(k, q) ==
    LET physical == IF q <= AvailableToPromise(k) THEN q ELSE 0 IN
    /\ backorderable[k] \/ q <= AvailableToPromise(k)
    /\ backordered[k] + q - physical <= MaxQuantity
    /\ \E take \in Draws(Available(k), physical) :
           reserved' = [reserved EXCEPT ![k] = Plus(@, take)]
    /\ backordered' = [backordered EXCEPT ![k] = @ + q - physical]
    /\ UNCHANGED <<sources, onHand, backorderable>>

Reserve(k, q) ==
    LET physical == Smaller(q, AvailableToPromise(k)) IN
    /\ backorderable[k] \/ q <= AvailableToPromise(k)
    /\ backordered[k] + q - physical <= MaxQuantity
    /\ \E take \in Draws(Available(k), physical) :
           reserved' = [reserved EXCEPT ![k] = Plus(@, take)]
    /\ backordered' = [backordered EXCEPT ![k] = @ + q - physical]
    /\ UNCHANGED <<sources, onHand, backorderable>>

Release(k, q) ==
    LET fromBackorder == Smaller(q, backordered[k])
        physical      == q - fromBackorder
    IN
    /\ physical <= Total(reserved[k])
    /\ \E take \in Draws(reserved[k], physical) :
           reserved' = [reserved EXCEPT ![k] = Minus(@, take)]
    /\ backordered' = [backordered EXCEPT ![k] = @ - fromBackorder]
    /\ UNCHANGED <<sources, onHand, backorderable>>

\* Mutant of SetOnHand: a recount below what is reserved is accepted.
SetOnHandUnchecked(k, s, n) ==
    /\ s \in sources
    /\ onHand' = [onHand EXCEPT ![k][s] = n]
    /\ UNCHANGED <<sources, reserved, backorderable, backordered>>

SetOnHand(k, s, n) ==
    /\ s \in sources
    /\ n >= reserved[k][s]
    /\ onHand' = [onHand EXCEPT ![k][s] = n]
    /\ UNCHANGED <<sources, reserved, backorderable, backordered>>

\* Mutant of AdjustOnHand: only a negative result is refused.
AdjustOnHandUnchecked(k, s, delta) ==
    LET n == onHand[k][s] + delta IN
    /\ s \in sources
    /\ n >= 0 /\ n <= MaxQuantity
    /\ onHand' = [onHand EXCEPT ![k][s] = n]
    /\ UNCHANGED <<sources, reserved, backorderable, backordered>>

AdjustOnHand(k, s, delta) ==
    LET n == onHand[k][s] + delta IN
    /\ s \in sources
    /\ n >= 0 /\ n >= reserved[k][s]
    /\ n <= MaxQuantity
    /\ onHand' = [onHand EXCEPT ![k][s] = n]
    /\ UNCHANGED <<sources, reserved, backorderable, backordered>>

SetPolicy(k, b) ==
    /\ backorderable' = [backorderable EXCEPT ![k] = b]
    /\ UNCHANGED <<sources, onHand, reserved, backordered>>

CreateStockSource(s) ==
    /\ s \notin sources
    /\ sources' = sources \cup {s}
    /\ UNCHANGED <<onHand, reserved, backorderable, backordered>>

-----------------------------------------------------------------------------
(* The catalog's view of a variant's stock: one count, kept at the default source. *)

\* StockQuantity: a count that does not fit the stored column cannot even be shown.
Countable(units) == units <= MaxQuantity

\* ensure_default: the first write creates the default source.
EnsureDefault == sources' = sources \cup {DefaultSource}

\* SetVariantStock reads the total over the sources for its audit entry, and then sets
\* the count of the default source.
SetVariantStock(k, n) ==
    /\ Countable(Total(onHand[k]))
    /\ n >= reserved[k][DefaultSource]
    /\ EnsureDefault
    /\ onHand' = [onHand EXCEPT ![k][DefaultSource] = n]
    /\ UNCHANGED <<reserved, backorderable, backordered>>

\* AdjustVariantStock answers with the new total; one that cannot be shown undoes it.
AdjustVariantStock(k, delta) ==
    LET n == onHand[k][DefaultSource] + delta IN
    /\ n >= 0 /\ n >= reserved[k][DefaultSource]
    /\ n <= MaxQuantity
    /\ Countable(Total(onHand[k]) + delta)
    /\ EnsureDefault
    /\ onHand' = [onHand EXCEPT ![k][DefaultSource] = n]
    /\ UNCHANGED <<reserved, backorderable, backordered>>
-----------------------------------------------------------------------------
(* The endpoints: what a request carries. *)

StockSourceListCreateView == \E s \in SourceCodes : CreateStockSource(s)

SourceStockView ==
    \E k \in Skus, s \in SourceCodes :
        \/ \E n \in 0..MaxQuantity : SetOnHand(k, s, n)
        \/ \E d \in -MaxLine..MaxLine : AdjustOnHand(k, s, d)

VariantStockPolicyView == \E k \in Skus, b \in BOOLEAN : SetPolicy(k, b)

VariantStockView ==
    \E k \in Skus :
        \/ \E n \in 0..MaxQuantity : SetVariantStock(k, n)
        \/ \E d \in -MaxLine..MaxLine : AdjustVariantStock(k, d)

Next ==
    \/ \E k \in Skus, q \in 1..MaxLine : Reserve(k, q) \/ Release(k, q)
    \/ StockSourceListCreateView \/ SourceStockView
    \/ VariantStockPolicyView \/ VariantStockView

Spec == Init /\ [][Next]_vars
-----------------------------------------------------------------------------
\* No source ever has more units reserved than it physically holds, whatever the order
\* of reservations, releases and recounts (the level invariant of StockLevelModel), and every
\* column has its type.
LevelsSound == TypeOK /\ \A k \in Skus, s \in SourceCodes : reserved[k][s] <= onHand[k][s]

\* A step adds a backorder promise only to a backorderable variant, and only when it
\* leaves no physical unit unreserved at any source (plan_reservation).
BackorderOnlyWhenDrained ==
    [][\A k \in Skus :
          backordered'[k] > backordered[k]
              => backorderable[k] /\ \A s \in SourceCodes : reserved'[k][s] = onHand[k][s]]_vars

\* A request that the guards admit has exactly one plan: the fullest-first loop never runs
\* out of levels before it has placed every unit, and ties never make two calls on the
\* same levels draw differently (plan_reservation, plan_release: "stable, deterministic").
PlanUnique ==
    \A k \in Skus :
        /\ \A q \in 0..AvailableToPromise(k) : Cardinality(Draws(Available(k), q)) = 1
        /\ \A q \in 0..Total(reserved[k])    : Cardinality(Draws(reserved[k], q)) = 1

\* The pool of each variant that callers see.
Pool == [k \in Skus |-> [onHand        |-> Total(onHand[k]),
                         reserved      |-> Total(reserved[k]),
                         backordered   |-> backordered[k],
                         backorderable |-> backorderable[k]]]

Promise == INSTANCE StockPool WITH stock <- Pool,
                                   MaxQuantity <- MaxQuantity * Cardinality(SourceCodes)

\* The levels spread over the sources behave to callers as one pool per variant:
\* every operation is an operation of the pool, and creating a source changes nothing.
ImplementsPool == Promise!PoolSpec
=============================================================================
