--------------------------- MODULE Inventory_proofs ---------------------------
(***************************************************************************)
(* The stock levels spread over sources, for every set of variants and     *)
(* sources and every column width: no source is oversold, a backorder is   *)
(* promised only by a drained variant, a request the guards admit has      *)
(* exactly one plan, and to callers the levels are one pool per variant.   *)
(***************************************************************************)
EXTENDS Inventory, Totals_proofs

\* The levels of one variant, the physical units or the reserved ones.
Levels == [SourceCodes -> 0..MaxQuantity]

\* A draw takes from each source at most what it has.
LEMMA DrawLevels ==
    ASSUME NEW f \in Levels, NEW q \in Nat, NEW take \in Draws(f, q)
    PROVE  /\ take \in Levels
           /\ \A s \in SourceCodes : take[s] <= f[s]
           /\ Total(take) = q
BY InventoryAssumption DEF Draws, Levels

\* What is available is what is on hand less what is reserved, in every source and
\* over all of them (available_to_promise).
LEMMA AvailableLevels ==
    ASSUME LevelsSound, NEW k \in Skus
    PROVE  /\ onHand[k] \in Levels /\ reserved[k] \in Levels /\ Available(k) \in Levels
           /\ \A s \in SourceCodes : Available(k)[s] = onHand[k][s] - reserved[k][s]
           /\ AvailableToPromise(k) = Total(onHand[k]) - Total(reserved[k])
           /\ AvailableToPromise(k) \in Nat
           /\ Total(onHand[k]) \in Nat /\ Total(reserved[k]) \in Nat
<1>1. onHand[k] \in Levels /\ reserved[k] \in Levels
  BY DEF LevelsSound, TypeOK, Levels
<1>2. \A s \in SourceCodes : reserved[k][s] <= onHand[k][s]
  BY DEF LevelsSound
<1>3. Available(k) \in Levels /\ AvailableToPromise(k) = Total(onHand[k]) - Total(reserved[k])
  <2>1. /\ Minus(onHand[k], reserved[k]) \in [SourceCodes -> 0..MaxQuantity]
        /\ Total(Minus(onHand[k], reserved[k])) = Total(onHand[k]) - Total(reserved[k])
    <3>1. IsFiniteSet(SourceCodes) /\ MaxQuantity \in Nat
      BY InventoryAssumption
    <3>2. /\ onHand[k] \in [SourceCodes -> 0..MaxQuantity]
          /\ reserved[k] \in [SourceCodes -> 0..MaxQuantity]
      BY <1>1 DEF Levels
    <3> QED
      BY <1>2, <3>1, <3>2, TotalMinus
  <2> QED
    BY <2>1 DEF Available, AvailableToPromise, Levels
<1>4. \A s \in SourceCodes : Available(k)[s] = onHand[k][s] - reserved[k][s]
  BY <1>1 DEF Available, Minus, Levels
<1>5. /\ Total(onHand[k]) \in Nat /\ Total(reserved[k]) \in Nat
      /\ Total(Available(k)) \in Nat
  BY <1>1, <1>3, TotalType, InventoryAssumption DEF Levels
<1> QED
  BY <1>1, <1>3, <1>4, <1>5 DEF AvailableToPromise

-----------------------------------------------------------------------------
(* The levels stay sound. *)

LEMMA InitSound == Init => LevelsSound
BY InventoryAssumption DEF Init, LevelsSound, TypeOK

LEMMA ReserveSound ==
    ASSUME LevelsSound, NEW k \in Skus, NEW q \in 1..MaxLine, Reserve(k, q)
    PROVE  LevelsSound'
<1> DEFINE physical == Smaller(q, AvailableToPromise(k))
<1>1. PICK take \in Draws(Available(k), physical) :
          reserved' = [reserved EXCEPT ![k] = Plus(@, take)]
  BY DEF Reserve
<1>2. /\ AvailableToPromise(k) \in Nat /\ Available(k) \in Levels
      /\ onHand[k] \in Levels /\ reserved[k] \in Levels
      /\ \A s \in SourceCodes : Available(k)[s] = onHand[k][s] - reserved[k][s]
  BY AvailableLevels
<1>3. q \in Nat /\ physical \in Nat /\ physical <= q
  BY <1>2, InventoryAssumption DEF Smaller
<1> HIDE DEF physical
<1>4. take \in Levels /\ \A s \in SourceCodes : take[s] <= Available(k)[s]
  BY <1>2, <1>3, DrawLevels
<1>5. /\ Plus(reserved[k], take) \in Levels
      /\ \A s \in SourceCodes : Plus(reserved[k], take)[s] <= onHand[k][s]
  <2>1. Plus(reserved[k], take) = [s \in SourceCodes |-> reserved[k][s] + take[s]]
    BY <1>2 DEF Plus, Levels
  <2>2. ASSUME NEW s \in SourceCodes
        PROVE  /\ reserved[k][s] + take[s] \in 0..MaxQuantity
               /\ reserved[k][s] + take[s] <= onHand[k][s]
    <3>1. /\ take[s] \in 0..MaxQuantity /\ onHand[k][s] \in 0..MaxQuantity
          /\ reserved[k][s] \in 0..MaxQuantity /\ Available(k)[s] = onHand[k][s] - reserved[k][s]
          /\ take[s] <= Available(k)[s]
      BY <1>2, <1>4 DEF Levels
    <3> QED
      BY <3>1, InventoryAssumption
  <2> QED
    BY <2>1, <2>2 DEF Levels
<1>6. backordered[k] + q - physical \in 0..MaxQuantity
  <2>1. backordered[k] \in 0..MaxQuantity
    BY DEF LevelsSound, TypeOK
  <2>2. backordered[k] + q - physical <= MaxQuantity
    BY DEF Reserve, physical
  <2> QED
    BY <1>3, <2>1, <2>2, InventoryAssumption
<1>7. /\ backordered' = [backordered EXCEPT ![k] = @ + q - physical]
      /\ UNCHANGED <<sources, onHand, backorderable>>
  BY DEF Reserve, physical
<1>8. TypeOK'
  BY <1>1, <1>5, <1>6, <1>7 DEF LevelsSound, TypeOK, Levels
<1>9. \A x \in Skus, s \in SourceCodes : reserved'[x][s] <= onHand'[x][s]
  BY <1>1, <1>5, <1>7 DEF LevelsSound, TypeOK
<1> QED
  BY <1>8, <1>9 DEF LevelsSound

LEMMA ReleaseSound ==
    ASSUME LevelsSound, NEW k \in Skus, NEW q \in 1..MaxLine, Release(k, q)
    PROVE  LevelsSound'
<1> DEFINE back == Smaller(q, backordered[k])
<1>1. PICK take \in Draws(reserved[k], q - back) :
          reserved' = [reserved EXCEPT ![k] = Minus(@, take)]
  BY DEF Release
<1>2. onHand[k] \in Levels /\ reserved[k] \in Levels
  BY AvailableLevels
<1>3. q \in Nat /\ backordered[k] \in 0..MaxQuantity
  BY InventoryAssumption DEF LevelsSound, TypeOK
<1>4. back \in 0..q /\ back <= backordered[k]
  BY <1>3, InventoryAssumption DEF Smaller
<1> HIDE DEF back
<1>5. take \in Levels /\ \A s \in SourceCodes : take[s] <= reserved[k][s]
  BY <1>2, <1>3, <1>4, DrawLevels
<1>6. /\ Minus(reserved[k], take) \in Levels
      /\ \A s \in SourceCodes : Minus(reserved[k], take)[s] <= onHand[k][s]
  <2>1. Minus(reserved[k], take) = [s \in SourceCodes |-> reserved[k][s] - take[s]]
    BY <1>2 DEF Minus, Levels
  <2>2. ASSUME NEW s \in SourceCodes
        PROVE  /\ reserved[k][s] - take[s] \in 0..MaxQuantity
               /\ reserved[k][s] - take[s] <= onHand[k][s]
    <3>1. /\ take[s] \in 0..MaxQuantity /\ onHand[k][s] \in 0..MaxQuantity
          /\ reserved[k][s] \in 0..MaxQuantity /\ take[s] <= reserved[k][s]
          /\ reserved[k][s] <= onHand[k][s]
      BY <1>2, <1>5 DEF Levels, LevelsSound
    <3> QED
      BY <3>1, InventoryAssumption
  <2> QED
    BY <2>1, <2>2 DEF Levels
<1>7. /\ backordered' = [backordered EXCEPT ![k] = @ - back]
      /\ UNCHANGED <<sources, onHand, backorderable>>
  BY DEF Release, back
<1>8. backordered[k] - back \in 0..MaxQuantity
  BY <1>3, <1>4, InventoryAssumption
<1>9. TypeOK'
  BY <1>1, <1>6, <1>7, <1>8 DEF LevelsSound, TypeOK, Levels
<1>10. \A x \in Skus, s \in SourceCodes : reserved'[x][s] <= onHand'[x][s]
  BY <1>1, <1>6, <1>7 DEF LevelsSound, TypeOK
<1> QED
  BY <1>9, <1>10 DEF LevelsSound

\* A new count of one source that covers what is reserved there, and perhaps new sources.
LEMMA RecountSound ==
    ASSUME LevelsSound, NEW k \in Skus, NEW s \in SourceCodes, NEW n \in 0..MaxQuantity,
           n >= reserved[k][s], onHand' = [onHand EXCEPT ![k][s] = n],
           sources' \subseteq SourceCodes, UNCHANGED <<reserved, backorderable, backordered>>
    PROVE  LevelsSound'
<1>1. TypeOK'
  BY DEF LevelsSound, TypeOK
<1>2. \A x \in Skus, t \in SourceCodes : reserved'[x][t] <= onHand'[x][t]
  BY DEF LevelsSound, TypeOK
<1> QED
  BY <1>1, <1>2 DEF LevelsSound

\* The four staff operations on a count are such recounts.
LEMMA StaffCountIsRecount ==
    ASSUME LevelsSound, SourceStockView \/ VariantStockView
    PROVE  \E k \in Skus, s \in SourceCodes, n \in 0..MaxQuantity :
               /\ n >= reserved[k][s] /\ onHand' = [onHand EXCEPT ![k][s] = n]
               /\ sources' \subseteq SourceCodes
               /\ UNCHANGED <<reserved, backorderable, backordered>>
<1>0. sources \subseteq SourceCodes /\ onHand \in [Skus -> [SourceCodes -> 0..MaxQuantity]]
  BY DEF LevelsSound, TypeOK
<1>1. ASSUME NEW k \in Skus, NEW s \in SourceCodes, NEW n \in 0..MaxQuantity, SetOnHand(k, s, n)
      PROVE  /\ n >= reserved[k][s] /\ onHand' = [onHand EXCEPT ![k][s] = n]
             /\ sources' \subseteq SourceCodes
             /\ UNCHANGED <<reserved, backorderable, backordered>>
  BY <1>0, <1>1 DEF SetOnHand
<1>2. ASSUME NEW k \in Skus, NEW s \in SourceCodes, NEW d \in -MaxLine..MaxLine,
             AdjustOnHand(k, s, d)
      PROVE  \E n \in 0..MaxQuantity :
               /\ n >= reserved[k][s] /\ onHand' = [onHand EXCEPT ![k][s] = n]
               /\ sources' \subseteq SourceCodes
               /\ UNCHANGED <<reserved, backorderable, backordered>>
  <2>1. onHand[k][s] + d \in 0..MaxQuantity
    BY <1>0, <1>2, InventoryAssumption DEF AdjustOnHand
  <2> QED
    BY <1>0, <1>2, <2>1 DEF AdjustOnHand
<1>3. ASSUME NEW k \in Skus, NEW n \in 0..MaxQuantity, SetVariantStock(k, n)
      PROVE  /\ n >= reserved[k][DefaultSource] /\ onHand' = [onHand EXCEPT ![k][DefaultSource] = n]
             /\ sources' \subseteq SourceCodes
             /\ UNCHANGED <<reserved, backorderable, backordered>>
  BY <1>0, <1>3, InventoryAssumption DEF SetVariantStock, EnsureDefault
<1>4. ASSUME NEW k \in Skus, NEW d \in -MaxLine..MaxLine, AdjustVariantStock(k, d)
      PROVE  \E n \in 0..MaxQuantity :
               /\ n >= reserved[k][DefaultSource]
               /\ onHand' = [onHand EXCEPT ![k][DefaultSource] = n]
               /\ sources' \subseteq SourceCodes
               /\ UNCHANGED <<reserved, backorderable, backordered>>
  <2>1. onHand[k][DefaultSource] + d \in 0..MaxQuantity
    BY <1>0, <1>4, InventoryAssumption DEF AdjustVariantStock
  <2> QED
    BY <1>0, <1>4, <2>1, InventoryAssumption DEF AdjustVariantStock, EnsureDefault
<1>5. CASE SourceStockView
  BY <1>1, <1>2, <1>5 DEF SourceStockView
<1>6. CASE VariantStockView
  <2>1. DefaultSource \in SourceCodes
    BY InventoryAssumption
  <2> QED
    BY <1>3, <1>4, <1>6, <2>1 DEF VariantStockView
<1> QED
  BY <1>5, <1>6

LEMMA NextSound == LevelsSound /\ [Next]_vars => LevelsSound'
<1> SUFFICES ASSUME LevelsSound, [Next]_vars PROVE LevelsSound'
  OBVIOUS
<1>1. CASE UNCHANGED vars
  BY <1>1 DEF LevelsSound, TypeOK, vars
<1>2. CASE StockSourceListCreateView
  BY <1>2 DEF StockSourceListCreateView, CreateStockSource, LevelsSound, TypeOK
<1>3. CASE VariantStockPolicyView
  BY <1>3 DEF VariantStockPolicyView, SetPolicy, LevelsSound, TypeOK
<1>4. CASE SourceStockView \/ VariantStockView
  BY <1>4, StaffCountIsRecount, RecountSound
<1> QED
  BY <1>1, <1>2, <1>3, <1>4, ReserveSound, ReleaseSound DEF Next

\* No source ever has more units reserved than it holds, and every column keeps its type,
\* in every behaviour of the stock levels (ck_stock_level_reserved_le_on_hand).
THEOREM LevelsAlwaysSound == Spec => []LevelsSound
BY InitSound, NextSound, PTL DEF Spec

-----------------------------------------------------------------------------
(* A backorder promise leaves nothing on the shelves. *)

\* A reservation that promises units beyond the stock has drawn every source dry.
LEMMA OverflowDrains ==
    ASSUME LevelsSound, NEW k \in Skus, NEW q \in 1..MaxLine, Reserve(k, q),
           backordered'[k] > backordered[k]
    PROVE  /\ backorderable[k]
           /\ \A s \in SourceCodes : reserved'[k][s] = onHand[k][s]
<1> DEFINE physical == Smaller(q, AvailableToPromise(k))
<1>1. PICK take \in Draws(Available(k), physical) :
          reserved' = [reserved EXCEPT ![k] = Plus(@, take)]
  BY DEF Reserve
<1>2. /\ AvailableToPromise(k) \in Nat /\ Available(k) \in Levels
      /\ onHand[k] \in Levels /\ reserved[k] \in Levels
      /\ \A s \in SourceCodes : Available(k)[s] = onHand[k][s] - reserved[k][s]
  BY AvailableLevels
<1>3. q \in Nat /\ backordered[k] \in Nat
  BY InventoryAssumption DEF LevelsSound, TypeOK
<1>4. backordered'[k] = backordered[k] + q - physical
  BY DEF Reserve, LevelsSound, TypeOK
<1>5. physical \in Nat /\ physical = AvailableToPromise(k) /\ AvailableToPromise(k) < q
  BY <1>2, <1>3, <1>4 DEF Smaller
<1> HIDE DEF physical
<1>6. backorderable[k]
  BY <1>2, <1>3, <1>5 DEF Reserve
<1>7. take \in Levels /\ \A s \in SourceCodes : take[s] <= Available(k)[s]
  BY <1>2, <1>5, DrawLevels
<1>8. Total(take) = Total(Available(k))
  BY <1>2, <1>5, DrawLevels DEF AvailableToPromise
<1>9. take = Available(k)
  <2>1. IsFiniteSet(SourceCodes) /\ MaxQuantity \in Nat
    BY InventoryAssumption
  <2>2. take \in [SourceCodes -> 0..MaxQuantity] /\ Available(k) \in [SourceCodes -> 0..MaxQuantity]
    BY <1>2, <1>7 DEF Levels
  <2> QED
    BY <1>7, <1>8, <2>1, <2>2, TotalMonotone
<1>10. ASSUME NEW s \in SourceCodes PROVE reserved'[k][s] = onHand[k][s]
  <2>1. reserved[k][s] \in Int /\ onHand[k][s] \in Int
    BY <1>2, InventoryAssumption DEF Levels
  <2>2. reserved'[k][s] = reserved[k][s] + take[s]
    BY <1>1, <1>2 DEF Plus, Levels, LevelsSound, TypeOK
  <2> QED
    BY <1>2, <1>9, <2>1, <2>2
<1> QED
  BY <1>6, <1>10

\* A step adds a backorder promise only to a backorderable variant, and only when it leaves
\* no unreserved unit at any source: a reservation does so, and no other operation adds one.
THEOREM BackordersWaitForStock == Spec => BackorderOnlyWhenDrained
<1> DEFINE Drained(k) ==
      backordered'[k] > backordered[k]
          => backorderable[k] /\ \A s \in SourceCodes : reserved'[k][s] = onHand[k][s]
<1>1. LevelsSound /\ [Next]_vars => [\A k \in Skus : Drained(k)]_vars
  <2> SUFFICES ASSUME LevelsSound, Next, NEW k \in Skus, backordered'[k] > backordered[k]
               PROVE  backorderable[k] /\ \A s \in SourceCodes : reserved'[k][s] = onHand[k][s]
    BY DEF Drained
  <2>1. backordered \in [Skus -> 0..MaxQuantity] /\ backordered[k] \in Int
    BY InventoryAssumption DEF LevelsSound, TypeOK
  <2>2. ASSUME NEW x \in Skus, NEW q \in 1..MaxLine, Reserve(x, q) PROVE x = k
    BY <2>1, <2>2 DEF Reserve
  <2>3. ASSUME NEW x \in Skus, NEW q \in 1..MaxLine, Release(x, q) PROVE FALSE
    <3>1. q \in Nat /\ backordered[x] \in Nat
      BY InventoryAssumption DEF LevelsSound, TypeOK
    <3>2. backordered' = [backordered EXCEPT ![x] = @ - Smaller(q, backordered[x])]
      BY <2>3 DEF Release
    <3>3. Smaller(q, backordered[x]) \in Nat
      BY <3>1 DEF Smaller
    <3>4. backordered'[k] <= backordered[k]
      BY <2>1, <3>1, <3>2, <3>3
    <3>5. backordered'[k] \in Int
      BY <2>1, <3>1, <3>2, <3>3
    <3> QED
      BY <2>1, <3>4, <3>5
  <2>4. CASE SourceStockView \/ VariantStockView
    BY <2>1, <2>4, StaffCountIsRecount
  <2>5. CASE StockSourceListCreateView
    BY <2>1, <2>5 DEF StockSourceListCreateView, CreateStockSource
  <2>6. CASE VariantStockPolicyView
    BY <2>1, <2>6 DEF VariantStockPolicyView, SetPolicy
  <2> QED
    BY <2>2, <2>3, <2>4, <2>5, <2>6, OverflowDrains DEF Next
<1> QED
  BY <1>1, LevelsAlwaysSound, PTL DEF Spec, BackorderOnlyWhenDrained, Drained

-----------------------------------------------------------------------------
(* The fullest-first plan of a draw exists and is the only one. *)

\* Before is a strict total order of the sources.
LEMMA BeforeOrders ==
    ASSUME NEW f \in Levels, NEW s \in SourceCodes, NEW t \in SourceCodes, NEW u \in SourceCodes
    PROVE  /\ ~ Before(f, s, s)
           /\ s # t => Before(f, s, t) \/ Before(f, t, s)
           /\ Before(f, s, t) /\ Before(f, t, u) => Before(f, s, u)
<1>1. /\ f[s] \in Int /\ f[t] \in Int /\ f[u] \in Int
      /\ s \in Int /\ t \in Int /\ u \in Int
  BY InventoryAssumption DEF Levels
<1> QED
  BY <1>1 DEF Before

\* Two draws of the same units from the same levels are the same draw.
LEMMA DrawUnique ==
    ASSUME NEW f \in Levels, NEW q \in Nat, NEW take \in Draws(f, q), NEW other \in Draws(f, q)
    PROVE  take = other
<1>1. /\ take \in Levels /\ other \in Levels /\ Total(take) = Total(other)
      /\ \A s \in SourceCodes : take[s] <= f[s] /\ other[s] <= f[s]
  BY DrawLevels
<1>2. \A s \in SourceCodes : take[s] \in Nat /\ other[s] \in Nat /\ f[s] \in Nat
  BY <1>1, InventoryAssumption DEF Levels
<1>3. IsFiniteSet(SourceCodes) /\ MaxQuantity \in Nat
  BY InventoryAssumption
<1>4. take \in [SourceCodes -> 0..MaxQuantity] /\ other \in [SourceCodes -> 0..MaxQuantity]
  BY <1>1 DEF Levels
<1>5. CASE \A s \in SourceCodes : take[s] <= other[s]
  BY <1>1, <1>3, <1>4, <1>5, TotalMonotone
<1>6. CASE \A s \in SourceCodes : other[s] <= take[s]
  BY <1>1, <1>3, <1>4, <1>6, TotalMonotone
<1>7. ASSUME NEW s \in SourceCodes, NEW t \in SourceCodes, other[s] < take[s], take[t] < other[t]
      PROVE  FALSE
  <2>1. Before(f, s, t) \/ Before(f, t, s)
    BY <1>2, <1>7, BeforeOrders
  <2>2. other[t] > 0 /\ take[s] > 0
    BY <1>2, <1>7
  <2>3. (Before(f, s, t) => other[s] = f[s]) /\ (Before(f, t, s) => take[t] = f[t])
    BY <2>2 DEF Draws
  <2> QED
    BY <1>1, <1>2, <1>7, <2>1, <2>3
<1> QED
  BY <1>2, <1>5, <1>6, <1>7

\* Among some sources there is one that no other of them comes before.
LEMMA FirstSource ==
    ASSUME NEW f \in Levels, NEW U \in SUBSET SourceCodes, U # {}
    PROVE  \E m \in U : \A s \in U : ~ Before(f, s, m)
<1> DEFINE Ahead(s) == {t \in U : Before(f, t, s)}
           T == {Ahead(s) : s \in U}
           R == StrictSubsetOrdering(U)
<1>1. IsFiniteSet(U)
  BY InventoryAssumption, FS_Subset
<1>2. IsWellFoundedOn(R, SUBSET U)
  BY <1>1, FS_FiniteSubsetsOfFinite, FS_StrictSubsetOrderingWellFounded
<1>3. T \subseteq SUBSET U /\ T # {}
  OBVIOUS
<1>4. PICK A \in T : \A B \in T : ~ (<<B, A>> \in R)
  <2> HIDE DEF T, R
  <2> QED
    BY <1>2, <1>3, WFMin
<1>5. PICK m \in U : A = Ahead(m)
  OBVIOUS
<1>6. ASSUME NEW s \in U, Before(f, s, m) PROVE FALSE
  <2>1. s \in Ahead(m) /\ s \notin Ahead(s)
    BY <1>6, BeforeOrders
  <2>2. \A t \in U : Before(f, t, s) => Before(f, t, m)
    BY <1>6, BeforeOrders
  <2>3. Ahead(s) \subseteq Ahead(m) /\ Ahead(s) # Ahead(m)
    BY <2>1, <2>2
  <2>4. <<Ahead(s), Ahead(m)>> \in R
    BY <2>3 DEF StrictSubsetOrdering
  <2> QED
    BY <1>4, <1>5, <2>4
<1> QED
  BY <1>6

\* One unit of one source.
OneUnit(m) == [s \in SourceCodes |-> IF s = m THEN 1 ELSE 0]

LEMMA OneUnitTotal ==
    ASSUME NEW m \in SourceCodes
    PROVE  OneUnit(m) \in [SourceCodes -> 0..1] /\ Total(OneUnit(m)) = 1
<1> DEFINE none == [s \in SourceCodes |-> 0]
<1>1. OneUnit(m) \in [SourceCodes -> 0..1] /\ none \in [SourceCodes -> 0..1]
  BY DEF OneUnit
<1>2. Total(none) = 0
  BY TotalZero
<1>3. none[m] = 0 /\ (\A y \in SourceCodes : y # m => OneUnit(m)[y] = none[y]) /\ OneUnit(m)[m] = 1
  BY DEF OneUnit
<1> HIDE DEF none
<1>4. Total(OneUnit(m)) = Total(none) + OneUnit(m)[m]
  <2>1. IsFiniteSet(SourceCodes)
    BY InventoryAssumption
  <2> QED
    BY <1>1, <1>3, <2>1, TotalAdd
<1> QED
  BY <1>1, <1>2, <1>3, <1>4

\* The loop of the plan, one unit further: while units are left, the first source that is
\* not yet drained gives one more.
LEMMA DrawOneMore ==
    ASSUME NEW f \in Levels, NEW q \in Nat, q < Total(f), NEW take \in Draws(f, q)
    PROVE  Draws(f, q + 1) # {}
<1> DEFINE U == {s \in SourceCodes : take[s] < f[s]}
<1>1. /\ take \in Levels /\ Total(take) = q
      /\ \A s \in SourceCodes : take[s] <= f[s]
  BY DrawLevels
<1>2. \A s \in SourceCodes : take[s] \in 0..q /\ f[s] \in 0..MaxQuantity
  BY DEF Draws, Levels
<1>3. U # {}
  <2>1. ASSUME U = {} PROVE FALSE
    <3>1. take = f
      <4>1. \A s \in SourceCodes : take[s] = f[s]
        BY <1>1, <1>2, <2>1
      <4> QED
        BY <1>1, <4>1 DEF Levels
    <3> QED
      BY <1>1, <3>1
  <2> QED
    BY <2>1
<1>4. PICK m \in U : \A s \in U : ~ Before(f, s, m)
  BY <1>3, FirstSource
<1>5. m \in SourceCodes /\ take[m] < f[m]
  OBVIOUS
<1> DEFINE more == Plus(take, OneUnit(m))
<1>6. more = [s \in SourceCodes |-> IF s = m THEN take[s] + 1 ELSE take[s]]
  BY <1>1, <1>2 DEF Plus, OneUnit, Levels
<1>7. Total(more) = q + 1
  <2>1. take \in [SourceCodes -> 0..(q + 1)] /\ OneUnit(m) \in [SourceCodes -> 0..(q + 1)]
    BY <1>1, <1>2 DEF Levels, OneUnit
  <2>2. IsFiniteSet(SourceCodes) /\ q + 1 \in Nat
    BY InventoryAssumption
  <2>3. Total(Plus(take, OneUnit(m))) = Total(take) + Total(OneUnit(m))
    BY <2>1, <2>2, TotalPlus
  <2> QED
    BY <1>1, <1>5, <2>3, OneUnitTotal
<1> HIDE DEF more
<1>8. more \in [SourceCodes -> 0..(q + 1)] /\ \A s \in SourceCodes : more[s] <= f[s]
  BY <1>1, <1>2, <1>5, <1>6, InventoryAssumption
<1>9. ASSUME NEW s \in SourceCodes, NEW t \in SourceCodes, Before(f, s, t), more[t] > 0
      PROVE  more[s] = f[s]
  <2>1. take[s] = f[s]
    <3>1. CASE t = m
      BY <1>1, <1>2, <1>4, <1>9, <3>1, InventoryAssumption
    <3>2. CASE t # m
      BY <1>6, <1>9, <3>2 DEF Draws
    <3> QED
      BY <3>1, <3>2
  <2>2. s # m
    BY <1>2, <1>5, <2>1, InventoryAssumption
  <2> QED
    BY <1>6, <2>1, <2>2
<1>10. more \in Draws(f, q + 1)
  BY <1>7, <1>8, <1>9 DEF Draws
<1> QED
  BY <1>10

\* Every count up to what the levels hold can be drawn.
LEMMA DrawExists ==
    ASSUME NEW f \in Levels, NEW q \in Nat, q <= Total(f)
    PROVE  Draws(f, q) # {}
<1>0. Total(f) \in Nat
  <2>1. IsFiniteSet(SourceCodes) /\ MaxQuantity \in Nat
    BY InventoryAssumption
  <2> QED
    BY <2>1, TotalType DEF Levels
<1> DEFINE T == {n \in Nat : n <= Total(f) /\ Draws(f, n) = {}}
<1>1. 0 \notin T
  <2> DEFINE none == [s \in SourceCodes |-> 0]
  <2>1. Total(none) = 0
    BY TotalZero
  <2>2. none \in Draws(f, 0)
    BY <2>1, InventoryAssumption DEF Draws, Levels
  <2> QED
    BY <2>2
<1>2. ASSUME T # {} PROVE FALSE
  <2>1. PICK n \in T : \A x \in T : n <= x
    BY <1>2, LeastNatural
  <2>2. n \in Nat /\ n # 0 /\ n <= Total(f) /\ Draws(f, n) = {}
    BY <1>1
  <2>3. n - 1 \in Nat /\ n - 1 < Total(f) /\ n - 1 \notin T
    BY <1>0, <2>1, <2>2
  <2>4. PICK take \in Draws(f, n - 1) : TRUE
    BY <1>0, <2>3
  <2>5. Draws(f, (n - 1) + 1) # {}
    BY <2>3, <2>4, DrawOneMore
  <2>6. (n - 1) + 1 = n
    BY <2>2
  <2> QED
    BY <2>2, <2>5, <2>6
<1> QED
  BY <1>2

\* Exactly one plan.
LEMMA DrawIsUnique ==
    ASSUME NEW f \in Levels, NEW q \in Nat, q <= Total(f)
    PROVE  Cardinality(Draws(f, q)) = 1
<1>1. PICK take \in Draws(f, q) : TRUE
  BY DrawExists
<1>2. Draws(f, q) = {take}
  BY DrawUnique
<1> QED
  BY <1>2, FS_Singleton

\* In every state that the operations reach, a request that the guards admit has exactly one
\* plan: the fullest-first loop places every unit, and ties never leave a choice.
THEOREM PlanAlwaysUnique == Spec => []PlanUnique
<1>1. ASSUME LevelsSound PROVE PlanUnique
  <2> SUFFICES ASSUME NEW k \in Skus
               PROVE  /\ \A q \in 0..AvailableToPromise(k) : Cardinality(Draws(Available(k), q)) = 1
                      /\ \A q \in 0..Total(reserved[k]) : Cardinality(Draws(reserved[k], q)) = 1
    BY DEF PlanUnique
  <2>1. /\ Available(k) \in Levels /\ reserved[k] \in Levels
        /\ AvailableToPromise(k) \in Nat /\ Total(reserved[k]) \in Nat
    BY <1>1, AvailableLevels
  <2> QED
    BY <2>1, DrawIsUnique DEF AvailableToPromise
<1> QED
  BY <1>1, LevelsAlwaysSound, PTL

-----------------------------------------------------------------------------
(* To callers the levels are one pool per variant. *)

\* The greatest count of a pool: every source full.
Wide == MaxQuantity * Cardinality(SourceCodes)

\* A variant's counts fit its pool.
LEMMA PoolCounts ==
    ASSUME LevelsSound, NEW k \in Skus
    PROVE  /\ Wide \in Nat /\ MaxQuantity <= Wide
           /\ Total(onHand[k]) \in 0..Wide /\ Total(reserved[k]) \in 0..Wide
           /\ Total(reserved[k]) <= Total(onHand[k])
           /\ backordered[k] \in 0..MaxQuantity
           /\ AvailableToPromise(k) = Total(onHand[k]) - Total(reserved[k])
<1>1. IsFiniteSet(SourceCodes) /\ MaxQuantity \in Nat /\ SourceCodes # {}
  BY InventoryAssumption
<1>2. Cardinality(SourceCodes) \in Nat /\ Cardinality(SourceCodes) # 0
  BY <1>1, FS_CardinalityType, FS_EmptySet
<1>3. Wide \in Nat /\ MaxQuantity <= Wide
  BY <1>1, <1>2 DEF Wide
<1>4. /\ onHand[k] \in [SourceCodes -> 0..MaxQuantity]
      /\ reserved[k] \in [SourceCodes -> 0..MaxQuantity]
      /\ \A s \in SourceCodes : reserved[k][s] <= onHand[k][s]
      /\ backordered[k] \in 0..MaxQuantity
  BY DEF LevelsSound, TypeOK
<1>5. Total(onHand[k]) \in 0..Wide /\ Total(reserved[k]) \in 0..Wide
  BY <1>1, <1>4, TotalBound DEF Wide
<1>6. Total(reserved[k]) <= Total(onHand[k])
  BY <1>1, <1>4, TotalMonotone
<1> QED
  BY <1>3, <1>4, <1>5, <1>6, AvailableLevels

\* The pool of one variant.
PoolOf(k) == [onHand |-> Total(onHand[k]), reserved |-> Total(reserved[k]),
              backordered |-> backordered[k], backorderable |-> backorderable[k]]

\* A step that changes one variant's counts changes its pool alone.
LEMMA OnePoolChanges ==
    ASSUME NEW k \in Skus, NEW p, PoolOf(k)' = p,
           \A x \in Skus : x # k => /\ onHand'[x] = onHand[x] /\ reserved'[x] = reserved[x]
                                    /\ backordered'[x] = backordered[x]
                                    /\ backorderable'[x] = backorderable[x]
    PROVE  Pool' = [Pool EXCEPT ![k] = p]
<1>1. Pool' = [x \in Skus |-> PoolOf(x)'] /\ Pool = [x \in Skus |-> PoolOf(x)]
  BY DEF Pool, PoolOf
<1>2. \A x \in Skus : x # k => PoolOf(x)' = PoolOf(x)
  BY DEF PoolOf
<1> QED
  BY <1>1, <1>2

\* A reservation takes its physical units from the sources together.
LEMMA ReserveMaps ==
    ASSUME LevelsSound, NEW k \in Skus, NEW q \in 1..MaxLine, Reserve(k, q)
    PROVE  Promise!Reserve(k, q)
<1> DEFINE physical == Smaller(q, AvailableToPromise(k))
<1>1. PICK take \in Draws(Available(k), physical) :
          reserved' = [reserved EXCEPT ![k] = Plus(@, take)]
  BY DEF Reserve
<1>2. /\ AvailableToPromise(k) \in Nat /\ Available(k) \in Levels /\ reserved[k] \in Levels
      /\ q \in Nat /\ q > 0
  BY AvailableLevels, InventoryAssumption
<1>3. physical \in Nat /\ physical <= q
  BY <1>2 DEF Smaller
<1>4. Total(reserved'[k]) = Total(reserved[k]) + physical
  <2> HIDE DEF physical
  <2>1. reserved'[k] = Plus(reserved[k], take)
    BY <1>1 DEF LevelsSound, TypeOK
  <2>2. take \in [SourceCodes -> 0..MaxQuantity] /\ Total(take) = physical
    BY <1>2, <1>3, DrawLevels DEF Levels
  <2>3. IsFiniteSet(SourceCodes) /\ MaxQuantity \in Nat
    BY InventoryAssumption
  <2>4. Total(Plus(reserved[k], take)) = Total(reserved[k]) + Total(take)
    BY <1>2, <2>2, <2>3, TotalPlus DEF Levels
  <2> QED
    BY <2>1, <2>2, <2>4
<1>5. /\ backordered'[k] = backordered[k] + q - physical
      /\ backordered[k] + q - physical <= MaxQuantity
      /\ backorderable[k] \/ q <= AvailableToPromise(k)
      /\ onHand'[k] = onHand[k] /\ backorderable'[k] = backorderable[k]
  BY DEF Reserve, LevelsSound, TypeOK
<1>6. Pool[k] = PoolOf(k)
  BY DEF Pool, PoolOf
<1>7. Promise!AvailableToPromise(PoolOf(k)) = AvailableToPromise(k)
  BY PoolCounts DEF Promise!AvailableToPromise, PoolOf
<1>8. Promise!Physical(PoolOf(k), q) = physical
  BY <1>7 DEF Promise!Physical, Promise!Smaller, Smaller
<1> HIDE DEF physical
<1>9. Promise!CanReserve(Pool[k], q)
  <2>1. backordered[k] + q - physical <= Wide
    BY <1>2, <1>3, <1>5, PoolCounts, InventoryAssumption
  <2> QED
    BY <1>2, <1>5, <1>6, <1>7, <1>8, <2>1 DEF Promise!CanReserve, PoolOf, Wide
<1>10. PoolOf(k)' = Promise!Reserved(PoolOf(k), q)
  <2>1. Promise!Reserved(PoolOf(k), q) =
            [onHand |-> Total(onHand[k]), reserved |-> Total(reserved[k]) + physical,
             backordered |-> backordered[k] + q - physical, backorderable |-> backorderable[k]]
    <3> DEFINE p == PoolOf(k)
    <3>1. p = [onHand |-> Total(onHand[k]), reserved |-> Total(reserved[k]),
               backordered |-> backordered[k], backorderable |-> backorderable[k]]
      BY DEF PoolOf
    <3>2. Promise!Physical(p, q) = physical
      BY <1>8
    <3> HIDE DEF p
    <3>3. Promise!Reserved(p, q) = [p EXCEPT !.reserved = p.reserved + physical,
                                             !.backordered = p.backordered + q - physical]
      BY <3>2 DEF Promise!Reserved
    <3>4. Promise!Reserved(p, q) =
            [onHand |-> Total(onHand[k]), reserved |-> Total(reserved[k]) + physical,
             backordered |-> backordered[k] + q - physical, backorderable |-> backorderable[k]]
      BY <3>1, <3>3
    <3> QED
      BY <3>4 DEF p
  <2> QED
    BY <1>4, <1>5, <2>1 DEF PoolOf
<1>11. Pool' = [Pool EXCEPT ![k] = Promise!Reserved(PoolOf(k), q)]
  <2>1. \A x \in Skus : x # k => /\ onHand'[x] = onHand[x] /\ reserved'[x] = reserved[x]
                                 /\ backordered'[x] = backordered[x]
                                 /\ backorderable'[x] = backorderable[x]
    BY DEF Reserve, LevelsSound, TypeOK
  <2> QED
    BY <1>10, <2>1, OnePoolChanges
<1> QED
  BY <1>6, <1>9, <1>11 DEF Promise!Reserve

\* A release gives its physical units back to the sources together.
LEMMA ReleaseMaps ==
    ASSUME LevelsSound, NEW k \in Skus, NEW q \in 1..MaxLine, Release(k, q)
    PROVE  Promise!Release(k, q)
<1> DEFINE back == Smaller(q, backordered[k])
<1>1. PICK take \in Draws(reserved[k], q - back) :
          reserved' = [reserved EXCEPT ![k] = Minus(@, take)]
  BY DEF Release
<1>2. reserved[k] \in Levels /\ q \in Nat /\ q > 0 /\ backordered[k] \in Nat
  BY AvailableLevels, InventoryAssumption DEF LevelsSound, TypeOK
<1>3. back \in Nat /\ q - back \in Nat
  BY <1>2 DEF Smaller
<1>4. Total(reserved'[k]) = Total(reserved[k]) - (q - back)
  <2> HIDE DEF back
  <2>1. reserved'[k] = Minus(reserved[k], take)
    BY <1>1 DEF LevelsSound, TypeOK
  <2>2. /\ take \in [SourceCodes -> 0..MaxQuantity] /\ Total(take) = q - back
        /\ \A s \in SourceCodes : take[s] <= reserved[k][s]
    BY <1>2, <1>3, DrawLevels DEF Levels
  <2>3. IsFiniteSet(SourceCodes) /\ MaxQuantity \in Nat
    BY InventoryAssumption
  <2>4. Total(Minus(reserved[k], take)) = Total(reserved[k]) - Total(take)
    BY <1>2, <2>2, <2>3, TotalMinus DEF Levels
  <2> QED
    BY <2>1, <2>2, <2>4
<1>5. /\ backordered'[k] = backordered[k] - back
      /\ q - back <= Total(reserved[k])
      /\ onHand'[k] = onHand[k] /\ backorderable'[k] = backorderable[k]
  BY DEF Release, LevelsSound, TypeOK
<1>6. Pool[k] = PoolOf(k)
  BY DEF Pool, PoolOf
<1>7. Promise!FromBackorder(PoolOf(k), q) = back
  BY DEF Promise!FromBackorder, Promise!Smaller, Smaller, PoolOf
<1> HIDE DEF back
<1>8. Promise!CanRelease(Pool[k], q)
  BY <1>2, <1>5, <1>6, <1>7 DEF Promise!CanRelease, PoolOf
<1>9. PoolOf(k)' = Promise!Released(PoolOf(k), q)
  <2>1. Promise!Released(PoolOf(k), q) =
            [onHand |-> Total(onHand[k]), reserved |-> Total(reserved[k]) - (q - back),
             backordered |-> backordered[k] - back, backorderable |-> backorderable[k]]
    <3> DEFINE p == PoolOf(k)
    <3>1. p = [onHand |-> Total(onHand[k]), reserved |-> Total(reserved[k]),
               backordered |-> backordered[k], backorderable |-> backorderable[k]]
      BY DEF PoolOf
    <3>2. Promise!FromBackorder(p, q) = back
      BY <1>7
    <3> HIDE DEF p
    <3>3. Promise!Released(p, q) = [p EXCEPT !.reserved = p.reserved - (q - back),
                                             !.backordered = p.backordered - back]
      BY <3>2 DEF Promise!Released
    <3>4. Promise!Released(p, q) =
            [onHand |-> Total(onHand[k]), reserved |-> Total(reserved[k]) - (q - back),
             backordered |-> backordered[k] - back, backorderable |-> backorderable[k]]
      BY <3>1, <3>3
    <3> QED
      BY <3>4 DEF p
  <2> QED
    BY <1>4, <1>5, <2>1 DEF PoolOf
<1>10. Pool' = [Pool EXCEPT ![k] = Promise!Released(PoolOf(k), q)]
  <2>1. \A x \in Skus : x # k => /\ onHand'[x] = onHand[x] /\ reserved'[x] = reserved[x]
                                 /\ backordered'[x] = backordered[x]
                                 /\ backorderable'[x] = backorderable[x]
    BY DEF Release, LevelsSound, TypeOK
  <2> QED
    BY <1>9, <2>1, OnePoolChanges
<1> QED
  BY <1>6, <1>8, <1>10 DEF Promise!Release

\* Every staff operation on a source's count is a recount of the pool.
LEMMA RecountMaps ==
    ASSUME LevelsSound, NEW k \in Skus, NEW s \in SourceCodes, NEW n \in 0..MaxQuantity,
           n >= reserved[k][s], onHand' = [onHand EXCEPT ![k][s] = n],
           sources' \subseteq SourceCodes, UNCHANGED <<reserved, backorderable, backordered>>
    PROVE  Promise!PoolNext
<1> DEFINE m == Total(onHand'[k])
<1>1. LevelsSound'
  BY RecountSound
<1>2. /\ onHand'[k] \in [SourceCodes -> 0..MaxQuantity]
      /\ reserved[k] \in [SourceCodes -> 0..MaxQuantity]
      /\ \A t \in SourceCodes : reserved[k][t] <= onHand'[k][t]
      /\ IsFiniteSet(SourceCodes) /\ MaxQuantity \in Nat
  BY <1>1, InventoryAssumption DEF LevelsSound, TypeOK
<1>3. m \in 0..Wide
  BY <1>2, TotalBound DEF Wide
<1>4. Total(reserved[k]) <= m
  BY <1>2, TotalMonotone
<1>5. Pool[k] = PoolOf(k)
  BY DEF Pool, PoolOf
<1>6. PoolOf(k)' = [PoolOf(k) EXCEPT !.onHand = m]
  BY DEF PoolOf
<1> HIDE DEF m
<1>7. Pool' = [Pool EXCEPT ![k] = [PoolOf(k) EXCEPT !.onHand = m]]
  <2>1. \A x \in Skus : x # k => /\ onHand'[x] = onHand[x] /\ reserved'[x] = reserved[x]
                                 /\ backordered'[x] = backordered[x]
                                 /\ backorderable'[x] = backorderable[x]
    BY DEF LevelsSound, TypeOK
  <2> QED
    BY <1>6, <2>1, OnePoolChanges
<1>8. Promise!Recount(k, m)
  <2>1. m >= Pool[k].reserved
    BY <1>3, <1>4, <1>5, PoolCounts DEF PoolOf
  <2>2. Pool' = [Pool EXCEPT ![k].onHand = m]
    BY <1>5, <1>7
  <2> QED
    BY <2>1, <2>2 DEF Promise!Recount
<1> QED
  BY <1>3, <1>8 DEF Promise!PoolNext, Wide

\* A policy of a variant is a policy of its pool.
LEMMA SetPolicyMaps ==
    ASSUME LevelsSound, NEW k \in Skus, NEW b \in BOOLEAN, SetPolicy(k, b)
    PROVE  Promise!SetPolicy(k, b)
<1>1. Pool[k] = PoolOf(k)
  BY DEF Pool, PoolOf
<1>2. PoolOf(k)' = [PoolOf(k) EXCEPT !.backorderable = b]
  BY DEF PoolOf, SetPolicy, LevelsSound, TypeOK
<1>3. Pool' = [Pool EXCEPT ![k] = [PoolOf(k) EXCEPT !.backorderable = b]]
  <2>1. \A x \in Skus : x # k => /\ onHand'[x] = onHand[x] /\ reserved'[x] = reserved[x]
                                 /\ backordered'[x] = backordered[x]
                                 /\ backorderable'[x] = backorderable[x]
    BY DEF SetPolicy, LevelsSound, TypeOK
  <2> QED
    BY <1>2, <2>1, OnePoolChanges
<1> QED
  BY <1>1, <1>3 DEF Promise!SetPolicy

\* Before any row exists every pool is empty.
LEMMA InitMaps == Init => Promise!PoolInit
<1> SUFFICES ASSUME Init, NEW k \in Skus PROVE PoolOf(k) = Promise!EmptyPool
  BY DEF Promise!PoolInit, Pool, PoolOf
<1>1. Total(onHand[k]) = 0 /\ Total(reserved[k]) = 0
  BY TotalZero DEF Init
<1> QED
  BY <1>1 DEF Init, PoolOf, Promise!EmptyPool

\* A step of the levels is a step of the pools, or leaves them all as they are.
LEMMA NextMaps == LevelsSound /\ [Next]_vars => [Promise!PoolNext]_Pool
<1> SUFFICES ASSUME LevelsSound, [Next]_vars PROVE Promise!PoolNext \/ Pool' = Pool
  OBVIOUS
<1>1. CASE UNCHANGED vars
  BY <1>1 DEF vars, Pool
<1>2. CASE StockSourceListCreateView
  BY <1>2 DEF StockSourceListCreateView, CreateStockSource, Pool
<1>3. CASE VariantStockPolicyView
  BY <1>3, SetPolicyMaps DEF VariantStockPolicyView, Promise!PoolNext
<1>4. CASE SourceStockView \/ VariantStockView
  BY <1>4, StaffCountIsRecount, RecountMaps
<1>5. ASSUME NEW k \in Skus, NEW q \in 1..MaxLine, Reserve(k, q) \/ Release(k, q)
      PROVE  Promise!PoolNext
  BY <1>5, ReserveMaps, ReleaseMaps DEF Promise!PoolNext
<1> QED
  BY <1>1, <1>2, <1>3, <1>4, <1>5 DEF Next

\* The levels spread over the sources implement one pool per variant: every operation on
\* them is an operation of the pool, and creating a source changes nothing callers see.
THEOREM LevelsImplementPool == Spec => ImplementsPool
<1>1. Init => Promise!PoolInit
  BY InitMaps
<1>2. LevelsSound /\ [Next]_vars => [Promise!PoolNext]_Pool
  BY NextMaps
<1> QED
  BY <1>1, <1>2, LevelsAlwaysSound, PTL DEF Spec, ImplementsPool, Promise!PoolSpec
=============================================================================
