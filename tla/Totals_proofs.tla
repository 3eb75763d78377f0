---------------------------- MODULE Totals_proofs ----------------------------
(***************************************************************************)
(* Facts about sums over a finite set of rows.  A sum is the number of     *)
(* units of its rows, so each fact is one about the cardinality of a union *)
(* of disjoint sets.                                                       *)
(***************************************************************************)
EXTENDS Totals, FiniteSetTheorems, FunctionTheorems, TLAPS

\* The units of one row.
RowUnits(f, x) == {x} \X (1..f[x])

\* A row has as many units as its number says.
LEMMA RowCount ==
    ASSUME NEW f, NEW x, f[x] \in Nat
    PROVE  IsFiniteSet(RowUnits(f, x)) /\ Cardinality(RowUnits(f, x)) = f[x]
<1>1. IsFiniteSet(1..f[x]) /\ Cardinality(1..f[x]) = f[x]
  BY FS_Interval
<1>2. IsFiniteSet({x}) /\ Cardinality({x}) = 1
  BY FS_Singleton
<1>3. /\ IsFiniteSet({x} \X (1..f[x]))
      /\ Cardinality({x} \X (1..f[x])) = Cardinality({x}) * Cardinality(1..f[x])
  BY <1>1, <1>2, FS_Product, Zenon
<1>4. Cardinality({x} \X (1..f[x])) = f[x]
  BY <1>1, <1>2, <1>3
<1> QED
  BY <1>3, <1>4 DEF RowUnits

\* The units of finitely many rows, of bounded numbers, are finitely many.
LEMMA TotalType ==
    ASSUME NEW S, IsFiniteSet(S), NEW b \in Nat, NEW f \in [S -> 0..b]
    PROVE  IsFiniteSet(Units(f)) /\ Total(f) \in Nat
<1>1. IsFiniteSet(S \X (1..b))
  <2>1. IsFiniteSet(1..b)
    BY FS_Interval
  <2> QED
    BY <2>1, FS_Product, Zenon
<1>2. Units(f) \subseteq S \X (1..b)
  BY DEF Units
<1>3. IsFiniteSet(Units(f))
  BY <1>1, <1>2, FS_Subset
<1> QED
  BY <1>3, FS_CardinalityType DEF Total

\* Rows without units have no sum.
LEMMA TotalZero ==
    ASSUME NEW S, NEW f, DOMAIN f = S, \A x \in S : f[x] = 0
    PROVE  Total(f) = 0
<1>1. Units(f) = {}
  BY DEF Units
<1> QED
  BY <1>1, FS_EmptySet DEF Total

\* A row that was empty adds its units to the sum.
LEMMA TotalAdd ==
    ASSUME NEW S, IsFiniteSet(S), NEW b \in Nat,
           NEW f \in [S -> 0..b], NEW g \in [S -> 0..b], NEW x \in S,
           f[x] = 0, \A y \in S : y # x => g[y] = f[y]
    PROVE  Total(g) = Total(f) + g[x]
<1>1. IsFiniteSet(Units(f)) /\ Cardinality(Units(f)) \in Nat
  BY TotalType DEF Total
<1>2. IsFiniteSet(RowUnits(g, x)) /\ Cardinality(RowUnits(g, x)) = g[x]
  BY RowCount
<1>3. Units(g) = Units(f) \cup RowUnits(g, x)
  BY DEF Units, RowUnits
<1>4. Units(f) \cap RowUnits(g, x) = {}
  BY DEF Units, RowUnits
<1>5. Cardinality(Units(f) \cap RowUnits(g, x)) = 0
  BY <1>4, FS_EmptySet
<1>6. Cardinality(Units(f) \cup RowUnits(g, x)) =
          Cardinality(Units(f)) + Cardinality(RowUnits(g, x))
              - Cardinality(Units(f) \cap RowUnits(g, x))
  BY <1>1, <1>2, FS_Union, Zenon
<1>7. Cardinality(Units(g)) = Cardinality(Units(f)) + g[x]
  BY <1>1, <1>2, <1>3, <1>5, <1>6
<1> QED
  BY <1>7 DEF Total

\* No row has more units than all rows together.
LEMMA RowWithinTotal ==
    ASSUME NEW S, IsFiniteSet(S), NEW b \in Nat, NEW f \in [S -> 0..b], NEW x \in S
    PROVE  f[x] <= Total(f)
<1>1. RowUnits(f, x) \subseteq Units(f)
  BY DEF RowUnits, Units
<1>2. IsFiniteSet(Units(f))
  BY TotalType
<1>3. Cardinality(RowUnits(f, x)) = f[x]
  BY RowCount
<1> QED
  BY <1>1, <1>2, <1>3, FS_Subset DEF Total

\* More units in every row, more units together.
LEMMA TotalMonotone ==
    ASSUME NEW S, IsFiniteSet(S), NEW b \in Nat, NEW f \in [S -> 0..b], NEW g \in [S -> 0..b],
           \A x \in S : f[x] <= g[x]
    PROVE  Total(f) <= Total(g) /\ (Total(f) = Total(g) => f = g)
<1>1. IsFiniteSet(Units(g)) /\ Units(f) \in SUBSET Units(g)
  BY TotalType DEF Units
<1>2. Total(f) <= Total(g)
  BY <1>1, FS_Subset DEF Total
<1>3. ASSUME Total(f) = Total(g) PROVE f = g
  <2>1. Units(f) = Units(g)
    BY <1>1, <1>3, FS_Subset DEF Total
  <2>2. ASSUME NEW x \in S PROVE f[x] = g[x]
    <3>1. CASE g[x] = 0
      BY <3>1
    <3>2. CASE g[x] > 0
      <4>1. <<x, g[x]>> \in Units(f)
        BY <2>1, <3>2 DEF Units
      <4> QED
        BY <4>1 DEF Units
    <3> QED
      BY <3>1, <3>2
  <2> QED
    BY <2>2
<1> QED
  BY <1>2, <1>3

\* Rows of at most b units have at most b times as many units together.
LEMMA TotalBound ==
    ASSUME NEW S, IsFiniteSet(S), NEW b \in Nat, NEW f \in [S -> 0..b]
    PROVE  Total(f) \in 0..(b * Cardinality(S))
<1>1. IsFiniteSet(1..b) /\ Cardinality(1..b) = b
  BY FS_Interval
<1>2. /\ IsFiniteSet(S \X (1..b))
      /\ Cardinality(S \X (1..b)) = Cardinality(S) * Cardinality(1..b)
  BY <1>1, FS_Product, Zenon
<1>3. Units(f) \in SUBSET (S \X (1..b))
  BY DEF Units
<1>4. Total(f) <= Cardinality(S) * b
  BY <1>1, <1>2, <1>3, FS_Subset DEF Total
<1>5. Total(f) \in Nat /\ Cardinality(S) \in Nat
  BY TotalType, FS_CardinalityType
<1> QED
  BY <1>4, <1>5

\* Rows added one by one have the sum of the two sums.
LEMMA TotalPlus ==
    ASSUME NEW S, IsFiniteSet(S), NEW b \in Nat, NEW f \in [S -> 0..b], NEW g \in [S -> 0..b]
    PROVE  Total(Plus(f, g)) = Total(f) + Total(g)
<1> DEFINE Above == UNION {{x} \X ((f[x] + 1)..(f[x] + g[x])) : x \in S}
           Lift == [u \in Units(g) |-> <<u[1], f[u[1]] + u[2]>>]
<1>1. IsFiniteSet(Units(f)) /\ IsFiniteSet(Units(g)) /\ Total(f) \in Nat /\ Total(g) \in Nat
  BY TotalType
<1>2. ASSUME NEW u \in Units(g)
      PROVE  u[1] \in S /\ u[2] \in 1..g[u[1]] /\ u = <<u[1], u[2]>>
  BY DEF Units
<1>3. Lift \in [Units(g) -> Above]
  <2>1. ASSUME NEW u \in Units(g) PROVE <<u[1], f[u[1]] + u[2]>> \in Above
    BY <1>2
  <2> QED
    BY <2>1
<1>4. ASSUME NEW u \in Units(g), NEW v \in Units(g), Lift[u] = Lift[v] PROVE u = v
  <2>1. u[1] = v[1] /\ f[u[1]] + u[2] = f[v[1]] + v[2]
    BY <1>4
  <2>2. u[2] = v[2]
    BY <1>2, <2>1
  <2> QED
    BY <1>2, <2>1, <2>2
<1>5. ASSUME NEW t \in Above PROVE \E u \in Units(g) : Lift[u] = t
  <2>1. PICK x \in S : t \in {x} \X ((f[x] + 1)..(f[x] + g[x]))
    OBVIOUS
  <2>2. PICK j \in (f[x] + 1)..(f[x] + g[x]) : t = <<x, j>>
    BY <2>1
  <2>3. <<x, j - f[x]>> \in Units(g)
    BY DEF Units
  <2>4. Lift[<<x, j - f[x]>>] = t
    BY <2>2, <2>3
  <2> QED
    BY <2>3, <2>4
<1>6. ExistsBijection(Units(g), Above)
  <2> HIDE DEF Lift, Above
  <2>1. Lift \in Bijection(Units(g), Above)
    BY <1>3, <1>4, <1>5, Fun_IsBij
  <2> QED
    BY <2>1 DEF ExistsBijection
<1>7. IsFiniteSet(Above) /\ Cardinality(Above) = Total(g)
  <2> HIDE DEF Above
  <2> QED
    BY <1>1, <1>6, FS_Bijection DEF Total
<1>8. Units(Plus(f, g)) = Units(f) \cup Above
  BY DEF Units, Plus
<1>9. Units(f) \cap Above = {}
  BY DEF Units
<1> QED
  <2> HIDE DEF Above
  <2>1. Cardinality(Units(f) \cap Above) = 0
    BY <1>9, FS_EmptySet
  <2>2. Cardinality(Units(f) \cup Above) = Cardinality(Units(f)) + Cardinality(Above)
                                               - Cardinality(Units(f) \cap Above)
    BY <1>1, <1>7, FS_Union, Zenon
  <2> QED
    BY <1>1, <1>7, <1>8, <2>1, <2>2 DEF Total

\* Rows taken off one by one leave the difference of the two sums.
LEMMA TotalMinus ==
    ASSUME NEW S, IsFiniteSet(S), NEW b \in Nat, NEW f \in [S -> 0..b], NEW g \in [S -> 0..b],
           \A x \in S : g[x] <= f[x]
    PROVE  /\ Minus(f, g) \in [S -> 0..b]
           /\ Total(Minus(f, g)) = Total(f) - Total(g)
<1>1. Minus(f, g) \in [S -> 0..b]
  BY DEF Minus
<1>2. Plus(Minus(f, g), g) = f
  BY DEF Plus, Minus
<1>3. Total(f) = Total(Minus(f, g)) + Total(g)
  BY <1>1, <1>2, TotalPlus
<1>4. Total(f) \in Nat /\ Total(g) \in Nat /\ Total(Minus(f, g)) \in Nat
  BY <1>1, TotalType
<1> QED
  BY <1>1, <1>3, <1>4

\* A set of natural numbers has a least one: what a proof by induction on a count rests on.
LEMMA LeastNatural ==
    ASSUME NEW T \in SUBSET Nat, T # {}
    PROVE  \E n \in T : \A m \in T : n <= m
<1> DEFINE R == OpToRel(<, Nat)
<1>1. PICK n \in T : \A m \in T : ~ (<<m, n>> \in R)
  <2> HIDE DEF R
  <2>1. IsWellFoundedOn(R, Nat)
    BY NatLessThanWellFounded DEF R
  <2> QED
    BY <2>1, WFMin
<1>2. ASSUME NEW m \in T PROVE n <= m
  <2>1. ~ (m < n)
    BY <1>1 DEF OpToRel
  <2> QED
    BY <2>1
<1> QED
  BY <1>2
-----------------------------------------------------------------------------
(* Accounts: what is credited and debited is a sum over the recorded movements. *)

\* A row that was not there adds its units to the sum.
LEMMA TotalExtend ==
    ASSUME NEW S, IsFiniteSet(S), NEW b \in Nat, NEW f \in [S -> 0..b], NEW x, x \notin S,
           NEW g \in [S \cup {x} -> 0..b], \A y \in S : g[y] = f[y]
    PROVE  Total(g) = Total(f) + g[x]
<1> DEFINE h == [y \in S \cup {x} |-> IF y = x THEN 0 ELSE f[y]]
<1>1. IsFiniteSet(S \cup {x})
  BY FS_AddElement
<1>2. h \in [S \cup {x} -> 0..b] /\ h[x] = 0 /\ \A y \in S \cup {x} : y # x => g[y] = h[y]
  OBVIOUS
<1>3. Total(g) = Total(h) + g[x]
  <2> HIDE DEF h
  <2> QED
    BY <1>1, <1>2, TotalAdd
<1>4. Units(h) = Units(f)
  <2>1. \A y \in S : {y} \X (1..h[y]) = {y} \X (1..f[y])
    OBVIOUS
  <2>2. {x} \X (1..h[x]) = {}
    BY <1>2
  <2>3. DOMAIN h = S \cup {x} /\ DOMAIN f = S
    OBVIOUS
  <2> HIDE DEF h
  <2> QED
    BY <2>1, <2>2, <2>3 DEF Units
<1> QED
  BY <1>3, <1>4 DEF Total

OfKind(moves, kind) == [m \in {x \in moves : x.kind = kind} |-> m.amount]

\* The amounts of one kind are the units of a finite, bounded set of rows.
LEMMA KindTotal ==
    ASSUME NEW moves, IsFiniteSet(moves), NEW b \in Nat, \A m \in moves : m.amount \in 0..b,
           NEW kind
    PROVE  /\ IsFiniteSet({x \in moves : x.kind = kind})
           /\ OfKind(moves, kind) \in [{x \in moves : x.kind = kind} -> 0..b]
           /\ Total(OfKind(moves, kind)) \in Nat
<1>1. IsFiniteSet({x \in moves : x.kind = kind})
  BY FS_Subset
<1>2. OfKind(moves, kind) \in [{x \in moves : x.kind = kind} -> 0..b]
  BY DEF OfKind
<1> QED
  BY <1>1, <1>2, TotalType

\* One more movement adds its amount to the sum of its kind and to no other.
LEMMA KindTotalAdd ==
    ASSUME NEW moves, IsFiniteSet(moves), NEW b \in Nat, \A m \in moves : m.amount \in 0..b,
           NEW new, new \notin moves, new.amount \in 0..b, NEW kind
    PROVE  Total(OfKind(moves \cup {new}, kind))
               = Total(OfKind(moves, kind)) + IF new.kind = kind THEN new.amount ELSE 0
<1> DEFINE S == {x \in moves : x.kind = kind}
<1>1. /\ IsFiniteSet(S) /\ OfKind(moves, kind) \in [S -> 0..b]
      /\ Total(OfKind(moves, kind)) \in Nat
  BY KindTotal
<1>2. CASE new.kind = kind
  <2>1. {x \in moves \cup {new} : x.kind = kind} = S \cup {new}
    BY <1>2
  <2>2. OfKind(moves \cup {new}, kind) = [m \in S \cup {new} |-> m.amount]
    BY <2>1 DEF OfKind
  <2>3. OfKind(moves \cup {new}, kind) \in [S \cup {new} -> 0..b]
    BY <2>2
  <2>4. /\ OfKind(moves \cup {new}, kind)[new] = new.amount
        /\ \A y \in S : OfKind(moves \cup {new}, kind)[y] = OfKind(moves, kind)[y]
    BY <2>2 DEF OfKind
  <2>5. new \notin S
    OBVIOUS
  <2>6. \A f \in [S -> 0..b], g \in [S \cup {new} -> 0..b] :
            g[new] = new.amount /\ (\A y \in S : g[y] = f[y]) => Total(g) = Total(f) + new.amount
    <3> HIDE DEF S
    <3> SUFFICES ASSUME NEW f \in [S -> 0..b], NEW g \in [S \cup {new} -> 0..b],
                        g[new] = new.amount, \A y \in S : g[y] = f[y]
                 PROVE  Total(g) = Total(f) + new.amount
      OBVIOUS
    <3>1. Total(g) = Total(f) + g[new]
      BY <1>1, <2>5, TotalExtend
    <3> QED
      BY <3>1
  <2> HIDE DEF S
  <2> QED
    BY <1>1, <1>2, <2>3, <2>4, <2>6
<1>3. CASE new.kind # kind
  <2>1. {x \in moves \cup {new} : x.kind = kind} = S
    BY <1>3
  <2> QED
    BY <1>1, <1>3, <2>1 DEF OfKind
<1> QED
  BY <1>2, <1>3

\* An account whose balance is the sum of its movements, of which there are finitely many.
Balanced(account) ==
    /\ IsFiniteSet(account.moves)
    /\ \E b \in Nat : \A m \in account.moves : m.amount \in 0..b
    /\ account.balance = Total(OfKind(account.moves, "credit"))
                            - Total(OfKind(account.moves, "debit"))
    /\ account.balance >= 0

\* An account without movements is balanced at 0.
LEMMA BalancedEmpty ==
    ASSUME NEW account, account.balance = 0, account.moves = {}
    PROVE  Balanced(account)
<1>1. \A kind : Total(OfKind({}, kind)) = 0
  BY TotalZero DEF OfKind
<1> QED
  BY <1>1, FS_EmptySet DEF Balanced

\* A credit or a covered debit that is recorded as it is applied keeps an account balanced.
LEMMA BalancedExtend ==
    ASSUME NEW moves, NEW balance, Balanced([balance |-> balance, moves |-> moves]),
           NEW new, new \notin moves, new.amount \in Nat, new.kind \in {"credit", "debit"},
           NEW after, after >= 0,
           after = IF new.kind = "credit" THEN balance + new.amount ELSE balance - new.amount
    PROVE  Balanced([balance |-> after, moves |-> moves \cup {new}])
<1>1. PICK b \in Nat : (\A m \in moves : m.amount \in 0..b) /\ new.amount \in 0..b
  <2>1. PICK b \in Nat : \A m \in moves : m.amount \in 0..b
    BY DEF Balanced
  <2>2. CASE new.amount <= b
    BY <2>1, <2>2
  <2>3. CASE ~(new.amount <= b)
    <3>1. \A m \in moves : m.amount \in 0..new.amount
      BY <2>1, <2>3
    <3> QED
      BY <3>1
  <2> QED
    BY <2>2, <2>3
<1>2. IsFiniteSet(moves) /\ IsFiniteSet(moves \cup {new})
  BY FS_AddElement DEF Balanced
<1>3. ASSUME NEW kind
      PROVE  /\ Total(OfKind(moves, kind)) \in Nat
             /\ Total(OfKind(moves \cup {new}, kind))
                    = Total(OfKind(moves, kind)) + IF new.kind = kind THEN new.amount ELSE 0
  BY <1>1, <1>2, KindTotal, KindTotalAdd
<1>4. /\ Total(OfKind(moves, "credit")) \in Nat /\ Total(OfKind(moves, "debit")) \in Nat
      /\ Total(OfKind(moves \cup {new}, "credit"))
             = Total(OfKind(moves, "credit")) + IF new.kind = "credit" THEN new.amount ELSE 0
      /\ Total(OfKind(moves \cup {new}, "debit"))
             = Total(OfKind(moves, "debit")) + IF new.kind = "debit" THEN new.amount ELSE 0
  BY <1>3
<1>5. balance = Total(OfKind(moves, "credit")) - Total(OfKind(moves, "debit"))
  BY DEF Balanced
<1>6. after = Total(OfKind(moves \cup {new}, "credit")) - Total(OfKind(moves \cup {new}, "debit"))
  BY <1>4, <1>5
<1>7. \A m \in moves \cup {new} : m.amount \in 0..b
  BY <1>1
<1> QED
  BY <1>2, <1>6, <1>7 DEF Balanced
-----------------------------------------------------------------------------
(* Sums whose rows have no bound given beforehand, and rounding. *)

\* Finitely many numbers have a bound.
LEMMA RowsBounded ==
    ASSUME NEW S, IsFiniteSet(S), NEW f \in [S -> Nat]
    PROVE  \E b \in Nat : f \in [S -> 0..b]
<1> DEFINE Unbounded == {U \in SUBSET S : ~ \E b \in Nat : \A x \in U : f[x] <= b}
           Sizes == {Cardinality(U) : U \in Unbounded}
<1>1. \A U \in SUBSET S : IsFiniteSet(U) /\ Cardinality(U) \in Nat
  BY FS_Subset, FS_CardinalityType
<1>2. Unbounded = {}
  <2> SUFFICES ASSUME Unbounded # {} PROVE FALSE
    OBVIOUS
  <2>1. Sizes \in SUBSET Nat /\ Sizes # {}
    BY <1>1
  <2>2. PICK n \in Sizes : \A m \in Sizes : n <= m
    <3> HIDE DEF Sizes
    <3> QED
      BY <2>1, LeastNatural
  <2>3. PICK U \in Unbounded : Cardinality(U) = n
    OBVIOUS
  <2>4. PICK x \in U : TRUE
    OBVIOUS
  <2>5. Cardinality(U \ {x}) = n - 1 /\ n \in Nat
    BY <1>1, <2>3, FS_RemoveElement
  <2>6. U \ {x} \notin Unbounded
    <3>1. U \ {x} \in Unbounded => n <= n - 1
      BY <2>2, <2>5
    <3> QED
      BY <2>5, <3>1
  <2>7. PICK b \in Nat : \A y \in U \ {x} : f[y] <= b
    BY <2>6
  <2>8. f[x] \in Nat /\ \A y \in U : f[y] <= b + f[x]
    <3>1. \A y \in U : f[y] \in Nat
      OBVIOUS
    <3> QED
      BY <2>7, <3>1
  <2> QED
    BY <2>8
<1>3. PICK b \in Nat : \A x \in S : f[x] <= b
  <2>1. S \notin Unbounded
    BY <1>2
  <2> QED
    BY <2>1
<1> QED
  BY <1>3

\* A sum of natural numbers is one; each row is part of it, and sums add up.
LEMMA SumType ==
    ASSUME NEW S, IsFiniteSet(S), NEW f \in [S -> Nat]
    PROVE  Total(f) \in Nat /\ \A x \in S : f[x] <= Total(f)
<1>1. PICK b \in Nat : f \in [S -> 0..b]
  BY RowsBounded
<1> QED
  BY <1>1, TotalType, RowWithinTotal

LEMMA SumPlus ==
    ASSUME NEW S, IsFiniteSet(S), NEW f \in [S -> Nat], NEW g \in [S -> Nat]
    PROVE  Plus(f, g) \in [S -> Nat] /\ Total(Plus(f, g)) = Total(f) + Total(g)
<1>1. PICK b \in Nat : f \in [S -> 0..b]
  BY RowsBounded
<1>2. PICK c \in Nat : g \in [S -> 0..c]
  BY RowsBounded
<1>3. f \in [S -> 0..(b + c)] /\ g \in [S -> 0..(b + c)] /\ b + c \in Nat
  BY <1>1, <1>2
<1>4. Plus(f, g) \in [S -> Nat]
  BY DEF Plus
<1> QED
  BY <1>3, <1>4, TotalPlus

\* Row by row no more, and in sum no more.
LEMMA SumMonotone ==
    ASSUME NEW S, IsFiniteSet(S), NEW f \in [S -> Nat], NEW g \in [S -> Nat],
           \A x \in S : f[x] <= g[x]
    PROVE  Total(f) <= Total(g)
<1>1. PICK c \in Nat : g \in [S -> 0..c]
  BY RowsBounded
<1>2. f \in [S -> 0..c]
  <2>1. \A x \in S : f[x] \in Nat /\ g[x] \in 0..c /\ f[x] <= g[x]
    BY <1>1
  <2> QED
    BY <2>1
<1> QED
  BY <1>1, <1>2, TotalMonotone

\* c times every row is c times the sum.
Times(c, f) == [x \in DOMAIN f |-> c * f[x]]

LEMMA SumTimes ==
    ASSUME NEW S, IsFiniteSet(S), NEW f \in [S -> Nat], NEW c \in Nat
    PROVE  Times(c, f) \in [S -> Nat] /\ Total(Times(c, f)) = c * Total(f)
<1> DEFINE T == {n \in Nat : Total(Times(n, f)) # n * Total(f)}
<1>0. ASSUME NEW n \in Nat PROVE Times(n, f) \in [S -> Nat]
  <2>1. \A x \in S : n * f[x] \in Nat
    OBVIOUS
  <2> QED
    BY <2>1 DEF Times
<1>1. Total(f) \in Nat
  BY SumType
<1>2. T = {}
  <2> SUFFICES ASSUME T # {} PROVE FALSE
    OBVIOUS
  <2>1. PICK n \in T : \A m \in T : n <= m
    <3>1. T \in SUBSET Nat
      OBVIOUS
    <3> HIDE DEF T
    <3> QED
      BY <3>1, LeastNatural
  <2>2. n # 0
    <3>1. Total(Times(0, f)) = 0
      <4>1. DOMAIN Times(0, f) = S /\ \A x \in S : Times(0, f)[x] = 0
        BY DEF Times
      <4> QED
        BY <4>1, TotalZero
    <3> QED
      BY <1>1, <3>1
  <2>3. n - 1 \in Nat /\ n - 1 \notin T
    <3>1. n - 1 \in T => n <= n - 1
      BY <2>1
    <3> QED
      BY <2>2, <3>1
  <2>4. Times(n, f) = Plus(Times(n - 1, f), f)
    <3>1. \A x \in S : n * f[x] = (n - 1) * f[x] + f[x]
      BY <2>3
    <3> QED
      BY <3>1 DEF Times, Plus
  <2>5. Total(Times(n, f)) = Total(Times(n - 1, f)) + Total(f)
    BY <1>0, <2>3, <2>4, SumPlus
  <2>6. Total(Times(n - 1, f)) = (n - 1) * Total(f)
    BY <2>3
  <2> QED
    BY <1>1, <2>3, <2>5, <2>6
<1> QED
  BY <1>0, <1>2

\* One unit a row: as many units as rows.
LEMMA SumOnes ==
    ASSUME NEW S, IsFiniteSet(S)
    PROVE  Total([x \in S |-> 1]) = Cardinality(S)
<1>1. Units([x \in S |-> 1]) = S \X {1}
  <2>1. 1..1 = {1}
    OBVIOUS
  <2> QED
    BY <2>1 DEF Units
<1>2. IsFiniteSet({1}) /\ Cardinality({1}) = 1
  BY FS_Singleton
<1>3. Cardinality(S \X {1}) = Cardinality(S) * Cardinality({1})
  BY <1>2, FS_Product, Zenon
<1>4. Cardinality(S) \in Nat
  BY FS_CardinalityType
<1>5. Cardinality(S \X {1}) = Cardinality(S)
  BY <1>2, <1>3, <1>4
<1> QED
  BY <1>1, <1>5, Zenon DEF Total

\* When every row of f, taken c times, differs from a row of g by at most d, the sums
\* differ by at most d for each row.
LEMMA SumWithin ==
    ASSUME NEW S, IsFiniteSet(S), NEW f \in [S -> Nat], NEW g \in [S -> Nat],
           NEW c \in Nat, NEW d \in Nat,
           \A x \in S : c * f[x] <= g[x] + d /\ g[x] <= c * f[x] + d
    PROVE  /\ c * Total(f) <= Total(g) + d * Cardinality(S)
           /\ Total(g) <= c * Total(f) + d * Cardinality(S)
<1> DEFINE ones == [x \in S |-> 1]
<1>1. ones \in [S -> Nat] /\ Total(ones) = Cardinality(S)
  BY SumOnes
<1> HIDE DEF ones
<1>2. /\ Times(c, f) \in [S -> Nat] /\ Total(Times(c, f)) = c * Total(f)
      /\ Times(d, ones) \in [S -> Nat] /\ Total(Times(d, ones)) = d * Cardinality(S)
  BY <1>1, SumTimes
<1>3. \A x \in S : Times(c, f)[x] = c * f[x] /\ Times(d, ones)[x] = d
  BY DEF Times, ones
<1>4. /\ Plus(g, Times(d, ones)) \in [S -> Nat]
      /\ Total(Plus(g, Times(d, ones))) = Total(g) + d * Cardinality(S)
      /\ Plus(Times(c, f), Times(d, ones)) \in [S -> Nat]
      /\ Total(Plus(Times(c, f), Times(d, ones))) = c * Total(f) + d * Cardinality(S)
  BY <1>2, SumPlus
<1>5. /\ \A x \in S : Times(c, f)[x] <= Plus(g, Times(d, ones))[x]
      /\ \A x \in S : g[x] <= Plus(Times(c, f), Times(d, ones))[x]
  BY <1>2, <1>3 DEF Plus
<1> QED
  BY <1>2, <1>4, <1>5, SumMonotone
=============================================================================
