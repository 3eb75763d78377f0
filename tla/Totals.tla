------------------------------- MODULE Totals -------------------------------
(***************************************************************************)
(* Sums of quantities over a finite set of rows: a variant's stock over    *)
(* its sources, its units over the orders that hold them, a wallet's       *)
(* balance over its movements.  The code sums with Python's sum() and SQL's*)
(* SUM().  A sum is defined here as the number of units the rows have      *)
(* together, so that facts about sums are facts about cardinalities.       *)
(***************************************************************************)
EXTENDS Integers, FiniteSets

\* The units of f, a function from rows to natural numbers: f[x] of them at row x.
Units(f) == UNION {{x} \X (1..f[x]) : x \in DOMAIN f}

\* The sum of f[x] over the rows x.
Total(f) == Cardinality(Units(f))

\* f and g, functions on the same rows, added and subtracted row by row.
Plus(f, g)  == [x \in DOMAIN f |-> f[x] + g[x]]
Minus(f, g) == [x \in DOMAIN f |-> f[x] - g[x]]

Smaller(a, b) == IF a <= b THEN a ELSE b
=============================================================================
