----------------------------- MODULE MCSettlement -----------------------------
(* One variant, two orders and three payments: a payment fails and another is tried, or
   one order's refund pays for the other. *)
EXTENDS Settlement, TLC
MCAmounts == {1}
MCSymmetry == Permutations(OrderIds) \cup Permutations(Payments)
=============================================================================
