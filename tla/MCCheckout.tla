------------------------------ MODULE MCCheckout ------------------------------
(* Two requests of one shopper on a cart of two variants, and two orders. *)
EXTENDS Checkout, TLC
MCAmounts == {1}
MCSymmetry == Permutations(OrderIds) \cup Permutations(Skus) \cup Permutations(Requests)
=============================================================================
