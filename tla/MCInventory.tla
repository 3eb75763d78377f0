----------------------------- MODULE MCInventory -----------------------------
(* Three sources whose codes sort 1 < 2 < 3: ties, partial draws, full drains. *)
EXTENDS Inventory
MCSourceCodes == {1, 2, 3}
=============================================================================
