------------------------------- MODULE MCWallet -------------------------------
(* One user (wallets do not interact), three calls in flight, three sources. *)
EXTENDS Wallet, TLC
MCValues == {1, 2}
MCSymmetry == Permutations(Calls) \cup Permutations(Sources)
=============================================================================
