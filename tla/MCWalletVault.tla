---------------------------- MODULE MCWalletVault ----------------------------
(* WalletVault with one OAuth user and one wallet user. *)
EXTENDS WalletVault, TLC

CONSTANTS u1, w1, a1, a2, z1, z2, zx

MCWallet == (u1 :> None) @@ (w1 :> a1)

MCFits == [u \in Users |-> {z1, z2}]

Symmetry == Permutations(Requests) \cup Permutations(Nonces)
=============================================================================
