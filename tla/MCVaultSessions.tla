--------------------------- MODULE MCVaultSessions ---------------------------
(* VaultSessions with one OAuth user and one wallet user. *)
EXTENDS VaultSessions, TLC

CONSTANTS u1, w1, a1, z1, zx

MCWallet == [u \in Users |-> IF u = w1 THEN a1 ELSE None]

MCFits == [u \in Users |-> {z1}]

Symmetry == Permutations(Requests) \cup Permutations(Tokens)
=============================================================================
