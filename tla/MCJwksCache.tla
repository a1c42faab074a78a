----------------------------- MODULE MCJwksCache -----------------------------
(* JwksCache with interchangeable keys and logins. *)
EXTENDS JwksCache, TLC

Symmetry == Permutations(Keys) \cup Permutations(Requests)
=============================================================================
