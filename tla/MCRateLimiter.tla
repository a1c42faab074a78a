---------------------------- MODULE MCRateLimiter ----------------------------
(* RateLimiter with one client address and one credential. *)
EXTENDS RateLimiter, TLC

CONSTANTS ip, cred

MCRoutes == {<<ip>>, <<ip, cred>>}
MCLimit  == (ip :> 2) @@ (cred :> 1)
MCWindow == (ip :> 1) @@ (cred :> 2)

Symmetry == Permutations(Requests)
=============================================================================
