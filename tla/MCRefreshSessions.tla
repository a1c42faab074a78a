-------------------------- MODULE MCRefreshSessions --------------------------
(* RefreshSessions on small instances. *)
EXTENDS RefreshSessions, TLC

\* Tokens and handlers are interchangeable: no action tells them apart.
Symmetry == Permutations(Tokens) \cup Permutations(Requests)
=============================================================================
