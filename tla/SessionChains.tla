---------------------------- MODULE SessionChains ----------------------------
(***************************************************************************)
(* What the refresh-session store promises, without requests, locks,       *)
(* transactions or SQL.  Every login opens a chain of refresh tokens.  A   *)
(* chain has at most one current token; a rotation replaces it by a token  *)
(* never seen before; the owner and the absolute expiry are fixed by the   *)
(* login; a chain that is closed stays closed.                             *)
(***************************************************************************)
EXTENDS Naturals

CONSTANTS Users, Tokens, Expiries, None

VARIABLES
    chains,  \* first token of a login -> its chain, or None
    issued   \* every token that has ever been current

Chain == [token : Tokens \cup {None}, user : Users, expires : Expiries]

\* Chain c with t as its current token.
With(c, t) == [token |-> t, user |-> chains[c].user, expires |-> chains[c].expires]

Closed(c) == chains[c] # None /\ chains[c].token = None

Init ==
    /\ chains = [c \in Tokens |-> None]
    /\ issued = {}

\* A login by u: the chain is named by its first token.
Open(t, u, e) ==
    /\ t \notin issued
    /\ chains' = [chains EXCEPT ![t] = [token |-> t, user |-> u, expires |-> e]]
    /\ issued' = issued \cup {t}

\* A rotation: the current token of c is retired for t.
Advance(c, t) ==
    /\ chains[c] # None /\ ~Closed(c)
    /\ t \notin issued
    /\ chains' = [chains EXCEPT ![c] = With(c, t)]
    /\ issued' = issued \cup {t}

\* Logout, a replay purge or the cleaner ends the chains in S.
Close(S) ==
    /\ \A c \in S : chains[c] # None
    /\ chains' = [c \in Tokens |->
                    IF c \in S THEN With(c, None)
                    ELSE chains[c]]
    /\ UNCHANGED issued

Next ==
    \/ \E t \in Tokens, u \in Users, e \in Expiries : Open(t, u, e)
    \/ \E c, t \in Tokens : Advance(c, t)
    \/ \E S \in SUBSET Tokens : Close(S)

Spec == Init /\ [][Next]_<<chains, issued>>
=============================================================================
