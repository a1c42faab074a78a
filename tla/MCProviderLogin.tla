--------------------------- MODULE MCProviderLogin ---------------------------
(***************************************************************************)
(* Instance: two codes granted by users of the four providers, three of    *)
(* them with the same account id, also to an application that is not this  *)
(* service's or with an ID token that will not verify; settings complete,  *)
(* or with one of them missing or different.                               *)
(***************************************************************************)
EXTENDS ProviderLogin

G(prov, acct, app, nonce, openid) ==
    [prov |-> prov, acct |-> acct, app |-> app, nonce |-> nonce,
     openid |-> openid, verifies |-> TRUE]

Unverified(g) == [g EXCEPT !.verifies = FALSE]

MCGrants == {
    Unverified(G("google", "a", "ours", "n1", TRUE)),
    Unverified(G("apple", "b", "ours", "n1", FALSE)),
    G("google", "a", "ours", "n1", TRUE), G("google", "a", "ours", "n1", FALSE),
    G("google", "b", "theirs", "n1", TRUE), G("apple", "a", "ours", "n1", FALSE),
    G("apple", "b", "ours", None, FALSE),
    G("facebook", "a", "ours", None, FALSE), G("facebook", "b", "theirs", None, FALSE),
    G("twitch", "b", "ours", None, FALSE), G("twitch", "b", "ours", None, TRUE)}

Full == [prov \in Providers |->
           [aud |-> "ours", secret |-> TRUE,
            app |-> IF prov \in {"facebook", "twitch"} THEN "ours" ELSE None]]

MCConfigs == {Full} \cup {
    [Full EXCEPT !["google"].secret = FALSE],
    [Full EXCEPT !["google"].aud = "theirs"],
    [Full EXCEPT !["facebook"].app = None],
    [Full EXCEPT !["facebook"].app = "theirs"],
    [Full EXCEPT !["facebook"].aud = None],
    [Full EXCEPT !["twitch"].app = None],
    [Full EXCEPT !["twitch"].app = "theirs"]}
=============================================================================
