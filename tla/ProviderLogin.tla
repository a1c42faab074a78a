---------------------------- MODULE ProviderLogin ----------------------------
(***************************************************************************)
(* A login through Google, Apple, Facebook or Twitch, from POST            *)
(* /auth/provider/callback to the stored session (auth_provider_callback   *)
(* in src/handlers/mod.rs, src/auth/exchange.rs,                           *)
(* src/security/access_token.rs, and JwtValidator of src/security/jwt.rs   *)
(* for what it says of a token once it has its key; JwksCache has the      *)
(* keys).  The service trades an authorization code for tokens, asks the   *)
(* provider who they belong to, and stores a session for that user.        *)
(*                                                                         *)
(* The providers are outside: what a code stands for is fixed when the     *)
(* user grants it (grant), a code is good for one exchange, by the         *)
(* application it was granted to, and every call to a provider may fail or *)
(* lose its answer after it took effect.  A grant also foretells (as a     *)
(* prophecy would) how the one check of its ID token ends: whether the key *)
(* set the service holds then has its key, its signature is good and it    *)
(* has not expired.  Module JwksCache says when the key is missing.        *)
(***************************************************************************)
EXTENDS Naturals, Sequences

CONSTANTS
    Codes,     \* authorization codes
    Grants,    \* what a code may stand for
    Configs,   \* settings the service may be started with
    Accounts,  \* account ids; two providers may use the same one
    Apps,      \* application ids registered with the providers
    Clients,   \* client_id values of the allowlist
    Nonces,    \* nonces of the clients' sign-in requests
    Requests,  \* HTTP handlers that may run at the same time
    None       \* no such setting, field or row

Order     == <<"google", "apple", "facebook", "twitch">>
Providers == {"google", "apple", "facebook", "twitch"}

Grant   == [prov : Providers, acct : Accounts, app : Apps,
            nonce : Nonces \cup {None}, openid : BOOLEAN, verifies : BOOLEAN]
Setting == [aud : Apps \cup {None}, app : Apps \cup {None}, secret : BOOLEAN]
Config  == [Providers -> Setting]

ASSUME NoneAssumption   == None \notin Providers \cup Apps \cup Nonces \cup Accounts
ASSUME GrantAssumption  == Grants \subseteq Grant
ASSUME ConfigAssumption == Configs \subseteq Config

VARIABLES
    config,  \* per provider: ALLOWED_AUDIENCE_*, FACEBOOK_APP_ID or
             \* TWITCH_CLIENT_ID, and whether the secrets are there
    grant,   \* at the providers: code -> what the user granted with it
    spent,   \* at the providers: the codes that were traded for tokens
    req,     \* what each handler is doing
    stored   \* history: code -> the sessions stored for it, in order

vars == <<config, grant, spent, req, stored>>

Phases  == {"idle", "exchange", "profile", "claims", "store"}
Request == [pc : Phases, code : Codes \cup {None}, prov : Providers \cup {None},
            nonce : Nonces \cup {None}, label : Providers \cup {None},
            iss : Providers \cup {None}, sub : Accounts \cup {None}]
Session == [iss : Providers, sub : Accounts, prov : Providers, nonce : Nonces \cup {None}]

Idle == [pc |-> "idle", code |-> None, prov |-> None, nonce |-> None,
         label |-> None, iss |-> None, sub |-> None]

Finish(p)  == req' = [req EXCEPT ![p] = Idle]
GrantOf(p) == grant[req[p].code]

\* Config::validate, as far as it is about the providers.
Validated(cfg) ==
    /\ cfg["google"].aud # None
    /\ cfg["apple"].aud # None
    /\ \A prov \in {"facebook", "twitch"} : cfg[prov].app # None => cfg[prov].aud # None

Init ==
    /\ config \in {cfg \in Configs : Validated(cfg)}
    /\ grant \in [Codes -> Grants]
    /\ spent = {}
    /\ req = [p \in Requests |-> Idle]
    /\ stored = [c \in Codes |-> <<>>]

-----------------------------------------------------------------------------
(* Which provider, which application *)

\* resolve_provider: the hint of the request, or the first provider whose
\* audience is the client id.
ResolveProvider(hint, cid) ==
    LET hits == {i \in DOMAIN Order : config[Order[i]].aud = cid}
    IN  IF hint # None THEN hint
        ELSE IF hits = {} THEN None
        ELSE Order[CHOOSE i \in hits : \A j \in hits : i <= j]

\* get_oauth_client_id_for_provider: the audience, or else the application id.
OAuthClientId(prov) ==
    IF config[prov].aud # None THEN config[prov].aud ELSE config[prov].app

\* The request of a known client, for a provider that has an application.
\* Whatever else comes is refused here, before a provider hears of it.
Begin(p, c, hint, cid, n) ==
    LET prov == ResolveProvider(hint, cid)
    IN  /\ req[p].pc = "idle"
        /\ prov # None
        /\ OAuthClientId(prov) # None
        /\ req' = [req EXCEPT ![p] = [Idle EXCEPT !.pc = "exchange", !.code = c,
                                                  !.prov = prov, !.nonce = n]]
        /\ UNCHANGED <<config, grant, spent, stored>>

-----------------------------------------------------------------------------
(* exchange_code_for_tokens *)

\* The provider honours the code: it issued it, to this application, for the
\* first time; the secrets it asks for are configured.
Exchangeable(p) ==
    /\ config[req[p].prov].secret
    /\ req[p].code \notin spent
    /\ GrantOf(p).prov = req[p].prov
    /\ GrantOf(p).app = OAuthClientId(req[p].prov)

\* A faulty form of Exchange: the tokens of an earlier exchange of the code are
\* kept and served again.
ExchangeCached(p) ==
    /\ req[p].pc = "exchange"
    /\ \/ Exchangeable(p)
       \/ req[p].code \in spent /\ GrantOf(p).prov = req[p].prov
    /\ spent' = spent \cup {req[p].code}
    /\ req' = [req EXCEPT ![p].pc =
                 IF req[p].prov \in {"facebook", "twitch"} THEN "profile" ELSE "claims"]
    /\ UNCHANGED <<config, grant, stored>>

\* The tokens arrive.  Facebook and Twitch are asked for a profile before the
\* exchange returns.
Exchange(p) ==
    /\ req[p].pc = "exchange"
    /\ Exchangeable(p)
    /\ spent' = spent \cup {req[p].code}
    /\ req' = [req EXCEPT ![p].pc =
                 IF req[p].prov \in {"facebook", "twitch"} THEN "profile" ELSE "claims"]
    /\ UNCHANGED <<config, grant, stored>>

\* The provider honours the code, the answer does not come back in 15 seconds.
ExchangeLost(p) ==
    /\ req[p].pc = "exchange"
    /\ Exchangeable(p)
    /\ spent' = spent \cup {req[p].code}
    /\ Finish(p)
    /\ UNCHANGED <<config, grant, stored>>

\* 502: the secrets are missing or the provider refuses the code.
ExchangeRefused(p) ==
    /\ req[p].pc = "exchange"
    /\ ~Exchangeable(p)
    /\ Finish(p)
    /\ UNCHANGED <<config, grant, spent, stored>>

\* The Twitch API wants the application the token was issued to as Client-Id.
TwitchAnswers(p) ==
    /\ config["twitch"].app # None
    /\ config["twitch"].app = GrantOf(p).app

\* fetch_facebook_user, fetch_twitch_user: with the profile comes the label by
\* which the handler knows the provider of an access token.
Profile(p) ==
    /\ req[p].pc = "profile"
    /\ req[p].prov = "twitch" => TwitchAnswers(p)
    /\ req' = [req EXCEPT ![p].pc = "claims", ![p].label = req[p].prov]
    /\ UNCHANGED <<config, grant, spent, stored>>

\* The error is swallowed: the login goes on without a label.
ProfileFailed(p) ==
    /\ req[p].pc = "profile"
    /\ req' = [req EXCEPT ![p].pc = "claims"]
    /\ UNCHANGED <<config, grant, spent, stored>>

-----------------------------------------------------------------------------
(* Who is it? *)

\* Does the token answer hold an ID token?
HasIdToken(g) ==
    \/ g.prov = "apple"
    \/ g.prov \in {"google", "twitch"} /\ g.openid

\* JwtValidator::validate knows the issuers Google and Apple, wants a key with
\* the token's id, a good signature and an expiry to come, and compares the
\* audience.
IdTokenValid(g) ==
    /\ g.prov \in {"google", "apple"}
    /\ g.verifies
    /\ g.app = config[g.prov].aud

\* A faulty form of AccessTokenValid: an access token that nobody labelled is
\* taken for one of an application without further checks.
AccessTokenUnlabelled(p) ==
    req[p].label = "twitch" => TwitchAnswers(p)

\* validate_facebook_token asks for the application of the token only if it
\* knows its own.
FacebookTokenValid(p) ==
    config["facebook"].app # None /\ config["facebook"].secret =>
        config["facebook"].app = GrantOf(p).app

\* extract_claims_from_token: the configured audience goes into the claims,
\* never compared with anything.  validate_twitch_token asks Twitch.
AccessTokenValid(p) ==
    \/ req[p].label = "facebook" /\ FacebookTokenValid(p) /\ config["facebook"].aud # None
    \/ req[p].label = "twitch" /\ TwitchAnswers(p) /\ config["twitch"].aud # None

\* A faulty form of NonceMatches: the nonce is compared whenever there is one,
\* for every provider.
NonceDemanded(p) ==
    /\ req[p].nonce # None
    /\ req[p].nonce = IF HasIdToken(GrantOf(p)) THEN GrantOf(p).nonce ELSE None

\* A faulty form of NonceMatches: a request without a nonce passes.
NonceOptional(p) ==
    req[p].prov \in {"google", "apple"} /\ req[p].nonce # None =>
        req[p].nonce = GrantOf(p).nonce

\* The nonce of Google and Apple is the one the client started with; only now
\* is it noticed that the request has none.
NonceMatches(p) ==
    req[p].prov \in {"google", "apple"} =>
        /\ req[p].nonce # None
        /\ req[p].nonce = GrantOf(p).nonce

Accepted(p) ==
    /\ IF HasIdToken(GrantOf(p)) THEN IdTokenValid(GrantOf(p)) ELSE AccessTokenValid(p)
    /\ NonceMatches(p)

\* A faulty form of Issuer: users are told apart by their account id alone.
IssuerDropped(p) == "google"

\* The issuer of the claims: an ID token names it, an access token is known by
\* its label.
Issuer(p) ==
    IF HasIdToken(GrantOf(p)) THEN GrantOf(p).prov ELSE req[p].label

\* The claims are extracted and the user is iss:sub.
Claims(p) ==
    /\ req[p].pc = "claims"
    /\ Accepted(p)
    /\ req' = [req EXCEPT ![p].pc = "store", ![p].iss = Issuer(p),
                          ![p].sub = GrantOf(p).acct]
    /\ UNCHANGED <<config, grant, spent, stored>>

\* 401, or 400 for a request without a nonce; the code is gone.
ClaimsRefused(p) ==
    /\ req[p].pc = "claims"
    /\ ~Accepted(p)
    /\ Finish(p)
    /\ UNCHANGED <<config, grant, spent, stored>>

\* The vault is read, the access token signed and the session stored under the
\* provider of the request (what becomes of it: WalletVault, RefreshSessions).
Store(p) ==
    /\ req[p].pc = "store"
    /\ stored' = [stored EXCEPT ![req[p].code] =
                    Append(@, [iss |-> req[p].iss, sub |-> req[p].sub,
                               prov |-> req[p].prov, nonce |-> req[p].nonce])]
    /\ Finish(p)
    /\ UNCHANGED <<config, grant, spent>>

\* A call that fails or times out, a crash, a client that goes away.
Fail(p) ==
    /\ req[p].pc # "idle"
    /\ Finish(p)
    /\ UNCHANGED <<config, grant, spent, stored>>

Next == \E p \in Requests :
    \/ \E c \in Codes, hint \in Providers \cup {None}, cid \in Clients,
          n \in Nonces \cup {None} : Begin(p, c, hint, cid, n)
    \/ Exchange(p) \/ ExchangeLost(p) \/ ExchangeRefused(p)
    \/ Profile(p) \/ ProfileFailed(p)
    \/ Claims(p) \/ ClaimsRefused(p)
    \/ Store(p) \/ Fail(p)

Spec == Init /\ [][Next]_vars

-----------------------------------------------------------------------------

\* Every variable has its type.
TypeOK ==
    /\ config \in Config
    /\ grant \in [Codes -> Grant]
    /\ spent \subseteq Codes
    /\ req \in [Requests -> Request]
    /\ stored \in [Codes -> Seq(Session)]

SessionsOf(c) == {stored[c][i] : i \in DOMAIN stored[c]}

\* Whatever provider the client names or the service infers, and whichever
\* profile calls fail, a session is that of the account and the provider that
\* stand behind the code, for an application of this service; at Google and
\* Apple under an ID token that was verified, for the nonce the login started
\* with.
VouchedFor ==
    \A c \in Codes : \A s \in SessionsOf(c) :
        /\ s.iss = grant[c].prov /\ s.sub = grant[c].acct
        /\ s.prov = grant[c].prov
        /\ grant[c].app = OAuthClientId(s.prov)
        /\ s.prov \in {"google", "apple"} =>
              /\ grant[c].verifies
              /\ s.nonce # None /\ s.nonce = grant[c].nonce

\* Two sessions belong to one user exactly when they were granted by one
\* account of one provider: two providers' accounts with the same id stay
\* apart, one account keeps one user through whichever tokens it is known.
OneUserPerAccount ==
    \A c, d \in Codes : \A s \in SessionsOf(c), t \in SessionsOf(d) :
        (s.iss = t.iss /\ s.sub = t.sub)
            <=> (grant[c].prov = grant[d].prov /\ grant[c].acct = grant[d].acct)

\* A code that is sent again after its answer was lost, or by two handlers at
\* once, makes one session at most.
OneSessionPerCode ==
    /\ \A c \in Codes : Len(stored[c]) <= 1
    /\ \A c \in Codes : stored[c] # <<>> => c \in spent

\* The settings of a provider agree with each other.
Ready(prov) ==
    /\ config[prov].secret /\ config[prov].aud # None
    /\ prov = "facebook" => config[prov].app \in {None, config[prov].aud}
    /\ prov = "twitch" => config[prov].app = config[prov].aud

\* A login whose code the provider honoured, under settings that agree, is
\* turned away by the service's checks only for a missing or another nonce, an
\* ID token of Google or Apple whose key is unknown, whose signature is bad or
\* which has expired, a profile call that failed, an answer of Google without
\* an ID token, or one of Twitch with an ID token.  (A call to the provider
\* that fails during the checks is Fail.)
RefusedForCause == [][\A p \in Requests :
    ClaimsRefused(p) =>
        \/ ~Ready(req[p].prov)
        \/ /\ req[p].prov \in {"google", "apple"}
           /\ \/ req[p].nonce = None \/ req[p].nonce # GrantOf(p).nonce
              \/ ~GrantOf(p).verifies
        \/ req[p].prov \in {"facebook", "twitch"} /\ req[p].label = None
        \/ req[p].prov = "google" /\ ~GrantOf(p).openid
        \/ req[p].prov = "twitch" /\ GrantOf(p).openid]_vars
=============================================================================
