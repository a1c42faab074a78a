-------------------------- MODULE ProviderLoginProofs --------------------------
(***************************************************************************)
(* Whoever a session of ProviderLogin names, a provider has vouched for,   *)
(* for any number of codes, handlers, applications and settings.           *)
(***************************************************************************)
EXTENDS ProviderLogin, TLAPS

\* The handler holds the tokens of its code.
Holding(p) == req[p].pc \in {"profile", "claims", "store"}

\* The code of p was traded by the application that it was granted to.
Traded(p) ==
    /\ req[p].code \in spent
    /\ GrantOf(p).prov = req[p].prov
    /\ GrantOf(p).app = OAuthClientId(req[p].prov)
    /\ stored[req[p].code] = <<>>

\* What Google or Apple say of the account of p was verified.
Verified(p) == req[p].prov \in {"google", "apple"} => GrantOf(p).verifies

\* What a handler knows in its phase: a label is that of the provider it
\* resolved, and the claims are those of the account behind the code.
KnownBy(p) ==
    /\ req[p].pc # "idle" => req[p].code \in Codes /\ req[p].prov \in Providers
    /\ req[p].label \in {None, req[p].prov}
    /\ Holding(p) => Traded(p)
    /\ req[p].pc = "store" =>
          /\ req[p].iss = GrantOf(p).prov
          /\ req[p].sub = GrantOf(p).acct
          /\ Verified(p) /\ NonceMatches(p)

Known == \A p \in Requests : KnownBy(p)

\* No two handlers hold the tokens of one code.
OneHolder ==
    \A p, q \in Requests :
        Holding(p) /\ Holding(q) /\ req[p].code = req[q].code => p = q

\* Session s is the one that code c was granted for.
Rightful(s, c) ==
    /\ s.iss = grant[c].prov /\ s.sub = grant[c].acct /\ s.prov = grant[c].prov
    /\ grant[c].app = OAuthClientId(s.prov)
    /\ s.prov \in {"google", "apple"} =>
          /\ grant[c].verifies
          /\ s.nonce # None /\ s.nonce = grant[c].nonce

\* A code has stored nothing, or one session, the rightful one.
StoredBy(c) ==
    \/ stored[c] = <<>>
    \/ /\ c \in spent
       /\ \E s \in Session : stored[c] = <<s>> /\ Rightful(s, c)

StoredOK == \A c \in Codes : StoredBy(c)

\* The inductive invariant.
IInv ==
    /\ TypeOK
    /\ Known
    /\ OneHolder
    /\ StoredOK

-----------------------------------------------------------------------------
(* Facts about the data *)

\* A set of positions in Order has a first one.
LEMMA FirstPosition ==
    ASSUME NEW S \in SUBSET (1 .. 4), S # {}
    PROVE  \E i \in S : \A j \in S : i <= j
<1>1. CASE 1 \in S
  BY <1>1
<1>2. CASE 1 \notin S /\ 2 \in S
  BY <1>2
<1>3. CASE 1 \notin S /\ 2 \notin S /\ 3 \in S
  BY <1>3
<1>4. CASE 1 \notin S /\ 2 \notin S /\ 3 \notin S
  <2>1. \A i \in S : i = 4
    BY <1>4
  <2>2. PICK i \in S : TRUE
    OBVIOUS
  <2>3. \A j \in S : i <= j
    BY <2>1, <2>2
  <2> QED
    BY <2>2, <2>3
<1> QED
  BY <1>1, <1>2, <1>3, <1>4

\* resolve_provider answers with a provider or not at all.
LEMMA ResolveType ==
    ASSUME NEW hint \in Providers \cup {None}, NEW cid
    PROVE  ResolveProvider(hint, cid) \in Providers \cup {None}
<1> DEFINE hits == {i \in DOMAIN Order : config[Order[i]].aud = cid}
           first == CHOOSE i \in hits : \A j \in hits : i <= j
<1>1. DOMAIN Order = 1 .. 4 /\ \A i \in 1 .. 4 : Order[i] \in Providers
  BY DEF Order, Providers
<1>2. CASE hits # {}
  <2>1. hits \in SUBSET (1 .. 4)
    BY <1>1
  <2>2. \E i \in hits : \A j \in hits : i <= j
    <3> HIDE DEF hits
    <3> QED
      BY <1>2, <2>1, FirstPosition
  <2>3. first \in hits
    <3> HIDE DEF hits
    <3> QED
      BY <2>2
  <2>4. Order[first] \in Providers
    <3> HIDE DEF first
    <3> QED
      BY <1>1, <2>3
  <2> QED
    BY <1>2, <2>4 DEF ResolveProvider
<1>3. CASE hits = {}
  BY <1>3 DEF ResolveProvider
<1> QED
  BY <1>2, <1>3

\* Appending a member of X to a list over X gives one, and the first entry.
LEMMA AppendType ==
    ASSUME NEW X, NEW s \in Seq(X), NEW r \in X
    PROVE  Append(s, r) \in Seq(X)
  OBVIOUS

\* The first entry of a list.
LEMMA AppendFirst ==
    ASSUME NEW r
    PROVE  Append(<<>>, r) = <<r>>
  OBVIOUS

-----------------------------------------------------------------------------

\* Every step keeps the types.
LEMMA TypeStep ==
    ASSUME TypeOK, Known, Next
    PROVE  TypeOK'
<1>1. ASSUME NEW p \in Requests, NEW c \in Codes, NEW hint \in Providers \cup {None},
             NEW cid, NEW n \in Nonces \cup {None}, Begin(p, c, hint, cid, n)
      PROVE  TypeOK'
  <2> PICK prov : prov = ResolveProvider(hint, cid)
    OBVIOUS
  <2>1. prov \in Providers
    BY <1>1, ResolveType DEF Begin
  <2>2. req' = [req EXCEPT ![p] = [Idle EXCEPT !.pc = "exchange", !.code = c,
                                               !.prov = prov, !.nonce = n]]
    BY <1>1 DEF Begin
  <2>3. Idle \in Request
    BY DEF Idle, Request, Phases
  <2>4. [Idle EXCEPT !.pc = "exchange", !.code = c, !.prov = prov, !.nonce = n] \in Request
    BY <2>1, <2>3 DEF Request, Phases
  <2> QED
    BY <1>1, <2>2, <2>4 DEF Begin, TypeOK
<1>2. ASSUME NEW p \in Requests, Exchange(p) PROVE TypeOK'
  <2>1. PICK ph \in Phases : req' = [req EXCEPT ![p].pc = ph]
    BY <1>2 DEF Exchange, Phases
  <2>2. req' \in [Requests -> Request]
    BY <2>1 DEF TypeOK, Request
  <2> QED
    BY <1>2, <2>2 DEF Exchange, Known, KnownBy, TypeOK
<1>3. ASSUME NEW p \in Requests, Finish(p), UNCHANGED <<config, grant, stored>>,
             spent' \subseteq Codes
      PROVE  TypeOK'
  BY <1>3 DEF Finish, Idle, TypeOK, Request, Phases
<1>4. ASSUME NEW p \in Requests, Profile(p) \/ ProfileFailed(p) PROVE TypeOK'
  <2>1. PICK l \in Providers \cup {None} :
             req' = [req EXCEPT ![p] = [req[p] EXCEPT !.pc = "claims", !.label = l]]
    <3>1. CASE Profile(p)
      BY <3>1 DEF Profile, TypeOK, Request
    <3>2. CASE ProfileFailed(p)
      <4>1. [req[p] EXCEPT !.pc = "claims"] =
              [req[p] EXCEPT !.pc = "claims", !.label = req[p].label]
        BY DEF TypeOK, Request
      <4> QED
        BY <3>2, <4>1 DEF ProfileFailed, TypeOK, Request
    <3> QED
      BY <1>4, <3>1, <3>2
  <2>2. [req[p] EXCEPT !.pc = "claims", !.label = l] \in Request
    BY DEF TypeOK, Request, Phases
  <2>3. req' \in [Requests -> Request]
    BY <2>1, <2>2 DEF TypeOK
  <2> QED
    BY <1>4, <2>3 DEF Profile, ProfileFailed, TypeOK
<1>5. ASSUME NEW p \in Requests, Claims(p) PROVE TypeOK'
  <2>1. GrantOf(p) \in Grant
    BY <1>5 DEF Claims, Known, KnownBy, GrantOf, TypeOK
  <2>2. Issuer(p) \in Providers \cup {None} /\ GrantOf(p).acct \in Accounts
    BY <2>1 DEF Issuer, Grant, TypeOK, Request
  <2>3. PICK i, a : i = Issuer(p) /\ a = GrantOf(p).acct
    OBVIOUS
  <2>4. [req[p] EXCEPT !.pc = "store", !.iss = i, !.sub = a] \in Request
    BY <2>2, <2>3 DEF TypeOK, Request, Phases
  <2>5. req' = [req EXCEPT ![p] = [req[p] EXCEPT !.pc = "store", !.iss = i, !.sub = a]]
    BY <1>5, <2>3 DEF Claims, TypeOK, Request
  <2>6. req' \in [Requests -> Request]
    BY <2>4, <2>5 DEF TypeOK
  <2> QED
    BY <1>5, <2>6 DEF Claims, TypeOK
<1>6. ASSUME NEW p \in Requests, ExchangeLost(p) PROVE spent' \subseteq Codes
  BY <1>6 DEF ExchangeLost, Known, KnownBy, TypeOK
<1>7. ASSUME NEW p \in Requests, Store(p) PROVE TypeOK'
  <2> PICK c, s : /\ c = req[p].code
                  /\ s = [iss |-> req[p].iss, sub |-> req[p].sub,
                          prov |-> req[p].prov, nonce |-> req[p].nonce]
    OBVIOUS
  <2>1. c \in Codes /\ c = req[p].code /\ req[p].pc = "store" /\ KnownBy(p)
    BY <1>7 DEF Store, Known, KnownBy
  <2>2. grant[c] \in Grant /\ req[p].iss = grant[c].prov /\ req[p].sub = grant[c].acct
    BY <2>1 DEF KnownBy, GrantOf, TypeOK
  <2>3. s \in Session
    BY <2>1, <2>2 DEF KnownBy, Grant, Session, TypeOK, Request
  <2>4. Append(stored[c], s) \in Seq(Session)
    BY <2>1, <2>3, AppendType DEF TypeOK
  <2>5. stored' \in [Codes -> Seq(Session)]
    BY <1>7, <2>4 DEF Store, TypeOK
  <2> QED
    BY <1>7, <2>5 DEF Store, Finish, Idle, TypeOK, Request, Phases
<1> QED
  BY <1>1, <1>2, <1>3, <1>4, <1>5, <1>6, <1>7
  DEF Next, ExchangeLost, ExchangeRefused, ClaimsRefused, Fail, TypeOK

\* The providers forget neither what a code was granted for nor that it is
\* spent; the settings do not change while the service runs.
LEMMA Settled ==
    ASSUME TypeOK, Next
    PROVE  UNCHANGED <<config, grant>> /\ spent \subseteq spent'
  BY DEF Next, Begin, Exchange, ExchangeLost, ExchangeRefused, Profile, ProfileFailed, Claims,
     ClaimsRefused, Store, Fail

\* A handler that takes no step knows what it knew, unless another one stores a
\* session for its code.
LEMMA Bystander ==
    ASSUME TypeOK, Known, Next, NEW q \in Requests, req'[q] = req[q],
           Holding(q) => stored'[req[q].code] = stored[req[q].code]
    PROVE  KnownBy(q)' /\ (Holding(q)' <=> Holding(q))
  BY Settled
  DEF Known, KnownBy, Holding, Traded, GrantOf, OAuthClientId, NonceMatches, Verified

\* What a step of p leaves alone.
LEMMA OthersKnow ==
    ASSUME TypeOK, Known, Next, NEW p \in Requests, NEW m, req' = [req EXCEPT ![p] = m],
           \A q \in Requests \ {p} : Holding(q) => stored'[req[q].code] = stored[req[q].code],
           KnownBy(p)'
    PROVE  Known'
<1>1. ASSUME NEW q \in Requests, q # p PROVE KnownBy(q)'
  <2>1. req'[q] = req[q]
    BY <1>1 DEF TypeOK
  <2> QED
    BY <1>1, <2>1, Bystander
<1> QED
  BY <1>1 DEF Known

\* The claims that are accepted are those of the account behind the code, and
\* at Google and Apple they were verified.
LEMMA ClaimsRight ==
    ASSUME TypeOK, NEW p \in Requests, KnownBy(p), req[p].pc = "claims", Accepted(p)
    PROVE  Issuer(p) = GrantOf(p).prov /\ Verified(p)
<1>1. CASE HasIdToken(GrantOf(p))
  BY <1>1 DEF Issuer, Accepted, IdTokenValid, Verified
<1>2. CASE ~HasIdToken(GrantOf(p))
  <2>1. req[p].label \in {"facebook", "twitch"}
    BY <1>2 DEF Accepted, AccessTokenValid
  <2>2. req[p].label = req[p].prov
    BY <2>1, NoneAssumption DEF KnownBy, Providers
  <2> QED
    BY <1>2, <2>1, <2>2 DEF Issuer, KnownBy, Holding, Traded, Verified
<1> QED
  BY <1>1, <1>2

\* Every step leaves each handler with what its phase needs.
LEMMA KnownStep ==
    ASSUME TypeOK, Known, OneHolder, StoredOK, Next
    PROVE  Known'
<1>1. ASSUME NEW p \in Requests, Finish(p),
             \A q \in Requests \ {p} : Holding(q) => stored'[req[q].code] = stored[req[q].code]
      PROVE  Known'
  <2>1. KnownBy(p)'
    BY <1>1 DEF Finish, Idle, TypeOK, KnownBy, Holding
  <2> QED
    BY <1>1, <2>1, OthersKnow DEF Finish
<1>2. ASSUME NEW p \in Requests, NEW c \in Codes, NEW hint \in Providers \cup {None},
             NEW cid, NEW n \in Nonces \cup {None}, Begin(p, c, hint, cid, n)
      PROVE  Known'
  <2> PICK prov : prov = ResolveProvider(hint, cid)
    OBVIOUS
  <2> DEFINE m == [Idle EXCEPT !.pc = "exchange", !.code = c, !.prov = prov, !.nonce = n]
  <2>1. prov \in Providers
    BY <1>2, ResolveType DEF Begin
  <2>2. req' = [req EXCEPT ![p] = m] /\ UNCHANGED stored
    BY <1>2 DEF Begin
  <2>3. KnownBy(p)'
    BY <2>1, <2>2 DEF KnownBy, Holding, TypeOK, Idle
  <2> QED
    BY <2>2, <2>3, OthersKnow
<1>3. ASSUME NEW p \in Requests, Exchange(p) PROVE Known'
  <2>1. /\ req' = [req EXCEPT ![p] = [req[p] EXCEPT !.pc = req'[p].pc]]
        /\ req'[p].pc \in {"profile", "claims"} /\ UNCHANGED <<config, grant, stored>>
    BY <1>3 DEF Exchange, TypeOK, Request
  <2>2. /\ req'[p].code = req[p].code /\ req'[p].prov = req[p].prov
        /\ req'[p].label = req[p].label
    BY <2>1 DEF TypeOK, Request
  <2>3. req[p].code \in Codes /\ req[p].prov \in Providers /\ req[p].label \in {None, req[p].prov}
    BY <1>3 DEF Exchange, Known, KnownBy
  <2>4. stored[req[p].code] = <<>>
    BY <1>3, <2>3 DEF Exchange, Exchangeable, StoredOK, StoredBy
  <2>5. Traded(p)'
    BY <1>3, <2>1, <2>2, <2>4 DEF Exchange, Exchangeable, Traded, GrantOf, OAuthClientId
  <2>6. KnownBy(p)'
    BY <2>1, <2>2, <2>3, <2>5 DEF KnownBy
  <2> QED
    BY <2>1, <2>6, OthersKnow
<1>4. ASSUME NEW p \in Requests, Profile(p) \/ ProfileFailed(p) PROVE Known'
  <2>1. PICK l \in {req[p].label, req[p].prov} :
             req' = [req EXCEPT ![p] = [req[p] EXCEPT !.pc = "claims", !.label = l]]
    BY <1>4 DEF Profile, ProfileFailed, TypeOK, Request
  <2>2. UNCHANGED <<config, grant, spent, stored>> /\ req[p].pc = "profile"
    BY <1>4 DEF Profile, ProfileFailed
  <2>3. /\ req'[p].code = req[p].code /\ req'[p].prov = req[p].prov
        /\ req'[p].label = l /\ req'[p].pc = "claims"
    BY <2>1 DEF TypeOK, Request
  <2>4. KnownBy(p)'
    BY <2>1, <2>2, <2>3 DEF Known, KnownBy, Holding, Traded, GrantOf, OAuthClientId
  <2> QED
    BY <2>1, <2>2, <2>4, OthersKnow
<1>5. ASSUME NEW p \in Requests, Claims(p) PROVE Known'
  <2> DEFINE m == [req[p] EXCEPT !.pc = "store", !.iss = Issuer(p), !.sub = GrantOf(p).acct]
  <2>1. /\ req' = [req EXCEPT ![p] = m] /\ UNCHANGED <<config, grant, spent, stored>>
        /\ req[p].pc = "claims" /\ Accepted(p)
    BY <1>5 DEF Claims, TypeOK, Request
  <2>2. /\ req'[p].code = req[p].code /\ req'[p].prov = req[p].prov
        /\ req'[p].label = req[p].label /\ req'[p].nonce = req[p].nonce
        /\ req'[p].iss = Issuer(p) /\ req'[p].sub = GrantOf(p).acct
    BY <2>1 DEF TypeOK, Request
  <2>3. Issuer(p) = GrantOf(p).prov /\ KnownBy(p) /\ Verified(p) /\ NonceMatches(p)
    BY <2>1, ClaimsRight DEF Known, Accepted
  <2>4. KnownBy(p)'
    BY <2>1, <2>2, <2>3
    DEF KnownBy, Holding, Traded, GrantOf, OAuthClientId, NonceMatches, Verified
  <2> QED
    BY <2>1, <2>4, OthersKnow
<1>6. ASSUME NEW p \in Requests, Store(p), NEW q \in Requests \ {p}, Holding(q)
      PROVE  stored'[req[q].code] = stored[req[q].code]
  <2>1. req[q].code # req[p].code
    BY <1>6 DEF Store, OneHolder, Holding
  <2>2. req[q].code \in Codes
    BY <1>6 DEF Known, KnownBy, Holding
  <2> QED
    BY <1>6, <2>1, <2>2 DEF Store, TypeOK
<1> QED
  BY <1>1, <1>2, <1>3, <1>4, <1>5, <1>6
  DEF Next, ExchangeLost, ExchangeRefused, ClaimsRefused, Store, Fail

\* A provider trades a code once, so one handler holds its tokens.
LEMMA HolderStep ==
    ASSUME TypeOK, Known, OneHolder, Next
    PROVE  OneHolder'
<1>1. ASSUME \A q \in Requests :
                Holding(q)' => Holding(q) /\ req'[q].code = req[q].code
      PROVE  OneHolder'
  BY <1>1 DEF OneHolder
<1>2. ASSUME NEW p \in Requests, NEW m, req' = [req EXCEPT ![p] = m],
             \/ m.pc \in {"idle", "exchange"}
             \/ Holding(p) /\ m.code = req[p].code
      PROVE  OneHolder'
  <2>1. req'[p] = m /\ \A q \in Requests : q # p => req'[q] = req[q]
    BY <1>2 DEF TypeOK
  <2> QED
    BY <1>1, <1>2, <2>1 DEF Holding
<1>3. ASSUME NEW p \in Requests, Exchange(p) PROVE OneHolder'
  <2>1. \A q \in Requests : q # p => req'[q] = req[q]
    BY <1>3 DEF Exchange, TypeOK
  <2>2. req'[p].code = req[p].code /\ req[p].code \notin spent
    BY <1>3 DEF Exchange, Exchangeable, TypeOK, Request
  <2>3. \A q \in Requests : Holding(q) => req[q].code \in spent
    BY DEF Known, KnownBy, Traded
  <2> QED
    BY <2>1, <2>2, <2>3 DEF OneHolder, Holding
<1>4. ASSUME NEW p \in Requests, NEW c \in Codes, NEW hint \in Providers \cup {None},
             NEW cid, NEW n \in Nonces \cup {None}, Begin(p, c, hint, cid, n)
      PROVE  OneHolder'
  BY <1>2, <1>4 DEF Begin, Idle
<1>5. ASSUME NEW p \in Requests, Finish(p) PROVE OneHolder'
  BY <1>2, <1>5 DEF Finish, Idle
<1>6. ASSUME NEW p \in Requests, Profile(p) \/ ProfileFailed(p) \/ Claims(p) PROVE OneHolder'
  <2>1. /\ Holding(p) /\ req'[p].code = req[p].code
        /\ \A q \in Requests : q # p => req'[q] = req[q]
    BY <1>6 DEF Profile, ProfileFailed, Claims, Holding, TypeOK, Request
  <2> QED
    BY <1>1, <2>1 DEF Holding
<1> QED
  BY <1>3, <1>4, <1>5, <1>6 DEF Next, ExchangeLost, ExchangeRefused, ClaimsRefused, Store, Fail

\* What is stored for a code is the session it was granted for.
LEMMA StoredStep ==
    ASSUME TypeOK, Known, StoredOK, Next
    PROVE  StoredOK'
<1>1. ASSUME NEW c \in Codes, stored'[c] = stored[c] PROVE StoredBy(c)'
  BY <1>1, Settled DEF StoredOK, StoredBy, Rightful, OAuthClientId
<1>2. ASSUME NEW p \in Requests, Store(p) PROVE StoredOK'
  <2> PICK c, s : /\ c = req[p].code
                  /\ s = [iss |-> req[p].iss, sub |-> req[p].sub,
                          prov |-> req[p].prov, nonce |-> req[p].nonce]
    OBVIOUS
  <2>1. /\ c \in Codes /\ grant[c] \in Grant /\ stored[c] = <<>> /\ c \in spent
        /\ req[p].iss = grant[c].prov /\ req[p].sub = grant[c].acct
        /\ req[p].prov = grant[c].prov /\ grant[c].app = OAuthClientId(req[p].prov)
        /\ Verified(p) /\ NonceMatches(p)
    BY <1>2 DEF Store, Known, KnownBy, Holding, Traded, GrantOf, TypeOK
  <2>2. s \in Session
    BY <2>1 DEF Grant, Session, TypeOK, Request
  <2>3. stored'[c] = <<s>>
    BY <1>2, <2>1, AppendFirst DEF Store, TypeOK
  <2>4. Rightful(s, c)
    BY <2>1 DEF Rightful, Verified, NonceMatches, GrantOf
  <2>5. Rightful(s, c)' /\ c \in spent'
    BY <2>1, <2>4, Settled DEF Rightful, OAuthClientId
  <2>6. StoredBy(c)'
    BY <2>2, <2>3, <2>5 DEF StoredBy
  <2>7. \A d \in Codes : d # c => stored'[d] = stored[d]
    BY <1>2 DEF Store, TypeOK
  <2> QED
    BY <1>1, <2>6, <2>7 DEF StoredOK
<1>3. ASSUME UNCHANGED stored PROVE StoredOK'
  BY <1>1, <1>3 DEF StoredOK
<1> QED
  BY <1>2, <1>3 DEF Next, Begin, Exchange, ExchangeLost, ExchangeRefused, Profile, ProfileFailed,
     Claims, ClaimsRefused, Fail

\* The invariant holds at first, is kept by every step, and so holds always.
THEOREM Invariance == Spec => []IInv
<1>1. Init => IInv
  <2> SUFFICES ASSUME Init PROVE IInv
    OBVIOUS
  <2>1. TypeOK
    BY GrantAssumption, ConfigAssumption DEF Init, TypeOK, Request, Phases, Idle
  <2>2. Known /\ OneHolder
    BY DEF Init, Known, KnownBy, OneHolder, Holding, Idle
  <2>3. StoredOK
    BY DEF Init, StoredOK, StoredBy
  <2> QED
    BY <2>1, <2>2, <2>3 DEF IInv
<1>2. IInv /\ [Next]_vars => IInv'
  <2> SUFFICES ASSUME IInv, [Next]_vars PROVE IInv'
    OBVIOUS
  <2> USE DEF IInv
  <2>1. CASE Next
    BY <2>1, TypeStep, KnownStep, HolderStep, StoredStep
  <2>2. CASE UNCHANGED vars
    <3> USE <2>2 DEF vars
    <3>1. TypeOK' /\ OneHolder'
      BY DEF TypeOK, OneHolder, Holding
    <3>2. Known'
      BY DEF Known, KnownBy, Holding, Traded, GrantOf, OAuthClientId, NonceMatches, Verified
    <3>3. StoredOK'
      BY DEF StoredOK, StoredBy, Rightful, OAuthClientId
    <3> QED
      BY <3>1, <3>2, <3>3
  <2> QED
    BY <2>1, <2>2
<1> QED
  BY <1>1, <1>2, PTL DEF Spec

-----------------------------------------------------------------------------

\* The sessions of a code are rightful.
LEMMA SessionsRightful ==
    ASSUME IInv, NEW c \in Codes, NEW s \in SessionsOf(c)
    PROVE  Rightful(s, c)
<1>1. PICK i \in DOMAIN stored[c] : s = stored[c][i]
  BY DEF SessionsOf
<1>2. CASE stored[c] = <<>>
  BY <1>1, <1>2
<1>3. CASE \E t \in Session : stored[c] = <<t>> /\ Rightful(t, c)
  BY <1>1, <1>3
<1> QED
  BY <1>2, <1>3 DEF IInv, StoredOK, StoredBy

\* Every variable has its type.
THEOREM TypeAlways == Spec => []TypeOK
  BY Invariance, PTL DEF IInv

\* No hint, client id, failed profile call or overlap makes a session that names
\* another provider or account than the one behind the code, or for another
\* application, or at Google and Apple unverified or for another nonce.
THEOREM VouchedForAlways == Spec => []VouchedFor
<1>1. IInv => VouchedFor
  BY SessionsRightful DEF VouchedFor, Rightful
<1> QED
  BY <1>1, Invariance, PTL

\* Accounts of two providers never share a user, one account never has two.
THEOREM OneUserPerAccountAlways == Spec => []OneUserPerAccount
<1>1. IInv => OneUserPerAccount
  BY SessionsRightful DEF OneUserPerAccount, Rightful
<1> QED
  BY <1>1, Invariance, PTL

\* However often and by however many handlers a code is sent, it makes one
\* session at most.
THEOREM OneSessionPerCodeAlways == Spec => []OneSessionPerCode
<1>1. IInv => OneSessionPerCode
  <2> SUFFICES ASSUME IInv, NEW c \in Codes
               PROVE  Len(stored[c]) <= 1 /\ (stored[c] # <<>> => c \in spent)
    BY DEF OneSessionPerCode
  <2>1. CASE stored[c] = <<>>
    BY <2>1
  <2>2. ASSUME NEW s, stored[c] = <<s>>, c \in spent
        PROVE  Len(stored[c]) <= 1 /\ (stored[c] # <<>> => c \in spent)
    BY <2>2
  <2> QED
    BY <2>1, <2>2 DEF IInv, StoredOK, StoredBy
<1> QED
  BY <1>1, Invariance, PTL

\* The service's checks turn a login away after its code was spent only for the
\* causes that RefusedForCause lists, an ID token that does not verify included.
THEOREM RefusedForCauseAlways == Spec => RefusedForCause
<1> DEFINE Cause(p) ==
        \/ ~Ready(req[p].prov)
        \/ /\ req[p].prov \in {"google", "apple"}
           /\ \/ req[p].nonce = None \/ req[p].nonce # GrantOf(p).nonce
              \/ ~GrantOf(p).verifies
        \/ req[p].prov \in {"facebook", "twitch"} /\ req[p].label = None
        \/ req[p].prov = "google" /\ ~GrantOf(p).openid
        \/ req[p].prov = "twitch" /\ GrantOf(p).openid
<1>1. ASSUME IInv, NEW p \in Requests, ClaimsRefused(p) PROVE Cause(p)
  <2> PICK prov, g : prov = req[p].prov /\ g = GrantOf(p)
    OBVIOUS
  <2>1. /\ prov \in Providers /\ g.prov = prov /\ g.app = OAuthClientId(prov)
        /\ req[p].label \in {None, prov} /\ ~Accepted(p)
    BY <1>1 DEF ClaimsRefused, IInv, Known, KnownBy, Holding, Traded
  <2> SUFFICES ASSUME ~Cause(p) PROVE FALSE
    OBVIOUS
  <2>2. Ready(prov) /\ g.app = config[prov].aud
    BY <2>1 DEF Ready, OAuthClientId
  <2>3. CASE prov \in {"google", "apple"}
    BY <2>1, <2>2, <2>3 DEF Accepted, HasIdToken, IdTokenValid, NonceMatches
  <2>4. CASE prov \in {"facebook", "twitch"}
    BY <2>1, <2>2, <2>4
    DEF Accepted, HasIdToken, AccessTokenValid, FacebookTokenValid, TwitchAnswers, NonceMatches,
        Ready
  <2> QED
    BY <2>1, <2>3, <2>4 DEF Providers
<1>2. IInv => \A p \in Requests : ClaimsRefused(p) => Cause(p)
  BY <1>1
<1> QED
  BY <1>2, Invariance, PTL DEF RefusedForCause
=============================================================================
