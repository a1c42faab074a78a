---------------------- MODULE RefreshSessionsRefinement ----------------------
(***************************************************************************)
(* The refresh-session store implements SessionChains, for any number of   *)
(* users, tokens, requests and clock ticks.                                *)
(***************************************************************************)
EXTENDS RefreshSessionsProofs

\* The usable token of chain c, and the abstract chain in terms of its login.
Current(c) == IF LiveToken(c) = {} THEN None
              ELSE CHOOSE t \in LiveToken(c) : TRUE

IsLogin(c) == origin[c] # None /\ origin[c].parent = None

View(c) == IF IsLogin(c)
           THEN [token |-> Current(c), user |-> origin[c].user,
                 expires |-> origin[c].expires]
           ELSE None

\* The usable token of a chain is its only one.
CurrentFacts ==
    /\ \A t \in Tokens : Live(t) => /\ IsLogin(origin[t].chain)
                                    /\ origin[t].chain \in Tokens
                                    /\ Current(origin[t].chain) = t
    /\ \A c \in Tokens : Current(c) # None =>
          /\ Current(c) \in Tokens
          /\ Live(Current(c))
          /\ origin[Current(c)].chain = c

LEMMA CurrentUnique == Inv => CurrentFacts
<1> SUFFICES ASSUME Inv PROVE CurrentFacts
  OBVIOUS
<1> USE NoneAssumption DEF Inv, TypeOK, OnlyStored, Lineage, Origin
<1>1. ASSUME NEW t \in Tokens, Live(t)
      PROVE  /\ IsLogin(origin[t].chain) /\ origin[t].chain \in Tokens
             /\ Current(origin[t].chain) = t
  <2>1. origin[t] # None /\ origin[t].chain \in Tokens
    BY <1>1
  <2>2. LiveToken(origin[t].chain) = {t}
    BY <1>1 DEF LiveToken, OneLivePerChain
  <2> QED
    BY <2>1, <2>2 DEF Current, IsLogin
<1>2. ASSUME NEW c \in Tokens, Current(c) # None
      PROVE  Current(c) \in LiveToken(c)
  BY <1>2 DEF Current
<1> QED
  BY <1>1, <1>2 DEF CurrentFacts, LiveToken

\* The row of a chain's usable token tells what the login fixed, so the
\* refinement mapping agrees with View.
ViewFacts == \A c \in Tokens : ChainOf(c) = View(c)

LEMMA ChainView == Inv => ViewFacts
<1> SUFFICES ASSUME Inv, NEW c \in Tokens PROVE ChainOf(c) = View(c)
  BY DEF ViewFacts
<1>1. CASE ~IsLogin(c)
  BY <1>1 DEF ChainOf, View, IsLogin
<1>2. CASE IsLogin(c) /\ LiveToken(c) = {}
  BY <1>2 DEF ChainOf, View, IsLogin, Current
<1>3. CASE IsLogin(c) /\ LiveToken(c) # {}
  <2> DEFINE t == CHOOSE t \in LiveToken(c) : TRUE
  <2>1. t \in Tokens /\ Live(t) /\ origin[t].chain = c
    BY <1>3 DEF LiveToken
  <2>2. sessions[t].user = origin[c].user /\ sessions[t].expires = origin[c].expires
    BY <2>1 DEF Inv, ChainFacts, OnlyStored
  <2> QED
    BY <1>3, <2>2 DEF ChainOf, View, IsLogin, Current
<1> QED
  BY <1>1, <1>2, <1>3

\* Both, after a step.
LEMMA PrimedFacts == Inv' => CurrentFacts' /\ ViewFacts'
  BY CurrentUnique, ChainView, PTL

Abstract == [c \in Tokens |-> ChainOf(c)]
Issued   == {t \in Tokens : origin[t] # None}

\* A step that only ends the chains in S is Close(S).
LEMMA CloseStep ==
    ASSUME Inv, Inv', UNCHANGED origin, NEW S \in SUBSET Tokens,
           \A c \in S : IsLogin(c),
           \A t \in Tokens :
              IF Live(t) /\ origin[t].chain \in S THEN ~Live(t)'
              ELSE Live(t)' <=> Live(t)
    PROVE  Chains!Close(S)
<1> USE NoneAssumption DEF CurrentFacts, ViewFacts
<1>1. CurrentFacts /\ CurrentFacts' /\ ViewFacts /\ ViewFacts'
  BY CurrentUnique, ChainView, PrimedFacts
<1>2. ASSUME NEW c \in Tokens PROVE IsLogin(c)' <=> IsLogin(c)
  BY DEF IsLogin
<1>3. ASSUME NEW c \in S PROVE Current(c)' = None
  <2>1. LiveToken(c)' = {}
    BY DEF LiveToken
  <2> QED
    BY <2>1 DEF Current
<1>4. ASSUME NEW c \in Tokens \ S PROVE Current(c)' = Current(c)
  <2>1. LiveToken(c)' = LiveToken(c)
    BY <1>4 DEF LiveToken
  <2> QED
    BY <2>1 DEF Current
<1>5. \A c \in S : ChainOf(c) # None
  <2>1. ASSUME NEW c \in S PROVE View(c) # None
    <3>1. origin[c] \in Origin /\ Current(c) \in Tokens \cup {None}
      BY <1>1 DEF IsLogin, Inv, TypeOK
    <3> QED
      BY <3>1, RecordAssumption DEF View, IsLogin, Origin
  <2> QED
    BY <1>1, <2>1
<1>6. ASSUME NEW c \in Tokens
      PROVE  ChainOf(c)' = IF c \in S
               THEN [token |-> None, user |-> ChainOf(c).user,
                     expires |-> ChainOf(c).expires]
               ELSE ChainOf(c)
  BY <1>1, <1>2, <1>3, <1>4 DEF View
<1> QED
  BY <1>5, <1>6 DEF Chains!Close, Chains!With

\* A login opens a chain ...
LEMMA OpenStep ==
    ASSUME Inv, Inv', NEW p \in Requests, NEW t \in Tokens, NEW u \in Users,
           NEW a \in Addresses, StoreSession(p, t, u, a)
    PROVE  \E e \in Expiries : Chains!Open(t, u, e)
<1>1. CurrentFacts /\ CurrentFacts' /\ ViewFacts /\ ViewFacts'
  BY CurrentUnique, ChainView, PrimedFacts
<1>e. PICK e \in Expiries : e = now + TTL
  BY TimeAssumption DEF Inv, TypeOK, Expiries
<1> DEFINE src == [chain |-> t, parent |-> None, user |-> u, expires |-> e]
<1>2. origin[t] = None /\ origin' = [origin EXCEPT ![t] = src]
  BY <1>e DEF StoreSession, Fresh
<1>3. src # None
  BY <1>2, RecordAssumption DEF Origin
<1>4. \A s \in Tokens : Live(s)' <=> Live(s) \/ s = t
  BY <1>e, RecordAssumption DEF StoreSession, Live, Inv, TypeOK, Session
<1> USE DEF Inv, TypeOK
<1>5. IsLogin(t)' /\ Current(t)' = t
  <2>1. origin'[t] = src /\ src.chain = t /\ src.parent = None
    BY <1>2
  <2> HIDE DEF src
  <2> QED
    BY <1>1, <1>3, <1>4, <2>1 DEF CurrentFacts, IsLogin
<1>6. ASSUME NEW c \in Tokens \ {t} PROVE View(c)' = View(c)
  <2>1. origin'[c] = origin[c]
    BY <1>2
  <2>2. LiveToken(c)' = LiveToken(c)
    BY <1>2, <1>4 DEF LiveToken, OnlyStored
  <2> QED
    BY <2>1, <2>2 DEF View, IsLogin, Current
<1>7. View(t)' = [token |-> t, user |-> u, expires |-> e]
  BY <1>2, <1>5 DEF View
<1>8. Issued' = Issued \cup {t}
  BY <1>2, <1>3 DEF Issued
<1>9. ASSUME NEW c \in Tokens
      PROVE  ChainOf(c)' = IF c = t
               THEN [token |-> t, user |-> u, expires |-> e]
               ELSE ChainOf(c)
  BY <1>1, <1>6, <1>7 DEF ViewFacts
<1>10. Chains!Open(t, u, e)
  BY <1>2, <1>8, <1>9 DEF Chains!Open, Issued
<1> QED
  BY <1>10

\* ... a rotation advances it ...
LEMMA AdvanceStep ==
    ASSUME Inv, Inv', NEW p \in Procs, RotateCommit(p)
    PROVE  \E c, t \in Tokens : Chains!Advance(c, t)
<1>1. CurrentFacts /\ CurrentFacts' /\ ViewFacts /\ ViewFacts'
  BY CurrentUnique, ChainView, PrimedFacts
<1> USE DEF Inv, TypeOK
<1>a. PICK old \in Tokens, new \in Tokens, c0 \in Tokens :
        old = req[p].token /\ new = req[p].next /\ c0 = origin[old].chain
  BY NoneAssumption
     DEF RotateCommit, PhaseOK, LocksHold, OnlyStored, Origin
<1> DEFINE src == [chain |-> c0, parent |-> old,
                   user |-> origin[old].user, expires |-> origin[old].expires]
<1>2. /\ old # new
      /\ Live(old) /\ origin[old] # None /\ origin[new] = None /\ ~Live(new)
      /\ req[p].row = sessions[old]
  BY <1>a DEF RotateCommit, LocksHold, ReplacementsFresh, OnlyStored
<1>3. /\ origin' = [origin EXCEPT ![new] = src]
      /\ sessions' = [sessions EXCEPT ![old] = None, ![new] = sessions[old]]
  BY <1>2, <1>a DEF RotateCommit
<1>4. src # None /\ src.parent = old /\ src.chain = c0
  BY <1>2, RecordAssumption DEF Origin
<1>5. IsLogin(c0) /\ c0 # new /\ old # None /\ Current(c0) = old
  BY <1>1, <1>2, <1>a, NoneAssumption DEF CurrentFacts, IsLogin
<1> HIDE DEF src
<1>6. \A s \in Tokens : Live(s)' <=> (Live(s) /\ s # old) \/ s = new
  BY <1>2, <1>3 DEF Live
<1>7. IsLogin(c0)' /\ Current(c0)' = new
  <2>1. origin'[new] = src /\ Live(new)'
    BY <1>3, <1>6
  <2> QED
    BY <1>1, <1>4, <2>1 DEF CurrentFacts
<1>8. View(c0)' = [token |-> new, user |-> View(c0).user,
                   expires |-> View(c0).expires]
  <2>1. origin'[c0] = origin[c0]
    BY <1>3, <1>5
  <2> QED
    BY <1>5, <1>7, <2>1 DEF View
<1>9. ASSUME NEW c \in Tokens \ {c0} PROVE View(c)' = View(c)
  <2>1. LiveToken(c)' = LiveToken(c)
    BY <1>2, <1>3, <1>4, <1>6, <1>a DEF LiveToken
  <2>2. IsLogin(c)' <=> IsLogin(c)
    BY <1>2, <1>3, <1>4, NoneAssumption DEF IsLogin
  <2>3. IsLogin(c) => origin'[c] = origin[c]
    BY <1>2, <1>3 DEF IsLogin
  <2> QED
    BY <2>1, <2>2, <2>3 DEF View, Current
<1>10. View(c0) # None /\ View(c0).token # None
  <2>1. View(c0) = [token |-> old, user |-> origin[c0].user,
                    expires |-> origin[c0].expires]
    BY <1>5 DEF View
  <2>2. origin[c0] \in Origin
    BY <1>5 DEF IsLogin
  <2> QED
    BY <1>2, <1>5, <2>1, <2>2, RecordAssumption DEF Origin
<1>11. Issued' = Issued \cup {new}
  BY <1>2, <1>3, <1>4 DEF Issued
<1>12. ASSUME NEW c \in Tokens
       PROVE  ChainOf(c)' = IF c = c0
                THEN [token |-> new, user |-> ChainOf(c0).user,
                      expires |-> ChainOf(c0).expires]
                ELSE ChainOf(c)
  BY <1>1, <1>8, <1>9 DEF ViewFacts
<1>13. ChainOf(c0) # None /\ ChainOf(c0).token # None
  BY <1>1, <1>10 DEF ViewFacts
<1>14. Chains!Advance(c0, new)
  BY <1>2, <1>11, <1>12, <1>13
     DEF Chains!Advance, Chains!With, Chains!Closed, Issued
<1> QED
  BY <1>14

\* ... and whatever deletes rows closes the chains they belong to.
LEMMA StepMaps ==
    ASSUME Inv, Inv', [Next]_vars
    PROVE  Chains!Next \/ UNCHANGED <<Abstract, Issued>>
<1> USE DEF Inv, TypeOK
<1>1. ASSUME NEW p \in Requests, NEW t \in Tokens, NEW u \in Users,
             NEW a \in Addresses, StoreSession(p, t, u, a)
      PROVE  Chains!Next
  BY <1>1, OpenStep DEF Chains!Next
<1>2. ASSUME NEW p \in Procs, RotateCommit(p) PROVE Chains!Next
  BY <1>2, AdvanceStep DEF Chains!Next
<1>3. ASSUME NEW p \in Procs, RevokeCommit(p) PROVE Chains!Next
  <2> PICK S : S = {origin[req[p].token].chain}
    OBVIOUS
  <2>1. /\ req[p].token \in Tokens /\ Live(req[p].token)
        /\ origin[req[p].token] # None
    BY <1>3 DEF RevokeCommit, PhaseOK, LocksHold, OnlyStored
  <2>2. S \in SUBSET Tokens /\ \A c \in S : IsLogin(c)
    BY <2>1, CurrentUnique DEF CurrentFacts
  <2>3. UNCHANGED origin /\ \A t \in Tokens :
          IF Live(t) /\ origin[t].chain \in S THEN ~Live(t)'
          ELSE Live(t)' <=> Live(t)
    BY <1>3, <2>1 DEF RevokeCommit, Live, OneLivePerChain
  <2>4. Chains!Close(S)
    BY <2>2, <2>3, CloseStep
  <2> QED
    BY <2>2, <2>4 DEF Chains!Next
<1>4. ASSUME NEW p \in Procs, DeleteEnd(p) PROVE Chains!Next
  <2> PICK S : S = {origin[t].chain : t \in {s \in req[p].snap : Live(s)}}
    OBVIOUS
  <2>1. req[p].snap \subseteq Tokens
    BY DEF Request
  <2>2. S \in SUBSET Tokens /\ \A c \in S : IsLogin(c)
    BY <2>1, CurrentUnique DEF CurrentFacts
  <2>3. UNCHANGED origin /\ \A t \in Tokens :
          IF Live(t) /\ origin[t].chain \in S THEN ~Live(t)'
          ELSE Live(t)' <=> Live(t)
    BY <1>4, <2>1 DEF DeleteEnd, Live, OneLivePerChain
  <2>4. Chains!Close(S)
    BY <2>2, <2>3, CloseStep
  <2> QED
    BY <2>2, <2>4 DEF Chains!Next
<1>5. ASSUME NEW p \in Procs, AttachEnd(p)
      PROVE  UNCHANGED <<Abstract, Issued>>
  <2>1. UNCHANGED origin /\ \A t \in Tokens : Live(t)' <=> Live(t)
    BY <1>5, RecordAssumption, NoneAssumption
       DEF AttachEnd, history, Live, Session, PhaseOK
  <2>2. ASSUME NEW c \in Tokens PROVE ChainOf(c)' = ChainOf(c)
    <3>1. LiveToken(c)' = LiveToken(c)
      BY <2>1 DEF LiveToken
    <3>2. View(c)' = View(c)
      BY <2>1, <3>1 DEF View, IsLogin, Current
    <3> QED
      BY <3>2, ChainView, PrimedFacts DEF ViewFacts
  <2> QED
    BY <2>1, <2>2 DEF Abstract, Issued
<1>6. CASE UNCHANGED <<sessions, revoked, origin>>
  BY <1>6 DEF Abstract, Issued, ChainOf, LiveToken, Live
<1> QED
  BY <1>1, <1>2, <1>3, <1>4, <1>5, <1>6, Writers

LEMMA InitMaps == Init => Chains!Init
  BY DEF Init, Chains!Init, ChainOf

\* Every behaviour of the store, its locks, transactions, snapshots and
\* failures hidden, is one of the abstract chains.
THEOREM Refinement == Spec => ImplementsChains
<1>1. Inv /\ Inv' /\ [Next]_vars
        => Chains!Next \/ UNCHANGED <<Abstract, Issued>>
  BY StepMaps
<1>2. Inv /\ Inv' /\ [Next]_vars => [Chains!Next]_<<Abstract, Issued>>
  BY <1>1
<1> QED
  BY <1>2, InitMaps, Invariance, PTL
     DEF Spec, ImplementsChains, Chains!Spec, Abstract, Issued
=============================================================================
