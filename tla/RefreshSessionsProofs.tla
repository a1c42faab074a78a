------------------------ MODULE RefreshSessionsProofs ------------------------
(***************************************************************************)
(* Proofs about RefreshSessions, for any number of users, tokens, requests *)
(* and clock ticks.                                                        *)
(***************************************************************************)
EXTENDS RefreshSessions, TLAPS

\* A process that remembers nothing is well formed, and its phase is no other.
LEMMA IdleFacts == Idle \in Request /\ PhaseOK(Idle) /\ Idle.pc = "idle"
                   /\ Idle.token = None /\ Idle.next = None /\ Idle.snap = {}
  BY TimeAssumption DEF Idle, Memory, Request, Phases, PhaseOK

\* The types of all variables survive every step.
LEMMA TypeStep ==
    ASSUME TypeOK, OnlyStored, [Next]_vars
    PROVE  TypeOK'
<1> USE IdleFacts, NoneAssumption, RecordAssumption, TimeAssumption
        DEF TypeOK, tables, history, Memory, Presents, Rotates, Revokes,
            Deletes, Attaches, Answers, Procs
<1>1. ASSUME NEW p \in Requests, Arrive(p) PROVE TypeOK'
  <2>1. CASE \E t \in Tokens, u \in Users, a \in Addresses :
               StoreSession(p, t, u, a)
    BY <2>1 DEF StoreSession, Session, Origin, Expiries, Request, Phases,
                PhaseOK
  <2>2. CASE \E t \in Tokens : RefreshBegin(p, t) \/ LogoutBegin(p, t)
    BY <2>2 DEF RefreshBegin, LogoutBegin, Request, Phases, PhaseOK
  <2>3. CASE \E u \in Users, a \in Addresses : AttachBegin(p, u, a)
    BY <2>3 DEF AttachBegin, Request, Phases, PhaseOK
  <2> QED
    BY <1>1, <2>1, <2>2, <2>3 DEF Arrive
<1>2. ASSUME NEW p \in Procs, Step(p) PROVE TypeOK'
  <2>1. CASE Respond(p)
    BY <2>1 DEF Respond, PhaseOK
  <2>2. CASE RefreshReused(p)
    BY <2>2 DEF RefreshReused, Request, Phases, PhaseOK
  <2>3. CASE RefreshGenerateFails(p) \/ RotateMiss(p)
    BY <2>3 DEF RefreshGenerateFails, RotateMiss
  <2>4. CASE \E t \in Tokens : RefreshGenerate(p, t)
    BY <2>4 DEF RefreshGenerate, Request, Phases, PhaseOK
  <2>5. CASE RotateBegin(p)
    BY <2>5 DEF RotateBegin, Request, Phases, PhaseOK
  <2>6. CASE RotateLock(p)
    BY <2>6 DEF RotateLock, Rotatable, Live, Request, Phases, PhaseOK
  <2>7. CASE RotateCommit(p)
    BY <2>7 DEF RotateCommit, OnlyStored, Session, Origin, Request, Phases,
                PhaseOK
  <2>8. CASE PurgeBegin(p)
    BY <2>8 DEF PurgeBegin, Request, Phases, PhaseOK
  <2>9. CASE DeleteEnd(p)
    BY <2>9 DEF DeleteEnd, OnlyStored, Origin, Request
  <2>10. CASE RevokeMiss(p)
    BY <2>10 DEF RevokeMiss, PhaseOK
  <2>11. CASE RevokeLock(p)
    BY <2>11 DEF RevokeLock, Live, Request, Phases, PhaseOK
  <2>12. CASE RevokeCommit(p)
    BY <2>12 DEF RevokeCommit, Session, PhaseOK
  <2>13. CASE AttachEnd(p)
    BY <2>13 DEF AttachEnd, Live, Session, PhaseOK
  <2> QED
    BY <1>2, <2>1, <2>2, <2>3, <2>4, <2>5, <2>6, <2>7, <2>8, <2>9, <2>10,
       <2>11, <2>12, <2>13 DEF Step
<1>3. ASSUME NEW p \in Procs, Abort(p) PROVE TypeOK'
  BY <1>3 DEF Abort
<1>4. CASE CleanupBegin
  BY <1>4 DEF CleanupBegin, Request, Phases, PhaseOK
<1>5. CASE Tick
  BY <1>5 DEF Tick
<1>6. CASE UNCHANGED vars
  BY <1>6 DEF vars
<1> QED
  BY <1>1, <1>2, <1>3, <1>4, <1>5, <1>6 DEF Next

\* A lock is held from the read of the row to the end of the transaction, and
\* nobody else writes the row in between.
LEMMA LocksStep ==
    ASSUME TypeOK, LocksHold, ReplacementsFresh, OnlyStored, [Next]_vars
    PROVE  LocksHold'
<1> USE IdleFacts, NoneAssumption, CleanerAssumption
        DEF tables, history, Memory, Presents, Rotates, Revokes,
            Deletes, Attaches, Answers, Procs, TypeOK, PhaseOK, Request, Live,
            LocksHold, ReplacementsFresh, OnlyStored
<1>1. ASSUME NEW p \in Requests, Arrive(p) PROVE LocksHold'
  <2>1. CASE \E t \in Tokens, u \in Users, a \in Addresses :
               StoreSession(p, t, u, a)
    BY <2>1 DEF StoreSession, Fresh
  <2>2. CASE \E t \in Tokens : RefreshBegin(p, t) \/ LogoutBegin(p, t)
    BY <2>2 DEF RefreshBegin, LogoutBegin
  <2>3. CASE \E u \in Users, a \in Addresses : AttachBegin(p, u, a)
    BY <2>3 DEF AttachBegin
  <2> QED
    BY <1>1, <2>1, <2>2, <2>3 DEF Arrive
<1>2. ASSUME NEW p \in Procs, Step(p) PROVE LocksHold'
  <2>1. CASE Respond(p)
    BY <2>1 DEF Respond
  <2>2. CASE RefreshReused(p)
    BY <2>2 DEF RefreshReused
  <2>3. CASE RefreshGenerateFails(p) \/ RotateMiss(p)
    BY <2>3 DEF RefreshGenerateFails, RotateMiss
  <2>4. CASE \E t \in Tokens : RefreshGenerate(p, t)
    BY <2>4 DEF RefreshGenerate, Fresh
  <2>5. CASE RotateBegin(p)
    BY <2>5 DEF RotateBegin
  <2>6. CASE RotateLock(p)
    BY <2>6 DEF RotateLock, Rotatable
  <2>7. CASE RotateCommit(p)
    BY <2>7 DEF RotateCommit
  <2>8. CASE PurgeBegin(p)
    BY <2>8 DEF PurgeBegin
  <2>9. CASE DeleteEnd(p)
    BY <2>9 DEF DeleteEnd, Unlocked
  <2>10. CASE RevokeMiss(p)
    BY <2>10 DEF RevokeMiss
  <2>11. CASE RevokeLock(p)
    BY <2>11 DEF RevokeLock
  <2>12. CASE RevokeCommit(p)
    BY <2>12 DEF RevokeCommit
  <2>13. CASE AttachEnd(p)
    BY <2>13 DEF AttachEnd, Unlocked
  <2> QED
    BY <1>2, <2>1, <2>2, <2>3, <2>4, <2>5, <2>6, <2>7, <2>8, <2>9, <2>10,
       <2>11, <2>12, <2>13 DEF Step
<1>3. ASSUME NEW p \in Procs, Abort(p) PROVE LocksHold'
  BY <1>3 DEF Abort
<1>4. CASE CleanupBegin
  BY <1>4 DEF CleanupBegin
<1>5. CASE Tick
  BY <1>5 DEF Tick
<1>6. CASE UNCHANGED vars
  BY <1>6 DEF vars
<1> QED
  BY <1>1, <1>2, <1>3, <1>4, <1>5, <1>6 DEF Next

\* A generated replacement stays unused until its own rotation stores it.
LEMMA FreshStep ==
    ASSUME TypeOK, ReplacementsFresh, [Next]_vars
    PROVE  ReplacementsFresh'
<1> USE IdleFacts, NoneAssumption, CleanerAssumption
        DEF tables, history, Memory, Presents, Rotates, Revokes,
            Deletes, Attaches, Answers, Procs, TypeOK, PhaseOK, Request, Live,
            ReplacementsFresh
<1>1. ASSUME NEW p \in Requests, Arrive(p) PROVE ReplacementsFresh'
  <2>1. CASE \E t \in Tokens, u \in Users, a \in Addresses :
               StoreSession(p, t, u, a)
    BY <2>1 DEF StoreSession, Fresh
  <2>2. CASE \E t \in Tokens : RefreshBegin(p, t) \/ LogoutBegin(p, t)
    BY <2>2 DEF RefreshBegin, LogoutBegin
  <2>3. CASE \E u \in Users, a \in Addresses : AttachBegin(p, u, a)
    BY <2>3 DEF AttachBegin
  <2> QED
    BY <1>1, <2>1, <2>2, <2>3 DEF Arrive
<1>2. ASSUME NEW p \in Procs, Step(p) PROVE ReplacementsFresh'
  <2>1. CASE Respond(p)
    BY <2>1 DEF Respond
  <2>2. CASE RefreshReused(p)
    BY <2>2 DEF RefreshReused
  <2>3. CASE RefreshGenerateFails(p) \/ RotateMiss(p)
    BY <2>3 DEF RefreshGenerateFails, RotateMiss
  <2>4. CASE \E t \in Tokens : RefreshGenerate(p, t)
    BY <2>4 DEF RefreshGenerate, Fresh
  <2>5. CASE RotateBegin(p)
    BY <2>5 DEF RotateBegin
  <2>6. CASE RotateLock(p)
    BY <2>6 DEF RotateLock, Rotatable
  <2>7. CASE RotateCommit(p)
    BY <2>7 DEF RotateCommit
  <2>8. CASE PurgeBegin(p)
    BY <2>8 DEF PurgeBegin
  <2>9. CASE DeleteEnd(p)
    BY <2>9 DEF DeleteEnd, Unlocked
  <2>10. CASE RevokeMiss(p)
    BY <2>10 DEF RevokeMiss
  <2>11. CASE RevokeLock(p)
    BY <2>11 DEF RevokeLock
  <2>12. CASE RevokeCommit(p)
    BY <2>12 DEF RevokeCommit
  <2>13. CASE AttachEnd(p)
    BY <2>13 DEF AttachEnd, Unlocked
  <2> QED
    BY <1>2, <2>1, <2>2, <2>3, <2>4, <2>5, <2>6, <2>7, <2>8, <2>9, <2>10,
       <2>11, <2>12, <2>13 DEF Step
<1>3. ASSUME NEW p \in Procs, Abort(p) PROVE ReplacementsFresh'
  BY <1>3 DEF Abort
<1>4. CASE CleanupBegin
  BY <1>4 DEF CleanupBegin
<1>5. CASE Tick
  BY <1>5 DEF Tick
<1>6. CASE UNCHANGED vars
  BY <1>6 DEF vars
<1> QED
  BY <1>1, <1>2, <1>3, <1>4, <1>5, <1>6 DEF Next

\* Clients, requests and tables name stored tokens only.
LEMMA StoredStep ==
    ASSUME TypeOK, OnlyStored, LocksHold, [Next]_vars
    PROVE  OnlyStored'
<1> USE IdleFacts, NoneAssumption, CleanerAssumption
        DEF tables, history, Memory, Presents, Rotates, Revokes,
            Deletes, Attaches, Answers, Procs, TypeOK, PhaseOK, Request, Live,
            OnlyStored, LocksHold
<1>1. ASSUME NEW p \in Requests, Arrive(p) PROVE OnlyStored'
  <2>1. CASE \E t \in Tokens, u \in Users, a \in Addresses :
               StoreSession(p, t, u, a)
    <3> PICK t \in Tokens, u \in Users, a \in Addresses :
                StoreSession(p, t, u, a)
      BY <2>1
    <3>1. origin'[t] # None
      BY RecordAssumption, TimeAssumption
         DEF StoreSession, Origin, Expiries
    <3> QED
      BY <3>1 DEF StoreSession
  <2>2. CASE \E t \in Tokens : RefreshBegin(p, t) \/ LogoutBegin(p, t)
    BY <2>2 DEF RefreshBegin, LogoutBegin
  <2>3. CASE \E u \in Users, a \in Addresses : AttachBegin(p, u, a)
    BY <2>3 DEF AttachBegin
  <2> QED
    BY <1>1, <2>1, <2>2, <2>3 DEF Arrive
<1>2. ASSUME NEW p \in Procs, Step(p) PROVE OnlyStored'
  <2>1. CASE Respond(p)
    BY <2>1 DEF Respond
  <2>2. CASE RefreshReused(p)
    BY <2>2 DEF RefreshReused
  <2>3. CASE RefreshGenerateFails(p) \/ RotateMiss(p)
    BY <2>3 DEF RefreshGenerateFails, RotateMiss
  <2>4. CASE \E t \in Tokens : RefreshGenerate(p, t)
    BY <2>4 DEF RefreshGenerate, Fresh
  <2>5. CASE RotateBegin(p)
    BY <2>5 DEF RotateBegin
  <2>6. CASE RotateLock(p)
    BY <2>6 DEF RotateLock, Rotatable
  <2>7. CASE RotateCommit(p)
    <3>1. origin'[req[p].next] # None
      BY <2>7, RecordAssumption DEF RotateCommit, Session, Origin
    <3> QED
      BY <2>7, <3>1 DEF RotateCommit
  <2>8. CASE PurgeBegin(p)
    BY <2>8 DEF PurgeBegin
  <2>9. CASE DeleteEnd(p)
    BY <2>9 DEF DeleteEnd, Unlocked
  <2>10. CASE RevokeMiss(p)
    BY <2>10 DEF RevokeMiss
  <2>11. CASE RevokeLock(p)
    BY <2>11 DEF RevokeLock
  <2>12. CASE RevokeCommit(p)
    BY <2>12 DEF RevokeCommit
  <2>13. CASE AttachEnd(p)
    BY <2>13 DEF AttachEnd, Unlocked
  <2> QED
    BY <1>2, <2>1, <2>2, <2>3, <2>4, <2>5, <2>6, <2>7, <2>8, <2>9, <2>10,
       <2>11, <2>12, <2>13 DEF Step
<1>3. ASSUME NEW p \in Procs, Abort(p) PROVE OnlyStored'
  BY <1>3 DEF Abort
<1>4. CASE CleanupBegin
  BY <1>4 DEF CleanupBegin
<1>5. CASE Tick
  BY <1>5 DEF Tick
<1>6. CASE UNCHANGED vars
  BY <1>6 DEF vars
<1> QED
  BY <1>1, <1>2, <1>3, <1>4, <1>5, <1>6 DEF Next

\* Only five actions write the tables or store a token.
LEMMA Writers ==
    ASSUME [Next]_vars
    PROVE  \/ \E p \in Requests, t \in Tokens, u \in Users, a \in Addresses :
                 StoreSession(p, t, u, a)
           \/ \E p \in Procs : \/ RotateCommit(p) \/ RevokeCommit(p)
                               \/ DeleteEnd(p) \/ AttachEnd(p)
           \/ UNCHANGED <<sessions, revoked, origin>>
  BY DEF Next, Arrive, Step, vars, tables, history, RefreshBegin, LogoutBegin,
         AttachBegin, Respond, RefreshReused, RefreshGenerateFails, RotateMiss,
         RefreshGenerate, RotateBegin, RotateLock, PurgeBegin, RevokeMiss,
         RevokeLock, Abort, CleanupBegin, Tick

ChainInv == Lineage /\ RedeemedOnce /\ OneLivePerChain /\ ChainFacts

\* Tokens stay in linear chains that keep the facts of their login.
LEMMA ChainStep ==
    ASSUME TypeOK, LocksHold, ReplacementsFresh, OnlyStored, ChainInv,
           [Next]_vars
    PROVE  ChainInv'
<1> USE NoneAssumption, RecordAssumption
        DEF ChainInv, TypeOK, PhaseOK, OnlyStored, Live, Session, Origin
<1>1. ASSUME NEW p \in Requests, NEW t \in Tokens, NEW u \in Users,
             NEW a \in Addresses, StoreSession(p, t, u, a)
      PROVE  ChainInv'
  <2>1. now + TTL \in Expiries
    BY TimeAssumption DEF Expiries
  <2> DEFINE row == [user |-> u, addr |-> a, expires |-> now + TTL]
             src == [chain |-> t, parent |-> None,
                     user |-> u, expires |-> now + TTL]
  <2>2. row # None /\ src # None
    BY <2>1
  <2>3. /\ sessions' = [sessions EXCEPT ![t] = row]
        /\ origin' = [origin EXCEPT ![t] = src]
        /\ origin[t] = None /\ UNCHANGED revoked
    BY <1>1 DEF StoreSession, Fresh
  <2> HIDE DEF row, src
  <2>4. src.chain = t /\ src.parent = None /\ src.user = row.user
        /\ src.expires = row.expires
    BY DEF row, src
  <2>5. Lineage'
    BY <2>2, <2>3, <2>4 DEF Lineage
  <2>6. RedeemedOnce'
    BY <2>2, <2>3, <2>4 DEF RedeemedOnce
  <2>7. OneLivePerChain'
    BY <2>2, <2>3, <2>4 DEF OneLivePerChain, Lineage
  <2>8. ChainFacts'
    BY <2>2, <2>3, <2>4 DEF ChainFacts, Lineage
  <2> QED
    BY <2>5, <2>6, <2>7, <2>8
<1>2. ASSUME NEW p \in Procs, RotateCommit(p) PROVE ChainInv'
  <2> DEFINE old == req[p].token
             new == req[p].next
             src == [chain |-> origin[old].chain, parent |-> old,
                     user |-> origin[old].user, expires |-> origin[old].expires]
  <2>1. /\ old \in Tokens /\ new \in Tokens /\ old # new
        /\ Live(old) /\ origin[old] \in Origin /\ origin[new] = None
        /\ req[p].row = sessions[old]
    BY <1>2 DEF RotateCommit, LocksHold, ReplacementsFresh
  <2>2. src # None
    BY <2>1
  <2>3. /\ sessions' = [sessions EXCEPT ![old] = None, ![new] = sessions[old]]
        /\ origin' = [origin EXCEPT ![new] = src]
        /\ revoked' = [revoked EXCEPT ![old] =
                         IF revoked[old] = None THEN sessions[old].user
                         ELSE revoked[old]]
    BY <1>2, <2>1 DEF RotateCommit
  <2> HIDE DEF old, new, src
  <2>4. /\ src.chain = origin[old].chain /\ src.parent = old
        /\ src.user = origin[old].user /\ src.expires = origin[old].expires
    BY DEF src
  <2>5. \A s \in Tokens : origin[s] # None => origin[s].parent # old
    BY <2>1 DEF Lineage
  <2>6. Lineage'
    BY <2>1, <2>2, <2>3, <2>4 DEF Lineage
  <2>7. RedeemedOnce'
    BY <2>1, <2>2, <2>3, <2>4, <2>5 DEF RedeemedOnce
  <2>8. OneLivePerChain'
    BY <2>1, <2>2, <2>3, <2>4 DEF OneLivePerChain, Lineage
  <2>9. ChainFacts'
    BY <2>1, <2>2, <2>3, <2>4 DEF ChainFacts, Lineage
  <2> QED
    BY <2>6, <2>7, <2>8, <2>9
<1>3. ASSUME NEW p \in Procs, RevokeCommit(p) PROVE ChainInv'
  BY <1>3 DEF RevokeCommit, LocksHold, Lineage, RedeemedOnce, OneLivePerChain,
              ChainFacts
<1>4. ASSUME NEW p \in Procs, DeleteEnd(p) PROVE ChainInv'
  BY <1>4 DEF DeleteEnd, Lineage, RedeemedOnce, OneLivePerChain, ChainFacts
<1>5. ASSUME NEW p \in Procs, AttachEnd(p) PROVE ChainInv'
  <2>1. /\ UNCHANGED <<revoked, origin>>
        /\ \A t \in Tokens :
              /\ Live(t)' <=> Live(t)
              /\ Live(t) => /\ sessions'[t].user = sessions[t].user
                            /\ sessions'[t].expires = sessions[t].expires
    BY <1>5 DEF AttachEnd, history
  <2> QED
    BY <2>1 DEF Lineage, RedeemedOnce, OneLivePerChain, ChainFacts
<1>6. CASE UNCHANGED <<sessions, revoked, origin>>
  BY <1>6 DEF Lineage, RedeemedOnce, OneLivePerChain, ChainFacts
<1> QED
  BY <1>1, <1>2, <1>3, <1>4, <1>5, <1>6, Writers

\* A token that was logged out is dead, and dead tokens stay dead.
LEMMA LogoutStep ==
    ASSUME TypeOK, LocksHold, ReplacementsFresh, OnlyStored, LogoutSticks,
           [Next]_vars
    PROVE  LogoutSticks'
<1> USE NoneAssumption
        DEF TypeOK, PhaseOK, Live
<1>1. \A t \in Tokens : origin[t] # None /\ ~Live(t) => ~Live(t)'
  <2>1. ASSUME NEW p \in Procs, RotateCommit(p)
        PROVE  \A t \in Tokens : origin[t] # None /\ ~Live(t) => ~Live(t)'
    BY <2>1 DEF RotateCommit, ReplacementsFresh
  <2>2. ASSUME NEW p \in Procs, RevokeCommit(p) \/ DeleteEnd(p) \/ AttachEnd(p)
        PROVE  \A t \in Tokens : ~Live(t) => ~Live(t)'
    BY <2>2 DEF RevokeCommit, DeleteEnd, AttachEnd
  <2>3. ASSUME NEW p \in Requests, NEW s \in Tokens, NEW u \in Users,
               NEW a \in Addresses, StoreSession(p, s, u, a)
        PROVE  \A t \in Tokens : origin[t] # None /\ ~Live(t) => ~Live(t)'
    BY <2>3 DEF StoreSession, Fresh
  <2> QED
    BY <2>1, <2>2, <2>3, Writers
<1>2. \A t \in loggedOut' \ loggedOut : ~Live(t)'
  <2>1. \/ loggedOut' = loggedOut
        \/ \E p \in Procs : RevokeMiss(p) \/ RevokeCommit(p)
    BY DEF Next, Arrive, Step, vars, tables, history, StoreSession,
           RefreshBegin, LogoutBegin, AttachBegin, Respond, RefreshReused,
           RefreshGenerateFails, RotateMiss, RefreshGenerate, RotateBegin,
           RotateLock, RotateCommit, PurgeBegin, DeleteEnd, RevokeLock,
           AttachEnd, Abort, CleanupBegin, Tick
  <2>2. ASSUME NEW p \in Procs, RevokeMiss(p)
        PROVE  \A t \in loggedOut' \ loggedOut : ~Live(t)'
    BY <2>2 DEF RevokeMiss, tables
  <2>3. ASSUME NEW p \in Procs, RevokeCommit(p)
        PROVE  \A t \in loggedOut' \ loggedOut : ~Live(t)'
    BY <2>3 DEF RevokeCommit
  <2> QED
    BY <2>1, <2>2, <2>3
<1>3. \A t \in loggedOut : ~Live(t)'
  BY <1>1 DEF LogoutSticks, OnlyStored
<1>4. LocksHold' /\ TypeOK'
  BY LocksStep, TypeStep
<1> QED
  BY <1>2, <1>3, <1>4 DEF LogoutSticks, LocksHold

\* No row comes back or changes hands while a DELETE waits for it, no token
\* is taken off the revoked list, and time does not run backwards.
LEMMA RowsMonotone ==
    ASSUME TypeOK, LocksHold, ReplacementsFresh, OnlyStored, [Next]_vars
    PROVE  /\ now' >= now
           /\ \A t \in Tokens :
                /\ origin[t] # None /\ Live(t)' =>
                      /\ Live(t)
                      /\ sessions'[t].user = sessions[t].user
                      /\ sessions'[t].expires = sessions[t].expires
                /\ revoked[t] # None => revoked'[t] = revoked[t]
<1> USE NoneAssumption, TimeAssumption
        DEF TypeOK, PhaseOK, Live
<1> DEFINE Kept == \A t \in Tokens :
                /\ origin[t] # None /\ Live(t)' =>
                      /\ Live(t)
                      /\ sessions'[t].user = sessions[t].user
                      /\ sessions'[t].expires = sessions[t].expires
                /\ revoked[t] # None => revoked'[t] = revoked[t]
<1>1. now' >= now
  <2>1. now' = now \/ Tick
    BY DEF Next, Arrive, Step, vars, tables, history, StoreSession,
           RefreshBegin, LogoutBegin, AttachBegin, Respond, RefreshReused,
           RefreshGenerateFails, RotateMiss, RefreshGenerate, RotateBegin,
           RotateLock, RotateCommit, PurgeBegin, DeleteEnd, RevokeMiss,
           RevokeLock, RevokeCommit, AttachEnd, Abort, CleanupBegin
  <2> QED
    BY <2>1 DEF Tick
<1>2. ASSUME NEW p \in Procs, RotateCommit(p) PROVE Kept
  BY <1>2 DEF RotateCommit, ReplacementsFresh
<1>3. ASSUME NEW p \in Procs, RevokeCommit(p) PROVE Kept
  BY <1>3 DEF RevokeCommit
<1>4. ASSUME NEW p \in Procs, DeleteEnd(p) PROVE Kept
  BY <1>4 DEF DeleteEnd
<1>5. ASSUME NEW p \in Procs, AttachEnd(p) PROVE Kept
  BY <1>5 DEF AttachEnd
<1>6. ASSUME NEW p \in Requests, NEW s \in Tokens, NEW u \in Users,
             NEW a \in Addresses, StoreSession(p, s, u, a)
      PROVE  Kept
  BY <1>6 DEF StoreSession, Fresh
<1> QED
  BY <1>1, <1>2, <1>3, <1>4, <1>5, <1>6, Writers

\* What a waiting DELETE was aimed at when it started it is still aimed at.
LEMMA AimStep ==
    ASSUME TypeOK, LocksHold, ReplacementsFresh, OnlyStored, SnapshotsAimed,
           [Next]_vars
    PROVE  SnapshotsAimed'
<1> DEFINE Aimed(p) ==
      /\ p = Cleaner => req[p].pc \in {"idle", "deleting"}
      /\ req[p].pc = "purge" => revoked[req[p].token] # None
      /\ req[p].pc = "deleting" /\ p # Cleaner => req[p].token \in Tokens
      /\ req[p].pc = "deleting" => \A t \in req[p].snap : Live(t) =>
            IF p = Cleaner THEN sessions[t].expires <= now
            ELSE sessions[t].user = revoked[req[p].token]
<1>1. ASSUME NEW p \in Procs, req'[p] = req[p] PROVE Aimed(p)'
  <2>1. Aimed(p)
    BY DEF SnapshotsAimed
  <2>2. \A t \in Tokens : revoked[t] # None => revoked'[t] = revoked[t]
    BY RowsMonotone
  <2>3. req[p].pc = "purge" => req[p].token \in Tokens
    BY DEF TypeOK, PhaseOK
  <2>4. ASSUME req[p].pc = "deleting", NEW t \in req[p].snap, Live(t)'
        PROVE  IF p = Cleaner THEN sessions'[t].expires <= now'
               ELSE sessions'[t].user = revoked'[req[p].token]
    <3>1. t \in Tokens /\ origin[t] # None
      BY <2>4 DEF TypeOK, Request, OnlyStored
    <3>2. Live(t) /\ sessions'[t].user = sessions[t].user
                  /\ sessions'[t].expires = sessions[t].expires
      BY <2>4, <3>1, RowsMonotone
    <3>3. CASE p = Cleaner
      <4>1. sessions[t].expires <= now
        BY <2>1, <2>4, <3>2, <3>3
      <4>2. sessions[t].expires \in Int /\ now \in Int /\ now' \in Int
        BY <3>1, <3>2, TypeStep, TimeAssumption
           DEF TypeOK, Live, Session, Expiries
      <4> QED
        BY <3>2, <3>3, <4>1, <4>2, RowsMonotone
    <3>4. CASE p # Cleaner
      <4>1. /\ req[p].token \in Tokens
            /\ sessions[t].user = revoked[req[p].token]
        BY <2>1, <2>4, <3>2, <3>4
      <4>2. sessions[t].user # None
        BY <3>1, <3>2, NoneAssumption DEF TypeOK, Live, Session
      <4> QED
        BY <2>2, <3>2, <3>4, <4>1, <4>2
    <3> QED
      BY <3>3, <3>4
  <2> QED
    BY <1>1, <2>1, <2>2, <2>3, <2>4
<1>2. ASSUME NEW p \in Procs, RefreshReused(p) PROVE Aimed(p)'
  BY <1>2 DEF RefreshReused, tables, Presents, Memory, TypeOK, SnapshotsAimed
<1>3. ASSUME NEW p \in Procs, PurgeBegin(p) PROVE Aimed(p)'
  BY <1>3 DEF PurgeBegin, tables, Deletes, Memory, TypeOK, PhaseOK, Live,
              SnapshotsAimed
<1>4. ASSUME CleanupBegin PROVE Aimed(Cleaner)'
  BY <1>4 DEF CleanupBegin, tables, Deletes, Memory, TypeOK, Live, Procs
<1>5. ASSUME NEW p \in Procs, req'[p] # req[p],
             ~RefreshReused(p), ~PurgeBegin(p), ~(p = Cleaner /\ CleanupBegin)
      PROVE  Aimed(p)'
  <2> USE IdleFacts DEF TypeOK, tables, history, Memory, Presents, Rotates,
          Revokes, Deletes, Attaches, Answers, Procs
  <2>1. ASSUME NEW q \in Requests, Arrive(q) PROVE Aimed(p)'
    BY <1>5, <2>1, CleanerAssumption
       DEF Arrive, StoreSession, RefreshBegin, LogoutBegin, AttachBegin
  <2>2. ASSUME NEW q \in Procs, Step(q) PROVE Aimed(p)'
    <3>1. req'[p].pc \notin {"purge", "deleting"}
      BY <1>5, <2>2
         DEF Step, Respond, RefreshReused, RefreshGenerateFails, RotateMiss,
             RefreshGenerate, RotateBegin, RotateLock, RotateCommit,
             PurgeBegin, DeleteEnd, RevokeMiss, RevokeLock, RevokeCommit,
             AttachEnd
    <3>2. p = Cleaner => req'[p].pc = "idle"
      BY <1>5, <2>2
         DEF SnapshotsAimed, Step, Respond, RefreshReused,
             RefreshGenerateFails, RotateMiss, RefreshGenerate, RotateBegin,
             RotateLock, RotateCommit, PurgeBegin, DeleteEnd, RevokeMiss,
             RevokeLock, RevokeCommit, AttachEnd
    <3> QED
      BY <3>1, <3>2
  <2>3. ASSUME NEW q \in Procs, Abort(q) PROVE Aimed(p)'
    BY <1>5, <2>3 DEF Abort
  <2>4. CASE Tick \/ CleanupBegin \/ UNCHANGED vars
    BY <1>5, <2>4 DEF Tick, CleanupBegin, vars
  <2> QED
    BY <1>5, <2>1, <2>2, <2>3, <2>4 DEF Next
<1>6. \A p \in Procs : Aimed(p)'
  BY <1>1, <1>2, <1>3, <1>4, <1>5
<1> QED
  BY <1>6 DEF SnapshotsAimed, Procs

-----------------------------------------------------------------------------

\* The invariant holds initially ...
LEMMA InvInit == Init => Inv
<1> SUFFICES ASSUME Init PROVE Inv
  OBVIOUS
<1> USE IdleFacts, NoneAssumption, TimeAssumption
        DEF Init, Live
<1>1. TypeOK
  BY DEF TypeOK
<1>2. LocksHold /\ ReplacementsFresh /\ OnlyStored /\ SnapshotsAimed
  BY DEF LocksHold, ReplacementsFresh, OnlyStored, SnapshotsAimed, Procs
<1>3. Lineage /\ RedeemedOnce /\ OneLivePerChain /\ ChainFacts /\ LogoutSticks
  BY DEF Lineage, RedeemedOnce, OneLivePerChain, ChainFacts, LogoutSticks
<1> QED
  BY <1>1, <1>2, <1>3 DEF Inv

\* ... and every step keeps it.
LEMMA InvStep == Inv /\ [Next]_vars => Inv'
  BY TypeStep, LocksStep, FreshStep, StoredStep, AimStep, ChainStep, LogoutStep
     DEF Inv, ChainInv

\* All parts of Inv hold in every reachable state of the store.
THEOREM Invariance == Spec => []Inv
<1>1. Init => Inv
  BY InvInit
<1>2. Inv /\ [Next]_vars => Inv'
  BY InvStep
<1> QED
  BY <1>1, <1>2, PTL DEF Spec

\* Every variable keeps its type and every handler what its phase needs.
THEOREM TypeCorrect == Spec => []TypeOK
  BY Invariance, PTL DEF Inv

\* No schedule of concurrent refreshes redeems one token twice.
THEOREM RedeemedOnceAlways == Spec => []RedeemedOnce
  BY Invariance, PTL DEF Inv

\* No login ever has two usable refresh tokens.
THEOREM OneLivePerChainAlways == Spec => []OneLivePerChain
  BY Invariance, PTL DEF Inv

\* Rotation never moves the owner or the absolute expiry of a login.
THEOREM ChainFactsAlways == Spec => []ChainFacts
  BY Invariance, PTL DEF Inv

\* A token whose logout was answered is never usable or redeemed again.
THEOREM LogoutSticksAlways == Spec => []LogoutSticks
  BY Invariance, PTL DEF Inv

-----------------------------------------------------------------------------
(* Action properties: what no single step of a reachable state does. *)

\* A session that has not expired ends by its logout, by its rotation to a
\* usable successor, or by a handler that holds a revoked token of its user.
THEOREM NoSilentSignOutAlways == Spec => NoSilentSignOut
<1> DEFINE Told == \A t \in Tokens :
             Live(t) /\ ~Live(t)' /\ sessions[t].expires > now =>
                \/ t \in loggedOut' \ loggedOut
                \/ \E s \in Tokens :
                      ~Live(s) /\ Live(s)' /\ origin'[s].parent = t
                \/ \E p \in Requests :
                      /\ req[p].pc = "deleting" /\ req'[p] # req[p]
                      /\ t \in req[p].snap
                      /\ revoked[req[p].token] = sessions[t].user
<1>1. Inv /\ [Next]_vars => [Told]_vars
  <2> SUFFICES ASSUME Inv, [Next]_vars PROVE Told
    OBVIOUS
  <2> USE NoneAssumption, RecordAssumption DEF Inv, TypeOK, PhaseOK, Live
  <2>1. ASSUME NEW p \in Procs, RotateCommit(p) PROVE Told
    <3> DEFINE old == req[p].token
               new == req[p].next
    <3>1. /\ old \in Tokens /\ new \in Tokens /\ old # new
          /\ sessions[new] = None
      BY <2>1 DEF RotateCommit, ReplacementsFresh, OnlyStored
    <3>2. sessions'[new] # None
      BY <2>1, <3>1 DEF RotateCommit
    <3>3. origin'[new].parent = old
      BY <2>1, <3>1 DEF RotateCommit
    <3>4. \A t \in Tokens : t # old /\ t # new => sessions'[t] = sessions[t]
      BY <2>1, <3>1 DEF RotateCommit
    <3> QED
      BY <3>1, <3>2, <3>3, <3>4
  <2>2. ASSUME NEW p \in Procs, RevokeCommit(p) PROVE Told
    BY <2>2 DEF RevokeCommit, LogoutSticks
  <2>3. ASSUME NEW p \in Procs, DeleteEnd(p) PROVE Told
    <3> SUFFICES ASSUME NEW t \in Tokens, Live(t), ~Live(t)',
                        sessions[t].expires > now
                 PROVE  /\ p \in Requests
                        /\ req[p].pc = "deleting" /\ req'[p] # req[p]
                        /\ t \in req[p].snap
                        /\ revoked[req[p].token] = sessions[t].user
      OBVIOUS
    <3>1. t \in req[p].snap /\ req[p].pc = "deleting"
      BY <2>3 DEF DeleteEnd
    <3>2. sessions[t].expires \in Int /\ now \in Int
      BY TimeAssumption DEF Session, Expiries
    <3>3. ~(sessions[t].expires <= now)
      BY <3>2
    <3>4. p # Cleaner /\ revoked[req[p].token] = sessions[t].user
      BY <3>1, <3>3 DEF SnapshotsAimed
    <3>5. req'[p].pc = "idle"
      BY <2>3, IdleFacts DEF DeleteEnd
    <3> QED
      BY <3>1, <3>4, <3>5 DEF Procs
  <2>4. ASSUME NEW p \in Procs, AttachEnd(p) PROVE Told
    BY <2>4 DEF AttachEnd, Session
  <2>5. ASSUME NEW p \in Requests, NEW s \in Tokens, NEW u \in Users,
               NEW a \in Addresses, StoreSession(p, s, u, a)
        PROVE  Told
    BY <2>5 DEF StoreSession, Fresh, OnlyStored
  <2> QED
    BY <2>1, <2>2, <2>3, <2>4, <2>5, Writers
<1> QED
  BY Invariance, <1>1, PTL DEF Spec, NoSilentSignOut

\* A rotation hands on the address its row has when it commits.
THEOREM NoLostAddressAlways == Spec => NoLostAddress
<1> DEFINE Kept == \A t \in Tokens :
             (origin[t] = None /\ origin'[t] # None /\ origin'[t].parent # None)
                => sessions'[t].addr = sessions[origin'[t].parent].addr
<1>1. Inv /\ [Next]_vars => [Kept]_vars
  <2> SUFFICES ASSUME Inv, [Next]_vars PROVE Kept
    OBVIOUS
  <2> USE NoneAssumption DEF Inv, TypeOK, PhaseOK, Live
  <2>1. ASSUME NEW p \in Procs, RotateCommit(p) PROVE Kept
    BY <2>1 DEF RotateCommit, LocksHold
  <2>2. ASSUME NEW p \in Procs, RevokeCommit(p) \/ DeleteEnd(p) \/ AttachEnd(p)
        PROVE  Kept
    BY <2>2 DEF RevokeCommit, DeleteEnd, AttachEnd, history
  <2>3. ASSUME NEW p \in Requests, NEW s \in Tokens, NEW u \in Users,
               NEW a \in Addresses, StoreSession(p, s, u, a)
        PROVE  Kept
    BY <2>3 DEF StoreSession
  <2> QED
    BY <2>1, <2>2, <2>3, Writers
<1> QED
  BY Invariance, <1>1, PTL DEF Spec, NoLostAddress
=============================================================================
