------------------------- MODULE VaultSessionsProofs -------------------------
(***************************************************************************)
(* The vault and the refresh sessions together behave as each was proved   *)
(* to behave alone, for any number of users, addresses, tokens, challenges *)
(* and handlers.                                                           *)
(*                                                                         *)
(* The proofs of both components are instantiated here and their step      *)
(* lemmas used; SP!X and Store!X, VP!X and Vault!X are the same formula.   *)
(***************************************************************************)
EXTENDS VaultSessions, TLAPS

SP == INSTANCE RefreshSessionsProofs WITH Addresses <- Addresses \cup {Empty}

VP == INSTANCE WalletVaultProofs
    WITH sessions <- View, req <- vreq, Sessions <- Tokens

-----------------------------------------------------------------------------
(* The instances.  What each assumes of its constants follows from what     *)
(* VaultSessions assumes of its own.                                        *)

\* The assumptions of the store.
LEMMA StoreAssumptions ==
    /\ None \notin Users \cup (Addresses \cup {Empty}) \cup Tokens \cup Requests \cup {Cleaner}
    /\ Cleaner \notin Requests
    /\ TTL \in Nat \ {0} /\ MaxTime \in Nat
    /\ None \notin SP!Session \cup SP!Origin
          \cup [token : Tokens \cup {None}, user : Users, expires : SP!Expiries]
  BY NoneAssumption, EmptyAssumption, CleanerAssumption, TimeAssumption, RecordAssumption
     DEF SP!Session, SP!Origin, SP!Expiries, Store!Session, Store!Origin, Store!Expiries

\* The assumptions of the vault.
LEMMA VaultAssumptions ==
    /\ None \notin Users \cup Addresses \cup Credentials \cup Salts \cup Nonces
    /\ ZkUsers \subseteq Users
    /\ Fits \in [Users -> SUBSET Salts]
    /\ Wallet \in [Users -> Addresses \cup {None}]
    /\ None \notin VP!Challenge \cup VP!Vault \cup VP!Session
  BY NoneAssumption, UserAssumption, FitsAssumption, WalletAssumption, RecordAssumption
     DEF VP!Challenge, VP!Vault, VP!Session, Vault!Challenge, Vault!Vault, Vault!Session

\* The invariants of the store are kept by the steps of the store ...
LEMMA StoreInvariant ==
    /\ SP!Init => SP!Inv
    /\ SP!Inv /\ [SP!Next]_SP!vars => SP!Inv'
  BY SP!InvInit, SP!InvStep, StoreAssumptions

\* ... and those of the vault by the steps of the vault.
LEMMA VaultInvariant ==
    /\ VP!Init => VP!IInv
    /\ VP!IInv /\ [VP!Next]_VP!vars => VP!IInv'
  BY VP!InvInit, VP!InvStep, VaultAssumptions

\* What a user has earned stays earned.
LEMMA EarnedKept ==
    ASSUME VP!IInv, [VP!Next]_VP!vars, NEW u \in Users, NEW a, VP!Earned(u, a)
    PROVE  VP!Earned(u, a)'
<1>1. CASE VP!Next
  BY <1>1, VP!EarnedStays, VaultAssumptions DEF VP!IInv
<1>2. CASE UNCHANGED VP!vars
  BY <1>2 DEF VP!vars, VP!history, VP!Earned
<1> QED
  BY <1>1, <1>2

-----------------------------------------------------------------------------
(* The instances of the proofs are those of VaultSessions. *)

\* A step of the store is the same in both, action by action.
LEMMA SameActions ==
    ASSUME NEW p
    PROVE
      /\ \A t, u, a : Store!StoreSession(p, t, u, a) => SP!StoreSession(p, t, u, a)
      /\ \A t : Store!RefreshBegin(p, t) => SP!RefreshBegin(p, t)
      /\ \A t : Store!LogoutBegin(p, t) => SP!LogoutBegin(p, t)
      /\ \A u, a : Store!AttachBegin(p, u, a) => SP!AttachBegin(p, u, a)
      /\ \A t : Store!RefreshGenerate(p, t) => SP!RefreshGenerate(p, t)
      /\ Store!Respond(p) => SP!Respond(p)
      /\ Store!RefreshReused(p) => SP!RefreshReused(p)
      /\ Store!RefreshGenerateFails(p) => SP!RefreshGenerateFails(p)
      /\ Store!RotateBegin(p) => SP!RotateBegin(p)
      /\ Store!RotateMiss(p) => SP!RotateMiss(p)
      /\ Store!RotateLock(p) => SP!RotateLock(p)
      /\ Store!RotateCommit(p) => SP!RotateCommit(p)
      /\ Store!PurgeBegin(p) => SP!PurgeBegin(p)
      /\ Store!DeleteEnd(p) => SP!DeleteEnd(p)
      /\ Store!RevokeMiss(p) => SP!RevokeMiss(p)
      /\ Store!RevokeLock(p) => SP!RevokeLock(p)
      /\ Store!RevokeCommit(p) => SP!RevokeCommit(p)
      /\ Store!AttachEnd(p) => SP!AttachEnd(p)
      /\ Store!Abort(p) => SP!Abort(p)
      /\ Store!CleanupBegin => SP!CleanupBegin
      /\ Store!Tick => SP!Tick
<1> USE DEF Store!tables, SP!tables, Store!history, SP!history, Store!Memory, SP!Memory,
            Store!Idle, SP!Idle, Store!Answers, SP!Answers, Store!Presents, SP!Presents,
            Store!Rotates, SP!Rotates, Store!Revokes, SP!Revokes, Store!Deletes, SP!Deletes,
            Store!Attaches, SP!Attaches, Store!Live, SP!Live, Store!Procs, SP!Procs,
            Store!Fresh, SP!Fresh, Store!Unlocked, SP!Unlocked, Store!Rotatable,
            SP!Rotatable
<1>1. \A t, u, a : Store!StoreSession(p, t, u, a) => SP!StoreSession(p, t, u, a)
  BY DEF Store!StoreSession, SP!StoreSession
<1>2. \A t : Store!RefreshBegin(p, t) => SP!RefreshBegin(p, t)
  BY DEF Store!RefreshBegin, SP!RefreshBegin
<1>3. \A t : Store!LogoutBegin(p, t) => SP!LogoutBegin(p, t)
  BY DEF Store!LogoutBegin, SP!LogoutBegin
<1>4. \A u, a : Store!AttachBegin(p, u, a) => SP!AttachBegin(p, u, a)
  BY DEF Store!AttachBegin, SP!AttachBegin
<1>5. \A t : Store!RefreshGenerate(p, t) => SP!RefreshGenerate(p, t)
  BY DEF Store!RefreshGenerate, SP!RefreshGenerate
<1>6. Store!Respond(p) => SP!Respond(p)
  BY DEF Store!Respond, SP!Respond
<1>7. Store!RefreshReused(p) => SP!RefreshReused(p)
  BY DEF Store!RefreshReused, SP!RefreshReused
<1>8. Store!RefreshGenerateFails(p) => SP!RefreshGenerateFails(p)
  BY DEF Store!RefreshGenerateFails, SP!RefreshGenerateFails
<1>9. Store!RotateBegin(p) => SP!RotateBegin(p)
  BY DEF Store!RotateBegin, SP!RotateBegin
<1>10. Store!RotateMiss(p) => SP!RotateMiss(p)
  BY DEF Store!RotateMiss, SP!RotateMiss
<1>11. Store!RotateLock(p) => SP!RotateLock(p)
  BY DEF Store!RotateLock, SP!RotateLock
<1>12. Store!RotateCommit(p) => SP!RotateCommit(p)
  BY DEF Store!RotateCommit, SP!RotateCommit
<1>13. Store!PurgeBegin(p) => SP!PurgeBegin(p)
  BY DEF Store!PurgeBegin, SP!PurgeBegin
<1>14. Store!DeleteEnd(p) => SP!DeleteEnd(p)
  BY DEF Store!DeleteEnd, SP!DeleteEnd
<1>15. Store!RevokeMiss(p) => SP!RevokeMiss(p)
  BY DEF Store!RevokeMiss, SP!RevokeMiss
<1>16. Store!RevokeLock(p) => SP!RevokeLock(p)
  BY DEF Store!RevokeLock, SP!RevokeLock
<1>17. Store!RevokeCommit(p) => SP!RevokeCommit(p)
  BY DEF Store!RevokeCommit, SP!RevokeCommit
<1>18. Store!AttachEnd(p) => SP!AttachEnd(p)
  BY DEF Store!AttachEnd, SP!AttachEnd
<1>19. Store!Abort(p) => SP!Abort(p)
  BY DEF Store!Abort, SP!Abort
<1>20. Store!CleanupBegin => SP!CleanupBegin
  BY DEF Store!CleanupBegin, SP!CleanupBegin
<1>21. Store!Tick => SP!Tick
  BY DEF Store!Tick, SP!Tick
<1> QED
  BY <1>1, <1>2, <1>3, <1>4, <1>5, <1>6, <1>7, <1>8, <1>9, <1>10, <1>11, <1>12, <1>13, <1>14,
     <1>15, <1>16, <1>17, <1>18, <1>19, <1>20, <1>21

\* A step of the vault likewise.
LEMMA SameVaultActions ==
    /\ \A p :
      /\ \A u, n, a, c : Vault!PutBegin(p, u, n, a, c) => VP!PutBegin(p, u, n, a, c)
      /\ \A u, a : Vault!BindBegin(p, u, a) => VP!BindBegin(p, u, a)
      /\ \A u : Vault!LoginRead(p, u) => VP!LoginRead(p, u)
      /\ \A u : Vault!WalletLogin(p, u) => VP!WalletLogin(p, u)
      /\ Vault!Consume(p) => VP!Consume(p)
      /\ Vault!ConsumeRefused(p) => VP!ConsumeRefused(p)
      /\ Vault!Upsert(p) => VP!Upsert(p)
      /\ Vault!UpsertRefused(p) => VP!UpsertRefused(p)
      /\ Vault!Abort(p) => VP!Abort(p)
      /\ \A hit : Vault!Attach(p, hit) => VP!Attach(p, hit)
      /\ \A c : Vault!LoginStore(p, c) => VP!LoginStore(p, c)
    /\ \A S : Vault!EndSessions(S) => VP!EndSessions(S)
    /\ \A n : Vault!Expire(n) => VP!Expire(n)
    /\ \A u, n : Vault!IssueChallenge(u, n) => VP!IssueChallenge(u, n)
    /\ \A u, z : Vault!PutSalt(u, z) => VP!PutSalt(u, z)
  BY DEF Vault!PutBegin, VP!PutBegin, Vault!BindBegin, VP!BindBegin, Vault!LoginRead,
         VP!LoginRead, Vault!WalletLogin, VP!WalletLogin, Vault!Consume, VP!Consume,
         Vault!ConsumeRefused, VP!ConsumeRefused, Vault!Upsert, VP!Upsert,
         Vault!UpsertRefused, VP!UpsertRefused, Vault!Abort, VP!Abort, Vault!Expire,
         VP!Expire, Vault!IssueChallenge, VP!IssueChallenge, Vault!PutSalt, VP!PutSalt,
         Vault!tables, VP!tables, Vault!history, VP!history, Vault!Memory, VP!Memory,
         Vault!Idle, VP!Idle, Vault!Holds, VP!Holds, Vault!Binds, VP!Binds,
         Vault!VaultAddr, VP!VaultAddr, Vault!Goto, VP!Goto, Vault!Finish, VP!Finish,
         Vault!Consumable, VP!Consumable, Vault!CredentialTaken, VP!CredentialTaken,
         Vault!Pending, VP!Pending, Vault!MayBind, VP!MayBind,
         Vault!Attach, VP!Attach, Vault!LoginStore, VP!LoginStore, Vault!EndSessions,
         VP!EndSessions, Vault!Own, VP!Own

\* So is any step of the vault.
LEMMA SameVaultNext == [Vault!Next]_Vault!vars => [VP!Next]_VP!vars
<1>1. UNCHANGED Vault!vars => UNCHANGED VP!vars
  BY DEF Vault!vars, VP!vars, Vault!tables, VP!tables, Vault!history, VP!history
<1>2. Vault!Next => VP!Next
  BY SameVaultActions DEF Vault!Next, VP!Next
<1> QED
  BY <1>1, <1>2

\* The initial states and the types are the same too.
LEMMA SameState ==
    /\ Store!Init => SP!Init
    /\ Vault!Init => VP!Init
    /\ SP!TypeOK => Store!TypeOK
    /\ VP!TypeOK => Vault!TypeOK
<1>1. Store!Init => SP!Init
  BY DEF Store!Init, SP!Init, Store!Idle, SP!Idle, Store!Memory, SP!Memory, Store!Procs, SP!Procs
<1>2. Vault!Init => VP!Init
  BY DEF Vault!Init, VP!Init, Vault!Idle, VP!Idle, Vault!Memory, VP!Memory
<1>3. SP!TypeOK => Store!TypeOK
  BY DEF Store!TypeOK, SP!TypeOK, Store!Procs, SP!Procs, Store!Request, SP!Request,
         Store!Phases, SP!Phases, Store!Session, SP!Session, Store!Expiries, SP!Expiries,
         Store!Origin, SP!Origin, Store!PhaseOK, SP!PhaseOK
<1>4. VP!TypeOK => Vault!TypeOK
  BY DEF Vault!TypeOK, VP!TypeOK, Vault!Challenge, VP!Challenge, Vault!Vault, VP!Vault,
         Vault!Session, VP!Session, Vault!Request, VP!Request, Vault!Phases, VP!Phases
<1> QED
  BY <1>1, <1>2, <1>3, <1>4

-----------------------------------------------------------------------------

\* What a handler holds in the vault when it reaches the store has its type, so
\* a step of both together is a step of the store.
LEMMA StoreMoves ==
    ASSUME VP!IInv, [Next]_vars
    PROVE  [SP!Next]_SP!vars
<1> USE DEF SP!Next, SP!Step, SP!Procs
<1>1. ASSUME UNCHANGED storeVars PROVE UNCHANGED SP!vars
  BY <1>1 DEF storeVars, SP!vars, SP!tables, SP!history
<1>2. ASSUME NEW p \in Requests, NEW t \in Tokens, Login(p, t) PROVE SP!Next
  <2>1. vreq[p].user \in Users /\ vreq[p].addr \in Addresses \cup {None}
    BY <1>2 DEF Login, VP!IInv, VP!PhaseOK, VP!PhaseBy, VP!TypeOK, VP!Request
  <2>2. \E u \in Users, a \in Addresses \cup {Empty} : Store!StoreSession(p, t, u, a)
    BY <1>2, <2>1 DEF Login
  <2> QED
    BY <2>2, SameActions DEF SP!Arrive
<1>3. ASSUME NEW p \in Requests, AttachStart(p) PROVE SP!Next
  <2>1. vreq[p].user \in Users /\ vreq[p].addr \in Addresses
    BY <1>3 DEF AttachStart, VP!IInv, VP!PhaseOK, VP!PhaseBy
  <2>2. \E u \in Users, a \in Addresses \cup {Empty} : Store!AttachBegin(p, u, a)
    BY <1>3, <2>1 DEF AttachStart
  <2> QED
    BY <2>2, SameActions DEF SP!Arrive
<1>4. ASSUME NEW p \in Requests, AttachDone(p) \/ Rotate(p) PROVE SP!Next
  BY <1>4, SameActions DEF AttachDone, Rotate
<1>5. ASSUME StoreStep PROVE SP!Next
  BY <1>5, SameActions DEF StoreStep, SP!Arrive
<1>6. ASSUME NEW p \in Requests \cup {Cleaner}, Abort(p) PROVE [SP!Next]_SP!vars
  BY <1>1, <1>6, SameActions DEF Abort
<1> QED
  BY <1>1, <1>2, <1>3, <1>4, <1>5, <1>6 DEF Next, vars, VaultStep, VaultTable

-----------------------------------------------------------------------------
(* The session a login is to the vault. *)

\* Row t as the vault sees it.
Row(t) == [user |-> sessions[t].user,
           addr |-> IF sessions[t].addr = Empty THEN None ELSE sessions[t].addr]

\* It is the row of the login's only live token.
ViewFacts ==
    /\ \A t \in Tokens : SP!Live(t) =>
          /\ origin[t] # None /\ origin[t].chain \in Tokens
          /\ Row(t) \in VP!Session /\ Row(t) # None
          /\ View[origin[t].chain] = Row(t)
    /\ \A c \in Tokens : View[c] # None =>
          \E t \in Tokens : SP!Live(t) /\ origin[t].chain = c

LEMMA ViewRow == SP!Inv => ViewFacts
<1> SUFFICES ASSUME SP!Inv PROVE ViewFacts
  OBVIOUS
<1> USE DEF SP!Inv
<1> DEFINE live(c) == {t \in Tokens : SP!Live(t) /\ origin[t].chain = c}
<1>1. ASSUME NEW c \in Tokens
      PROVE  View[c] = IF live(c) = {} THEN None ELSE Row(CHOOSE t \in live(c) : TRUE)
  <2>1. Store!LiveToken(c) = live(c)
    BY DEF Store!LiveToken, Store!Live, SP!Live
  <2> HIDE DEF live
  <2>2. View[c] = IF Store!LiveToken(c) = {} THEN None
                  ELSE Row(CHOOSE t \in Store!LiveToken(c) : TRUE)
    BY DEF View, Row
  <2> QED
    BY <2>1, <2>2, Zenon
<1>2. ASSUME NEW t \in Tokens, SP!Live(t)
      PROVE  /\ origin[t] # None /\ origin[t].chain \in Tokens
             /\ Row(t) \in VP!Session /\ Row(t) # None
             /\ View[origin[t].chain] = Row(t)
  <2>1. origin[t] # None /\ origin[t].chain \in Tokens
    BY <1>2 DEF SP!OnlyStored, SP!TypeOK, SP!Origin
  <2>2. sessions[t] \in SP!Session
    BY <1>2 DEF SP!TypeOK, SP!Live
  <2>3. Row(t) \in VP!Session
    BY <2>2 DEF Row, SP!Session, VP!Session
  <2>4. live(origin[t].chain) = {t}
    BY <1>2, <2>1 DEF SP!OneLivePerChain
  <2>5. View[origin[t].chain] = Row(t)
    BY <1>1, <2>1, <2>4
  <2> QED
    BY <2>1, <2>3, <2>5, VaultAssumptions
<1>3. ASSUME NEW c \in Tokens, View[c] # None
      PROVE  \E t \in Tokens : SP!Live(t) /\ origin[t].chain = c
  BY <1>1, <1>3
<1> QED
  BY <1>2, <1>3 DEF ViewFacts

\* Before and after a step.
LEMMA ViewRows == SP!Inv /\ SP!Inv' => ViewFacts /\ ViewFacts'
  BY ViewRow, PTL

\* A view is given by the rows of its tokens.
LEMMA ViewRange == View = [c \in Tokens |-> View[c]] /\ View' = [c \in Tokens |-> View'[c]]
  BY DEF View

\* A step that writes no row leaves the vault's sessions alone.
LEMMA SameView ==
    ASSUME UNCHANGED <<sessions, origin>>
    PROVE  View' = View
  BY DEF View, Store!LiveToken, Store!Live

-----------------------------------------------------------------------------
(* What the steps of the store are to the vault. *)

\* A rotation is invisible: the replacement has the row of the old token.
LEMMA RotateView ==
    ASSUME SP!Inv, SP!Inv', NEW p \in Requests, SP!RotateCommit(p)
    PROVE  View' = View
<1> USE DEF ViewFacts, SP!Live
<1>1. ViewFacts /\ ViewFacts'
  BY ViewRows
<1>2. PICK old \in Tokens, new \in Tokens : old = req[p].token /\ new = req[p].next
  BY DEF SP!RotateCommit, SP!Inv, SP!TypeOK, SP!PhaseOK, SP!Procs
<1>3. /\ SP!Live(old) /\ req[p].row = sessions[old] /\ origin[new] = None /\ ~SP!Live(new)
  BY <1>2 DEF SP!RotateCommit, SP!Inv, SP!LocksHold, SP!ReplacementsFresh, SP!OnlyStored,
              SP!Procs
<1>4. /\ sessions'[new] = sessions[old] /\ sessions'[old] = None
      /\ origin'[new].chain = origin[old].chain
      /\ \A t \in Tokens \ {old, new} : sessions'[t] = sessions[t] /\ origin'[t] = origin[t]
  BY <1>2, <1>3 DEF SP!RotateCommit, SP!Inv, SP!TypeOK
<1>5. ASSUME NEW c \in Tokens PROVE View'[c] = View[c]
  <2>1. CASE c = origin[old].chain
    <3>1. View[c] = Row(old)
      BY <1>1, <1>3, <2>1
    <3>2. View'[c] = Row(new)'
      BY <1>1, <1>3, <1>4, <2>1
    <3>3. Row(new)' = Row(old)
      BY <1>4 DEF Row
    <3> QED
      BY <3>1, <3>2, <3>3
  <2>2. CASE c # origin[old].chain
    <3>1. ASSUME NEW t \in Tokens \ {old, new}
          PROVE  (SP!Live(t)' <=> SP!Live(t)) /\ Row(t)' = Row(t) /\ origin'[t] = origin[t]
      BY <1>4 DEF Row
    <3>2. View[c] # None => View'[c] = View[c]
      BY <1>1, <1>3, <2>2, <3>1
    <3>3. View'[c] # None => View'[c] = View[c]
      BY <1>1, <1>4, <2>2, <3>1
    <3> QED
      BY <3>2, <3>3
  <2> QED
    BY <2>1, <2>2
<1> QED
  BY <1>5, ViewRange

\* Whatever deletes rows and leaves the others as they are ends their sessions.
LEMMA EndView ==
    ASSUME SP!Inv, SP!Inv', UNCHANGED <<vaultVars, origin>>, NEW D \in SUBSET Tokens,
           \A t \in D : SP!Live(t) /\ ~SP!Live(t)',
           \A t \in Tokens \ D : sessions'[t] = sessions[t]
    PROVE  Vault!EndSessions({origin[t].chain : t \in D})
<1> USE DEF ViewFacts, SP!Live
<1>1. ViewFacts /\ ViewFacts'
  BY ViewRows
<1> PICK S : S = {origin[t].chain : t \in D}
  OBVIOUS
<1>2. S \subseteq Tokens /\ \A c \in S : View[c] # None
  BY <1>1
<1>3. ASSUME NEW c \in Tokens PROVE View'[c] = IF c \in S THEN None ELSE View[c]
  <2>1. CASE c \in S
    <3>1. PICK d \in D : c = origin[d].chain
      BY <2>1
    <3>2. ASSUME NEW t \in Tokens, SP!Live(t)', origin'[t].chain = c PROVE FALSE
      <4>1. t \notin D /\ SP!Live(t) /\ origin[t].chain = c
        BY <3>2
      <4> QED
        BY <3>1, <4>1 DEF SP!Inv, SP!OneLivePerChain
    <3> QED
      BY <1>1, <2>1, <3>2
  <2>2. CASE c \notin S
    <3>1. ASSUME NEW t \in Tokens, origin[t].chain = c
          PROVE  sessions'[t] = sessions[t] /\ Row(t)' = Row(t) /\ origin'[t] = origin[t]
      BY <2>2, <3>1 DEF Row
    <3>2. View[c] # None => View'[c] = View[c]
      BY <1>1, <3>1
    <3>3. View'[c] # None => View'[c] = View[c]
      BY <1>1, <3>1
    <3> QED
      BY <2>2, <3>2, <3>3
  <2> QED
    BY <2>1, <2>2
<1>4. View' = [c \in Tokens |-> IF c \in S THEN None ELSE View[c]]
  BY <1>3, ViewRange
<1>5. Vault!EndSessions(S)
  BY <1>2, <1>4 DEF Vault!EndSessions, Vault!history, vaultVars
<1> QED
  BY <1>5

\* A login stores a session under a new name with the address it holds.
LEMMA LoginView ==
    ASSUME SP!Inv, SP!Inv', VP!IInv, NEW p \in Requests, NEW t \in Tokens, Login(p, t)
    PROVE  Vault!LoginStore(p, t)
<1> USE DEF ViewFacts, SP!Live
<1>1. ViewFacts /\ ViewFacts'
  BY ViewRows
<1> PICK u, a : u = vreq[p].user /\ a = IF vreq[p].addr = None THEN Empty ELSE vreq[p].addr
  OBVIOUS
<1>2. u \in Users /\ vreq[p].addr \in Addresses \cup {None}
  BY DEF Login, VP!IInv, VP!PhaseOK, VP!PhaseBy, VP!TypeOK, VP!Request
<1>3. SP!StoreSession(p, t, u, a)
  BY SameActions DEF Login
<1>4. origin[t] = None /\ View[t] = None
  <2>1. origin[t] = None
    BY <1>3 DEF SP!StoreSession, SP!Fresh
  <2> QED
    BY <1>1, <2>1 DEF SP!Inv, SP!Lineage
<1>5. /\ sessions'[t].user = u /\ sessions'[t].addr = a /\ origin'[t].chain = t
      /\ sessions'[t] # None
      /\ \A s \in Tokens \ {t} : sessions'[s] = sessions[s] /\ origin'[s] = origin[s]
  <2>1. sessions'[t] = [user |-> u, addr |-> a, expires |-> now + TTL]
    BY <1>3 DEF SP!StoreSession, SP!Inv, SP!TypeOK
  <2>2. sessions'[t] \in SP!Session \cup {None} /\ now + TTL \in SP!Expiries
    BY TimeAssumption DEF SP!Inv, SP!TypeOK, SP!Expiries
  <2>3. [user |-> u, addr |-> a, expires |-> now + TTL] \in SP!Session
    BY <1>2, <2>2 DEF SP!Session
  <2> QED
    BY <1>3, <2>1, <2>3, StoreAssumptions DEF SP!StoreSession, SP!Inv, SP!TypeOK
<1>6. Row(t)' = [user |-> u, addr |-> vreq[p].addr]
  BY <1>2, <1>5, EmptyAssumption DEF Row
<1>7. View'[t] = [user |-> u, addr |-> vreq[p].addr]
  BY <1>1, <1>5, <1>6
<1>8. ASSUME NEW c \in Tokens \ {t} PROVE View'[c] = View[c]
  <2>1. ASSUME NEW s \in Tokens \ {t}
        PROVE  sessions'[s] = sessions[s] /\ Row(s)' = Row(s) /\ origin'[s] = origin[s]
    BY <1>5 DEF Row
  <2>2. View[c] # None => View'[c] = View[c]
    BY <1>1, <1>4, <2>1
  <2>3. View'[c] # None => View'[c] = View[c]
    BY <1>1, <1>5, <1>8, <2>1
  <2> QED
    BY <2>2, <2>3
<1>9. View' = [View EXCEPT ![t] = [user |-> u, addr |-> vreq[p].addr]]
  BY <1>7, <1>8, ViewRange
<1> QED
  BY <1>4, <1>9 DEF Login, Vault!LoginStore, Vault!history

-----------------------------------------------------------------------------
(* The handler in both. *)

\* A handler that waits for the locks of its attach is in the last phase of the
\* vault, with the same address, and every row it waits for is its user's;
\* otherwise it is in one of the two only.
CoupledBy(p) ==
    /\ req[p].pc = "attaching" =>
          /\ vreq[p].pc = "attach"
          /\ req[p].addr = vreq[p].addr
          /\ \A t \in req[p].snap : origin[t].user = vreq[p].user
    /\ req[p].pc \notin {"idle", "attaching"} => vreq[p].pc = "idle"

Coupled == \A p \in Requests : CoupledBy(p)

\* The owner of a live row is the one its login fixed.
LEMMA OwnerFixed ==
    ASSUME SP!Inv, NEW t \in Tokens, SP!Live(t)
    PROVE  origin[t] # None /\ sessions[t].user = origin[t].user
  BY DEF SP!Inv, SP!OnlyStored, SP!ChainFacts, SP!Lineage

\* One UPDATE writes the address of many logins at once, all of them the
\* caller's.
LEMMA AttachView ==
    ASSUME SP!Inv, SP!Inv', VP!IInv, Coupled, NEW p \in Requests, AttachDone(p)
    PROVE  Hit(p) \in SUBSET Tokens /\ Vault!Attach(p, Hit(p))
<1> USE DEF ViewFacts, SP!Live
<1>1. ViewFacts /\ ViewFacts'
  BY ViewRows
<1> PICK u, a, snap : u = vreq[p].user /\ a = vreq[p].addr /\ snap = req[p].snap
  OBVIOUS
<1>2. u \in Users /\ a \in Addresses /\ a # Empty
  BY EmptyAssumption DEF AttachDone, VP!IInv, VP!PhaseOK, VP!PhaseBy
<1>3. SP!AttachEnd(p)
  BY SameActions DEF AttachDone
<1>4. req[p].addr = a /\ \A t \in snap : origin[t].user = u
  BY <1>3 DEF SP!AttachEnd, Coupled, CoupledBy
<1>5. snap \subseteq Tokens
  BY DEF SP!Inv, SP!TypeOK, SP!Request, SP!Procs
<1>6. \A t \in Tokens : sessions'[t] = IF t \in snap /\ SP!Live(t)
                                       THEN [user |-> sessions[t].user, addr |-> a,
                                             expires |-> sessions[t].expires]
                                       ELSE sessions[t]
  BY <1>3, <1>4 DEF SP!AttachEnd
<1>7. UNCHANGED origin
  BY <1>3 DEF SP!AttachEnd, SP!history
<1> PICK H : H = {origin[t].chain : t \in {t \in snap : SP!Live(t)}}
  OBVIOUS
<1>8. Hit(p) = H
  BY DEF Hit, Store!Live
<1>9. ASSUME NEW t \in Tokens
      PROVE  /\ SP!Live(t) <=> SP!Live(t)'
             /\ SP!Live(t) => Row(t)' = IF t \in snap THEN [Row(t) EXCEPT !.addr = a] ELSE Row(t)
  <2>1. SP!Live(t) <=> SP!Live(t)'
    <3>1. CASE t \in snap /\ SP!Live(t)
      <4>1. [user |-> sessions[t].user, addr |-> a, expires |-> sessions[t].expires] \in SP!Session
        BY <1>2, <3>1 DEF SP!Inv, SP!TypeOK, SP!Session
      <4> QED
        BY <1>6, <3>1, <4>1, StoreAssumptions
    <3>2. CASE ~(t \in snap /\ SP!Live(t))
      BY <1>6, <3>2
    <3> QED
      BY <3>1, <3>2
  <2>2. ASSUME SP!Live(t), t \in snap PROVE Row(t)' = [Row(t) EXCEPT !.addr = a]
    <3>1. sessions'[t] = [user |-> sessions[t].user, addr |-> a,
                          expires |-> sessions[t].expires]
      BY <1>6, <2>2
    <3>2. sessions'[t].user = sessions[t].user /\ sessions'[t].addr = a
      BY <3>1
    <3> QED
      BY <1>2, <3>2 DEF Row
  <2>3. ASSUME SP!Live(t), t \notin snap PROVE Row(t)' = Row(t)
    BY <1>6, <2>3 DEF Row
  <2> QED
    BY <2>1, <2>2, <2>3
<1>10. ASSUME NEW c \in H
       PROVE  /\ c \in Tokens /\ View[c] # None /\ View[c].user = u
              /\ View'[c] = [View[c] EXCEPT !.addr = a]
  <2>1. PICK t \in snap : SP!Live(t) /\ c = origin[t].chain
    OBVIOUS
  <2>2. c \in Tokens /\ View[c] = Row(t) /\ Row(t) # None
    BY <1>1, <1>5, <2>1
  <2>3. Row(t).user = u
    BY <1>4, <1>5, <2>1, OwnerFixed DEF Row
  <2>4. View'[c] = Row(t)'
    BY <1>1, <1>5, <1>7, <1>9, <2>1
  <2> QED
    BY <1>5, <1>9, <2>1, <2>2, <2>3, <2>4
<1>11. ASSUME NEW c \in Tokens \ H PROVE View'[c] = View[c]
  <2>1. ASSUME NEW t \in Tokens, SP!Live(t), origin[t].chain = c PROVE Row(t)' = Row(t)
    BY <1>9, <1>11, <2>1
  <2>2. View[c] # None => View'[c] = View[c]
    BY <1>1, <1>7, <1>9, <2>1
  <2>3. View'[c] # None => View'[c] = View[c]
    BY <1>1, <1>7, <1>9, <2>1
  <2> QED
    BY <2>2, <2>3
<1>12. H \subseteq Vault!Own(u)
  BY <1>10 DEF Vault!Own
<1>13. View' = [c \in Tokens |-> IF c \in H THEN [View[c] EXCEPT !.addr = a] ELSE View[c]]
  BY <1>10, <1>11, ViewRange
<1>14. raced' = IF H = Vault!Own(u) THEN raced ELSE raced \cup {u}
  BY <1>8 DEF AttachDone
<1>15. Vault!Attach(p, H)
  BY <1>12, <1>13, <1>14 DEF AttachDone, Vault!Attach
<1> QED
  BY <1>8, <1>10, <1>15

\* Every step of both is a step of the vault or invisible to it.
LEMMA VaultMoves ==
    ASSUME SP!Inv, SP!Inv', VP!IInv, Coupled, [Next]_vars
    PROVE  [Vault!Next]_Vault!vars
<1>1. ASSUME UNCHANGED <<sessions, origin, vaultVars>> PROVE UNCHANGED Vault!vars
  BY <1>1, SameView DEF vaultVars, Vault!vars, Vault!tables, Vault!history
<1>2. ASSUME NEW p \in Requests, VaultStep(p) PROVE Vault!Next
  BY <1>2 DEF VaultStep, Vault!Next
<1>3. CASE VaultTable
  BY <1>3 DEF VaultTable, Vault!Next
<1>4. ASSUME NEW p \in Requests, NEW t \in Tokens, Login(p, t) PROVE Vault!Next
  BY <1>4, LoginView DEF Vault!Next
<1>5. ASSUME NEW p \in Requests, AttachStart(p) PROVE UNCHANGED Vault!vars
  BY <1>1, <1>5 DEF AttachStart, Store!AttachBegin, Store!tables, Store!history
<1>6. ASSUME NEW p \in Requests, AttachDone(p) PROVE Vault!Next
  BY <1>6, AttachView DEF Vault!Next
<1>7. ASSUME NEW p \in Requests, Rotate(p) PROVE UNCHANGED Vault!vars
  BY <1>7, SameActions, RotateView
     DEF Rotate, vaultVars, Vault!vars, Vault!tables, Vault!history
<1>8. ASSUME StoreStep, UNCHANGED <<sessions, origin>> PROVE UNCHANGED Vault!vars
  BY <1>1, <1>8 DEF StoreStep
<1>9. ASSUME NEW p \in Requests \cup {Cleaner}, SP!DeleteEnd(p), UNCHANGED vaultVars
      PROVE  Vault!Next
  <2> PICK D : D = {t \in req[p].snap : SP!Live(t)}
    OBVIOUS
  <2>1. D \subseteq Tokens
    BY DEF SP!Inv, SP!TypeOK, SP!Request, SP!Procs
  <2>2. /\ UNCHANGED origin
        /\ \A t \in D : SP!Live(t) /\ ~SP!Live(t)'
        /\ \A t \in Tokens \ D : sessions'[t] = sessions[t]
    BY <1>9, <2>1 DEF SP!DeleteEnd, SP!Live
  <2>3. Vault!EndSessions({origin[t].chain : t \in D})
    BY <1>9, <2>1, <2>2, EndView
  <2>4. {origin[t].chain : t \in D} \subseteq Tokens
    BY <2>1, <2>2 DEF SP!Inv, SP!OnlyStored, SP!TypeOK, SP!Origin
  <2> QED
    BY <2>3, <2>4 DEF Vault!Next
<1>10. ASSUME NEW p \in Requests \cup {Cleaner}, SP!RevokeCommit(p), UNCHANGED vaultVars
       PROVE  Vault!Next
  <2> PICK D : D = {req[p].token}
    OBVIOUS
  <2>1. D \subseteq Tokens /\ \A t \in D : SP!Live(t)
    BY <1>10 DEF SP!RevokeCommit, SP!Inv, SP!TypeOK, SP!PhaseOK, SP!LocksHold, SP!Procs
  <2>2. /\ UNCHANGED origin
        /\ \A t \in D : ~SP!Live(t)'
        /\ \A t \in Tokens \ D : sessions'[t] = sessions[t]
    BY <1>10, <2>1 DEF SP!RevokeCommit, SP!Live, SP!Inv, SP!TypeOK
  <2>3. Vault!EndSessions({origin[t].chain : t \in D})
    BY <1>10, <2>1, <2>2, EndView
  <2>4. {origin[t].chain : t \in D} \subseteq Tokens
    BY <2>1, <2>2 DEF SP!Inv, SP!OnlyStored, SP!TypeOK, SP!Origin
  <2> QED
    BY <2>3, <2>4 DEF Vault!Next
<1>11. ASSUME StoreStep PROVE [Vault!Next]_Vault!vars
  <2>1. \/ UNCHANGED <<sessions, origin>>
        \/ \E p \in Requests \cup {Cleaner} : SP!DeleteEnd(p) \/ SP!RevokeCommit(p)
    <3> USE DEF SP!tables, SP!history
    <3>1. ASSUME NEW p PROVE
            /\ \A t : SP!RefreshBegin(p, t) \/ SP!LogoutBegin(p, t) \/ SP!RefreshGenerate(p, t)
                 => UNCHANGED <<sessions, origin>>
            /\ SP!Respond(p) \/ SP!RefreshReused(p) \/ SP!RefreshGenerateFails(p)
               \/ SP!RotateBegin(p) \/ SP!RotateMiss(p) \/ SP!RotateLock(p)
               \/ SP!PurgeBegin(p) \/ SP!RevokeMiss(p) \/ SP!RevokeLock(p)
                 => UNCHANGED <<sessions, origin>>
      BY DEF SP!RefreshBegin, SP!LogoutBegin, SP!RefreshGenerate, SP!Respond, SP!RefreshReused,
             SP!RefreshGenerateFails, SP!RotateBegin, SP!RotateMiss, SP!RotateLock,
             SP!PurgeBegin, SP!RevokeMiss, SP!RevokeLock
    <3>2. SP!CleanupBegin \/ SP!Tick => UNCHANGED <<sessions, origin>>
      BY DEF SP!CleanupBegin, SP!Tick
    <3> QED
      BY <1>11, <3>1, <3>2, SameActions DEF StoreStep
  <2>2. UNCHANGED vaultVars
    BY <1>11 DEF StoreStep
  <2> QED
    BY <1>8, <1>9, <1>10, <1>11, <2>1, <2>2
<1>12. ASSUME NEW p \in Requests \cup {Cleaner}, Abort(p) PROVE [Vault!Next]_Vault!vars
  <2>1. UNCHANGED <<sessions, origin>>
    BY <1>12 DEF Abort, Store!Abort, Store!history, storeVars
  <2>2. CASE p \in Requests /\ vreq[p].pc # "idle"
    BY <1>12, <2>2 DEF Abort, Vault!Next
  <2>3. CASE ~(p \in Requests /\ vreq[p].pc # "idle")
    BY <1>1, <1>12, <2>1, <2>3 DEF Abort
  <2> QED
    BY <2>2, <2>3
<1>13. CASE UNCHANGED vars
  BY <1>1, <1>13 DEF vars, storeVars
<1> QED
  BY <1>2, <1>3, <1>4, <1>5, <1>6, <1>7, <1>11, <1>12, <1>13 DEF Next

-----------------------------------------------------------------------------
(* The invariant of both together. *)

\* How a token came to be is never rewritten.
LEMMA OriginStays ==
    ASSUME SP!Inv, [SP!Next]_SP!vars, NEW t \in Tokens, origin[t] # None
    PROVE  origin'[t] = origin[t]
<1>1. ASSUME NEW p, NEW s, NEW u, NEW a, SP!StoreSession(p, s, u, a)
      PROVE  origin'[t] = origin[t]
  BY <1>1 DEF SP!StoreSession, SP!Fresh, SP!Inv, SP!TypeOK
<1>2. ASSUME NEW p \in SP!Procs, SP!RotateCommit(p) PROVE origin'[t] = origin[t]
  BY <1>2 DEF SP!RotateCommit, SP!Inv, SP!TypeOK, SP!ReplacementsFresh
<1>3. ASSUME NEW p, SP!RevokeCommit(p) \/ SP!DeleteEnd(p) \/ SP!AttachEnd(p)
      PROVE  origin'[t] = origin[t]
  BY <1>3 DEF SP!RevokeCommit, SP!DeleteEnd, SP!AttachEnd, SP!history
<1> QED
  BY <1>1, <1>2, <1>3, SP!Writers, StoreAssumptions DEF SP!Inv

\* Only the last statement of the vault's handlers is in both.
LEMMA CoupledStep ==
    ASSUME SP!Inv, VP!IInv, Coupled, [Next]_vars
    PROVE  Coupled'
<1>1. ASSUME NEW q \in Requests, req'[q] = req[q], vreq'[q] = vreq[q] PROVE CoupledBy(q)'
  <2>1. CoupledBy(q)
    BY DEF Coupled
  <2>2. \A t \in req[q].snap : t \in Tokens /\ origin'[t] = origin[t]
    BY StoreMoves, OriginStays DEF SP!Inv, SP!OnlyStored, SP!TypeOK, SP!Request, SP!Procs
  <2> QED
    BY <1>1, <2>1, <2>2 DEF CoupledBy
<1>2. ASSUME NEW q \in Requests,
             \/ req'[q].pc = "idle"
             \/ req'[q].pc # "attaching" /\ vreq'[q].pc = "idle"
      PROVE  CoupledBy(q)'
  BY <1>2 DEF CoupledBy
<1>t. req \in [Requests \cup {Cleaner} -> SP!Request] /\ vreq \in [Requests -> VP!Request]
  BY DEF SP!Inv, SP!TypeOK, SP!Procs, VP!IInv, VP!TypeOK
<1> USE CleanerAssumption
        DEF SP!Idle, SP!Memory, SP!Answers, SP!Presents, SP!Rotates, SP!Revokes, SP!Deletes,
            SP!Attaches, SP!tables, SP!history
<1>3. ASSUME NEW p \in Requests, VaultStep(p) PROVE Coupled'
  <2>1. UNCHANGED req
    BY <1>3 DEF VaultStep, storeVars
  <2>2. req[p].pc = "idle"
    <3>1. CASE Free(p)
      BY <3>1 DEF Free
    <3>2. CASE ~Free(p)
      <4>1. vreq[p].pc \in {"consume", "upsert"}
        BY <1>3, <3>2 DEF VaultStep, Vault!Consume, Vault!ConsumeRefused, Vault!Upsert,
                          Vault!UpsertRefused
      <4> QED
        BY <4>1 DEF Coupled, CoupledBy
    <3> QED
      BY <3>1, <3>2
  <2>3. \A q \in Requests \ {p} : vreq'[q] = vreq[q]
    BY <1>3, <1>t
       DEF VaultStep, Vault!PutBegin, Vault!BindBegin, Vault!LoginRead, Vault!WalletLogin,
           Vault!Consume, Vault!ConsumeRefused, Vault!Upsert, Vault!UpsertRefused,
           Vault!Goto, Vault!Finish
  <2>4. ASSUME NEW q \in Requests PROVE CoupledBy(q)'
    <3>1. CASE q = p
      <4>1. req'[q].pc = "idle"
        BY <2>1, <2>2, <3>1
      <4> QED
        BY <1>2, <4>1
    <3>2. CASE q # p
      BY <1>1, <2>1, <2>3, <3>2
    <3> QED
      BY <3>1, <3>2
  <2> QED
    BY <2>4 DEF Coupled
<1>4. CASE VaultTable
  <2>1. UNCHANGED <<req, vreq>>
    BY <1>4 DEF VaultTable, storeVars, Vault!Expire, Vault!IssueChallenge, Vault!PutSalt
  <2> QED
    BY <1>1, <2>1 DEF Coupled
<1>5. ASSUME NEW p \in Requests, NEW t \in Tokens, Login(p, t) PROVE Coupled'
  <2>1. /\ req'[p].pc = "respond" /\ vreq'[p].pc = "idle"
        /\ \A q \in Requests \ {p} : req'[q] = req[q] /\ vreq'[q] = vreq[q]
    BY <1>5, <1>t, SameActions
       DEF Login, SP!StoreSession, Vault!Finish, Vault!Idle, Vault!Memory
  <2>2. ASSUME NEW q \in Requests PROVE CoupledBy(q)'
    <3>1. CASE q = p
      <4>1. req'[q].pc = "respond" /\ vreq'[q].pc = "idle"
        BY <2>1, <3>1
      <4> QED
        BY <1>2, <4>1
    <3>2. CASE q # p
      BY <1>1, <2>1, <3>2
    <3> QED
      BY <3>1, <3>2
  <2> QED
    BY <2>2 DEF Coupled
<1>6. ASSUME NEW p \in Requests, AttachStart(p) PROVE Coupled'
  <2>1. SP!AttachBegin(p, vreq[p].user, vreq[p].addr) /\ vreq[p].pc = "attach"
        /\ UNCHANGED <<vreq, origin>>
    BY <1>6, SameActions DEF AttachStart, vaultVars, SP!AttachBegin
  <2>2. /\ \A q \in Requests \ {p} : req'[q] = req[q]
        /\ req'[p].pc = "attaching" /\ req'[p].addr = vreq[p].addr
        /\ req'[p].snap = {t \in Tokens : /\ SP!Live(t)
                                          /\ sessions[t].user = vreq[p].user
                                          /\ sessions[t].expires > now}
    BY <2>1, <1>t DEF SP!AttachBegin
  <2>3. CoupledBy(p)'
    BY <2>1, <2>2, OwnerFixed DEF CoupledBy
  <2> QED
    BY <1>1, <2>1, <2>2, <2>3 DEF Coupled
<1>7. ASSUME NEW p \in Requests, AttachDone(p) PROVE Coupled'
  <2>1. /\ req'[p].pc = "idle"
        /\ \A q \in Requests \ {p} : req'[q] = req[q] /\ vreq'[q] = vreq[q]
    BY <1>7, <1>t, SameActions DEF AttachDone, SP!AttachEnd, Vault!Finish
  <2>2. ASSUME NEW q \in Requests PROVE CoupledBy(q)'
    <3>1. CASE q = p
      <4>1. req'[q].pc = "idle"
        BY <2>1, <3>1
      <4> QED
        BY <1>2, <4>1
    <3>2. CASE q # p
      BY <1>1, <2>1, <3>2
    <3> QED
      BY <3>1, <3>2
  <2> QED
    BY <2>2 DEF Coupled
<1>8. ASSUME NEW p \in Requests \cup {Cleaner}, UNCHANGED vreq,
             p \in Requests => vreq[p].pc = "idle",
             NEW m, m.pc # "attaching", req' = [req EXCEPT ![p] = m]
      PROVE  Coupled'
  <2>1. \A q \in Requests \ {p} : req'[q] = req[q]
    BY <1>8, <1>t
  <2>2. p \in Requests => CoupledBy(p)'
    BY <1>2, <1>8, <1>t
  <2> QED
    BY <1>1, <1>8, <2>1, <2>2 DEF Coupled
<1>9. ASSUME NEW p \in Requests \cup {Cleaner}, req[p].pc \notin {"idle", "attaching"}
      PROVE  p \in Requests => vreq[p].pc = "idle"
  BY <1>9 DEF Coupled, CoupledBy
<1>10. ASSUME NEW p \in Requests, Rotate(p) PROVE Coupled'
  <2>1. SP!RotateCommit(p) /\ UNCHANGED vreq
    BY <1>10, SameActions DEF Rotate, vaultVars
  <2> QED
    BY <1>8, <1>9, <2>1 DEF SP!RotateCommit
<1>11. CASE StoreStep
  <2>v. UNCHANGED vreq
    BY <1>11 DEF StoreStep, vaultVars
  <2>1. ASSUME NEW p \in Requests, NEW t \in Tokens, Free(p),
               SP!RefreshBegin(p, t) \/ SP!LogoutBegin(p, t)
        PROVE  Coupled'
    BY <1>8, <2>1, <2>v DEF Free, SP!RefreshBegin, SP!LogoutBegin
  <2>2. ASSUME SP!CleanupBegin PROVE Coupled'
    BY <1>8, <2>2, <2>v DEF SP!CleanupBegin
  <2>3. ASSUME NEW p \in Requests \cup {Cleaner},
               \/ SP!Respond(p) \/ SP!RefreshReused(p) \/ SP!RefreshGenerateFails(p)
               \/ \E t \in Tokens : SP!RefreshGenerate(p, t)
               \/ SP!RotateBegin(p) \/ SP!RotateMiss(p) \/ SP!RotateLock(p)
               \/ SP!PurgeBegin(p) \/ SP!DeleteEnd(p)
               \/ SP!RevokeMiss(p) \/ SP!RevokeLock(p) \/ SP!RevokeCommit(p)
        PROVE  Coupled'
    <3>1. /\ req[p].pc \notin {"idle", "attaching"}
          /\ \E m : m.pc # "attaching" /\ req' = [req EXCEPT ![p] = m]
      BY <2>3
         DEF SP!Respond, SP!RefreshReused, SP!RefreshGenerateFails, SP!RefreshGenerate,
             SP!RotateBegin, SP!RotateMiss, SP!RotateLock, SP!PurgeBegin, SP!DeleteEnd,
             SP!RevokeMiss, SP!RevokeLock, SP!RevokeCommit
    <3> QED
      BY <1>8, <1>9, <2>v, <3>1
  <2>4. ASSUME SP!Tick PROVE Coupled'
    BY <1>1, <2>4, <2>v DEF SP!Tick, Coupled
  <2> QED
    BY <1>11, <2>1, <2>2, <2>3, <2>4, SameActions DEF StoreStep
<1>12. ASSUME NEW p \in Requests \cup {Cleaner}, Abort(p) PROVE Coupled'
  <2>1. /\ req'[p].pc = "idle"
        /\ \A q \in Requests \ {p} : req'[q] = req[q] /\ vreq'[q] = vreq[q]
    BY <1>12, <1>t, SameActions
       DEF Abort, storeVars, vaultVars, SP!Abort, Vault!Abort, Vault!Finish
  <2>2. ASSUME NEW q \in Requests PROVE CoupledBy(q)'
    <3>1. CASE q = p
      <4>1. req'[q].pc = "idle"
        BY <2>1, <3>1
      <4> QED
        BY <1>2, <4>1
    <3>2. CASE q # p
      BY <1>1, <2>1, <3>2
    <3> QED
      BY <3>1, <3>2
  <2> QED
    BY <2>2 DEF Coupled
<1>13. CASE UNCHANGED vars
  BY <1>1, <1>13 DEF Coupled, vars, storeVars, vaultVars
<1> QED
  BY <1>3, <1>4, <1>5, <1>6, <1>7, <1>10, <1>11, <1>12, <1>13 DEF Next

\* A claim is a user and an address or none.
SignedType == signed \subseteq Users \X (Addresses \cup {None})

\* The claims of an access token were earned when it was signed.
SignedEarned == \A c \in signed : c[2] = None \/ VP!Earned(c[1], c[2])

\* What both components keep alone, and what they keep together.
IInv ==
    /\ SP!Inv
    /\ VP!IInv
    /\ Coupled
    /\ SignedType
    /\ SignedEarned

\* A handler signs what it holds, which its user has earned: at the end of a
\* login, or with the row that a rotation returns.
LEMMA SignStep ==
    ASSUME IInv, [Next]_vars
    PROVE  \/ UNCHANGED signed
           \/ \E u \in Users, a \in Addresses \cup {None} :
                 /\ signed' = signed \cup {<<u, a>>}
                 /\ a = None \/ VP!Earned(u, a)
<1> USE DEF IInv
<1>1. ASSUME NEW p \in Requests, NEW t \in Tokens, Login(p, t)
      PROVE  \E u \in Users, a \in Addresses \cup {None} :
                 /\ signed' = signed \cup {<<u, a>>}
                 /\ a = None \/ VP!Earned(u, a)
  <2> PICK u, a : u = vreq[p].user /\ a = vreq[p].addr
    OBVIOUS
  <2>1. u \in Users /\ a \in Addresses \cup {None}
    BY <1>1 DEF Login, VP!IInv, VP!PhaseOK, VP!PhaseBy, VP!TypeOK, VP!Request
  <2>2. a = None \/ VP!Earned(u, a)
    BY <1>1 DEF Login, VP!IInv, VP!HeldEarned, VP!EarnedBy
  <2>3. signed' = signed \cup {<<u, a>>}
    BY <1>1, <2>1, EmptyAssumption DEF Login, Sign
  <2> QED
    BY <2>1, <2>2, <2>3
<1>2. ASSUME NEW p \in Requests, Rotate(p)
      PROVE  \E u \in Users, a \in Addresses \cup {None} :
                 /\ signed' = signed \cup {<<u, a>>}
                 /\ a = None \/ VP!Earned(u, a)
  <2>1. SP!RotateCommit(p)
    BY <1>2, SameActions DEF Rotate
  <2> PICK old : old = req[p].token
    OBVIOUS
  <2>2. old \in Tokens /\ SP!Live(old) /\ req[p].row = sessions[old]
    BY <2>1 DEF SP!RotateCommit, SP!Inv, SP!TypeOK, SP!PhaseOK, SP!LocksHold, SP!Procs
  <2>3. /\ origin[old].chain \in Tokens /\ Row(old) \in VP!Session /\ Row(old) # None
        /\ View[origin[old].chain] = Row(old)
    BY <2>2, ViewRow DEF ViewFacts
  <2>4. Row(old).user \in Users /\ Row(old).addr \in Addresses \cup {None}
    BY <2>3 DEF VP!Session
  <2>5. Row(old).addr = None \/ VP!Earned(Row(old).user, Row(old).addr)
    BY <2>3 DEF VP!IInv, VP!SessionAddressEarned, VP!Earned
  <2>6. signed' = signed \cup {<<Row(old).user, Row(old).addr>>}
    BY <1>2, <2>2 DEF Rotate, Sign, Row
  <2> QED
    BY <2>4, <2>5, <2>6
<1> QED
  BY <1>1, <1>2 DEF Next, vars, VaultStep, VaultTable, AttachStart, AttachDone, StoreStep, Abort

\* The invariant holds at first ...
LEMMA InvInit == Init => IInv
<1> SUFFICES ASSUME Init PROVE IInv
  OBVIOUS
<1>1. SP!Inv /\ VP!IInv
  BY SameState, StoreInvariant, VaultInvariant DEF Init
<1>2. Coupled
  BY DEF Coupled, CoupledBy, Init, Store!Init, Store!Procs, Store!Idle, Store!Memory
<1>3. SignedType /\ SignedEarned
  BY DEF SignedType, SignedEarned, Init
<1> QED
  BY <1>1, <1>2, <1>3 DEF IInv

\* ... and every step keeps it.
LEMMA InvStep == IInv /\ [Next]_vars => IInv'
<1> SUFFICES ASSUME IInv, [Next]_vars PROVE IInv'
  OBVIOUS
<1> USE DEF IInv
<1>1. SP!Inv'
  BY StoreMoves, StoreInvariant
<1>2. [VP!Next]_VP!vars
  BY <1>1, VaultMoves, SameVaultNext
<1>3. VP!IInv'
  BY <1>2, VaultInvariant
<1>4. Coupled'
  BY CoupledStep
<1>5. SignedType'
  BY SignStep DEF SignedType
<1>6. SignedEarned'
  <2>1. ASSUME NEW c \in signed PROVE c[2] = None \/ VP!Earned(c[1], c[2])'
    <3>1. c[1] \in Users /\ (c[2] = None \/ VP!Earned(c[1], c[2]))
      BY DEF SignedType, SignedEarned
    <3> QED
      BY <1>2, <3>1, EarnedKept
  <2>2. ASSUME NEW u \in Users, NEW a, VP!Earned(u, a) PROVE VP!Earned(u, a)'
    BY <1>2, <2>2, EarnedKept
  <2> QED
    BY <2>1, <2>2, SignStep DEF SignedEarned
<1> QED
  BY <1>1, <1>3, <1>4, <1>5, <1>6

\* The invariants of both components, and what ties them together, hold in
\* every reachable state.
THEOREM Invariance == Spec => []IInv
  BY InvInit, InvStep, PTL DEF Spec

\* Every variable has its type.
THEOREM TypeAlways == Spec => []TypeOK
<1>1. IInv => TypeOK
  BY SameState DEF IInv, SP!Inv, VP!IInv, SignedType, TypeOK
<1> QED
  BY <1>1, Invariance, PTL

\* No access token, signed at a login or at a refresh that any number of
\* attaches, rotations and purges overlap, names an address that its user did
\* not sign in with, prove or bind.
THEOREM SignedAddressEarnedAlways == Spec => []SignedAddressEarned
<1>1. IInv => SignedAddressEarned
  BY DEF IInv, SignedEarned, VP!Earned, SignedAddressEarned
<1> QED
  BY <1>1, Invariance, PTL

\* The store with its locks, transactions and failures behaves like the
\* sessions of WalletVault: every behaviour of both together is one of the
\* vault alone.
THEOREM Refinement == Spec => ImplementsVault
<1>1. IInv /\ IInv' /\ [Next]_vars => [Vault!Next]_Vault!vars
  BY VaultMoves DEF IInv
<1>2. Init => Vault!Init
  BY DEF Init
<1> QED
  BY <1>1, <1>2, Invariance, PTL DEF Spec, ImplementsVault, Vault!Spec
=============================================================================
