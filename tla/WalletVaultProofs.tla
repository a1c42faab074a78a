-------------------------- MODULE WalletVaultProofs --------------------------
(***************************************************************************)
(* The safety properties of WalletVault hold for any number of users,      *)
(* wallets, challenges, sessions and handlers.                             *)
(***************************************************************************)
EXTENDS WalletVault, TLAPS

\* u has earned address a: signed in with it, bound it or proved it.
Earned(u, a) ==
    \/ a = Wallet[u]
    \/ \E b \in bound[u] : b.addr = a
    \/ \E n \in Nonces : accepted[n] # <<>> /\ accepted[n][1] = [user |-> u, addr |-> a]

\* What a handler holds in its phase.
PhaseBy(p) ==
    /\ req[p].pc # "idle" => req[p].user \in Users
    /\ req[p].pc \in {"consume", "upsert"} => req[p].nonce \in Nonces
    /\ req[p].pc \in {"consume", "upsert", "attach"} => req[p].addr \in Addresses
    /\ req[p].pc = "consume" => challenges[req[p].nonce] # None

PhaseOK == \A p \in Requests : PhaseBy(p)

\* A challenge is unused until a request is let in, and lets in the one user
\* it was issued to.
ChallengeBy(n) ==
    /\ challenges[n] = None => accepted[n] = <<>>
    /\ challenges[n] # None =>
          IF challenges[n].used
          THEN \E a \in Addresses : accepted[n] = <<[user |-> challenges[n].user, addr |-> a]>>
          ELSE accepted[n] = <<>>

ChallengeOK == \A n \in Nonces : ChallengeBy(n)

\* A handler about to write an address has earned it.
EarnedBy(p) ==
    /\ req[p].pc = "upsert" =>
          /\ challenges[req[p].nonce] # None
          /\ challenges[req[p].nonce].user = req[p].user
          /\ accepted[req[p].nonce] = <<[user |-> req[p].user, addr |-> req[p].addr]>>
    /\ req[p].pc = "attach" => Earned(req[p].user, req[p].addr)
    /\ req[p].pc = "store" => req[p].addr = None \/ Earned(req[p].user, req[p].addr)

HeldEarned == \A p \in Requests : EarnedBy(p)

\* The address a handler is about to write is the one in the vault, unless the
\* user's requests overlapped or it binds addresses by zkLogin.
AgreesBy(p) ==
    LET u == req[p].user
    IN  u \notin raced =>
          /\ req[p].pc = "attach" /\ ~MayBind(u) => req[p].addr = VaultAddr(u)
          /\ req[p].pc = "store" /\ Wallet[u] = None => req[p].addr = VaultAddr(u)

HeldAgrees == \A p \in Requests : AgreesBy(p)

\* The inductive invariant.
IInv ==
    /\ TypeOK
    /\ PhaseOK
    /\ ChallengeOK
    /\ HeldEarned
    /\ HeldAgrees
    /\ VaultProved
    /\ CredentialUnique
    /\ SessionAddressEarned
    /\ BindSaltKept
    /\ AgreeUnlessRaced

-----------------------------------------------------------------------------

\* Appending a member of X to a sequence over X gives one.
LEMMA AppendType ==
    ASSUME NEW X, NEW s \in Seq(X), NEW r \in X
    PROVE  Append(s, r) \in Seq(X)
  OBVIOUS

\* The first entry of a list.
LEMMA AppendFirst ==
    ASSUME NEW r
    PROVE  Append(<<>>, r) = <<r>> /\ <<r>> # <<>> /\ <<r>>[1] = r /\ Len(<<r>>) = 1
  OBVIOUS

\* A challenge that was issued stays, and stays its user's: what a handler read
\* of it before its last await still names the right user.
LEMMA ChallengeStays ==
    ASSUME TypeOK, Next, NEW m \in Nonces, challenges[m] # None
    PROVE  challenges'[m] # None /\ challenges'[m].user = challenges[m].user
<1> USE NoneAssumption, RecordAssumption
<1>1. ASSUME NEW n \in Nonces, Expire(n)
      PROVE  challenges'[m] # None /\ challenges'[m].user = challenges[m].user
  <2>1. challenges[m] \in Challenge /\ [challenges[m] EXCEPT !.expired = TRUE] \in Challenge
    BY DEF TypeOK, Challenge
  <2>2. challenges'[m] = challenges[m] \/ challenges'[m] = [challenges[m] EXCEPT !.expired = TRUE]
    BY <1>1 DEF Expire, TypeOK
  <2> QED
    BY <2>1, <2>2 DEF Challenge
<1>2. ASSUME NEW p \in Requests, Consume(p)
      PROVE  challenges'[m] # None /\ challenges'[m].user = challenges[m].user
  <2>1. challenges[m] \in Challenge /\ [challenges[m] EXCEPT !.used = TRUE] \in Challenge
    BY DEF TypeOK, Challenge
  <2>2. challenges'[m] = challenges[m] \/ challenges'[m] = [challenges[m] EXCEPT !.used = TRUE]
    BY <1>2 DEF Consume, TypeOK
  <2> QED
    BY <2>1, <2>2 DEF Challenge
<1>3. ASSUME NEW n \in Nonces, NEW u \in Users, IssueChallenge(u, n)
      PROVE  challenges'[m] = challenges[m]
  BY <1>3 DEF IssueChallenge, TypeOK
<1>4. ASSUME UNCHANGED challenges PROVE challenges'[m] = challenges[m]
  BY <1>4
<1> QED
  BY <1>1, <1>2, <1>3, <1>4 DEF Next, PutBegin, ConsumeRefused, Upsert, UpsertRefused, Attach,
     BindBegin, LoginRead, WalletLogin, LoginStore, Abort, PutSalt, EndSessions, tables

\* Every step keeps the types.
LEMMA TypeStep ==
    ASSUME TypeOK, PhaseOK, Next
    PROVE  TypeOK'
<1> USE UserAssumption, WalletAssumption
<1>1. ASSUME NEW u \in Users, NEW n \in Nonces, IssueChallenge(u, n)
      PROVE  TypeOK'
  BY <1>1 DEF IssueChallenge, TypeOK, Challenge, history
<1>2. ASSUME NEW n \in Nonces, Expire(n)
      PROVE  TypeOK'
  BY <1>2 DEF Expire, TypeOK, Challenge, history
<1>3. ASSUME NEW p \in Requests, NEW u \in Users, NEW n \in Nonces, NEW a \in Addresses,
             NEW c \in Credentials \cup {None}, PutBegin(p, u, n, a, c)
      PROVE  TypeOK'
  BY <1>3 DEF PutBegin, TypeOK, Request, Phases, Memory, tables, history
<1>4. ASSUME NEW p \in Requests, Consume(p)
      PROVE  TypeOK'
  <2> DEFINE n == req[p].nonce
             r == [user |-> req[p].user, addr |-> req[p].addr]
             ch == challenges[n]
  <2>1. n \in Nonces /\ r \in [user : Users, addr : Addresses] /\ ch # None
    BY <1>4 DEF Consume, PhaseOK, PhaseBy
  <2>2. Append(accepted[n], r) \in Seq([user : Users, addr : Addresses])
    BY <2>1, AppendType DEF TypeOK
  <2>3. accepted' \in [Nonces -> Seq([user : Users, addr : Addresses])]
    BY <1>4, <2>1, <2>2 DEF Consume, TypeOK
  <2>4. challenges' \in [Nonces -> Challenge \cup {None}]
    BY <1>4, <2>1 DEF Consume, TypeOK, Challenge
  <2> QED
    BY <1>4, <2>3, <2>4 DEF Consume, Goto, TypeOK, Request, Phases
<1>5. ASSUME NEW p \in Requests, ConsumeRefused(p)
      PROVE  TypeOK'
  BY <1>5 DEF ConsumeRefused, Finish, Idle, Memory, TypeOK, Request, Phases, tables, history
<1>6. ASSUME NEW p \in Requests, Upsert(p)
      PROVE  TypeOK'
  <2>1. [addr |-> req[p].addr, cred |-> req[p].cred] \in Vault
    BY <1>6 DEF Upsert, PhaseOK, PhaseBy, TypeOK, Vault, Request
  <2>2. vaults' \in [Users -> Vault \cup {None}]
    BY <1>6, <2>1 DEF Upsert, TypeOK
  <2>3. req' \in [Requests -> Request]
    BY <1>6 DEF Upsert, Goto, TypeOK, Request, Phases
  <2>4. raced' \subseteq Users
    BY <1>6 DEF Upsert, PhaseOK, PhaseBy, TypeOK
  <2> QED
    BY <1>6, <2>2, <2>3, <2>4 DEF Upsert, TypeOK
<1>7. ASSUME NEW p \in Requests, UpsertRefused(p)
      PROVE  TypeOK'
  BY <1>7 DEF UpsertRefused, Finish, Idle, Memory, TypeOK, Request, Phases, tables, history
<1>8. ASSUME NEW p \in Requests, NEW hit \in SUBSET Sessions, Attach(p, hit)
      PROVE  TypeOK'
  BY <1>8 DEF Attach, Finish, Idle, Memory, PhaseOK, PhaseBy, Own, TypeOK, Session, Request, Phases
<1>9. ASSUME NEW p \in Requests, NEW u \in ZkUsers, NEW a \in Addresses, BindBegin(p, u, a)
      PROVE  TypeOK'
  <2>1. salts[u] \in Salts
    BY <1>9 DEF BindBegin, MayBind, TypeOK
  <2>2. bound' \in [Users -> SUBSET [addr : Addresses, salt : Salts]]
    BY <1>9, <2>1 DEF BindBegin, TypeOK
  <2> QED
    BY <1>9, <2>2 DEF BindBegin, Binds, Memory, TypeOK, Request, Phases, tables
<1>10. ASSUME NEW p \in Requests, NEW u \in Users, LoginRead(p, u)
      PROVE  TypeOK'
  <2>1. VaultAddr(u) \in Addresses \cup {None}
    BY DEF VaultAddr, TypeOK, Vault
  <2> QED
    BY <1>10, <2>1 DEF LoginRead, TypeOK, Request, Phases, Holds, Memory, tables, history
<1>11. ASSUME NEW p \in Requests, NEW u \in Users, WalletLogin(p, u)
      PROVE  TypeOK'
  BY <1>11 DEF WalletLogin, Holds, Memory, TypeOK, Request, Phases, tables, history
<1>12. ASSUME NEW p \in Requests, NEW s \in Sessions, LoginStore(p, s)
      PROVE  TypeOK'
  BY <1>12 DEF LoginStore, Finish, Idle, Memory, PhaseOK, PhaseBy, TypeOK, Session,
     Request, Phases, history
<1>13. ASSUME NEW p \in Requests, Abort(p)
      PROVE  TypeOK'
  BY <1>13 DEF Abort, Finish, Idle, Memory, PhaseOK, PhaseBy, TypeOK, Request, Phases, tables
<1>14. ASSUME NEW u \in ZkUsers, NEW salt \in Salts, PutSalt(u, salt)
      PROVE  TypeOK'
  BY <1>14 DEF PutSalt, TypeOK, history
<1>15. ASSUME NEW S \in SUBSET Sessions, EndSessions(S)
      PROVE  TypeOK'
  BY <1>15 DEF EndSessions, TypeOK, history
<1> QED
  BY <1>1, <1>2, <1>3, <1>4, <1>5, <1>6, <1>7, <1>8, <1>9, <1>10, <1>11, <1>12,
     <1>13, <1>14, <1>15 DEF Next

\* Every step leaves each handler with what its phase needs.
LEMMA PhaseStep ==
    ASSUME TypeOK, PhaseOK, Next
    PROVE  PhaseOK'
<1> USE NoneAssumption, UserAssumption, WalletAssumption DEF PhaseOK
<1>1. ASSUME NEW q \in Requests, req'[q] = req[q] PROVE PhaseBy(q)'
  <2>1. CASE req[q].pc = "consume"
    BY <1>1, <2>1, ChallengeStays DEF PhaseBy
  <2>2. CASE req[q].pc # "consume"
    BY <1>1, <2>2 DEF PhaseBy
  <2> QED
    BY <2>1, <2>2
<1>2. ASSUME NEW p \in Requests, NEW m, req' = [req EXCEPT ![p] = m],
             m.pc # "idle" => m.user \in Users, m.pc \in {"idle", "store"}
      PROVE  PhaseOK'
  <2>1. req'[p] = m /\ \A q \in Requests : q # p => req'[q] = req[q]
    BY <1>2 DEF TypeOK
  <2>2. PhaseBy(p)'
    BY <1>2, <2>1 DEF PhaseBy
  <2> QED
    BY <1>1, <2>1, <2>2
<1>3. ASSUME UNCHANGED req PROVE PhaseOK'
  BY <1>1, <1>3
<1>4. ASSUME NEW p \in Requests, Finish(p) PROVE PhaseOK'
  BY <1>2, <1>4 DEF Finish, Idle, Memory
<1>5. ASSUME NEW p \in Requests, NEW u \in Users, LoginRead(p, u) \/ WalletLogin(p, u)
      PROVE  PhaseOK'
  BY <1>2, <1>5 DEF LoginRead, WalletLogin, Holds, Memory
<1>6. ASSUME NEW p \in Requests, NEW u \in Users, NEW n \in Nonces, NEW a \in Addresses,
             NEW c \in Credentials \cup {None}, PutBegin(p, u, n, a, c)
      PROVE  PhaseOK'
  <2>1. /\ req'[p] = Memory("consume", u, n, a, c) /\ challenges'[n] # None
        /\ \A q \in Requests : q # p => req'[q] = req[q]
    BY <1>6 DEF PutBegin, TypeOK, tables
  <2>2. PhaseBy(p)'
    BY <2>1 DEF PhaseBy, Memory
  <2> QED
    BY <1>1, <2>1, <2>2
<1>7. ASSUME NEW p \in Requests, Consume(p) \/ Upsert(p) PROVE PhaseOK'
  <2>1. /\ req'[p].user = req[p].user /\ req'[p].nonce = req[p].nonce
        /\ req'[p].addr = req[p].addr
        /\ \/ req[p].pc = "consume" /\ req'[p].pc = "upsert"
           \/ req[p].pc = "upsert" /\ req'[p].pc = "attach"
        /\ \A q \in Requests : q # p => req'[q] = req[q]
    BY <1>7 DEF Consume, Upsert, Goto, TypeOK, Request
  <2>2. PhaseBy(p)'
    BY <2>1 DEF PhaseBy
  <2> QED
    BY <1>1, <2>1, <2>2
<1>8. ASSUME NEW p \in Requests, NEW u \in ZkUsers, NEW a \in Addresses, BindBegin(p, u, a)
      PROVE  PhaseOK'
  <2>1. /\ req'[p] = Binds(u, a)
        /\ \A q \in Requests : q # p => req'[q] = req[q]
    BY <1>8 DEF BindBegin, TypeOK
  <2>2. PhaseBy(p)'
    BY <2>1 DEF PhaseBy, Binds, Memory
  <2> QED
    BY <1>1, <2>1, <2>2
<1> QED
  BY <1>3, <1>4, <1>5, <1>6, <1>7, <1>8 DEF Next, Expire, IssueChallenge, ConsumeRefused,
     UpsertRefused, Attach, LoginStore, Abort, PutSalt, EndSessions

\* consume_vault_challenge lets in one request for each challenge, its owner's.
LEMMA ChallengeStep ==
    ASSUME TypeOK, PhaseOK, ChallengeOK, Next
    PROVE  ChallengeOK'
<1> USE NoneAssumption, RecordAssumption DEF ChallengeOK
<1>1. ASSUME NEW u \in Users, NEW n \in Nonces, IssueChallenge(u, n)
      PROVE  ChallengeOK'
  BY <1>1 DEF IssueChallenge, ChallengeBy, TypeOK, Challenge, history
<1>2. ASSUME NEW n \in Nonces, Expire(n)
      PROVE  ChallengeOK'
  BY <1>2 DEF Expire, ChallengeBy, TypeOK, Challenge, history
<1>3. ASSUME NEW p \in Requests, Consume(p)
      PROVE  ChallengeOK'
  <2> DEFINE n == req[p].nonce
             r == [user |-> req[p].user, addr |-> req[p].addr]
  <2>1. /\ n \in Nonces /\ challenges[n] \in Challenge /\ ~challenges[n].used
        /\ challenges[n].user = req[p].user /\ req[p].addr \in Addresses
    BY <1>3 DEF Consume, Consumable, PhaseOK, PhaseBy, TypeOK
  <2>2. accepted[n] = <<>>
    BY <2>1 DEF ChallengeOK, ChallengeBy
  <2>3. accepted' = [accepted EXCEPT ![n] = <<r>>]
    BY <1>3, <2>2, AppendFirst DEF Consume
  <2>4. challenges' = [challenges EXCEPT ![n] = [challenges[n] EXCEPT !.used = TRUE]]
    BY <1>3 DEF Consume
  <2>5. \A m \in Nonces : m # n => challenges'[m] = challenges[m] /\ accepted'[m] = accepted[m]
    BY <2>3, <2>4 DEF TypeOK
  <2>6. /\ challenges'[n] # None /\ challenges'[n].used
        /\ challenges'[n].user = req[p].user /\ accepted'[n] = <<r>>
    BY <2>1, <2>3, <2>4 DEF TypeOK, Challenge
  <2>7. ASSUME NEW m \in Nonces PROVE ChallengeBy(m)'
    <3>1. CASE m = n
      BY <2>1, <2>6, <3>1 DEF ChallengeBy
    <3>2. CASE m # n
      BY <2>5, <3>2 DEF ChallengeBy
    <3> QED
      BY <3>1, <3>2
  <2> QED
    BY <2>7
<1>4. ASSUME UNCHANGED <<challenges, accepted>> PROVE ChallengeOK'
  BY <1>4 DEF ChallengeBy
<1> QED
  BY <1>1, <1>2, <1>3, <1>4 DEF Next, PutBegin, ConsumeRefused, Upsert, UpsertRefused, Attach,
     BindBegin, LoginRead, WalletLogin, LoginStore, Abort, PutSalt, EndSessions, tables, history

\* What let a request in is not overwritten.
LEMMA AcceptedStays ==
    ASSUME TypeOK, PhaseOK, ChallengeOK, Next, NEW m \in Nonces, accepted[m] # <<>>
    PROVE  accepted'[m] = accepted[m]
<1>1. ASSUME NEW p \in Requests, Consume(p) PROVE accepted'[m] = accepted[m]
  <2>1. accepted[req[p].nonce] = <<>>
    BY <1>1 DEF Consume, Consumable, PhaseOK, PhaseBy, ChallengeOK, ChallengeBy
  <2> QED
    BY <1>1, <2>1 DEF Consume, TypeOK
<1>2. ASSUME UNCHANGED accepted PROVE accepted'[m] = accepted[m]
  BY <1>2
<1> QED
  BY <1>1, <1>2 DEF Next, Expire, IssueChallenge, PutBegin, ConsumeRefused, Upsert, UpsertRefused,
     Attach, BindBegin, LoginRead, WalletLogin, LoginStore, Abort, PutSalt, EndSessions, history

\* What a user has earned stays earned.
LEMMA EarnedStays ==
    ASSUME TypeOK, PhaseOK, ChallengeOK, Next, NEW u \in Users, NEW a, Earned(u, a)
    PROVE  Earned(u, a)'
<1>1. bound[u] \subseteq bound'[u]
  <2>1. ASSUME NEW p \in Requests, NEW v \in ZkUsers, NEW b \in Addresses, BindBegin(p, v, b)
        PROVE  bound[u] \subseteq bound'[u]
    BY <2>1 DEF BindBegin, TypeOK
  <2>2. ASSUME UNCHANGED bound PROVE bound[u] \subseteq bound'[u]
    BY <2>2
  <2> QED
    BY <2>1, <2>2 DEF Next, Expire, IssueChallenge, PutBegin, Consume, ConsumeRefused, Upsert,
       UpsertRefused, Attach, LoginRead, WalletLogin, LoginStore, Abort, PutSalt, EndSessions,
       history
<1> QED
  BY <1>1, AcceptedStays DEF Earned

\* A handler has earned the address it is about to write.
LEMMA HeldEarnedStep ==
    ASSUME TypeOK, PhaseOK, ChallengeOK, VaultProved, HeldEarned, Next, TypeOK'
    PROVE  HeldEarned'
<1> USE NoneAssumption DEF HeldEarned
<1>1. ASSUME NEW q \in Requests, req'[q] = req[q] PROVE EarnedBy(q)'
  <2>1. EarnedBy(q)
    OBVIOUS
  <2>2. CASE req[q].pc = "upsert"
    <3>1. req[q].nonce \in Nonces /\ accepted[req[q].nonce] # <<>>
      BY <2>1, <2>2, AppendFirst DEF EarnedBy, PhaseOK, PhaseBy
    <3> QED
      BY <1>1, <2>1, <2>2, <3>1, ChallengeStays, AcceptedStays DEF EarnedBy
  <2>3. CASE req[q].pc \in {"attach", "store"}
    BY <1>1, <2>1, <2>3, EarnedStays DEF EarnedBy, PhaseOK, PhaseBy
  <2> QED
    BY <1>1, <2>2, <2>3 DEF EarnedBy
<1>2. ASSUME NEW p \in Requests, NEW m, req' = [req EXCEPT ![p] = m],
             m.pc \in {"idle", "consume"}
      PROVE  HeldEarned'
  <2>1. req'[p] = m /\ \A q \in Requests : q # p => req'[q] = req[q]
    BY <1>2 DEF TypeOK
  <2>2. EarnedBy(p)'
    BY <1>2, <2>1 DEF EarnedBy
  <2> QED
    BY <1>1, <2>1, <2>2
<1>3. ASSUME NEW p \in Requests, Consume(p) PROVE HeldEarned'
  <2> DEFINE n == req[p].nonce
             r == [user |-> req[p].user, addr |-> req[p].addr]
  <2>1. /\ n \in Nonces /\ accepted[n] = <<>> /\ challenges[n] # None
        /\ challenges[n].user = req[p].user
    BY <1>3 DEF Consume, Consumable, PhaseOK, PhaseBy, ChallengeOK, ChallengeBy
  <2>2. accepted'[n] = <<r>>
    BY <1>3, <2>1, AppendFirst DEF Consume, TypeOK
  <2>3. /\ req'[p].pc = "upsert" /\ req'[p].nonce = n
        /\ req'[p].user = req[p].user /\ req'[p].addr = req[p].addr
    BY <1>3 DEF Consume, Goto, TypeOK, Request
  <2>4. EarnedBy(p)'
    BY <2>1, <2>2, <2>3, ChallengeStays DEF EarnedBy
  <2> QED
    BY <1>1, <1>3, <2>4 DEF Consume, Goto, TypeOK
<1>4. ASSUME NEW p \in Requests, Upsert(p) PROVE HeldEarned'
  <2> PICK u, a : u = req[p].user /\ a = req[p].addr
    OBVIOUS
  <2>1. EarnedBy(p) /\ req[p].pc = "upsert" /\ req[p].nonce \in Nonces /\ u \in Users
    BY <1>4 DEF Upsert, PhaseOK, PhaseBy
  <2>2. accepted[req[p].nonce] # <<>> /\ accepted[req[p].nonce][1] = [user |-> u, addr |-> a]
    BY <2>1, AppendFirst DEF EarnedBy
  <2>3. Earned(u, a)
    BY <2>1, <2>2 DEF Earned
  <2>4. Earned(u, a)'
    BY <2>1, <2>3, EarnedStays
  <2>5. req'[p].pc = "attach" /\ req'[p].user = u /\ req'[p].addr = a
    BY <1>4 DEF Upsert, Goto, TypeOK, Request
  <2>6. EarnedBy(p)'
    BY <2>4, <2>5 DEF EarnedBy
  <2> QED
    BY <1>1, <1>4, <2>6 DEF Upsert, Goto, TypeOK
<1>5. ASSUME NEW p \in Requests, NEW u \in ZkUsers, NEW a \in Addresses, BindBegin(p, u, a)
      PROVE  HeldEarned'
  <2>1. \E b \in bound'[u] : b.addr = a
    <3>1. bound'[u] = bound[u] \cup {[addr |-> a, salt |-> salts[u]]}
      BY <1>5, UserAssumption DEF BindBegin, TypeOK
    <3>2. [addr |-> a, salt |-> salts[u]].addr = a
      OBVIOUS
    <3> QED
      BY <3>1, <3>2
  <2>2. req'[p] = Binds(u, a)
    BY <1>5 DEF BindBegin, TypeOK
  <2>3. EarnedBy(p)'
    BY <2>1, <2>2 DEF EarnedBy, Earned, Binds, Memory
  <2> QED
    BY <1>1, <1>5, <2>3 DEF BindBegin, TypeOK
<1>6. ASSUME NEW p \in Requests, NEW u \in Users, LoginRead(p, u) PROVE HeldEarned'
  <2> PICK a : a = VaultAddr(u)
    OBVIOUS
  <2>1. a = None \/ Earned(u, a)
    BY AppendFirst DEF VaultAddr, VaultProved, Earned
  <2>2. a = None \/ Earned(u, a)'
    BY <2>1, EarnedStays
  <2>3. req'[p] = Holds(u, a)
    BY <1>6 DEF LoginRead, TypeOK
  <2>4. EarnedBy(p)'
    BY <2>2, <2>3 DEF EarnedBy, Holds, Memory
  <2> QED
    BY <1>1, <1>6, <2>4 DEF LoginRead, TypeOK
<1>7. ASSUME NEW p \in Requests, NEW u \in Users, WalletLogin(p, u) PROVE HeldEarned'
  <2>1. req'[p] = Holds(u, Wallet[u])
    BY <1>7 DEF WalletLogin, TypeOK
  <2>2. EarnedBy(p)'
    BY <2>1 DEF EarnedBy, Earned, Holds, Memory
  <2> QED
    BY <1>1, <1>7, <2>2 DEF WalletLogin, TypeOK
<1>8. ASSUME UNCHANGED req PROVE HeldEarned'
  BY <1>1, <1>8
<1>9. ASSUME NEW p \in Requests, Finish(p) PROVE HeldEarned'
  BY <1>2, <1>9 DEF Finish, Idle, Memory
<1>10. ASSUME NEW p \in Requests, NEW u \in Users, NEW n \in Nonces, NEW a \in Addresses,
              NEW c \in Credentials \cup {None}, PutBegin(p, u, n, a, c)
       PROVE  HeldEarned'
  BY <1>2, <1>10 DEF PutBegin, Memory
<1> QED
  BY <1>3, <1>4, <1>5, <1>6, <1>7, <1>8, <1>9, <1>10 DEF Next, Expire, IssueChallenge,
     ConsumeRefused, UpsertRefused, Attach, LoginStore, Abort, PutSalt, EndSessions

\* A vault holds what a challenge let in.
LEMMA VaultProvedStep ==
    ASSUME TypeOK, PhaseOK, ChallengeOK, HeldEarned, VaultProved, Next, ChallengeOK'
    PROVE  VaultProved'
<1> DEFINE Proved(u, a) ==
             \E n \in Nonces : /\ challenges[n] # None /\ challenges[n].user = u
                              /\ accepted[n] = <<[user |-> u, addr |-> a]>>
<1>1. \A n \in Nonces : Len(accepted'[n]) <= 1
  <2> SUFFICES ASSUME NEW n \in Nonces PROVE Len(accepted'[n]) <= 1
    OBVIOUS
  <2>1. CASE accepted'[n] = <<>>
    BY <2>1
  <2>2. ASSUME NEW r, accepted'[n] = <<r>> PROVE Len(accepted'[n]) <= 1
    BY <2>2
  <2> QED
    BY <2>1, <2>2 DEF ChallengeOK, ChallengeBy
<1>2. ASSUME NEW u \in Users, NEW a, Proved(u, a) PROVE Proved(u, a)'
  BY <1>2, ChallengeStays, AcceptedStays, AppendFirst
<1>3. ASSUME NEW u \in Users, vaults'[u] # None, NEW a, a = vaults'[u].addr PROVE Proved(u, a)'
  <2>1. CASE vaults'[u] = vaults[u]
    <3>1. Proved(u, a)
      BY <1>3, <2>1 DEF VaultProved
    <3> HIDE DEF Proved
    <3> QED
      BY <1>2, <3>1
  <2>2. ASSUME NEW p \in Requests, Upsert(p), u = req[p].user
        PROVE  Proved(u, a)'
    <3>1. a = req[p].addr
      BY <1>3, <2>2 DEF Upsert, TypeOK
    <3>2. Proved(u, a)
      BY <2>2, <3>1 DEF Upsert, HeldEarned, EarnedBy, PhaseOK, PhaseBy
    <3> HIDE DEF Proved
    <3> QED
      BY <1>2, <3>2
  <2>3. ASSUME NEW p \in Requests, Upsert(p), u # req[p].user PROVE vaults'[u] = vaults[u]
    BY <2>3 DEF Upsert, TypeOK
  <2>4. (\E p \in Requests : Upsert(p)) \/ UNCHANGED vaults
    BY DEF Next, Expire, IssueChallenge, PutBegin, Consume, ConsumeRefused, UpsertRefused, Attach,
       BindBegin, LoginRead, WalletLogin, LoginStore, Abort, PutSalt, EndSessions, tables
  <2> HIDE DEF Proved
  <2> QED
    BY <2>1, <2>2, <2>3, <2>4
<1>4. \A u \in Users : vaults'[u] # None => \A a : a = vaults'[u].addr => Proved(u, a)'
  <2> HIDE DEF Proved
  <2> QED
    BY <1>3
<1> QED
  BY <1>1, <1>4 DEF VaultProved

\* The unique index keeps each credential with one vault.
LEMMA CredentialStep ==
    ASSUME TypeOK, PhaseOK, CredentialUnique, Next
    PROVE  CredentialUnique'
<1> USE DEF CredentialUnique
<1>1. ASSUME NEW p \in Requests, Upsert(p) PROVE CredentialUnique'
  BY <1>1, NoneAssumption DEF Upsert, CredentialTaken, PhaseOK, PhaseBy, TypeOK
<1>2. ASSUME UNCHANGED vaults PROVE CredentialUnique'
  BY <1>2
<1> QED
  BY <1>1, <1>2 DEF Next, Expire, IssueChallenge, PutBegin, Consume, ConsumeRefused, UpsertRefused,
     Attach, BindBegin, LoginRead, WalletLogin, LoginStore, Abort, PutSalt, EndSessions, tables

\* A session holds an address its user has earned.
LEMMA SessionStep ==
    ASSUME TypeOK, PhaseOK, ChallengeOK, HeldEarned, SessionAddressEarned, Next, TypeOK'
    PROVE  SessionAddressEarned'
<1> DEFINE OK(s) == sessions[s] # None /\ sessions[s].addr # None
                       => Earned(sessions[s].user, sessions[s].addr)
<1>1. ASSUME NEW s \in Sessions PROVE OK(s)
  BY DEF SessionAddressEarned, Earned
<1>2. ASSUME NEW s \in Sessions, sessions'[s] \in {None, sessions[s]} PROVE OK(s)'
  <2>1. sessions[s] # None => sessions[s].user \in Users
    BY DEF TypeOK, Session
  <2> QED
    BY <1>1, <1>2, <2>1, EarnedStays
<1>3. ASSUME NEW p \in Requests, NEW t \in Sessions, LoginStore(p, t), NEW s \in Sessions
      PROVE  OK(s)'
  <2>1. CASE s = t
    <3> PICK u, a : u = req[p].user /\ a = req[p].addr
      OBVIOUS
    <3>1. sessions'[s] = [user |-> u, addr |-> a]
      BY <1>3, <2>1 DEF LoginStore, TypeOK
    <3>2. u \in Users /\ (a = None \/ Earned(u, a))
      BY <1>3 DEF LoginStore, HeldEarned, EarnedBy, PhaseOK, PhaseBy
    <3>3. a = None \/ Earned(u, a)'
      BY <3>2, EarnedStays
    <3> QED
      BY <3>1, <3>3
  <2>2. CASE s # t
    BY <1>2, <1>3, <2>2 DEF LoginStore, TypeOK
  <2> QED
    BY <2>1, <2>2
<1>4. ASSUME NEW p \in Requests, NEW hit \in SUBSET Sessions, Attach(p, hit), NEW s \in Sessions
      PROVE  OK(s)'
  <2>1. CASE s \in hit
    <3> PICK u, a : u = req[p].user /\ a = req[p].addr
      OBVIOUS
    <3>1. sessions[s] # None /\ sessions[s].user = u
      BY <1>4, <2>1 DEF Attach, Own
    <3>2. sessions'[s] = [sessions[s] EXCEPT !.addr = a]
      BY <1>4, <2>1 DEF Attach
    <3>3. sessions'[s].user = u /\ sessions'[s].addr = a
      BY <3>1, <3>2 DEF TypeOK, Session
    <3>4. u \in Users /\ Earned(u, a)
      BY <1>4 DEF Attach, HeldEarned, EarnedBy, PhaseOK, PhaseBy
    <3>5. Earned(u, a)'
      BY <3>4, EarnedStays
    <3> QED
      BY <3>3, <3>5
  <2>2. CASE s \notin hit
    BY <1>2, <1>4, <2>2 DEF Attach
  <2> QED
    BY <2>1, <2>2
<1>5. ASSUME NEW S \in SUBSET Sessions, EndSessions(S), NEW s \in Sessions PROVE OK(s)'
  BY <1>2, <1>5 DEF EndSessions
<1>6. ASSUME UNCHANGED sessions, NEW s \in Sessions PROVE OK(s)'
  BY <1>2, <1>6
<1>7. \A s \in Sessions : OK(s)'
  <2> HIDE DEF OK
  <2> QED
    BY <1>3, <1>4, <1>5, <1>6 DEF Next, Expire, IssueChallenge, PutBegin, Consume, ConsumeRefused,
       Upsert, UpsertRefused, BindBegin, LoginRead, WalletLogin, Abort, PutSalt, tables
<1> QED
  BY <1>7 DEF SessionAddressEarned, Earned

\* ON CONFLICT DO NOTHING keeps the salt that POST /zklogin-address relied on.
LEMMA BindSaltStep ==
    ASSUME TypeOK, BindSaltKept, Next
    PROVE  BindSaltKept'
<1> USE NoneAssumption, UserAssumption DEF BindSaltKept
<1>1. ASSUME NEW p \in Requests, NEW u \in ZkUsers, NEW a \in Addresses, BindBegin(p, u, a)
      PROVE  BindSaltKept'
  BY <1>1 DEF BindBegin, MayBind, TypeOK, tables
<1>2. ASSUME NEW u \in ZkUsers, NEW salt \in Salts, PutSalt(u, salt) PROVE BindSaltKept'
  BY <1>2 DEF PutSalt, TypeOK, history
<1>3. ASSUME UNCHANGED <<salts, bound>> PROVE BindSaltKept'
  BY <1>3
<1> QED
  BY <1>1, <1>2, <1>3 DEF Next, Expire, IssueChallenge, PutBegin, Consume, ConsumeRefused, Upsert,
     UpsertRefused, Attach, LoginRead, WalletLogin, LoginStore, Abort, EndSessions, tables, history

-----------------------------------------------------------------------------
(* When session and vault agree *)

\* Who raced, and whose salt fits its subject, stays so.
LEMMA RacedStays ==
    ASSUME TypeOK, Next, NEW u \in Users
    PROVE  /\ u \in raced => u \in raced'
           /\ MayBind(u) => MayBind(u)'
<1>1. u \in raced => u \in raced'
  BY DEF Next, Expire, IssueChallenge, PutBegin, Consume, ConsumeRefused, Upsert, UpsertRefused,
     Attach, BindBegin, LoginRead, WalletLogin, LoginStore, Abort, PutSalt, EndSessions, history
<1>2. ASSUME NEW v \in ZkUsers, NEW salt \in Salts, PutSalt(v, salt)
      PROVE  MayBind(u) => MayBind(u)'
  BY <1>2, UserAssumption DEF PutSalt, MayBind, TypeOK
<1>3. ASSUME UNCHANGED salts PROVE MayBind(u) => MayBind(u)'
  BY <1>3 DEF MayBind
<1> QED
  BY <1>1, <1>2, <1>3 DEF Next, Expire, IssueChallenge, PutBegin, Consume, ConsumeRefused, Upsert,
     UpsertRefused, Attach, BindBegin, LoginRead, WalletLogin, LoginStore, Abort, EndSessions,
     tables

\* What a handler is about to write is what the vault holds, or its user raced.
LEMMA HeldAgreesStep ==
    ASSUME TypeOK, PhaseOK, HeldAgrees, Next
    PROVE  HeldAgrees'
<1> USE DEF HeldAgrees
<1>1. ASSUME NEW q \in Requests, req'[q] = req[q],
             req[q].user \in Users => vaults'[req[q].user] = vaults[req[q].user]
      PROVE  AgreesBy(q)'
  BY <1>1, RacedStays DEF AgreesBy, PhaseOK, PhaseBy, VaultAddr
<1>2. ASSUME NEW p \in Requests, NEW m, req' = [req EXCEPT ![p] = m],
             m.pc \in {"idle", "consume", "upsert"}, UNCHANGED vaults
      PROVE  HeldAgrees'
  <2>1. req'[p] = m /\ \A q \in Requests : q # p => req'[q] = req[q]
    BY <1>2 DEF TypeOK
  <2>2. AgreesBy(p)'
    BY <1>2, <2>1 DEF AgreesBy
  <2> QED
    BY <1>1, <1>2, <2>1, <2>2
<1>3. ASSUME NEW p \in Requests, Upsert(p) PROVE HeldAgrees'
  <2> PICK u : u = req[p].user
    OBVIOUS
  <2>1. u \in Users
    BY <1>3 DEF Upsert, PhaseOK, PhaseBy
  <2> PICK a : a = req[p].addr
    OBVIOUS
  <2>2. AgreesBy(p)'
    <3>1. req'[p].user = u /\ req'[p].addr = a /\ req'[p].pc = "attach"
      BY <1>3 DEF Upsert, Goto, TypeOK, Request
    <3>2. vaults'[u] = [addr |-> a, cred |-> req[p].cred] /\ vaults'[u] \in Vault
      BY <1>3, <2>1 DEF Upsert, TypeOK, PhaseOK, PhaseBy, Vault, Request
    <3>3. vaults'[u] # None /\ vaults'[u].addr = a
      BY <3>2, RecordAssumption
    <3>4. req'[p].addr = VaultAddr(req[p].user)'
      BY <3>1, <3>3 DEF VaultAddr
    <3> QED
      BY <3>1, <3>3 DEF AgreesBy, VaultAddr
  <2>3. ASSUME NEW q \in Requests, q # p PROVE AgreesBy(q)'
    <3>1. req'[q] = req[q]
      BY <1>3, <2>3 DEF Upsert, Goto, TypeOK
    <3>2. CASE req[q].user = u
      <4>1. q \in Pending(u) => u \in raced'
        BY <1>3 DEF Upsert
      <4> QED
        BY <3>1, <3>2, <4>1 DEF AgreesBy, Pending
    <3>3. CASE req[q].user # u
      BY <1>1, <1>3, <3>1, <3>3 DEF Upsert, TypeOK
    <3> QED
      BY <3>2, <3>3
  <2> QED
    BY <2>2, <2>3
<1>4. ASSUME NEW p \in Requests, NEW u \in ZkUsers, NEW a \in Addresses, BindBegin(p, u, a)
      PROVE  HeldAgrees'
  <2>1. req'[p] = Binds(u, a) /\ MayBind(u)'
    BY <1>4 DEF BindBegin, MayBind, TypeOK, tables
  <2>2. req'[p].user = u /\ req'[p].pc = "attach"
    BY <2>1 DEF Binds, Memory
  <2>3. AgreesBy(p)'
    BY <2>1, <2>2 DEF AgreesBy
  <2> QED
    BY <1>1, <1>4, <2>3 DEF BindBegin, TypeOK, tables
<1>5. ASSUME NEW p \in Requests, NEW u \in Users, LoginRead(p, u) PROVE HeldAgrees'
  <2>1. req'[p] = Holds(u, VaultAddr(u)) /\ VaultAddr(u)' = VaultAddr(u)
    BY <1>5 DEF LoginRead, TypeOK, tables, VaultAddr
  <2>2. AgreesBy(p)'
    BY <2>1 DEF AgreesBy, Holds, Memory
  <2> QED
    BY <1>1, <1>5, <2>2 DEF LoginRead, TypeOK, tables
<1>6. ASSUME NEW p \in Requests, NEW u \in Users, WalletLogin(p, u) PROVE HeldAgrees'
  <2>1. req'[p] = Holds(u, Wallet[u]) /\ Wallet[u] # None
    BY <1>6 DEF WalletLogin, TypeOK
  <2>2. AgreesBy(p)'
    BY <2>1 DEF AgreesBy, Holds, Memory
  <2> QED
    BY <1>1, <1>6, <2>2 DEF WalletLogin, TypeOK, tables
<1>7. ASSUME UNCHANGED <<req, vaults>> PROVE HeldAgrees'
  BY <1>1, <1>7
<1>8. ASSUME NEW p \in Requests, Finish(p), UNCHANGED vaults PROVE HeldAgrees'
  BY <1>2, <1>8 DEF Finish, Idle, Memory
<1>9. ASSUME NEW p \in Requests, NEW u \in Users, NEW n \in Nonces, NEW a \in Addresses,
             NEW c \in Credentials \cup {None}, PutBegin(p, u, n, a, c)
      PROVE  HeldAgrees'
  BY <1>2, <1>9 DEF PutBegin, Memory, tables
<1>10. ASSUME NEW p \in Requests, Consume(p) PROVE HeldAgrees'
  <2>1. [req[p] EXCEPT !.pc = "upsert"].pc = "upsert"
    BY DEF TypeOK, Request
  <2> QED
    BY <1>2, <1>10, <2>1 DEF Consume, Goto
<1> QED
  BY <1>3, <1>4, <1>5, <1>6, <1>7, <1>8, <1>9, <1>10 DEF Next, Expire, IssueChallenge,
     ConsumeRefused, UpsertRefused, Attach, LoginStore, Abort, PutSalt, EndSessions, tables

\* Every statement that makes session and vault differ leaves a PUT under way that
\* will mend it, or a user who raced.
LEMMA AgreeStep ==
    ASSUME TypeOK, PhaseOK, HeldAgrees, AgreeUnlessRaced, Next, TypeOK'
    PROVE  AgreeUnlessRaced'
<1> DEFINE Agrees(s) ==
             LET u == sessions[s].user
             IN  sessions[s] # None =>
                   \/ Wallet[u] # None \/ MayBind(u)
                   \/ u \in raced
                   \/ \E q \in Requests : req[q].user = u /\ req[q].pc = "attach"
                   \/ sessions[s].addr = VaultAddr(u)
<1>1. \A s \in Sessions : Agrees(s)
  BY DEF AgreeUnlessRaced
<1>2. ASSUME NEW s \in Sessions, sessions'[s] \in {None, sessions[s]},
             sessions[s] # None => vaults'[sessions[s].user] = vaults[sessions[s].user],
             \A q \in Requests :
                req[q].pc = "attach" /\ sessions[s] # None /\ req[q].user = sessions[s].user
                   => \/ req'[q].pc = "attach" /\ req'[q].user = req[q].user
                      \/ req[q].user \in raced'
      PROVE  Agrees(s)'
  <2>1. sessions[s] # None => sessions[s].user \in Users
    BY DEF TypeOK, Session
  <2> QED
    BY <1>1, <1>2, <2>1, RacedStays DEF VaultAddr
<1>3. ASSUME NEW s \in Sessions, NEW p \in Requests, Upsert(p) PROVE Agrees(s)'
  <2>1. sessions'[s] = sessions[s]
    BY <1>3 DEF Upsert
  <2>2. req'[p].user = req[p].user /\ req'[p].pc = "attach"
    BY <1>3 DEF Upsert, Goto, TypeOK, Request
  <2>3. \A q \in Requests : q # p => req'[q] = req[q]
    BY <1>3 DEF Upsert, Goto, TypeOK
  <2>4. CASE sessions[s] # None /\ sessions[s].user = req[p].user
    BY <2>1, <2>2, <2>4
  <2>5. CASE sessions[s] = None \/ sessions[s].user # req[p].user
    <3>1. sessions[s] # None => vaults'[sessions[s].user] = vaults[sessions[s].user]
      BY <1>3, <2>5 DEF Upsert, TypeOK, Session
    <3> HIDE DEF Agrees
    <3> QED
      BY <1>2, <2>1, <2>2, <2>3, <3>1
  <2> QED
    BY <2>4, <2>5
<1>4. ASSUME NEW s \in Sessions, NEW p \in Requests, NEW hit \in SUBSET Sessions, Attach(p, hit)
      PROVE  Agrees(s)'
  <2> PICK u, a : u = req[p].user /\ a = req[p].addr
    OBVIOUS
  <2>1. u \in Users /\ UNCHANGED <<vaults, salts>>
    BY <1>4 DEF Attach, PhaseOK, PhaseBy
  <2>2. \A q \in Requests : q # p => req'[q] = req[q]
    BY <1>4 DEF Attach, Finish, TypeOK
  <2>3. CASE sessions[s] # None /\ sessions[s].user = u
    <3>1. CASE hit # Own(u)
      <4>1. u \in raced'
        BY <1>4, <3>1 DEF Attach
      <4>2. sessions'[s].user = u
        BY <1>4, <2>3 DEF Attach, TypeOK, Session
      <4> QED
        BY <4>1, <4>2
    <3>2. CASE hit = Own(u)
      <4>1. sessions'[s] = [sessions[s] EXCEPT !.addr = a]
        BY <1>4, <2>3, <3>2 DEF Attach, Own
      <4>2. sessions'[s].user = u /\ sessions'[s].addr = a
        BY <2>3, <4>1 DEF TypeOK, Session
      <4>3. u \in raced \/ MayBind(u) \/ a = VaultAddr(u)
        BY <1>4 DEF Attach, HeldAgrees, AgreesBy
      <4> QED
        BY <2>1, <4>2, <4>3, RacedStays DEF VaultAddr
    <3> QED
      BY <3>1, <3>2
  <2>4. CASE sessions[s] = None \/ sessions[s].user # u
    <3>1. sessions'[s] = sessions[s]
      BY <1>4, <2>4 DEF Attach, Own
    <3> HIDE DEF Agrees
    <3> QED
      BY <1>2, <2>1, <2>2, <2>4, <3>1
  <2> QED
    BY <2>3, <2>4
<1>5. ASSUME NEW s \in Sessions, NEW p \in Requests, NEW t \in Sessions, LoginStore(p, t)
      PROVE  Agrees(s)'
  <2>1. /\ UNCHANGED <<vaults, salts, raced>> /\ req[p].pc = "store"
        /\ \A q \in Requests : q # p => req'[q] = req[q]
    BY <1>5 DEF LoginStore, Finish, TypeOK, history
  <2>2. CASE s = t
    <3> PICK u, a : u = req[p].user /\ a = req[p].addr
      OBVIOUS
    <3>1. sessions'[s] = [user |-> u, addr |-> a]
      BY <1>5, <2>2 DEF LoginStore, TypeOK
    <3>2. u \in raced \/ Wallet[u] # None \/ a = VaultAddr(u)
      BY <2>1 DEF HeldAgrees, AgreesBy
    <3> QED
      BY <2>1, <3>1, <3>2 DEF VaultAddr
  <2>3. CASE s # t
    <3>1. sessions'[s] = sessions[s]
      BY <1>5, <2>3 DEF LoginStore, TypeOK
    <3> HIDE DEF Agrees
    <3> QED
      BY <1>2, <2>1, <3>1
  <2> QED
    BY <2>2, <2>3
<1>6. ASSUME NEW s \in Sessions, NEW p \in Requests, Abort(p) PROVE Agrees(s)'
  <2>1. /\ UNCHANGED <<sessions, vaults>>
        /\ \A q \in Requests : q # p => req'[q] = req[q]
        /\ req[p].pc = "attach" => req[p].user \in raced'
    BY <1>6 DEF Abort, Finish, TypeOK, tables
  <2> HIDE DEF Agrees
  <2> QED
    BY <1>2, <2>1
<1>7. ASSUME NEW s \in Sessions, NEW S \in SUBSET Sessions, EndSessions(S) PROVE Agrees(s)'
  <2>1. sessions'[s] \in {None, sessions[s]} /\ UNCHANGED <<vaults, req>>
    BY <1>7 DEF EndSessions
  <2> HIDE DEF Agrees
  <2> QED
    BY <1>2, <2>1
<1>8. ASSUME NEW s \in Sessions, UNCHANGED <<sessions, vaults>>,
             \A q \in Requests : req[q].pc = "attach" => req'[q] = req[q]
      PROVE  Agrees(s)'
  <2> HIDE DEF Agrees
  <2> QED
    BY <1>2, <1>8
<1>9. ASSUME NEW p \in Requests, NEW m, req' = [req EXCEPT ![p] = m], req[p].pc # "attach",
             NEW q \in Requests, req[q].pc = "attach"
      PROVE  req'[q] = req[q]
  BY <1>9 DEF TypeOK
<1>10. \A s \in Sessions : Agrees(s)'
  <2> SUFFICES ASSUME NEW s \in Sessions PROVE Agrees(s)'
    OBVIOUS
  <2> HIDE DEF Agrees
  <2>1. ASSUME NEW p \in Requests, NEW u \in Users, NEW n \in Nonces, NEW a \in Addresses,
               NEW c \in Credentials \cup {None}, PutBegin(p, u, n, a, c)
        PROVE  Agrees(s)'
    BY <2>1, <1>8, <1>9 DEF PutBegin, tables
  <2>2. ASSUME NEW p \in Requests, Consume(p) PROVE Agrees(s)'
    BY <2>2, <1>8, <1>9 DEF Consume, Goto, tables
  <2>3. ASSUME NEW p \in Requests, ConsumeRefused(p) \/ UpsertRefused(p) PROVE Agrees(s)'
    BY <2>3, <1>8, <1>9 DEF ConsumeRefused, UpsertRefused, Finish, tables
  <2>4. ASSUME NEW p \in Requests, NEW u \in ZkUsers, NEW a \in Addresses, BindBegin(p, u, a)
        PROVE  Agrees(s)'
    BY <2>4, <1>8, <1>9 DEF BindBegin, tables
  <2>5. ASSUME NEW p \in Requests, NEW u \in Users, LoginRead(p, u) \/ WalletLogin(p, u)
        PROVE  Agrees(s)'
    BY <2>5, <1>8, <1>9 DEF LoginRead, WalletLogin, tables
  <2>6. ASSUME UNCHANGED <<sessions, vaults, req>> PROVE Agrees(s)'
    BY <2>6, <1>8
  <2> QED
    BY <1>3, <1>4, <1>5, <1>6, <1>7, <2>1, <2>2, <2>3, <2>4, <2>5, <2>6
    DEF Next, Expire, IssueChallenge, PutSalt, history
<1> QED
  BY <1>10 DEF AgreeUnlessRaced

-----------------------------------------------------------------------------

\* The invariant holds at first ...
LEMMA InvInit == Init => IInv
<1> SUFFICES ASSUME Init PROVE IInv
  OBVIOUS
<1> USE NoneAssumption DEF Init
<1>1. TypeOK
  BY DEF TypeOK, Request, Phases, Idle, Memory
<1>2. PhaseOK /\ HeldEarned /\ HeldAgrees
  BY DEF PhaseOK, PhaseBy, HeldEarned, EarnedBy, HeldAgrees, AgreesBy, Idle, Memory
<1>3. ChallengeOK
  BY DEF ChallengeOK, ChallengeBy
<1>4. VaultProved /\ CredentialUnique /\ SessionAddressEarned /\ BindSaltKept /\ AgreeUnlessRaced
  BY DEF VaultProved, CredentialUnique, SessionAddressEarned, BindSaltKept, AgreeUnlessRaced
<1> QED
  BY <1>1, <1>2, <1>3, <1>4 DEF IInv

\* ... is kept by every step ...
LEMMA InvStep == IInv /\ [Next]_vars => IInv'
<1> SUFFICES ASSUME IInv, [Next]_vars PROVE IInv'
  OBVIOUS
<1> USE DEF IInv
<1>1. CASE Next
  <2>1. TypeOK'
    BY <1>1, TypeStep
  <2>2. PhaseOK'
    BY <1>1, <2>1, PhaseStep
  <2>3. ChallengeOK'
    BY <1>1, <2>1, ChallengeStep
  <2>4. HeldEarned'
    BY <1>1, <2>1, HeldEarnedStep
  <2>5. VaultProved'
    BY <1>1, <2>3, VaultProvedStep
  <2>6. CredentialUnique' /\ SessionAddressEarned' /\ BindSaltKept'
    BY <1>1, <2>1, CredentialStep, SessionStep, BindSaltStep
  <2>7. HeldAgrees' /\ AgreeUnlessRaced'
    BY <1>1, <2>1, HeldAgreesStep, AgreeStep
  <2> QED
    BY <2>1, <2>2, <2>3, <2>4, <2>5, <2>6, <2>7
<1>2. CASE UNCHANGED vars
  <2> USE <1>2 DEF vars, tables, history
  <2>1. TypeOK' /\ PhaseOK' /\ ChallengeOK'
    BY DEF TypeOK, PhaseOK, PhaseBy, ChallengeOK, ChallengeBy
  <2>2. HeldEarned'
    BY DEF HeldEarned, EarnedBy, Earned
  <2>3. HeldAgrees'
    BY DEF HeldAgrees, AgreesBy, VaultAddr, MayBind
  <2>4. VaultProved' /\ CredentialUnique' /\ BindSaltKept'
    BY DEF VaultProved, CredentialUnique, BindSaltKept
  <2>5. SessionAddressEarned'
    BY DEF SessionAddressEarned
  <2>6. AgreeUnlessRaced'
    BY DEF AgreeUnlessRaced, VaultAddr, MayBind
  <2> QED
    BY <2>1, <2>2, <2>3, <2>4, <2>5, <2>6
<1> QED
  BY <1>1, <1>2

\* ... and so holds always.
THEOREM Invariance == Spec => []IInv
  BY InvInit, InvStep, PTL DEF Spec

\* Every variable has its type.
THEOREM TypeAlways == Spec => []TypeOK
  BY Invariance, PTL DEF IInv

\* A challenge lets at most one PUT in, however often and at whatever moment it
\* is presented, and what a vault holds was proved under a challenge of its user.
THEOREM VaultProvedAlways == Spec => []VaultProved
  BY Invariance, PTL DEF IInv

\* No two vaults ever share a passkey.
THEOREM CredentialUniqueAlways == Spec => []CredentialUnique
  BY Invariance, PTL DEF IInv

\* Whatever overlaps or is cut off, a session carries no address its user did
\* not sign in with, prove or bind.
THEOREM SessionAddressEarnedAlways == Spec => []SessionAddressEarned
  BY Invariance, PTL DEF IInv

\* The salt an address was bound with is never replaced.
THEOREM BindSaltKeptAlways == Spec => []BindSaltKept
  BY Invariance, PTL DEF IInv

\* Session and vault of an OAuth user without zkLogin differ only while a PUT is
\* under way or after its requests overlapped or were cut off.
THEOREM AgreeUnlessRacedAlways == Spec => []AgreeUnlessRaced
  BY Invariance, PTL DEF IInv
=============================================================================
