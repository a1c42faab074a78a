---------------------------- MODULE VaultSessions ----------------------------
(***************************************************************************)
(* The vault and the refresh sessions together: WalletVault takes a login  *)
(* for one session whose address statements read and write; here it is     *)
(* what RefreshSessions has, a chain of tokens whose rows are replaced,    *)
(* locked and deleted while PUT /wallet-vault and POST /zklogin-address    *)
(* write addresses into them and /auth/refresh signs access tokens with    *)
(* what they hold.                                                         *)
(*                                                                         *)
(* A handler is in a phase of the vault (vreq) or of the store (req).  Only *)
(* the attach is in both: in the vault it is the last statement of a       *)
(* request, in the store a snapshot and an UPDATE that waits for locks.    *)
(***************************************************************************)
EXTENDS Naturals, Sequences

CONSTANTS
    Users, Addresses, Tokens, Requests, Cleaner, None, TTL, MaxTime,
    Wallet, ZkUsers, Credentials, Salts, Fits, Nonces,
    Empty      \* wallet_address = '': no address

ASSUME NoneAssumption ==
    None \notin Users \cup Addresses \cup Tokens \cup Requests \cup {Cleaner}
          \cup Credentials \cup Salts \cup Nonces
ASSUME EmptyAssumption == Empty \notin Addresses \cup {None}
ASSUME CleanerAssumption == Cleaner \notin Requests
ASSUME TimeAssumption == TTL \in Nat \ {0} /\ MaxTime \in Nat
ASSUME UserAssumption == ZkUsers \subseteq Users
ASSUME FitsAssumption == Fits \in [Users -> SUBSET Salts]
ASSUME WalletAssumption == Wallet \in [Users -> Addresses \cup {None}]

VARIABLES
    sessions, revoked, lock, req, delivered, now, origin, purged, loggedOut,
    challenges, vaults, salts, vreq, accepted, bound, raced,
    signed     \* history: <<user, address>> of every access token issued

Store == INSTANCE RefreshSessions WITH Addresses <- Addresses \cup {Empty}

\* The session a login is to WalletVault: the live row of its chain.
View == [c \in Tokens |->
    LET live == Store!LiveToken(c)
        row  == sessions[CHOOSE t \in live : TRUE]
    IN  IF live = {} THEN None
        ELSE [user |-> row.user, addr |-> IF row.addr = Empty THEN None ELSE row.addr]]

Vault == INSTANCE WalletVault
    WITH sessions <- View, req <- vreq, Sessions <- Tokens

ASSUME RecordAssumption ==
    None \notin Store!Session \cup Store!Origin
          \cup [token : Tokens \cup {None}, user : Users, expires : Store!Expiries]
          \cup Vault!Challenge \cup Vault!Vault \cup Vault!Session

storeVars == <<sessions, revoked, lock, req, delivered, now, origin, purged, loggedOut>>
vaultVars == <<challenges, vaults, salts, vreq, accepted, bound, raced>>
vars      == <<storeVars, vaultVars, signed>>

Init == Store!Init /\ Vault!Init /\ signed = {}

Free(p) == req[p].pc = "idle" /\ vreq[p].pc = "idle"

\* The claims of an access token: an empty address is left out.
Sign(u, a) == signed' = signed \cup {<<u, IF a = Empty THEN None ELSE a>>}

-----------------------------------------------------------------------------

\* A request of the vault until it reaches the sessions: all of it is
\* WalletVault's.
VaultStep(p) ==
    /\ UNCHANGED <<storeVars, signed>>
    /\ \/ /\ Free(p)
          /\ \/ \E u \in Users, n \in Nonces, a \in Addresses,
                   c \in Credentials \cup {None} : Vault!PutBegin(p, u, n, a, c)
             \/ \E u \in ZkUsers, a \in Addresses : Vault!BindBegin(p, u, a)
             \/ \E u \in Users : Vault!LoginRead(p, u) \/ Vault!WalletLogin(p, u)
       \/ Vault!Consume(p) \/ Vault!ConsumeRefused(p)
       \/ Vault!Upsert(p) \/ Vault!UpsertRefused(p)

\* Challenges and salts do not touch the sessions at all.
VaultTable ==
    /\ UNCHANGED <<storeVars, signed>>
    /\ \/ \E n \in Nonces : Vault!Expire(n) \/ \E u \in Users : Vault!IssueChallenge(u, n)
       \/ \E u \in ZkUsers, salt \in Salts : Vault!PutSalt(u, salt)

\* A faulty form of Login: a missing address is stored as it is.
LoginNull(p, t) ==
    LET u == vreq[p].user
        a == vreq[p].addr
    IN  /\ vreq[p].pc = "store"
        /\ Store!StoreSession(p, t, u, a)
        /\ Sign(u, a)
        /\ Vault!Finish(p)
        /\ UNCHANGED <<challenges, vaults, salts, accepted, bound, raced>>

\* The end of both login callbacks: the access token is signed with the address
\* the handler holds, then the session is stored with it.
Login(p, t) ==
    LET u == vreq[p].user
        a == IF vreq[p].addr = None THEN Empty ELSE vreq[p].addr
    IN  /\ vreq[p].pc = "store"
        /\ Store!StoreSession(p, t, u, a)
        /\ Sign(u, a)
        /\ Vault!Finish(p)
        /\ UNCHANGED <<challenges, vaults, salts, accepted, bound, raced>>

\* set_refresh_wallet_address starts: the rows of its snapshot.
AttachStart(p) ==
    /\ vreq[p].pc = "attach"
    /\ Store!AttachBegin(p, vreq[p].user, vreq[p].addr)
    /\ UNCHANGED <<vaultVars, signed>>

\* The logins whose rows the UPDATE still finds when it gets their locks.
Hit(p) == {origin[t].chain : t \in {t \in req[p].snap : Store!Live(t)}}

\* It ends, and the handler with it.
AttachDone(p) ==
    LET u == vreq[p].user
    IN  /\ vreq[p].pc = "attach"
        /\ Store!AttachEnd(p)
        /\ raced' = IF Hit(p) = Vault!Own(u) THEN raced ELSE raced \cup {u}
        /\ Vault!Finish(p)
        /\ UNCHANGED <<challenges, vaults, salts, accepted, bound, signed>>

\* A rotation commits; auth_refresh signs with the row that it returns.
Rotate(p) ==
    /\ Store!RotateCommit(p)
    /\ Sign(req[p].row.user, req[p].row.addr)
    /\ UNCHANGED vaultVars

\* Refresh, logout, replay and cleanup do not look at the vault.
StoreStep ==
    /\ UNCHANGED <<vaultVars, signed>>
    /\ \/ \E p \in Requests : /\ Free(p)
                              /\ \E t \in Tokens : Store!RefreshBegin(p, t)
                                                   \/ Store!LogoutBegin(p, t)
       \/ Store!CleanupBegin
       \/ \E p \in Requests \cup {Cleaner} :
            \/ Store!Respond(p) \/ Store!RefreshReused(p) \/ Store!RefreshGenerateFails(p)
            \/ \E t \in Tokens : Store!RefreshGenerate(p, t)
            \/ Store!RotateBegin(p) \/ Store!RotateMiss(p) \/ Store!RotateLock(p)
            \/ Store!PurgeBegin(p) \/ Store!DeleteEnd(p)
            \/ Store!RevokeMiss(p) \/ Store!RevokeLock(p) \/ Store!RevokeCommit(p)
       \/ Store!Tick

\* Whatever the handler is doing is cut off, in the vault, in the store or in
\* both.
Abort(p) ==
    /\ UNCHANGED signed
    /\ IF req[p].pc # "idle" THEN Store!Abort(p) ELSE UNCHANGED storeVars
    /\ IF p \in Requests /\ vreq[p].pc # "idle" THEN Vault!Abort(p) ELSE UNCHANGED vaultVars

Next ==
    \/ \E p \in Requests :
         \/ VaultStep(p)
         \/ \E t \in Tokens : Login(p, t)
         \/ AttachStart(p) \/ AttachDone(p) \/ Rotate(p)
    \/ VaultTable
    \/ StoreStep
    \/ \E p \in Requests \cup {Cleaner} : Abort(p)

Spec == Init /\ [][Next]_vars

-----------------------------------------------------------------------------

\* Every variable has its type.
TypeOK ==
    /\ Store!TypeOK
    /\ Vault!TypeOK
    /\ signed \subseteq Users \X (Addresses \cup {None})

\* With the locks, rotations and purges of the store, every login still behaves
\* like a session of WalletVault: a rotation is invisible, one statement writes
\* the address of many logins at once but never of another user's, and the
\* logins it misses are those WalletVault counts as missed.
ImplementsVault == Vault!Spec

\* An access token names an address only if its user signed in with it, proved
\* it for the vault or bound it with a salt that fits its subject, also when
\* the token comes from a refresh that a write of the address overlapped.
SignedAddressEarned ==
    \A c \in signed :
        LET u == c[1]
            a == c[2]
        IN  \/ a \in {None, Wallet[u]} \/ \E b \in bound[u] : b.addr = a
            \/ \E n \in Nonces : accepted[n] # <<>> /\ accepted[n][1] = [user |-> u, addr |-> a]
=============================================================================
