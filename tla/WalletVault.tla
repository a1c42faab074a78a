----------------------------- MODULE WalletVault -----------------------------
(***************************************************************************)
(* How wallet addresses get into the vaults and the sessions of the salt   *)
(* service (src/handlers/mod.rs and src/db/mod.rs):                        *)
(*   - POST /wallet-vault/challenge stores a nonce for the caller;         *)
(*   - PUT /wallet-vault checks a signature by the wallet over the caller, *)
(*     the address, the vault and the nonce, then runs three statements    *)
(*     that no transaction holds together: it marks the challenge used,    *)
(*     upserts the vault and writes the address into the caller's          *)
(*     sessions;                                                           *)
(*   - PUT /zklogin-salt stores a salt, an issuer and an audience once and *)
(*     for all; POST /zklogin-address writes an address into the sessions  *)
(*     of a caller whose subject begins with that issuer and a colon;      *)
(*   - an OAuth login reads the address from the vault and, after the      *)
(*     token is issued, stores a session with it; a wallet login stores a  *)
(*     session with the address that signed.                               *)
(* A session is what a refresh chain of module RefreshSessions looks like  *)
(* from here: rotation keeps its address (NoLostAddress there), expiry and *)
(* logout only remove it.  The ciphertext of a vault is left out.          *)
(***************************************************************************)
EXTENDS Naturals, Sequences

CONSTANTS
    Users,       \* authenticated subjects
    Wallet,      \* user -> the address it signs in with, None for OAuth
    ZkUsers,     \* the users who use zkLogin
    Addresses,   \* wallet addresses, in lower case
    Credentials, \* passkey credential ids
    Salts,       \* what PUT /zklogin-salt may bring: salt, iss and aud
    Fits,        \* user -> the members of Salts whose iss and a colon begin its
                 \* subject, a test of strings only: an iss "https" fits a
                 \* subject "https://issuer:id"
    Nonces,      \* challenges, UUIDs that never repeat
    Sessions,    \* refresh sessions
    Requests,    \* HTTP handlers that may run at the same time
    None         \* NULL: no row, no credential, no address

ASSUME NoneAssumption ==
    None \notin Users \cup Addresses \cup Credentials \cup Salts \cup Nonces
ASSUME UserAssumption == ZkUsers \subseteq Users
ASSUME FitsAssumption == Fits \in [Users -> SUBSET Salts]
ASSUME WalletAssumption == Wallet \in [Users -> Addresses \cup {None}]

VARIABLES
    challenges, \* wallet_vault_challenges: nonce -> row, or None
    vaults,     \* wallet_vaults: user -> row, or None
    salts,      \* zklogin_salts: user -> salt, iss and aud, or None
    sessions,   \* refresh_sessions: session -> row, or None
    req,        \* what each handler is doing
    accepted,   \* history: nonce -> the PUTs it let in, in order
    bound,      \* history: user -> the addresses POST /zklogin-address took,
                \* each with the salt it was checked against
    raced       \* history: the users whose requests overlapped or failed so
                \* that session and vault may differ

tables  == <<challenges, vaults, salts, sessions>>
history == <<accepted, bound, raced>>
vars    == <<tables, req, history>>

Challenge == [user : Users, used : BOOLEAN, expired : BOOLEAN]
Vault     == [addr : Addresses, cred : Credentials \cup {None}]
Session   == [user : Users, addr : Addresses \cup {None}]
ASSUME RecordAssumption == None \notin Challenge \cup Vault \cup Session

Phases    == {"idle", "consume", "upsert", "attach", "store"}
Request   == [pc : Phases, user : Users \cup {None}, nonce : Nonces \cup {None},
              addr : Addresses \cup {None}, cred : Credentials \cup {None}]

\* What a handler remembers in each phase.
Memory(ph, u, n, a, c) == [pc |-> ph, user |-> u, nonce |-> n, addr |-> a, cred |-> c]

Idle        == Memory("idle", None, None, None, None)
Holds(u, a) == Memory("store", u, None, a, None)
Binds(u, a) == Memory("attach", u, None, a, None)

\* The address of u's vault.
VaultAddr(u) == IF vaults[u] = None THEN None ELSE vaults[u].addr

Goto(p, ph) == req' = [req EXCEPT ![p].pc = ph]
Finish(p)   == req' = [req EXCEPT ![p] = Idle]

Init ==
    /\ challenges = [n \in Nonces |-> None]
    /\ vaults = [u \in Users |-> None]
    /\ salts = [u \in Users |-> None]
    /\ sessions = [s \in Sessions |-> None]
    /\ req = [p \in Requests |-> Idle]
    /\ accepted = [n \in Nonces |-> <<>>]
    /\ bound = [u \in Users |-> {}]
    /\ raced = {}

-----------------------------------------------------------------------------
(* POST /wallet-vault/challenge: one INSERT. *)

IssueChallenge(u, n) ==
    /\ challenges[n] = None
    /\ challenges' = [challenges EXCEPT ![n] =
                        [user |-> u, used |-> FALSE, expired |-> FALSE]]
    /\ UNCHANGED <<vaults, salts, sessions, req, history>>

\* Five minutes later.  Of a used challenge it would change nothing.
Expire(n) ==
    /\ challenges[n] # None
    /\ ~challenges[n].used
    /\ challenges' = [challenges EXCEPT ![n].expired = TRUE]
    /\ UNCHANGED <<vaults, salts, sessions, req, history>>

-----------------------------------------------------------------------------
(* PUT /wallet-vault *)

\* The body is well formed and the wallet's signature is good: the caller may
\* have signed any nonce it has seen, its own or not, and send it again.
PutBegin(p, u, n, a, c) ==
    /\ req[p].pc = "idle"
    /\ challenges[n] # None
    /\ req' = [req EXCEPT ![p] = Memory("consume", u, n, a, c)]
    /\ UNCHANGED <<tables, history>>

\* A faulty form of Consumable: used_at is not looked at.
ConsumableAgain(p) ==
    LET ch == challenges[req[p].nonce]
    IN  ch.user = req[p].user /\ ~ch.expired

\* The UPDATE finds the challenge unused, unexpired and the caller's own.
Consumable(p) ==
    LET ch == challenges[req[p].nonce]
    IN  ch.user = req[p].user /\ ~ch.used /\ ~ch.expired

\* consume_vault_challenge: one UPDATE decides and marks.
Consume(p) ==
    /\ req[p].pc = "consume"
    /\ Consumable(p)
    /\ challenges' = [challenges EXCEPT ![req[p].nonce].used = TRUE]
    /\ accepted' = [accepted EXCEPT ![req[p].nonce] =
                      Append(@, [user |-> req[p].user, addr |-> req[p].addr])]
    /\ Goto(p, "upsert")
    /\ UNCHANGED <<vaults, salts, sessions, bound, raced>>

ConsumeRefused(p) ==
    /\ req[p].pc = "consume"
    /\ ~Consumable(p)
    /\ Finish(p)
    /\ UNCHANGED <<tables, history>>

\* Some other user's vault has the credential: the unique index refuses.
CredentialTaken(p) ==
    \E v \in Users \ {req[p].user} :
        /\ vaults[v] # None
        /\ req[p].cred # None
        /\ vaults[v].cred = req[p].cred

\* Requests of u that hold an address they have not written to the sessions.
Pending(u) == {q \in Requests : req[q].user = u /\ req[q].pc \in {"attach", "store"}}

\* A faulty form of Upsert: the credential has no unique index.
UpsertUnindexed(p) ==
    LET u == req[p].user
    IN  /\ req[p].pc = "upsert"
        /\ vaults' = [vaults EXCEPT ![u] = [addr |-> req[p].addr, cred |-> req[p].cred]]
        /\ raced' = IF Pending(u) = {} THEN raced ELSE raced \cup {u}
        /\ Goto(p, "attach")
        /\ UNCHANGED <<challenges, salts, sessions, accepted, bound>>

\* upsert_wallet_vault: every column is replaced.
Upsert(p) ==
    LET u == req[p].user
    IN  /\ req[p].pc = "upsert"
        /\ ~CredentialTaken(p)
        /\ vaults' = [vaults EXCEPT ![u] = [addr |-> req[p].addr, cred |-> req[p].cred]]
        /\ raced' = IF Pending(u) = {} THEN raced ELSE raced \cup {u}
        /\ Goto(p, "attach")
        /\ UNCHANGED <<challenges, salts, sessions, accepted, bound>>

\* 500 by the unique index; the challenge stays spent.
UpsertRefused(p) ==
    /\ req[p].pc = "upsert"
    /\ CredentialTaken(p)
    /\ Finish(p)
    /\ UNCHANGED <<tables, history>>

\* The sessions of u.
Own(u) == {s \in Sessions : sessions[s] # None /\ sessions[s].user = u}

\* A faulty form of Attach: it only fills in a missing address.
AttachMissing(p, hit) ==
    LET u == req[p].user
    IN  /\ req[p].pc = "attach"
        /\ hit \subseteq Own(u)
        /\ sessions' = [s \in Sessions |->
                          IF s \in hit /\ sessions[s].addr = None
                          THEN [sessions[s] EXCEPT !.addr = req[p].addr]
                          ELSE sessions[s]]
        /\ raced' = IF hit = Own(u) THEN raced ELSE raced \cup {u}
        /\ Finish(p)
        /\ UNCHANGED <<challenges, vaults, salts, accepted, bound>>

\* set_refresh_wallet_address for every session of the caller, except those
\* that a concurrent rotation replaces while the statement waits for their
\* rows (AttachEnd in RefreshSessions); the handler ends with success.
Attach(p, hit) ==
    LET u == req[p].user
    IN  /\ req[p].pc = "attach"
        /\ hit \subseteq Own(u)
        /\ sessions' = [s \in Sessions |->
                          IF s \in hit
                          THEN [sessions[s] EXCEPT !.addr = req[p].addr]
                          ELSE sessions[s]]
        /\ raced' = IF hit = Own(u) THEN raced ELSE raced \cup {u}
        /\ Finish(p)
        /\ UNCHANGED <<challenges, vaults, salts, accepted, bound>>

-----------------------------------------------------------------------------
(* zkLogin *)

\* A faulty form of PutSalt: the later salt wins.
PutSaltOverwrites(u, salt) ==
    /\ salts' = [salts EXCEPT ![u] = salt]
    /\ UNCHANGED <<challenges, vaults, sessions, req, history>>

\* PUT /zklogin-salt: INSERT ... ON CONFLICT DO NOTHING, so that a second one
\* gets 409 and changes nothing.  The caller names the issuer; nothing compares
\* it with the one of the login here.
PutSalt(u, salt) ==
    /\ salts[u] = None
    /\ salts' = [salts EXCEPT ![u] = salt]
    /\ UNCHANGED <<challenges, vaults, sessions, req, history>>

\* There is a salt, and its iss and a colon begin the subject.
MayBind(u) == salts[u] # None /\ salts[u] \in Fits[u]

\* A faulty form of BindBegin: any salt will do.
BindBeginAnySalt(p, u, a) ==
    /\ req[p].pc = "idle"
    /\ salts[u] # None
    /\ req' = [req EXCEPT ![p] = Binds(u, a)]
    /\ bound' = [bound EXCEPT ![u] =
                   IF MayBind(u) THEN @ \cup {[addr |-> a, salt |-> salts[u]]} ELSE @]
    /\ UNCHANGED <<tables, accepted, raced>>

\* POST /zklogin-address: 404 without a salt, 403 when the subject does not
\* begin with its issuer, else the address goes to the sessions as it came.
BindBegin(p, u, a) ==
    /\ req[p].pc = "idle"
    /\ MayBind(u)
    /\ req' = [req EXCEPT ![p] = Binds(u, a)]
    /\ bound' = [bound EXCEPT ![u] = @ \cup {[addr |-> a, salt |-> salts[u]]}]
    /\ UNCHANGED <<tables, accepted, raced>>

-----------------------------------------------------------------------------
(* Login, from the read of the vault on, and the end of a session. *)

\* A faulty form of LoginRead: the address the client asks for is believed.
LoginReadUnchecked(p, u) ==
    /\ req[p].pc = "idle"
    /\ \E a \in Addresses :
         req' = [req EXCEPT ![p] = Holds(u, a)]
    /\ UNCHANGED <<tables, history>>

\* auth_provider_callback: once the provider has vouched for u, the address is
\* read from the vault.
LoginRead(p, u) ==
    /\ req[p].pc = "idle"
    /\ Wallet[u] = None
    /\ req' = [req EXCEPT ![p] = Holds(u, VaultAddr(u))]
    /\ UNCHANGED <<tables, history>>

\* auth_wallet_callback: the address that signed, whatever the vault says.
WalletLogin(p, u) ==
    /\ req[p].pc = "idle"
    /\ Wallet[u] # None
    /\ req' = [req EXCEPT ![p] = Holds(u, Wallet[u])]
    /\ UNCHANGED <<tables, history>>

\* A faulty form of LoginStore: two positional parameters of the INSERT are
\* swapped.
LoginStoreSwapped(p, s) ==
    /\ req[p].pc = "store"
    /\ sessions[s] = None
    /\ sessions' = [sessions EXCEPT ![s] = [user |-> req[p].addr, addr |-> req[p].user]]
    /\ Finish(p)
    /\ UNCHANGED <<challenges, vaults, salts, history>>

\* store_refresh_session, after the access token was issued.
LoginStore(p, s) ==
    /\ req[p].pc = "store"
    /\ sessions[s] = None
    /\ sessions' = [sessions EXCEPT ![s] = [user |-> req[p].user, addr |-> req[p].addr]]
    /\ Finish(p)
    /\ UNCHANGED <<challenges, vaults, salts, history>>

\* Logout, the cleaner or a replay purge, which may end many at once.
EndSessions(S) ==
    /\ \A s \in S : sessions[s] # None
    /\ sessions' = [s \in Sessions |-> IF s \in S THEN None ELSE sessions[s]]
    /\ UNCHANGED <<challenges, vaults, salts, req, history>>

-----------------------------------------------------------------------------

\* A database error, a client that goes away, a crash: what is committed
\* stays, and a PUT cut off before its last statement leaves the sessions
\* behind the vault.
Abort(p) ==
    /\ req[p].pc # "idle"
    /\ raced' = IF req[p].pc = "attach" THEN raced \cup {req[p].user} ELSE raced
    /\ Finish(p)
    /\ UNCHANGED <<tables, accepted, bound>>

Next ==
    \/ \E n \in Nonces : Expire(n) \/ \E u \in Users : IssueChallenge(u, n)
    \/ \E p \in Requests :
         \/ \E u \in Users, n \in Nonces, a \in Addresses,
               c \in Credentials \cup {None} : PutBegin(p, u, n, a, c)
         \/ Consume(p) \/ ConsumeRefused(p)
         \/ Upsert(p) \/ UpsertRefused(p)
         \/ \E hit \in SUBSET Sessions : Attach(p, hit)
         \/ \E u \in ZkUsers, a \in Addresses : BindBegin(p, u, a)
         \/ \E u \in Users : LoginRead(p, u) \/ WalletLogin(p, u)
         \/ \E s \in Sessions : LoginStore(p, s)
         \/ Abort(p)
    \/ \E u \in ZkUsers, salt \in Salts : PutSalt(u, salt)
    \/ \E S \in SUBSET Sessions : EndSessions(S)

Spec == Init /\ [][Next]_vars

-----------------------------------------------------------------------------

\* Every variable has its type.
TypeOK ==
    /\ challenges \in [Nonces -> Challenge \cup {None}]
    /\ vaults \in [Users -> Vault \cup {None}]
    /\ salts \in [Users -> Salts \cup {None}]
    /\ sessions \in [Sessions -> Session \cup {None}]
    /\ req \in [Requests -> Request]
    /\ accepted \in [Nonces -> Seq([user : Users, addr : Addresses])]
    /\ bound \in [Users -> SUBSET [addr : Addresses, salt : Salts]]
    /\ raced \subseteq Users

\* A challenge lets one request in, however often and at whatever moment it is
\* presented, and a vault only ever holds an address whose wallet proved
\* possession to this user under a challenge issued to it.
VaultProved ==
    /\ \A n \in Nonces : Len(accepted[n]) <= 1
    /\ \A u \in Users : vaults[u] # None =>
          \E n \in Nonces : /\ challenges[n] # None /\ challenges[n].user = u
                            /\ accepted[n] = <<[user |-> u, addr |-> vaults[u].addr]>>

\* A passkey opens at most one vault.
CredentialUnique ==
    \A u, v \in Users :
        /\ vaults[u] # None /\ vaults[v] # None
        /\ vaults[u].cred # None
        /\ vaults[u].cred = vaults[v].cred
        => u = v

\* Whatever fails or overlaps, a session never carries an address that its
\* user neither signed in with, nor proved for its vault, nor bound with a salt
\* whose issuer, as a string, begins its subject.
SessionAddressEarned ==
    \A s \in Sessions :
        LET u == sessions[s].user
            a == sessions[s].addr
        IN  sessions[s] # None /\ a # None =>
              \/ a = Wallet[u]
              \/ \E b \in bound[u] : b.addr = a
              \/ \E n \in Nonces : accepted[n] # <<>> /\ accepted[n][1] = [user |-> u, addr |-> a]

\* Every address a user ever bound was bound with the salt that is stored now:
\* GET /zklogin-salt still returns what it takes to derive the address of its
\* sessions, however often and with whatever issuer a salt was put since.
BindSaltKept ==
    \A u \in Users : \A b \in bound[u] : salts[u] = b.salt /\ b.salt \in Fits[u]

\* For an OAuth user without zkLogin, only two overlapping requests, or a PUT
\* cut off before its last statement, make a session and the vault disagree.
AgreeUnlessRaced ==
    \A s \in Sessions : sessions[s] # None =>
        LET u == sessions[s].user
        IN  \/ Wallet[u] # None \/ MayBind(u)
            \/ u \in raced
            \/ \E q \in Requests : req[q].user = u /\ req[q].pc = "attach"
            \/ sessions[s].addr = VaultAddr(u)
=============================================================================
