--------------------------- MODULE RefreshSessions ---------------------------
(***************************************************************************)
(* The refresh-session store of the salt service (src/db/mod.rs) together  *)
(* with the handlers and the hourly loop that drive it: login stores a     *)
(* session, POST /auth/refresh rotates it, POST /auth/logout revokes it,   *)
(* the replay of a revoked token deletes every session of its owner, PUT   *)
(* /wallet-vault attaches an address to the owner's sessions, and the      *)
(* cleaner deletes the expired ones.                                       *)
(*                                                                         *)
(* Every handler is a small state machine with one action per database     *)
(* statement or transaction step, so that any number of them, on any       *)
(* number of server instances, interleave as they do in PostgreSQL at READ *)
(* COMMITTED:                                                              *)
(*   - SELECT ... FOR UPDATE waits for the row, then holds it until the    *)
(*     transaction ends;                                                   *)
(*   - a DELETE or UPDATE of many rows sees the rows that exist when it    *)
(*     starts, waits for those another transaction holds, and affects the  *)
(*     ones that are left.  A row inserted meanwhile is not in its         *)
(*     snapshot.                                                           *)
(* A token stands for the SHA-256 hash of its text, the only form the      *)
(* store sees; generated tokens (32 random bytes) never repeat.            *)
(***************************************************************************)
EXTENDS Integers, FiniteSets

CONSTANTS
    Users,      \* user identifiers
    Addresses,  \* wallet addresses, the empty one included
    Tokens,     \* refresh tokens (their hashes)
    Requests,   \* HTTP handlers that may run at the same time
    Cleaner,    \* the background cleanup task
    None,       \* SQL's NULL, Rust's Option::None
    TTL,        \* lifetime of a login in clock ticks (30 days in the code)
    MaxTime     \* bound of the clock, for TLC only

ASSUME NoneAssumption ==
    None \notin Users \cup Addresses \cup Tokens \cup Requests \cup {Cleaner}
ASSUME CleanerAssumption == Cleaner \notin Requests
ASSUME TimeAssumption == TTL \in Nat \ {0} /\ MaxTime \in Nat

VARIABLES
    sessions,   \* refresh_sessions: token -> its row, or None
    revoked,    \* revoked_refresh_tokens: token -> its owner, or None
    lock,       \* the row locks: token -> the process that holds its row
    req,        \* what each handler and the cleaner is doing
    delivered,  \* the tokens some client has received
    now,        \* the clock
    origin,     \* history: how each stored token came to be, or None
    purged,     \* history: the chains a completed replay purge was aimed at
    loggedOut   \* history: the tokens whose logout was answered 204

tables  == <<sessions, revoked, lock>>
history == <<origin, purged, loggedOut>>
vars    == <<sessions, revoked, lock, req, delivered, now, history>>

Procs    == Requests \cup {Cleaner}
Expiries == 0 .. (MaxTime + TTL)

Session == [user : Users, addr : Addresses, expires : Expiries]

\* The login a token descends from (named by its first token), the token it
\* replaced, and what that login fixed for the whole chain.
Origin  == [chain : Tokens, parent : Tokens \cup {None},
            user : Users, expires : Expiries]

ASSUME RecordAssumption ==
    None \notin Session \cup Origin
          \cup [token : Tokens \cup {None}, user : Users, expires : Expiries]

Phases  == {"idle", "respond", "check", "begin", "rotate", "rotating",
            "purge", "deleting", "attaching", "revoke", "revoking"}

Request == [pc    : Phases,
            token : Tokens \cup {None},   \* the token presented
            next  : Tokens \cup {None},   \* the token generated
            at    : 0 .. MaxTime,         \* NOW() of its transaction
            row   : Session \cup {None},  \* the row read under the lock
            snap  : SUBSET Tokens,        \* snapshot of a multi-row statement
            addr  : Addresses \cup {None}]

\* What a process remembers in each phase.
Memory(ph, t, n, at, r, S, a) ==
    [pc |-> ph, token |-> t, next |-> n, at |-> at,
     row |-> r, snap |-> S, addr |-> a]

Idle                     == Memory("idle", None, None, 0, None, {}, None)
Answers(t)               == Memory("respond", None, t, 0, None, {}, None)
Presents(ph, t)          == Memory(ph, t, None, 0, None, {}, None)
Rotates(ph, t, n, at, r) == Memory(ph, t, n, at, r, {}, None)
Revokes(t, r)            == Memory("revoking", t, None, 0, r, {}, None)
Deletes(t, S)            == Memory("deleting", t, None, 0, None, S, None)
Attaches(S, a)           == Memory("attaching", None, None, 0, None, S, a)

Live(t)   == sessions[t] # None
Fresh(t)  == origin[t] = None /\ \A p \in Procs : req[p].next # t

\* No row of the snapshot of p is held by a transaction.
Unlocked(p) == \A t \in req[p].snap : Live(t) => lock[t] = None

Init ==
    /\ sessions = [t \in Tokens |-> None]
    /\ revoked = [t \in Tokens |-> None]
    /\ lock = [t \in Tokens |-> None]
    /\ req = [p \in Procs |-> Idle]
    /\ delivered = {}
    /\ now = 0
    /\ origin = [t \in Tokens |-> None]
    /\ purged = {}
    /\ loggedOut = {}

-----------------------------------------------------------------------------
(* Faulty forms of actions further down, each as a plausible bug would have *)
(* it.  No specification uses them: the runs show that a property breaks    *)
(* when one takes the place of the action it is named after.                *)

\* The generated hash never reaches the rotation.
RefreshGenerateDropped(p, t) ==
    /\ req[p].pc = "check"
    /\ revoked[req[p].token] = None
    /\ Fresh(t)
    /\ req' = [req EXCEPT ![p] = Rotates("begin", req[p].token, None, 0, None)]
    /\ UNCHANGED <<tables, delivered, now, history>>

\* SELECT without FOR UPDATE.
RotateLockShared(p) ==
    LET t == req[p].token
    IN  /\ req[p].pc = "rotate"
        /\ Live(t) /\ sessions[t].expires > req[p].at
        /\ req' = [req EXCEPT ![p] =
                     Rotates("rotating", t, req[p].next, req[p].at, sessions[t])]
        /\ UNCHANGED <<tables, delivered, now, history>>

\* The rotation inserts the new session with row r and keeps the old one or not.
Rotation(p, keep, r) ==
    LET old == req[p].token
        new == req[p].next
    IN  /\ req[p].pc = "rotating"
        /\ sessions' = [sessions EXCEPT ![old] = keep, ![new] = r]
        /\ revoked' = [revoked EXCEPT ![old] = r.user]
        /\ lock' = [lock EXCEPT ![old] = None]
        /\ origin' = [origin EXCEPT ![new] =
                        [chain   |-> origin[old].chain,
                         parent  |-> old,
                         user    |-> origin[old].user,
                         expires |-> origin[old].expires]]
        /\ req' = [req EXCEPT ![p] = Answers(new)]
        /\ UNCHANGED <<delivered, now, purged, loggedOut>>

\* The DELETE of the old row is forgotten.
RotateCommitKeepsOld(p) == Rotation(p, req[p].row, req[p].row)

\* Every rotation starts a new lifetime.
RotateCommitSliding(p) ==
    Rotation(p, None, [user    |-> req[p].row.user,
                       addr    |-> req[p].row.addr,
                       expires |-> now + TTL])

\* Logout skips a locked row as if it were gone.
RevokeMissSkipsLocked(p) ==
    /\ req[p].pc = "revoke"
    /\ ~Live(req[p].token) \/ lock[req[p].token] # None
    /\ loggedOut' = loggedOut \cup {req[p].token}
    /\ req' = [req EXCEPT ![p] = Idle]
    /\ UNCHANGED <<tables, delivered, now, origin, purged>>

\* The UPDATE of the attach has no WHERE on the user.
AttachBeginAnyUser(p, u, a) ==
    /\ req[p].pc = "idle"
    /\ req' = [req EXCEPT ![p] =
                 Attaches({t \in Tokens : Live(t) /\ sessions[t].expires > now}, a)]
    /\ UNCHANGED <<tables, delivered, now, history>>

\* The attach writes rows that another transaction holds.
AttachEndIgnoresLocks(p) ==
    /\ req[p].pc = "attaching"
    /\ sessions' = [t \in Tokens |->
                      IF t \in req[p].snap /\ Live(t)
                      THEN [sessions[t] EXCEPT !.addr = req[p].addr]
                      ELSE sessions[t]]
    /\ req' = [req EXCEPT ![p] = Idle]
    /\ UNCHANGED <<revoked, lock, delivered, now, history>>

\* The cleanup deletes what is about to expire.
CleanupBeginEarly ==
    /\ req[Cleaner].pc = "idle"
    /\ req' = [req EXCEPT ![Cleaner] =
                 Deletes(None, {t \in Tokens :
                                  Live(t) /\ sessions[t].expires <= now + 1})]
    /\ UNCHANGED <<tables, delivered, now, history>>

\* A connection goes back to the pool with its transaction open.
AbortKeepsLocks(p) ==
    /\ req[p].pc # "idle"
    /\ req' = [req EXCEPT ![p] = Idle]
    /\ UNCHANGED <<tables, delivered, now, history>>

\* The first error of the cleaner ends its loop.
AbortEndsCleaner(p) ==
    /\ req[p].pc # "idle"
    /\ lock' = [t \in Tokens |-> IF lock[t] = p THEN None ELSE lock[t]]
    /\ req' = [req EXCEPT ![p] =
                 IF p = Cleaner THEN Presents("stopped", None) ELSE Idle]
    /\ UNCHANGED <<sessions, revoked, delivered, now, history>>

-----------------------------------------------------------------------------
(* Login: the last statement of auth_provider_callback and                 *)
(* auth_wallet_callback stores the session.  The address was read from the *)
(* vault earlier in the handler, so it may be any address.                 *)

StoreSession(p, t, u, a) ==
    /\ req[p].pc = "idle"
    /\ Fresh(t)
    /\ sessions' = [sessions EXCEPT ![t] =
                      [user |-> u, addr |-> a, expires |-> now + TTL]]
    /\ origin' = [origin EXCEPT ![t] =
                    [chain |-> t, parent |-> None,
                     user |-> u, expires |-> now + TTL]]
    /\ req' = [req EXCEPT ![p] = Answers(t)]
    /\ UNCHANGED <<revoked, lock, delivered, now, purged, loggedOut>>

\* The response that carries the new refresh token reaches the client.
Respond(p) ==
    /\ req[p].pc = "respond"
    /\ delivered' = delivered \cup {req[p].next}
    /\ req' = [req EXCEPT ![p] = Idle]
    /\ UNCHANGED <<tables, now, history>>

-----------------------------------------------------------------------------
(* POST /auth/refresh *)

RefreshBegin(p, t) ==
    /\ req[p].pc = "idle"
    /\ t \in delivered
    /\ req' = [req EXCEPT ![p] = Presents("check", t)]
    /\ UNCHANGED <<tables, delivered, now, history>>

\* revoked_refresh_owner finds the presented token.
RefreshReused(p) ==
    /\ req[p].pc = "check"
    /\ revoked[req[p].token] # None
    /\ req' = [req EXCEPT ![p] = Presents("purge", req[p].token)]
    /\ UNCHANGED <<tables, delivered, now, history>>

\* It does not: generate the replacement.
RefreshGenerate(p, t) ==
    /\ req[p].pc = "check"
    /\ revoked[req[p].token] = None
    /\ Fresh(t)
    /\ req' = [req EXCEPT ![p] =
                 Rotates("begin", req[p].token, t, 0, None)]
    /\ UNCHANGED <<tables, delivered, now, history>>

\* The handler's error branch: 500, nothing stored.  (A random source that
\* fails panics, which ends the handler in the same way.)
RefreshGenerateFails(p) ==
    /\ req[p].pc = "check"
    /\ revoked[req[p].token] = None
    /\ req' = [req EXCEPT ![p] = Idle]
    /\ UNCHANGED <<tables, delivered, now, history>>

\* BEGIN: PostgreSQL's NOW() is the time of this step throughout.
RotateBegin(p) ==
    /\ req[p].pc = "begin"
    /\ req' = [req EXCEPT ![p] =
                 Rotates("rotate", req[p].token, req[p].next, now, None)]
    /\ UNCHANGED <<tables, delivered, now, history>>

Rotatable(p) ==
    LET t == req[p].token
    IN  Live(t) /\ sessions[t].expires > req[p].at

\* The row is gone or expired: rollback, 401.
RotateMiss(p) ==
    /\ req[p].pc = "rotate"
    /\ ~Rotatable(p)
    /\ req' = [req EXCEPT ![p] = Idle]
    /\ UNCHANGED <<tables, delivered, now, history>>

\* SELECT ... FOR UPDATE returns the row and holds it.
RotateLock(p) ==
    LET t == req[p].token
    IN  /\ req[p].pc = "rotate"
        /\ Rotatable(p)
        /\ lock[t] = None
        /\ lock' = [lock EXCEPT ![t] = p]
        /\ req' = [req EXCEPT ![p] =
                     Rotates("rotating", t, req[p].next, req[p].at, sessions[t])]
        /\ UNCHANGED <<sessions, revoked, delivered, now, history>>

\* DELETE, INSERT into revoked ON CONFLICT DO NOTHING, INSERT, COMMIT: only
\* the commit makes them visible.
RotateCommit(p) ==
    LET old == req[p].token
        new == req[p].next
    IN  /\ req[p].pc = "rotating"
        /\ sessions' = [sessions EXCEPT ![old] = None, ![new] = req[p].row]
        /\ revoked' = [revoked EXCEPT ![old] =
                         IF @ = None THEN req[p].row.user ELSE @]
        /\ lock' = [lock EXCEPT ![old] = None]
        /\ origin' = [origin EXCEPT ![new] =
                        [chain   |-> origin[old].chain,
                         parent  |-> old,
                         user    |-> origin[old].user,
                         expires |-> origin[old].expires]]
        /\ req' = [req EXCEPT ![p] = Answers(new)]
        /\ UNCHANGED <<delivered, now, purged, loggedOut>>

-----------------------------------------------------------------------------
(* The replay purge, DELETE ... WHERE user_identifier = $1.  The owner of a *)
(* revoked token never changes, so it is read here and not kept in req.     *)

PurgeBegin(p) ==
    /\ req[p].pc = "purge"
    /\ req' = [req EXCEPT ![p] =
                 Deletes(req[p].token,
                         {t \in Tokens :
                            /\ Live(t)
                            /\ sessions[t].user = revoked[req[p].token]})]
    /\ UNCHANGED <<tables, delivered, now, history>>

\* A multi-row DELETE ends: of the purge, or of the cleaner.
DeleteEnd(p) ==
    /\ req[p].pc = "deleting"
    /\ Unlocked(p)
    /\ sessions' = [t \in Tokens |->
                      IF t \in req[p].snap THEN None ELSE sessions[t]]
    /\ purged' = IF p = Cleaner THEN purged
                 ELSE purged \cup {origin[t].chain : t \in req[p].snap}
    /\ req' = [req EXCEPT ![p] = Idle]
    /\ UNCHANGED <<revoked, lock, delivered, now, origin, loggedOut>>

-----------------------------------------------------------------------------
(* POST /auth/logout: one transaction, without a condition on the expiry. *)

LogoutBegin(p, t) ==
    /\ req[p].pc = "idle"
    /\ t \in delivered
    /\ req' = [req EXCEPT ![p] = Presents("revoke", t)]
    /\ UNCHANGED <<tables, delivered, now, history>>

\* Nothing to revoke: 204 all the same.
RevokeMiss(p) ==
    /\ req[p].pc = "revoke"
    /\ ~Live(req[p].token)
    /\ loggedOut' = loggedOut \cup {req[p].token}
    /\ req' = [req EXCEPT ![p] = Idle]
    /\ UNCHANGED <<tables, delivered, now, origin, purged>>

RevokeLock(p) ==
    LET t == req[p].token
    IN  /\ req[p].pc = "revoke"
        /\ Live(t)
        /\ lock[t] = None
        /\ lock' = [lock EXCEPT ![t] = p]
        /\ req' = [req EXCEPT ![p] = Revokes(t, sessions[t])]
        /\ UNCHANGED <<sessions, revoked, delivered, now, history>>

RevokeCommit(p) ==
    LET t == req[p].token
    IN  /\ req[p].pc = "revoking"
        /\ sessions' = [sessions EXCEPT ![t] = None]
        /\ revoked' = [revoked EXCEPT ![t] =
                         IF @ = None THEN req[p].row.user ELSE @]
        /\ lock' = [lock EXCEPT ![t] = None]
        /\ loggedOut' = loggedOut \cup {t}
        /\ req' = [req EXCEPT ![p] = Idle]
        /\ UNCHANGED <<delivered, now, origin, purged>>

-----------------------------------------------------------------------------
(* set_refresh_wallet_address, the last statement of PUT /wallet-vault. *)

AttachBegin(p, u, a) ==
    /\ req[p].pc = "idle"
    /\ req' = [req EXCEPT ![p] =
                 Attaches({t \in Tokens :
                             /\ Live(t)
                             /\ sessions[t].user = u
                             /\ sessions[t].expires > now}, a)]
    /\ UNCHANGED <<tables, delivered, now, history>>

AttachEnd(p) ==
    /\ req[p].pc = "attaching"
    /\ Unlocked(p)
    /\ sessions' = [t \in Tokens |->
                      IF t \in req[p].snap /\ Live(t)
                      THEN [user    |-> sessions[t].user,
                            addr    |-> req[p].addr,
                            expires |-> sessions[t].expires]
                      ELSE sessions[t]]
    /\ req' = [req EXCEPT ![p] = Idle]
    /\ UNCHANGED <<revoked, lock, delivered, now, history>>

-----------------------------------------------------------------------------
(* The hourly cleanup, failure, and time. *)

CleanupBegin ==
    /\ req[Cleaner].pc = "idle"
    /\ req' = [req EXCEPT ![Cleaner] =
                 Deletes(None, {t \in Tokens :
                                  Live(t) /\ sessions[t].expires <= now})]
    /\ UNCHANGED <<tables, delivered, now, history>>

\* A database error, a dropped connection, a client that goes away, a crash:
\* the transaction rolls back and the handler is gone.  In "respond" the
\* commit stands and only the answer is lost.
Abort(p) ==
    /\ req[p].pc # "idle"
    /\ lock' = [t \in Tokens |-> IF lock[t] = p THEN None ELSE lock[t]]
    /\ req' = [req EXCEPT ![p] = Idle]
    /\ UNCHANGED <<sessions, revoked, delivered, now, history>>

Tick ==
    /\ now < MaxTime
    /\ now' = now + 1
    /\ UNCHANGED <<tables, req, delivered, history>>

-----------------------------------------------------------------------------

\* What a handler does to the end once its first statement is reached.
Step(p) ==
    \/ Respond(p)
    \/ RefreshReused(p) \/ RefreshGenerateFails(p)
    \/ \E t \in Tokens : RefreshGenerate(p, t)
    \/ RotateBegin(p) \/ RotateMiss(p) \/ RotateLock(p) \/ RotateCommit(p)
    \/ PurgeBegin(p) \/ DeleteEnd(p)
    \/ RevokeMiss(p) \/ RevokeLock(p) \/ RevokeCommit(p)
    \/ AttachEnd(p)

Arrive(p) ==
    \/ \E t \in Tokens, u \in Users, a \in Addresses : StoreSession(p, t, u, a)
    \/ \E t \in Tokens : RefreshBegin(p, t) \/ LogoutBegin(p, t)
    \/ \E u \in Users, a \in Addresses : AttachBegin(p, u, a)

Next ==
    \/ \E p \in Requests : Arrive(p)
    \/ CleanupBegin
    \/ \E p \in Procs : Step(p) \/ Abort(p)
    \/ Tick

Spec == Init /\ [][Next]_vars

-----------------------------------------------------------------------------
(* Safety *)

\* The fields a phase uses are set.
PhaseOK(r) ==
    /\ r.pc \in {"check", "begin", "rotate", "rotating", "purge",
                "revoke", "revoking"} => r.token \in Tokens
    /\ r.pc \in {"begin", "rotate", "rotating", "respond"} => r.next \in Tokens
    /\ r.pc \in {"rotating", "revoking"} => r.row \in Session
    /\ r.pc = "attaching" => r.addr \in Addresses

\* Every variable has its type, and every handler holds what its phase needs.
TypeOK ==
    /\ sessions \in [Tokens -> Session \cup {None}]
    /\ revoked \in [Tokens -> Users \cup {None}]
    /\ lock \in [Tokens -> Procs \cup {None}]
    /\ req \in [Procs -> Request]
    /\ \A p \in Procs : PhaseOK(req[p])
    /\ delivered \subseteq Tokens
    /\ now \in 0 .. MaxTime
    /\ origin \in [Tokens -> Origin \cup {None}]
    /\ purged \subseteq Tokens
    /\ loggedOut \subseteq Tokens

\* A refresh token is redeemed at most once, however many requests present
\* it at the same time: no two tokens replace the same one.
RedeemedOnce ==
    \A s, t \in Tokens :
        /\ origin[s] # None /\ origin[t] # None
        /\ origin[s].parent # None
        /\ origin[s].parent = origin[t].parent
        => s = t

\* A login never has two usable refresh tokens.
OneLivePerChain ==
    \A s, t \in Tokens :
        Live(s) /\ Live(t) /\ origin[s].chain = origin[t].chain => s = t

\* However often a session is rotated it keeps the owner and the absolute
\* expiry of its login, and its revoked tokens name the same owner, the one
\* a replay will purge.
ChainFacts ==
    \A t \in Tokens : origin[t] # None =>
        LET login == origin[origin[t].chain]
        IN  /\ Live(t) => /\ sessions[t].user = login.user
                          /\ sessions[t].expires = login.expires
            /\ revoked[t] # None => revoked[t] = login.user

\* Once a logout is answered 204 its token is neither usable nor redeemed by
\* a rotation that was under way: no request still holds its row.  (A rotation
\* that won the race has left a successor; that one is not logged out.)
LogoutSticks ==
    \A t \in loggedOut :
        /\ ~Live(t)
        /\ \A p \in Procs : req[p].token = t => req[p].pc # "rotating"

\* A session that has not expired disappears in three ways only: this step
\* answers the logout of its own token, or stores a usable successor of it, or
\* ends the DELETE of a handler that was given a revoked token of the same user
\* and saw the session then.  No cleanup, failure or race of other users'
\* handlers takes it away, whatever was revoked before.
NoSilentSignOut ==
    [][\A t \in Tokens :
         Live(t) /\ ~Live(t)' /\ sessions[t].expires > now =>
            \/ t \in loggedOut' \ loggedOut
            \/ \E s \in Tokens :
                  ~Live(s) /\ Live(s)' /\ origin'[s].parent = t
            \/ \E p \in Requests :
                  /\ req[p].pc = "deleting" /\ req'[p] # req[p]
                  /\ t \in req[p].snap
                  /\ revoked[req[p].token] = sessions[t].user]_vars

\* The replacement of a token carries the address its row has at the commit,
\* not an older one: an address attached while the rotation was under way is
\* never overwritten by the copy the rotation read.
NoLostAddress ==
    [][\A t \in Tokens :
         (origin[t] = None /\ origin'[t] # None /\ origin'[t].parent # None)
            => sessions'[t].addr = sessions[origin'[t].parent].addr]_vars

\* README.md:173: "Reuse of a revoked refresh token revokes the remaining
\* session family."  When the purge of a replay is done, no session that it
\* was aimed at is still usable.
ReplayEndsFamily ==
    \A t \in Tokens : Live(t) => origin[t].chain \notin purged

-----------------------------------------------------------------------------
(* The inductive invariant behind the safety properties. *)

\* A row lock belongs to the one transaction that read the row and has not
\* ended; what it read is what the row still holds.
LocksHold ==
    /\ \A t \in Tokens : lock[t] # None =>
          /\ req[lock[t]].pc \in {"rotating", "revoking"}
          /\ req[lock[t]].token = t
    /\ \A p \in Procs : req[p].pc \in {"rotating", "revoking"} =>
          /\ lock[req[p].token] = p
          /\ Live(req[p].token)
          /\ req[p].row = sessions[req[p].token]

\* A replacement that is not stored yet is new and belongs to one rotation.
ReplacementsFresh ==
    \A p \in Procs : req[p].pc \in {"begin", "rotate", "rotating"} =>
        /\ origin[req[p].next] = None
        /\ \A q \in Procs : q # p => req[q].next # req[p].next

\* What is presented, locked up in a snapshot, usable or revoked was stored.
OnlyStored ==
    /\ \A p \in Procs :
          /\ req[p].token # None => origin[req[p].token] # None
          /\ req[p].pc = "respond" => origin[req[p].next] # None
          /\ \A t \in req[p].snap : origin[t] # None
    /\ \A t \in Tokens :
          /\ Live(t) => origin[t] # None
          /\ revoked[t] # None => origin[t] # None
          /\ t \in delivered \cup loggedOut => origin[t] # None

\* The rows a DELETE is about to remove are expired, if it is the cleaner's,
\* or those of the owner of the revoked token its handler was given.
SnapshotsAimed ==
    /\ req[Cleaner].pc \in {"idle", "deleting"}
    /\ \A p \in Procs :
          /\ req[p].pc = "purge" => revoked[req[p].token] # None
          /\ req[p].pc = "deleting" /\ p # Cleaner => req[p].token \in Tokens
          /\ req[p].pc = "deleting" => \A t \in req[p].snap : Live(t) =>
                IF p = Cleaner THEN sessions[t].expires <= now
                ELSE sessions[t].user = revoked[req[p].token]

\* The tokens of a chain share what the login fixed; a replaced token is dead.
Lineage ==
    \A t \in Tokens : origin[t] # None =>
        /\ origin[origin[t].chain] # None
        /\ origin[origin[t].chain].parent = None
        /\ origin[t].parent = None => origin[t].chain = t
        /\ origin[t].user = origin[origin[t].chain].user
        /\ origin[t].expires = origin[origin[t].chain].expires
        /\ origin[t].parent # None =>
              origin[origin[t].parent] # None /\ ~Live(origin[t].parent)

Inv ==
    /\ TypeOK
    /\ LocksHold
    /\ ReplacementsFresh
    /\ OnlyStored
    /\ SnapshotsAimed
    /\ Lineage
    /\ RedeemedOnce
    /\ OneLivePerChain
    /\ ChainFacts
    /\ LogoutSticks

-----------------------------------------------------------------------------
(* Liveness *)

\* A handler that is not blocked goes on; row locks are granted in FIFO order
\* by PostgreSQL, and statements do not fail every time they are tried.
Fairness ==
    /\ WF_vars(CleanupBegin)
    /\ \A p \in Procs :
         /\ WF_vars(Step(p))
         /\ SF_vars(RotateLock(p) \/ RevokeLock(p))
         /\ SF_vars(DeleteEnd(p) \/ AttachEnd(p))
         /\ SF_vars(RotateCommit(p) \/ RevokeCommit(p))

LiveSpec == Spec /\ Fairness

\* Row locks never block a handler for ever.
RequestsFinish == \A p \in Procs : req[p].pc # "idle" ~> req[p].pc = "idle"

\* The hourly cleanup removes every expired session in the end, also one whose
\* row is locked whenever it looks.
ExpiredSwept ==
    \A t \in Tokens :
        Live(t) /\ sessions[t].expires <= now ~> ~Live(t)

-----------------------------------------------------------------------------
(* The store implements SessionChains: the current token of a chain is its *)
(* live one, whose row tells the owner and the expiry.                     *)

LiveToken(c) == {t \in Tokens : Live(t) /\ origin[t].chain = c}

ChainOf(c) ==
    IF origin[c] = None \/ origin[c].parent # None THEN None
    ELSE IF LiveToken(c) = {}
    THEN [token |-> None, user |-> origin[c].user, expires |-> origin[c].expires]
    ELSE LET t == CHOOSE t \in LiveToken(c) : TRUE
         IN  [token |-> t, user |-> sessions[t].user,
              expires |-> sessions[t].expires]

Chains == INSTANCE SessionChains
    WITH chains <- [c \in Tokens |-> ChainOf(c)],
         issued <- {t \in Tokens : origin[t] # None}

\* Every step of the store is one step of the abstract chains or invisible.
ImplementsChains == Chains!Spec
=============================================================================
