# A verification of the MySocial salt service

TLA+ models of the state the salt service keeps and of everything that changes it, TLC runs that
check them on small instances, and TLAPS proofs of the most important results for every instance.
Paths such as `src/db/mod.rs` are relative to the repository.

## The system

The service logs users in (Google, Apple, Facebook, Twitch, a wallet signature), gives them a
30-minute access token and a 30-day refresh token, and keeps an encrypted wallet vault for them. All
state is in PostgreSQL; any number of service processes share it. A request is one async handler
that makes several database calls on a pool of connections, so the unit of interleaving is the SQL
statement, or the transaction where the code opens one (only rotation and logout do).

| Component | State | Operations | Interacts with | What makes it correct |
|---|---|---|---|---|
| Refresh sessions (`src/db/mod.rs:82-277`, `src/handlers/mod.rs:468-580`) | `refresh_sessions`, `revoked_refresh_tokens` | store, rotate, revoke, replay purge, attach address, expire | logins, vault writes, cleaner | a token is redeemed once; a login has one usable token; expiry and owner are the login's; a logged-out token is dead; nobody is signed out silently |
| Cleanup task (`src/main.rs:225-253`) | none | hourly delete of expired sessions and old rate limit entries | both tables | expired sessions go, live ones and countable entries stay |
| Rate limiter (`src/db/mod.rs:31-80`) | `rate_limit_entries` | count, record, clean up | callbacks, refresh, passkey read | a bound on what passes per window, also under concurrency |
| Wallet vault, challenges (`src/db/mod.rs:279-407`, `src/handlers/mod.rs:738-940`) | `wallet_vaults`, `wallet_vault_challenges` | issue, consume, upsert, attach | sessions, logins | an address in a vault was proved by its wallet; a challenge is used once; a passkey opens one vault |
| zkLogin salts (`src/db/mod.rs:409-438`, `src/handlers/mod.rs:653-736`) | `zklogin_salts` | insert once, bind address | sessions | an address is bound only with a salt whose issuer begins the login's subject, and that salt stays |
| Allowed clients, startup (`src/main.rs:27-134`, `src/indexer_platforms.rs`, `src/config.rs`) | the list in memory | fetch, filter, merge, validate | indexer, logins | only approved clients; none lost; startup cannot be stopped by the indexer |
| Provider login (`src/handlers/mod.rs:120-355`, `src/auth/exchange.rs`, `src/security/access_token.rs`) | none; the code is spent at the provider | choose provider and application, exchange, fetch profile, validate, store session | providers, JWKS, vault, sessions | a session only for the account, provider and application that granted the code; one account is one user; a code makes one session; nobody is turned away without a cause |
| JWT validation (`src/security/jwt.rs`) | JWKS cache in memory | check, fetch, fill | providers | a withdrawn key dies and a new one is known within an hour and a fetch |
| Session tokens, wallet signatures (`src/security/`) | none | pure cryptography | everything | - |
| Router, health, metrics | counters | read only | - | - |

Hard behaviours: handlers interleave between any two statements, across processes; a client may go
away and a connection or process may die at any point; responses get lost after the commit; rows are
locked while others wait for them; a multi-row statement works on the rows that existed when it
began; the cleaner runs beside everything; the indexer's table changes while it is paged through.
`PROJECT.json` lists each hazard at its line with the properties that cover it.

## Modules

| Module | Models |
|---|---|
| `RefreshSessions` | the store of refresh sessions with the handlers and the cleaner that drive it: the core |
| `SessionChains` | what that store promises, abstractly |
| `RefreshSessionsProofs`, `RefreshSessionsRefinement` | theorems about `RefreshSessions` |
| `RateLimiter`, `RateLimiterProofs` | the rate limiter, and theorems about it |
| `WalletVault`, `WalletVaultProofs` | challenges, vaults, zkLogin binds, logins: how addresses reach vaults and sessions; theorems about it |
| `VaultSessions`, `VaultSessionsProofs` | `WalletVault` on top of `RefreshSessions`: the composition; theorems about it |
| `ProviderLogin`, `ProviderLoginProofs` | a login through a provider, from the code to the session; theorems about it |
| `AllowedClients`, `AllowedClientsProofs` | startup and the allowlist; theorems about it |
| `JwksCache`, `JwksCacheProofs` | the cache of the providers' keys, and theorems about it |
| `MC...` | the same modules on small instances |

Every module has, before or beside the action it is named after, some *faulty forms*
(`RotateLockShared` is `RotateLock` without FOR UPDATE). No specification uses them; each shows
that a property breaks when the bug it describes is put in.

### RefreshSessions

A token stands for its SHA-256 hash; `generate_refresh_token` never repeats one (`Fresh`).
`sessions` and `revoked` are the tables by token, `lock` the row locks, `req` what every handler and
the cleaner is doing, `delivered` the tokens that reached a client. `origin`, `purged` and
`loggedOut` are history variables: no action reads them, except that a token with an origin is not
fresh.

| Code | Actions |
|---|---|
| callbacks: `store_refresh_session` and the response | `StoreSession`, `Respond` |
| `POST /auth/refresh` | `RefreshBegin`, then `RefreshReused` or `RefreshGenerate` |
| `rotate_refresh_session` | `RotateBegin` (BEGIN fixes NOW()), `RotateMiss` or `RotateLock`, `RotateCommit`, then `Respond` |
| `delete_refresh_sessions_for_user` | `PurgeBegin` (snapshot), `DeleteEnd` |
| `POST /auth/logout`, `revoke_refresh_session` | `LogoutBegin`, `RevokeMiss` or `RevokeLock`, `RevokeCommit` |
| `set_refresh_wallet_address` (of `PUT /wallet-vault` and `POST /zklogin-address`) | `AttachBegin`, `AttachEnd` |
| `cleanup_task` | `CleanupBegin`, `DeleteEnd` |
| errors, lost connections, crashes | `Abort`, possible at every point; a transaction rolls back, a commit stays |

PostgreSQL at READ COMMITTED is modelled from how the code uses it: SELECT FOR UPDATE waits for the
row and re-evaluates; a DELETE or UPDATE of many rows takes its snapshot at its start, waits while a
row of it is locked and acts on what is left. The DELETE, the two INSERTs and the COMMIT of a
rotation are one action, because nobody sees them before the commit and nothing but a failure can
come between (`Abort` covers that). Two multi-row statements that lock in opposite order are ended
by PostgreSQL's deadlock detector, which is an `Abort`. The rate limit in front of the refresh is in
`RateLimiter`, the signing of the access token in `VaultSessions`; an error there is an `Abort` after the
commit.

Properties. `RedeemedOnce`, `OneLivePerChain`, `ChainFacts`, `LogoutSticks` are invariants;
`NoSilentSignOut` and `NoLostAddress` are action properties. The first says that an unexpired session
disappears in three ways only, each visible in the step itself: its own logout is answered, its
usable successor is stored, or the DELETE ends of a handler that was given a revoked token of the
same user and had the session in its snapshot. An older logout or rotation of the user excuses
nothing. `LogoutSticks` is about the logged-out token alone: where the client's rotation won the race,
its successor is another token, which nobody logged out. `RequestsFinish` and `ExpiredSwept` are
liveness properties; `ImplementsChains` says that the store implements `SessionChains`, where a chain
has one current token that is opened, advanced and closed in single steps. The refinement mapping
takes the one live token of a login as its chain's current one.

*Fairness.* A handler that can step does (`WF` of `Step`); the async runtime and the connection pool
starve nobody. `SF` for taking a row lock, for ending a multi-row statement and for committing:
PostgreSQL grants row locks in queue order, and statements do not fail every time they are tried. No
fairness is assumed for requests to arrive, for `Abort` or for time. The cleaner's interval fires for
ever (`WF` of `CleanupBegin`).

### RateLimiter

`entries` is the table, a set of rows; `passed` is a history of every row there ever was. A handler
works through the checks of its route (`left`), each one a `CheckCount` (SELECT COUNT) and a `Record`
(INSERT). `BoundedOvershoot`: in no window do more requests pass than the limit plus all concurrent
handlers but one. `CleanupKeepsWindow`: the cleaner never removes a row that some window still counts.

### WalletVault

A session here is a chain of `RefreshSessions` with its address. `PutBegin`, `Consume`, `Upsert` and
`Attach` are the four phases of `PUT /wallet-vault`: the first stands for authentication and the
signature check, the others for one statement each. `LoginRead` and `LoginStore` are the two
ends of an OAuth login, `WalletLogin` reads no vault; `PutSalt` and `BindBegin` are the zkLogin
endpoints, of which the second shares `Attach`. A row of `zklogin_salts` is a member of `Salts` (salt,
iss and aud together). The bind compares strings only: the subject must begin with the stored iss and
a colon. `Fits` gives, for each user, the salts that pass, and it may be any such table: an iss of
`https` passes for a subject `https://accounts.google.com:1`, so a salt that fits need not name the
login's issuer. `Attach` may miss sessions: those that a rotation
replaces while the UPDATE waits (`AttachEnd` of `RefreshSessions` shows how). `Expire` lets a
challenge run out at any time instead of keeping a clock; the service's clock and PostgreSQL's are
taken to agree. Access tokens need no session to be valid, so a user acts without one.

`VaultProved`, `CredentialUnique`, `SessionAddressEarned` and `BindSaltKept` hold unconditionally.
`BindSaltKept` compares the row that every bind read, which `bound` remembers, with the row stored
now, so it sees a replacement even by one under the same issuer.
`AgreeUnlessRaced` says precisely when the address in a session and the one in the vault may differ:
after overlapping requests of the user, after a PUT that was cut off before its last statement, for
wallet users (their logins never look at the vault) and for users who bound an address by zkLogin. It
classifies those cases, which the code really has; what it catches is a sequence of requests without
overlap or failure that leaves the two apart all the same.

### VaultSessions

`WalletVault` takes a login for one session, and lets `Attach` miss any of them. `VaultSessions` puts
the vault on the store as it is, with tokens, row locks, snapshots, purges and the cleaner, by
instantiating both modules. A handler has a phase in the vault (`vreq`) or in the store (`req`);
the attach is in both, as the last statement of a request and as `AttachBegin` and `AttachEnd` of the
store. `Login` is the end of both callbacks, which sign an access token and store the session;
`Rotate` is the commit of a rotation, after which `auth_refresh` signs with the row it returned. The
store writes an empty address where the handler holds none (`unwrap_or("")`), and a token leaves an
empty one out.

`ImplementsVault` says that with all this the service still implements `WalletVault`. The refinement
mapping (`View`) takes the live token of each chain as the login's session: a rotation is invisible,
a purge ends many sessions in one step, and the logins that the UPDATE misses are those `Attach`
leaves out. `SignedAddressEarned` is what the two modules are for together: no access token, from a
login or from a refresh that a write overlapped, names an address its user has not earned.

### ProviderLogin

What a code stands for is fixed when the user grants it (`grant`); the provider honours it once, for
the application it was granted to (`spent`). `Begin` is `auth_provider_callback` up to the exchange:
hint, audience and application (`ResolveProvider`, `OAuthClientId`). `Exchange` has three outcomes,
one of which spends the code and loses the answer. Facebook and Twitch are then asked for a profile,
whose error the code swallows (`ProfileFailed`). `Claims` decides on the ID token or the access token
and on the nonce, `Store` stores the session. `config` ranges over the settings that
`Config::validate` accepts: it lets `FACEBOOK_APP_ID` and `TWITCH_CLIENT_ID` differ from the audience.
Whether an ID token verifies (the cached key set has its key, the signature is good, it has not
expired) is decided once per code, when `validate` looks at it; the grant foretells it (`verifies`),
and `IdTokenValid` refuses otherwise. When a key is unknown although the provider uses it is a question
for `JwksCache`. The address the session gets is in `WalletVault`. `Fail` is a call that fails, or a
handler that ends.

`VouchedFor` compares the stored session, with its issuer and subject, to what the user granted:
another provider's label, an unverified ID token or another nonce must not get through, whatever the
hint and the profile say. `RefusedForCause` is the list of causes for which the service's own checks
refuse a login whose code the provider honoured, under settings that agree: the nonce, an ID token
that does not verify, a profile that was not fetched, an answer of Google without ID token, one of
Twitch with one.

Two branches of the handler have no action because they cannot be reached. `src/handlers/mod.rs:216`
asks Google and Apple for an ID token only if a profile names them, and they are never asked for one;
an answer of theirs without ID token is refused by the access token validator as that of an unknown
provider. A missing signing key or issuer is refused at startup already, by `Config::validate`.

### AllowedClients

`Start` to `Validate` is the first half of `main`; `FetchPage`, `FetchNothing` and `FetchFails` are
the outcomes of one request to the indexer, whose table other people change (`Register`,
`Withdraw`). Redirect URIs are numbers in their sort order, with `Cut` for the trailing slashes,
because that is all that merging and sorting look at. A page is the set of positions it
shows (`Page`), and inserting clients into the HashMap one after the other (`PutAll`) gives every key
its last client (`Winner`): one row gives no two clients of the same key, so their order among each
other does not matter. The list (`allowed`) is a set: its order decides only which row of an id
`auth_provider_callback` finds first, and the choice of the redirect URI made from that row
(`resolve_oauth_redirect_uri_for_token_exchange`) is a pure function that is left out.

`AsOnePage` says what paging amounts to: the list has the keys of ALLOWED_CLIENTS and those of some
whole rows that were shown, as if they had come on one page. A platform has all of its redirect URIs
or none of its own, whatever changed between the pages and wherever the fetch was cut short; and while
nothing left the table the rows include all that were there from the start. The indexer is taken to return as many rows as it is
asked for: one that caps pages below `INDEXER_PLATFORMS_PAGE_LIMIT` would end the fetch after a page.

### JwksCache

One provider and the cache of one process (`cached`, `cacheAge`). `Hit` is a login that finds a fresh
entry; any other goes through `Miss`, `Serve` (the provider answers with what it publishes then) and
`Store`, or ends in `FetchFails` or `Drop`. Nothing is awaited between the check or the insert and
the verdict, so each is one action with it. `Publish` and `Withdraw` rotate keys. Instead of a clock
there are ages, which stop where nothing depends on them any more. A fetch, with the wait for the
write lock after it, takes at most the HTTP client's timeout: the lock is never held across an await.
What else `validate` checks of a token under a known key is a choice between accepting and refusing.

The proof's invariant (`KeySets`) says how stale a key set may be: what is `n` ticks old is right
about every key that has been published or withdrawn for more than `n` ticks.

## Runs

| Run | Instance | Shows |
|---|---|---|
| `sessions` | 2 users, 3 tokens, 2 handlers and the cleaner, lifetime and clock 2; symmetric | all safety properties of the store, and the inductive invariant |
| `chains` | 1 user, 2 addresses, 3 tokens, 2 handlers, lifetime and clock 1; symmetric | refinement of `SessionChains`; `NoLostAddress` |
| `handlers_finish` | 1 user, 2 tokens, 2 handlers, clock stands still | `RequestsFinish` under `LiveSpec` |
| `sweep` | 1 user, 2 tokens, 1 handler, clock 2 | `ExpiredSwept` under `LiveSpec` |
| `replay_family` | 1 user, 3 tokens, 2 handlers | a finding, below |
| `rate_limiter` | 2 identifiers with limits 2 and 1, windows 1 and 2, 2 handlers, clock 3 | both bounds |
| `wallet_vault` | 1 OAuth and 1 wallet user, 2 addresses, 1 credential, 2 challenges, 3 salts of which 2 fit, 1 session, 2 handlers | the five properties of vault, salts and sessions |
| `vault_sessions` | 1 OAuth and 1 wallet user, 1 address, 1 challenge, 2 salts of which 1 fits, 2 tokens, 2 handlers and the cleaner; symmetric | the store implements the sessions of `WalletVault`; `SignedAddressEarned` |
| `provider_login` | 2 codes that may stand for 11 grants of 4 providers, 8 settings, 2 handlers, 3 client ids, 2 nonces | the four properties of a login |
| `allowed_clients` | page limits 0 to 2, tables up to 3 rows of 4 kinds with one change, 4 ALLOWED_CLIENTS, callback unset, of slashes or usable | the five properties of the list, and that the fetch ends |
| `startup_error` | the same | a finding, below |
| `jwks_cache` | 2 keys, 2 logins, cache duration 2, fetch timeout 1; symmetric | how long a rotation goes unnoticed, and what overlapping fetches may lose |

*Why the bounds are enough.* Three tokens are a login, its successor and one more: a second login, a
second rotation, or the loser of a race; two handlers and the cleaner are every pair of operations at
once, and no guard of the code mentions more than two processes. What the proofs cover is not
limited by them at all. `MaxTime` stops the clock, so `Tick` is disabled at the end; the lifetime is
not longer than that, so sessions do expire. In `rate_limiter` the clock goes beyond both windows and
the age of the cleaner, so that entries leave all three. In `wallet_vault` one credential and two
users are enough to collide, two challenges and two handlers to overlap; only the OAuth user uses
zkLogin, a wallet user's session being exempt from `AgreeUnlessRaced` anyway. In `vault_sessions` two
tokens are a login and its rotation, or two logins, so that an attach can find one row, both or a row
that is being replaced; the second challenge and the credential are `wallet_vault`'s, and the clock
stands still, `sessions` having the expiry. In `provider_login` three providers share an account id,
two grants are for somebody else's application, two do not verify, and every
setting but one is complete; two handlers may bring the same code or two. In `allowed_clients`
three rows with a limit of one or two give full, short and empty last pages. In `jwks_cache` a fetch
is shorter than the life of an entry, as 10 seconds are than an hour, and both bounds are reached. No run needs
`CHECK_DEADLOCK FALSE`: a handler can always arrive or fail.

## Findings

1. `README.md:173` promises that the reuse of a revoked refresh token revokes the remaining session
   family. Run `replay_family` shows a schedule in which it does not: a rotation holds the row of the
   current token; the replay of an older one starts its DELETE, whose snapshot has only that row, and
   waits; the rotation commits; the DELETE finds its row gone and ends; the successor was inserted
   after the snapshot and stays usable. The replay is answered 401 all the same.
2. `README.md:124` has startup fail when the indexer request errors. `src/main.rs:64-70` logs a
   warning and serves with `ALLOWED_CLIENTS` alone; run `startup_error` reaches that state.

The models show some more that no document contradicts: a lost refresh response makes the client's
retry a replay, which signs the user out everywhere; a wallet user's session never takes the
address of its vault at login; an address attached during a rotation reaches the new session only at
the next login; GraphQL errors without a text end the
fetch as if the list were complete. (Read off the code, not modelled: a platform with only slashes as
its first redirect URI, or one that falls back to a callback of slashes, is listed but cannot log in
without sending one.) A Twitch login with scope `openid` is refused every time, after its code was spent, because its ID token
goes to a validator that knows Google and Apple only; so is every Facebook or Twitch login whose
application id differs from the configured audience, a setting that `Config::validate` accepts, and a
login of Google without scope `openid`. An empty `credentialId` counts as a passkey, so the second
user who sends one is refused.

## Proofs

For any sets of users, addresses, tokens and handlers (finite or not), and any lifetime and clock
bound, `RefreshSessionsProofs` proves of `Spec`:

- `Invariance`: `[]Inv`, and from it `TypeCorrect`, `RedeemedOnceAlways`, `OneLivePerChainAlways`,
  `ChainFactsAlways`, `LogoutSticksAlways`;
- `NoSilentSignOutAlways` and `NoLostAddressAlways`, the action properties;

and `RefreshSessionsRefinement` proves `Refinement`: `Spec => ImplementsChains`.

`JwksCacheProofs` proves of `JwksCache`, for any keys, logins, cache duration and fetch timeout:

- `KeySetsAlways`: its inductive invariant (types and `KeySets`);
- `WithdrawnKeyDiesAlways`, `NewKeyKnownInTimeAlways`, `TypeAlways`;
- `KeptAlways`: `KnownKeyKept`.

`WalletVaultProofs`, `ProviderLoginProofs` and `RateLimiterProofs` prove every property that the runs
of `WalletVault`, `ProviderLogin` and `RateLimiter` check, each from an inductive invariant `IInv`
(`Invariance`), for any sets of users, wallets, challenges, codes, grants, settings and identifiers.
Only the handlers of the rate limiter are finitely many, since its bound counts them.

`VaultSessionsProofs` proves of the composition `VaultSessions`, for any number of users, wallets,
tokens, challenges and handlers:

- `Invariance`: `[]IInv`, and from it `TypeAlways` and `SignedAddressEarnedAlways`;
- `Refinement`: `Spec => ImplementsVault`.

`AllowedClientsProofs` proves every invariant of `AllowedClients` (`TypeAlways`,
`ServedApprovedAlways`, `ListedUnlessShiftedAlways`, `EnvironmentKeptAlways`,
`IndexerCannotRefuseAlways`, `AsOnePageAlways`) from its inductive invariant (`Invariance`), for any
rows, configurations, page limit, and number of rows and changes.

The assumptions are the named ones: `None` is no element of the sets it is added to, nor a record; in
`RefreshSessions` the cleaner is no request and the lifetime is positive; in `JwksCache` the cache
duration is positive; in `WalletVault` only users use zkLogin, and `Fits` names salts
for each of them; in `RateLimiter` there is a handler, and
no window is longer than the age at which the cleaner deletes; in `VaultSessions` what both its
parts assume, with the store's empty address being no address; in `AllowedClients` URIs are naturals,
0 the empty one, which stays empty without trailing slashes. `VaultSessionsProofs` instantiates the proof modules of both parts,
and derives what they assume of their constants (`StoreAssumptions`, `VaultAssumptions`) before it
cites any of their lemmas.

*The argument.* That a token is redeemed once is not inductive: a state may hold two processes about
to commit a rotation of the same token. `Inv` rules that out with what the code relies on:
`LocksHold` (a process that has read a row under FOR UPDATE holds its lock, and the row is still what
it read), `ReplacementsFresh` (a generated token belongs to one rotation and is not stored yet),
`OnlyStored` (what is presented or in a snapshot was stored once), `SnapshotsAimed` (the rows a DELETE
is about to remove are expired, or belong to the owner of the revoked token its handler was given), `Lineage` (the tokens of a chain share
what the login fixed; a replaced token is dead, so it is never replaced again). Each part has a lemma
(`TypeStep`, `LocksStep`, `FreshStep`, `StoredStep`, `ChainStep`, `LogoutStep`, `AimStep`) with one
step per action that can disturb it; `Writers` says which steps change the tables at all, so that most
actions are dealt with at once. The refinement adds that a chain has one live token (`CurrentUnique`),
from which `StepMaps` follows with one lemma per abstract step.

*The other arguments.* `WalletVault`: `ChallengeOK` says that a challenge has let in nobody before it
is used, and afterwards its own user once; `HeldEarned`, that what a handler is about to write to a
vault or a session has been earned by then; `HeldAgrees`, that it is what the vault holds, unless the
user's requests overlapped, which is what `AgreeUnlessRaced` needs across the statements of a login
and a PUT. `ProviderLogin`: `Known` says that a handler that holds tokens has the code's grant for its
own provider and application, and a label of no other; `OneHolder`, that no two handlers hold the
tokens of one code; `StoredOK`, that a code has stored nothing or the one session it was granted for.
`RateLimiter`: `Room` adds the handlers that have counted and not yet recorded (`Pending`) to what
passed in the window that ends now; the sum stays below the bound because a count below the limit can
be followed by at most all handlers, and a recorded request gives up the place it held. No window
that ends later can hold more, and one that has ended gets no more rows (`RowsOld`).

`VaultSessions`: its `IInv` is the store's invariant, the vault's over the sessions that the store
shows (`View`), and what ties them together. `Coupled` says that a handler whose attach waits for row
locks in the store is in the attach phase of the vault, with the same address and with rows of its own
user only, and that any other handler is busy in one of the two at most. `SignedEarned` says that
every access token so far carries an earned address (`SignedType` is the type it needs). Each step of the store has a
lemma that says what it does to `View`: a rotation nothing (`RotateView`), an ending DELETE or a
revocation removes chains (`EndView`), a login adds one (`LoginView`), an attach writes the address
into some chains of the user and no others (`AttachView`). So each is a step of `WalletVault` or a
stutter (`VaultMoves`), which is both the refinement and the reason why the vault's own invariant
holds. That a refresh signs an earned address then follows from `SessionAddressEarned` of the vault,
because the row that a rotation has locked is what `View` shows (`SignStep`).

`AllowedClients`: `OutOK` says that what was fetched so far was shown with an accepted status and does
not need a callback that is not there; `Whole`, that it is what some whole rows bring, which a page
only adds rows to; `Paged`, that a row which was there from the beginning of the fetch has its clients
fetched or is behind the current offset, which `Register` keeps because an insertion moves rows only
towards the end (`InsertFacts`); `PagedAll`, that in the end all of them are; `ListSource`, where the
list comes from. `PutAllFacts`, `MergedFacts` and `MergedKeys` say what survives insertion and merge.

Only model-checked: liveness (`RequestsFinish`, `ExpiredSwept`, `FetchEnds`), which is out of the
prover's reach. Every other property that a passing run checks is a theorem.

## Not modelled

- Cryptography and encodings: signatures, hashes and JWTs are taken to be unforgeable and injective.
  So `src/security/wallet_signature.rs` has no module, and of `session_token.rs` only what a token is
  signed with: `WalletVault` assumes that a good signature is the wallet's, over that user, address,
  vault and nonce. Both parts are pure functions without state.
- The spelling of wallet addresses. The subject of a wallet login is the address as it was sent, while
  the signature check ignores case and prefix, so one wallet can be several users; `WalletVault` has
  users that share an address and makes no claim about which of them a wallet means.
- The 30 minutes of an access token, which nothing ends early: any user may act at any time.
- The pool's limit of 20 connections, migrations, CORS, body limits, metrics, health.
- `get_refresh_session` and `delete_refresh_session`, which nothing calls.
- The growth of challenges and revoked tokens, which nothing deletes.

## Plan

In this order, the most important behaviour first:

1. `RefreshSessions`, `SessionChains` and their proofs: done.
2. `RateLimiter`, `WalletVault`, `JwksCache` and `AllowedClients`: modelled, checked and proved.
3. `ProviderLogin`: modelled, checked and proved.
4. `VaultSessions`, composing `WalletVault` with `RefreshSessions`: modelled, checked and proved.
5. Left: the safety properties have theorems. What could be added is a refinement for `ProviderLogin`
   (a login as one step that spends a code and stores a session or refuses) and its composition with
   `VaultSessions`, which so far meet only in the login's end.
