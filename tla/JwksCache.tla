------------------------------ MODULE JwksCache ------------------------------
(***************************************************************************)
(* The key cache of src/security/jwt.rs.  A login checks the cache, fetches*)
(* the provider's key set when no entry is fresh and stores what it got:   *)
(* three steps of concurrent logins, with nothing to hold the others back  *)
(* and nothing to keep an older answer from replacing a newer one.  The    *)
(* provider rotates its keys meanwhile.                                    *)
(*                                                                         *)
(* One provider: each has a cache entry of its own.  Ages stand for the    *)
(* clock and stop where no decision can depend on them any more, so time   *)
(* goes on for ever in a finite model.                                     *)
(***************************************************************************)
EXTENDS Integers

CONSTANTS
    Keys,          \* key ids a token may name
    Requests,      \* logins that may run at the same time
    CacheDuration, \* cache_duration, in ticks
    FetchTimeout,  \* timeout of the HTTP client, in ticks
    None           \* no login answered yet

ASSUME DurationAssumption == CacheDuration \in Nat \ {0} /\ FetchTimeout \in Nat

Bound == CacheDuration + FetchTimeout
Older(n, limit) == IF n < limit THEN n + 1 ELSE limit

VARIABLES
    stage,     \* where each key is in its life at the provider
    age,       \* ticks since it entered that stage, at most Bound
    cached,    \* the key set of the cache entry
    cacheAge,  \* its age; CacheDuration also stands for no entry at all
    phase,     \* what each login waits for
    kid,       \* the key id of its token
    got,       \* the key set the provider answered
    wait,      \* ticks since its fetch began
    answer     \* history: the last answer, and the key's stage and age then

provider == <<stage, age>>
cache == <<cached, cacheAge>>
logins == <<phase, kid, got, wait>>
vars == <<provider, cache, logins, answer>>

Stages == {"unpublished", "published", "withdrawn"}
Phases == {"idle", "sent", "received"}
Verdicts == {"accepted", "refused", "unknown", "unavailable"}
Answers == [kid : Keys, verdict : Verdicts, stage : Stages, age : 0 .. Bound]

Published == {k \in Keys : stage[k] = "published"}

\* A provider that has published its keys long ago and a process just started.
Init ==
    /\ stage \in [Keys -> {"unpublished", "published"}]
    /\ age = [k \in Keys |-> Bound]
    /\ cached = {}
    /\ cacheAge = CacheDuration
    /\ phase = [p \in Requests |-> "idle"]
    /\ \E k \in Keys : kid = [p \in Requests |-> k]
    /\ got = [p \in Requests |-> {}]
    /\ wait = [p \in Requests |-> 0]
    /\ answer = None

Enter(k, s) ==
    /\ stage' = [stage EXCEPT ![k] = s]
    /\ age' = [age EXCEPT ![k] = 0]
    /\ UNCHANGED <<cache, logins, answer>>

Publish(k) == stage[k] = "unpublished" /\ Enter(k, "published")
Withdraw(k) == stage[k] = "published" /\ Enter(k, "withdrawn")

Say(k, verdict) ==
    answer' = [kid |-> k, verdict |-> verdict, stage |-> stage[k],
               age |-> age[k]]

\* A known key still leaves signature, expiry, issuer and audience to refuse.
Decide(k, keys) ==
    \E verdict \in IF k \in keys THEN {"accepted", "refused"} ELSE {"unknown"} :
        Say(k, verdict)

\* A faulty form of Fresh: the lookup forgets to compare the age of the entry.
FreshWhenPresent == cached # {}

Fresh == cacheAge < CacheDuration

\* A faulty form of Hit: every use of the entry makes it young again.
HitRenews(k) ==
    /\ Fresh
    /\ Decide(k, cached)
    /\ cacheAge' = 0
    /\ UNCHANGED <<provider, cached, logins>>

\* A faulty form of Hit: an unknown key id evicts the entry.
HitEvicts(k) ==
    /\ Fresh
    /\ Decide(k, cached)
    /\ IF k \in cached
         THEN UNCHANGED cache
         ELSE cached' = {} /\ cacheAge' = CacheDuration
    /\ UNCHANGED <<provider, logins>>

\* The read lock is gone before the login goes on, but nothing is awaited
\* between the check and the verdict.
Hit(k) ==
    /\ Fresh
    /\ Decide(k, cached)
    /\ UNCHANGED <<provider, cache, logins>>

Miss(p, k) ==
    /\ phase[p] = "idle"
    /\ ~Fresh
    /\ phase' = [phase EXCEPT ![p] = "sent"]
    /\ kid' = [kid EXCEPT ![p] = k]
    /\ wait' = [wait EXCEPT ![p] = 0]
    /\ UNCHANGED <<provider, cache, got, answer>>

Serve(p) ==
    /\ phase[p] = "sent"
    /\ phase' = [phase EXCEPT ![p] = "received"]
    /\ got' = [got EXCEPT ![p] = Published]
    /\ UNCHANGED <<provider, cache, kid, wait, answer>>

\* The login is over and remembers nothing.
Forget(p) ==
    /\ phase' = [phase EXCEPT ![p] = "idle"]
    /\ got' = [got EXCEPT ![p] = {}]
    /\ wait' = [wait EXCEPT ![p] = 0]
    /\ UNCHANGED kid

\* Timeout, connection error, a status that is no success, a body that is no
\* key set: an older entry is not used in its place.
FetchFails(p) ==
    /\ phase[p] # "idle"
    /\ Say(kid[p], "unavailable")
    /\ Forget(p)
    /\ UNCHANGED <<provider, cache>>

\* Whatever the entry holds by now, it is replaced and young again.
Store(p) ==
    /\ phase[p] = "received"
    /\ cached' = got[p]
    /\ cacheAge' = 0
    /\ Decide(kid[p], got[p])
    /\ Forget(p)
    /\ UNCHANGED provider

\* The client goes away and the server drops the handler.
Drop(p) ==
    /\ phase[p] # "idle"
    /\ Forget(p)
    /\ UNCHANGED <<provider, cache, answer>>

\* The cache lives in memory only.
Restart ==
    /\ cached' = {}
    /\ cacheAge' = CacheDuration
    /\ phase' = [p \in Requests |-> "idle"]
    /\ got' = [p \in Requests |-> {}]
    /\ wait' = [p \in Requests |-> 0]
    /\ UNCHANGED <<provider, kid, answer>>

\* A faulty form of Tick: the HTTP client has no timeout.
TickUntimed ==
    /\ age' = [k \in Keys |-> Older(age[k], Bound)]
    /\ cacheAge' = Older(cacheAge, CacheDuration)
    /\ wait' = [p \in Requests |->
                   IF phase[p] = "idle" THEN 0 ELSE wait[p] + 1]
    /\ UNCHANGED <<stage, cached, phase, kid, got, answer>>

\* No fetch outlives the timeout of the client.
Tick ==
    /\ \A p \in Requests : phase[p] # "idle" => wait[p] < FetchTimeout
    /\ age' = [k \in Keys |-> Older(age[k], Bound)]
    /\ cacheAge' = Older(cacheAge, CacheDuration)
    /\ wait' = [p \in Requests |->
                   IF phase[p] = "idle" THEN 0 ELSE wait[p] + 1]
    /\ UNCHANGED <<stage, cached, phase, kid, got, answer>>

Next ==
    \/ \E k \in Keys : Publish(k) \/ Withdraw(k) \/ Hit(k)
    \/ \E p \in Requests, k \in Keys : Miss(p, k)
    \/ \E p \in Requests : Serve(p) \/ FetchFails(p) \/ Store(p) \/ Drop(p)
    \/ Restart
    \/ Tick

Spec == Init /\ [][Next]_vars

-----------------------------------------------------------------------------
\* Every variable keeps its type; a fetch under way is never older than the
\* timeout of the HTTP client, and only an answered one carries keys.
TypeOK ==
    /\ stage \in [Keys -> Stages]
    /\ age \in [Keys -> 0 .. Bound]
    /\ cached \subseteq Keys
    /\ cacheAge \in 0 .. CacheDuration
    /\ phase \in [Requests -> Phases]
    /\ kid \in [Requests -> Keys]
    /\ got \in [Requests -> SUBSET Keys]
    /\ wait \in [Requests -> 0 .. FetchTimeout]
    /\ answer \in Answers \cup {None}

\* No login is accepted under a key that the provider withdrew CacheDuration
\* plus FetchTimeout ago or never published: get_jwks stamps an entry when it
\* stores it, so an answer that was long under way counts as new, and it may
\* replace a newer one.
WithdrawnKeyDies ==
    answer # None /\ answer.verdict = "accepted" =>
        \/ answer.stage = "published"
        \/ answer.stage = "withdrawn" /\ answer.age < Bound

\* The cache does not look for a key id it misses, so a login under a new key
\* can be refused as unknown, but not once the key has been published for
\* CacheDuration plus FetchTimeout.
NewKeyKnownInTime ==
    answer # None /\ answer.verdict = "unknown" =>
        ~(answer.stage = "published" /\ answer.age >= Bound)

\* A key that is in the cache and still published is lost from it only with
\* the process, or to a fetch that was already under way when the entry was
\* stored: two overlapping calls of get_jwks may store in either order.
KnownKeyKept ==
    [][\A k \in cached \ cached' : stage[k] = "published" =>
           \/ Restart
           \/ \E p \in Requests :
                 phase[p] = "received" /\ Store(p) /\ wait[p] >= cacheAge]_vars

\* What makes these inductive: a set of keys that is n ticks old agrees with the
\* provider's on every key that has been where it is for more than n ticks.
Recent(keys, n) ==
    \A k \in Keys :
        /\ k \in keys => stage[k] # "unpublished"
        /\ k \in keys /\ stage[k] = "withdrawn" => age[k] <= n
        /\ k \notin keys /\ stage[k] = "published" => age[k] <= n

\* A cached key was published before the entry was stored.
KeySets ==
    /\ Recent(cached, cacheAge + FetchTimeout)
    /\ \A k \in cached : stage[k] = "published" => age[k] >= cacheAge
    /\ \A p \in Requests : phase[p] = "received" => Recent(got[p], wait[p])

Inv == TypeOK /\ KeySets
=============================================================================
