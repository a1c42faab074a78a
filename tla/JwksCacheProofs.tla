--------------------------- MODULE JwksCacheProofs ---------------------------
(***************************************************************************)
(* Proofs about JwksCache, for any keys, any number of concurrent logins   *)
(* and any cache duration and fetch timeout.                               *)
(***************************************************************************)
EXTENDS JwksCache, TLAPS

\* Ageing by one tick stays below the limit it is stopped at.
LEMMA OlderFacts ==
    ASSUME NEW limit \in Nat, NEW n \in 0 .. limit
    PROVE  /\ Older(n, limit) \in 0 .. limit
           /\ Older(n, limit) >= n
           /\ Older(n, limit) = n + 1 \/ (n = limit /\ Older(n, limit) = n)
  BY DEF Older

\* An answer always has its type.
LEMMA SayType ==
    ASSUME TypeOK, NEW k \in Keys, NEW verdict \in Verdicts, Say(k, verdict)
    PROVE  answer' \in Answers \cup {None}
  BY DEF TypeOK, Say, Answers

LEMMA DecideType ==
    ASSUME TypeOK, NEW k \in Keys, NEW keys, Decide(k, keys)
    PROVE  answer' \in Answers \cup {None}
<1>1. PICK verdict \in Verdicts : Say(k, verdict)
  BY DEF Decide, Verdicts
<1> QED
  BY <1>1, SayType

LEMMA TypeInit == Init => TypeOK
  BY DurationAssumption DEF Init, TypeOK, Stages, Phases, Bound

LEMMA TypeStep ==
    ASSUME TypeOK, [Next]_vars
    PROVE  TypeOK'
<1> USE DurationAssumption DEF TypeOK, provider, cache, logins, Bound
<1>1. ASSUME NEW k \in Keys, Publish(k) \/ Withdraw(k) PROVE TypeOK'
  BY <1>1 DEF Publish, Withdraw, Enter, Stages
<1>2. ASSUME NEW k \in Keys, Hit(k) PROVE TypeOK'
  BY <1>2, DecideType DEF Hit
<1>3. ASSUME NEW p \in Requests, NEW k \in Keys, Miss(p, k) PROVE TypeOK'
  BY <1>3 DEF Miss, Phases
<1>4. ASSUME NEW p \in Requests, Serve(p) PROVE TypeOK'
  BY <1>4 DEF Serve, Published, Phases
<1>5. ASSUME NEW p \in Requests, FetchFails(p) PROVE TypeOK'
  <2>1. answer' \in Answers \cup {None}
    BY <1>5, SayType DEF FetchFails, Verdicts
  <2> QED
    BY <1>5, <2>1 DEF FetchFails, Forget, Phases
<1>6. ASSUME NEW p \in Requests, Store(p) PROVE TypeOK'
  <2>1. answer' \in Answers \cup {None}
    BY <1>6, DecideType DEF Store
  <2> QED
    BY <1>6, <2>1 DEF Store, Forget, Phases
<1>7. ASSUME NEW p \in Requests, Drop(p) PROVE TypeOK'
  BY <1>7 DEF Drop, Forget, Phases
<1>8. CASE Restart
  BY <1>8 DEF Restart, Phases
<1>9. CASE Tick
  <2>1. \A k \in Keys : Older(age[k], Bound) \in 0 .. Bound
    BY OlderFacts
  <2>2. Older(cacheAge, CacheDuration) \in 0 .. CacheDuration
    BY OlderFacts
  <2> QED
    BY <1>9, <2>1, <2>2 DEF Tick
<1>10. CASE UNCHANGED vars
  BY <1>10 DEF vars
<1> QED
  BY <1>1, <1>2, <1>3, <1>4, <1>5, <1>6, <1>7, <1>8, <1>9, <1>10 DEF Next

\* A key set that is n ticks old stays recent when nothing happens to the keys
\* and its age is not reduced.
LEMMA RecentKept ==
    ASSUME TypeOK, NEW keys, NEW n \in Nat, NEW m \in Nat, m >= n,
           Recent(keys, n), UNCHANGED provider
    PROVE  Recent(keys, m)'
  BY DEF TypeOK, Recent, provider, Bound

\* A key that enters a stage leaves every key set recent.
LEMMA RecentEnter ==
    ASSUME TypeOK, NEW keys, NEW n \in Nat, Recent(keys, n),
           NEW k \in Keys, Publish(k) \/ Withdraw(k)
    PROVE  Recent(keys, n)'
  BY DEF TypeOK, Recent, Publish, Withdraw, Enter, Bound

LEMMA KeySetsInit == Init => KeySets
  BY DurationAssumption DEF Init, KeySets, Recent, Bound

\* The key sets in the cache and under way stay as recent as their ages say.
LEMMA KeySetsStep ==
    ASSUME TypeOK, KeySets, [Next]_vars
    PROVE  KeySets'
<1> USE DurationAssumption DEF Bound
<1>1. ASSUME NEW k \in Keys, Publish(k) \/ Withdraw(k) PROVE KeySets'
  <2>1. Recent(cached, cacheAge + FetchTimeout)'
    BY <1>1, RecentEnter DEF KeySets, TypeOK, Publish, Withdraw, Enter, cache
  <2>2. \A j \in cached' : stage'[j] = "published" => age'[j] >= cacheAge'
    BY <1>1 DEF KeySets, Recent, TypeOK, Publish, Withdraw, Enter, cache
  <2>3. \A p \in Requests : phase'[p] = "received" => Recent(got[p], wait[p])'
    BY <1>1, RecentEnter DEF KeySets, TypeOK, Publish, Withdraw, Enter, logins
  <2> QED
    BY <2>1, <2>2, <2>3 DEF KeySets
<1>2. ASSUME NEW k \in Keys, Hit(k) PROVE KeySets'
  BY <1>2 DEF Hit, KeySets, Recent, provider, cache, logins
<1>3. ASSUME NEW p \in Requests, NEW k \in Keys, Miss(p, k) PROVE KeySets'
  BY <1>3 DEF Miss, TypeOK, KeySets, Recent, provider, cache
<1>4. ASSUME NEW p \in Requests, Serve(p) PROVE KeySets'
  <2>1. Recent(got[p], wait[p])'
    BY <1>4 DEF Serve, Recent, Published, TypeOK, provider
  <2> QED
    BY <1>4, <2>1 DEF Serve, TypeOK, KeySets, Recent, provider, cache
<1>5. ASSUME NEW p \in Requests, FetchFails(p) \/ Drop(p) PROVE KeySets'
  BY <1>5 DEF FetchFails, Drop, Forget, TypeOK, KeySets, Recent, provider,
              cache
<1>6. ASSUME NEW p \in Requests, Store(p) PROVE KeySets'
  <2>1. Recent(got[p], wait[p]) /\ wait[p] <= FetchTimeout
    BY <1>6 DEF Store, KeySets, TypeOK
  <2>2. Recent(cached, cacheAge + FetchTimeout)'
    BY <1>6, <2>1 DEF Store, Recent, TypeOK, provider
  <2>3. \A j \in cached' : stage'[j] = "published" => age'[j] >= cacheAge'
    BY <1>6 DEF Store, TypeOK, provider
  <2>4. \A q \in Requests : phase'[q] = "received" => Recent(got[q], wait[q])'
    BY <1>6 DEF Store, Forget, TypeOK, KeySets, Recent, provider
  <2> QED
    BY <2>2, <2>3, <2>4 DEF KeySets
<1>7. CASE Restart
  BY <1>7 DEF Restart, TypeOK, KeySets, Recent, provider
<1>8. CASE Tick
  <2>1. \A k \in Keys : age'[k] = Older(age[k], Bound) /\ age'[k] \in 0 .. Bound
    BY <1>8, OlderFacts DEF Tick, TypeOK
  <2>2. /\ cacheAge' = Older(cacheAge, CacheDuration)
        /\ cacheAge' \in 0 .. CacheDuration
    BY <1>8, OlderFacts DEF Tick, TypeOK
  <2>3. Recent(cached, cacheAge + FetchTimeout)'
    BY <1>8, <2>1, <2>2 DEF Tick, TypeOK, KeySets, Recent, Older
  <2>4. \A k \in cached' : stage'[k] = "published" => age'[k] >= cacheAge'
    BY <1>8, <2>1, <2>2 DEF Tick, TypeOK, KeySets, Older
  <2>5. \A p \in Requests : phase'[p] = "received" => Recent(got[p], wait[p])'
    BY <1>8, <2>1 DEF Tick, TypeOK, KeySets, Recent, Older
  <2> QED
    BY <2>3, <2>4, <2>5 DEF KeySets
<1>9. CASE UNCHANGED vars
  BY <1>9 DEF vars, KeySets, Recent, provider, cache, logins
<1> QED
  BY <1>1, <1>2, <1>3, <1>4, <1>5, <1>6, <1>7, <1>8, <1>9 DEF Next

\* The types and the ages of all key sets hold in every reachable state.
THEOREM KeySetsAlways == Spec => []Inv
<1>1. Init => Inv
  BY TypeInit, KeySetsInit DEF Inv
<1>2. Inv /\ [Next]_vars => Inv'
  BY TypeStep, KeySetsStep DEF Inv
<1> QED
  BY <1>1, <1>2, PTL DEF Spec

\* The cache, the ages and the phases of the logins have their types.
THEOREM TypeAlways == Spec => []TypeOK
  BY KeySetsAlways, PTL DEF Inv

-----------------------------------------------------------------------------
\* What the last verdict may not be.
Verdict == WithdrawnKeyDies /\ NewKeyKnownInTime

\* A verdict from a key set that is less than Bound old is a timely one.
LEMMA TimelyVerdict ==
    ASSUME Inv, NEW k \in Keys, NEW keys, NEW n \in Nat, n < Bound,
           Recent(keys, n), Decide(k, keys)
    PROVE  Verdict'
<1>1. PICK verdict \in IF k \in keys THEN {"accepted", "refused"}
                                     ELSE {"unknown"} : Say(k, verdict)
  BY DEF Decide
<1>2. stage[k] \in Stages /\ age[k] \in 0 .. Bound
  BY DEF Inv, TypeOK
<1> QED
  BY <1>1, <1>2, DurationAssumption
     DEF Verdict, WithdrawnKeyDies, NewKeyKnownInTime, Say, Recent, Stages,
         Bound

\* No verdict of a step comes from older keys than that.
LEMMA VerdictStep ==
    ASSUME Inv, Verdict, [Next]_vars
    PROVE  Verdict'
<1> USE DurationAssumption DEF Bound
<1>1. ASSUME NEW k \in Keys, Hit(k) PROVE Verdict'
  <2>1. Recent(cached, cacheAge + FetchTimeout)
        /\ cacheAge + FetchTimeout \in Nat /\ cacheAge + FetchTimeout < Bound
    BY <1>1 DEF Hit, Fresh, Inv, KeySets, TypeOK
  <2> QED
    BY <1>1, <2>1, TimelyVerdict DEF Hit
<1>2. ASSUME NEW p \in Requests, Store(p) PROVE Verdict'
  <2>1. Recent(got[p], wait[p]) /\ wait[p] \in Nat /\ wait[p] < Bound
        /\ kid[p] \in Keys
    BY <1>2 DEF Store, Inv, KeySets, TypeOK
  <2> QED
    BY <1>2, <2>1, TimelyVerdict DEF Store
<1>3. ASSUME NEW p \in Requests, FetchFails(p) PROVE Verdict'
  BY <1>3 DEF FetchFails, Say, Verdict, WithdrawnKeyDies, NewKeyKnownInTime
<1>4. ASSUME UNCHANGED answer PROVE Verdict'
  BY <1>4 DEF Verdict, WithdrawnKeyDies, NewKeyKnownInTime
<1> QED
  BY <1>1, <1>2, <1>3, <1>4
     DEF Next, vars, Publish, Withdraw, Enter, Miss, Serve, Drop, Restart,
         Tick, Forget

\* Every verdict is timely, however many logins fetch and store at the same
\* time.
THEOREM VerdictsAlways == Spec => []Verdict
<1>1. Init => Verdict
  BY DEF Init, Verdict, WithdrawnKeyDies, NewKeyKnownInTime
<1>2. Inv /\ Verdict /\ [Next]_vars => Verdict'
  BY VerdictStep
<1> QED
  BY <1>1, <1>2, KeySetsAlways, PTL DEF Spec

\* JwtValidator::validate accepts no key that was withdrawn CacheDuration plus
\* FetchTimeout ago.
THEOREM WithdrawnKeyDiesAlways == Spec => []WithdrawnKeyDies
  BY VerdictsAlways, PTL DEF Verdict

\* Nor does it refuse a key as unknown that has been published for as long.
THEOREM NewKeyKnownInTimeAlways == Spec => []NewKeyKnownInTime
  BY VerdictsAlways, PTL DEF Verdict

\* Only a restart or an overlapping get_jwks takes a published key out of the
\* cache.
THEOREM KeptAlways == Spec => KnownKeyKept
<1> DEFINE Kept == \A k \in cached \ cached' : stage[k] = "published" =>
                     \/ Restart
                     \/ \E p \in Requests :
                           phase[p] = "received" /\ Store(p) /\ wait[p] >= cacheAge
<1>1. Inv /\ [Next]_vars => [Kept]_vars
  <2> SUFFICES ASSUME Inv, Next, NEW k \in cached \ cached',
                      stage[k] = "published", ~Restart
               PROVE  \E p \in Requests :
                        phase[p] = "received" /\ Store(p) /\ wait[p] >= cacheAge
    OBVIOUS
  <2>1. PICK p \in Requests : Store(p)
    BY DEF Next, Publish, Withdraw, Enter, Hit, Miss, Serve, FetchFails, Drop,
           Forget, Tick, cache
  <2>2. k \in Keys /\ k \notin got[p] /\ Recent(got[p], wait[p])
        /\ age[k] >= cacheAge
    BY <2>1 DEF Store, Inv, KeySets, TypeOK
  <2>3. wait[p] >= cacheAge
    BY <2>2, DurationAssumption DEF Recent, Inv, TypeOK, Bound
  <2> QED
    BY <2>1, <2>3 DEF Store
<1> QED
  BY <1>1, KeySetsAlways, PTL DEF Spec, KnownKeyKept
=============================================================================
