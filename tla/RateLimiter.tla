----------------------------- MODULE RateLimiter -----------------------------
(***************************************************************************)
(* The rate limiter of src/db/mod.rs: check_rate_limit counts the entries  *)
(* of an identifier in its window with one statement and records the       *)
(* request with a second one.  Nothing ties the two together, so the       *)
(* handlers that have counted and not yet recorded all go through.         *)
(*                                                                         *)
(* A handler makes the checks of its route in order and stops at the first *)
(* refusal: the callbacks and POST /auth/refresh check the client address, *)
(* GET /wallet-vault/passkey the client address and then the credential.   *)
(***************************************************************************)
EXTENDS Integers, Sequences, FiniteSets

CONSTANTS
    Identifiers, \* rate limit keys: "1.2.3.4", "refresh:1.2.3.4", ...
    Requests,    \* HTTP handlers that may run at the same time
    Routes,      \* the sequences of identifiers a handler checks
    Limit,       \* max_requests of each identifier
    Window,      \* window_minutes of each identifier, in clock ticks
    CleanupAge,  \* age at which the cleaner drops an entry (24 hours)
    None,        \* no count taken
    MaxTime      \* bound of the clock, for TLC only

ASSUME RouteAssumption == Routes \subseteq Seq(Identifiers) \ {<<>>}
ASSUME LimitAssumption == Limit \in [Identifiers -> Nat]
\* One or ten minutes against twenty-four hours.
ASSUME WindowAssumption ==
    /\ Window \in [Identifiers -> Nat \ {0}]
    /\ CleanupAge \in Nat
    /\ \A i \in Identifiers : Window[i] <= CleanupAge
ASSUME RequestAssumption == IsFiniteSet(Requests) /\ Requests # {}
ASSUME NoneAssumption == None \notin Nat
ASSUME BoundAssumption == MaxTime \in Nat

Clock == 0 .. MaxTime

VARIABLES
    entries,  \* rate_limit_entries: the rows
    left,     \* the checks each handler still has to make
    counted,  \* the count a handler has read and not yet acted on, or None
    now,      \* the clock
    passed    \* history: the row of every request that ever passed

vars == <<entries, left, counted, now, passed>>

Row == [key : Identifiers, at : Clock, id : Nat]

\* SELECT COUNT(*).
Count(i) == Cardinality({e \in entries : e.key = i /\ e.at > now - Window[i]})

\* The rows that the requests for i which passed at moment t have inserted.
Group(i, t) == {e \in passed : e.key = i /\ e.at = t}

\* The row of the request that passes now; its UUID is a number that no row of
\* this identifier and moment has had.
NewRow(i) == [key |-> i, at |-> now, id |-> Cardinality(Group(i, now))]

Init ==
    /\ entries = {}
    /\ left = [p \in Requests |-> <<>>]
    /\ counted = [p \in Requests |-> None]
    /\ now = 0
    /\ passed = {}

Arrive(p, r) ==
    /\ left[p] = <<>>
    /\ left' = [left EXCEPT ![p] = r]
    /\ UNCHANGED <<entries, counted, now, passed>>

\* A faulty form of CheckCount: one request too many.
CheckCountOffByOne(p) ==
    /\ left[p] # <<>> /\ counted[p] = None
    /\ LET i == Head(left[p])
       IN  IF Count(i) > Limit[i]
           THEN left' = [left EXCEPT ![p] = <<>>] /\ UNCHANGED counted
           ELSE counted' = [counted EXCEPT ![p] = Count(i)] /\ UNCHANGED left
    /\ UNCHANGED <<entries, now, passed>>

\* SELECT COUNT(*): at the limit the handler answers 429 and is done.
CheckCount(p) ==
    /\ left[p] # <<>> /\ counted[p] = None
    /\ LET i == Head(left[p])
       IN  IF Count(i) >= Limit[i]
           THEN left' = [left EXCEPT ![p] = <<>>] /\ UNCHANGED counted
           ELSE counted' = [counted EXCEPT ![p] = Count(i)] /\ UNCHANGED left
    /\ UNCHANGED <<entries, now, passed>>

\* INSERT, with window_start = CURRENT_TIMESTAMP; on to the next check.
Record(p) ==
    /\ counted[p] # None
    /\ entries' = entries \cup {NewRow(Head(left[p]))}
    /\ passed' = passed \cup {NewRow(Head(left[p]))}
    /\ left' = [left EXCEPT ![p] = Tail(@)]
    /\ counted' = [counted EXCEPT ![p] = None]
    /\ UNCHANGED now

\* A faulty form of Abort: a count outlives its handler.
AbortKeepsCount(p) ==
    /\ left[p] # <<>>
    /\ left' = [left EXCEPT ![p] = <<>>]
    /\ UNCHANGED <<entries, counted, now, passed>>

\* A database error (500) or a client that goes away between the statements.
Abort(p) ==
    /\ left[p] # <<>>
    /\ left' = [left EXCEPT ![p] = <<>>]
    /\ counted' = [counted EXCEPT ![p] = None]
    /\ UNCHANGED <<entries, now, passed>>

\* A faulty form of Cleanup: the age is taken in a smaller unit.
CleanupTooYoung ==
    /\ entries' = {e \in entries : e.at >= now}
    /\ UNCHANGED <<left, counted, now, passed>>

\* cleanup_rate_limits, once an hour and on its own.
Cleanup ==
    /\ entries' = {e \in entries : e.at >= now - CleanupAge}
    /\ UNCHANGED <<left, counted, now, passed>>

Tick ==
    /\ now < MaxTime
    /\ now' = now + 1
    /\ UNCHANGED <<entries, left, counted, passed>>

Next ==
    \/ \E p \in Requests :
          \/ \E r \in Routes : Arrive(p, r)
          \/ CheckCount(p) \/ Record(p) \/ Abort(p)
    \/ Cleanup
    \/ Tick

Spec == Init /\ [][Next]_vars

-----------------------------------------------------------------------------

\* Every variable has its type, and a count belongs to a check that is to be
\* recorded and was below the limit.
TypeOK ==
    /\ entries \subseteq passed
    /\ passed \subseteq Row /\ IsFiniteSet(passed)
    /\ left \in [Requests -> Seq(Identifiers)]
    /\ counted \in [Requests -> Nat \cup {None}]
    /\ \A p \in Requests : counted[p] # None =>
          left[p] # <<>> /\ counted[p] < Limit[Head(left[p])]
    /\ now \in Clock

\* The requests for i that passed in its window that ends at T.
Passed(i, T) == {e \in passed : e.key = i /\ T - Window[i] < e.at /\ e.at <= T}

\* The price of checking first and recording later: in no window do more
\* requests pass than the limit and all concurrent handlers but one, and with
\* one handler at a time the limit is exact.
BoundedOvershoot ==
    \A i \in Identifiers, T \in Clock :
        Cardinality(Passed(i, T)) <= Limit[i] + Cardinality(Requests) - 1

\* The cleaner never forgets a request that some window still has to count.
CleanupKeepsWindow ==
    \A e \in passed : e.at > now - Window[e.key] => e \in entries
=============================================================================
