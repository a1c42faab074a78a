--------------------------- MODULE RateLimiterProofs ---------------------------
(***************************************************************************)
(* The bound of the rate limiter holds for any number of handlers, routes, *)
(* limits and windows, and no sweep of the cleaner weakens it.             *)
(***************************************************************************)
EXTENDS RateLimiter, FiniteSetTheorems, TLAPS

\* The handlers that have counted for i and are about to record.
Pending(i) == {p \in Requests : counted[p] # None /\ Head(left[p]) = i}

\* Rows are of the past, and their numbers tell them apart from the next one.
RowsOld ==
    \A e \in passed : e.at <= now /\ e.id < Cardinality(Group(e.key, e.at))

\* What passed in the window that ends now, and what will pass although the
\* limit may be reached by then.
RoomFor(i) ==
    Cardinality(Passed(i, now)) + Cardinality(Pending(i))
        <= Limit[i] + Cardinality(Requests) - 1

Room == \A i \in Identifiers : RoomFor(i)

\* The bound, for the windows that have not ended before now.
Ahead ==
    \A i \in Identifiers, T \in Clock :
        T >= now => Cardinality(Passed(i, T)) <= Limit[i] + Cardinality(Requests) - 1

\* The inductive invariant.
IInv ==
    /\ TypeOK
    /\ CleanupKeepsWindow
    /\ RowsOld
    /\ Room
    /\ BoundedOvershoot

-----------------------------------------------------------------------------
(* Facts about the sets that are counted *)

\* The clock, the windows and the limits are numbers.
LEMMA Numbers ==
    ASSUME TypeOK, NEW i \in Identifiers
    PROVE  /\ now \in Int
           /\ Window[i] \in Int /\ Window[i] > 0
           /\ Limit[i] \in Nat
           /\ Cardinality(Requests) \in Nat \ {0}
<1>1. now \in Int
  BY BoundAssumption DEF TypeOK, Clock
<1>2. Window[i] \in Nat \ {0} /\ Limit[i] \in Nat
  BY WindowAssumption, LimitAssumption
<1>3. Cardinality(Requests) \in Nat \ {0}
  BY RequestAssumption, FS_CardinalityType, FS_EmptySet
<1> QED
  BY <1>1, <1>2, <1>3

\* Windows, groups and pending handlers are finite.
LEMMA Finite ==
    ASSUME TypeOK, NEW i
    PROVE  /\ \A t \in Int : IsFiniteSet(Group(i, t)) /\ Cardinality(Group(i, t)) \in Nat
           /\ \A t \in Int : IsFiniteSet(Passed(i, t)) /\ Cardinality(Passed(i, t)) \in Nat
           /\ IsFiniteSet(Pending(i)) /\ Cardinality(Pending(i)) \in Nat
           /\ Cardinality(Pending(i)) <= Cardinality(Requests)
<1>1. IsFiniteSet(passed)
  BY DEF TypeOK
<1>2. ASSUME NEW t \in Int
      PROVE  IsFiniteSet(Group(i, t)) /\ Cardinality(Group(i, t)) \in Nat
  <2>1. Group(i, t) \in SUBSET passed
    BY DEF Group
  <2> QED
    BY <1>1, <2>1, FS_Subset, FS_CardinalityType
<1>3. ASSUME NEW t \in Int
      PROVE  IsFiniteSet(Passed(i, t)) /\ Cardinality(Passed(i, t)) \in Nat
  <2>1. Passed(i, t) \in SUBSET passed
    BY DEF Passed
  <2> QED
    BY <1>1, <2>1, FS_Subset, FS_CardinalityType
<1>4. /\ IsFiniteSet(Pending(i)) /\ Cardinality(Pending(i)) \in Nat
      /\ Cardinality(Pending(i)) <= Cardinality(Requests)
  <2>1. Pending(i) \in SUBSET Requests
    BY DEF Pending
  <2> QED
    BY <2>1, RequestAssumption, FS_Subset, FS_CardinalityType
<1> QED
  BY <1>2, <1>3, <1>4

\* The room in the window that ends now is room in every later one.
LEMMA RoomLater == TypeOK /\ RowsOld /\ Room => Ahead
<1> SUFFICES ASSUME TypeOK, RowsOld, Room, NEW i \in Identifiers, NEW T \in Clock, T >= now
             PROVE  Cardinality(Passed(i, T)) <= Limit[i] + Cardinality(Requests) - 1
  BY DEF Ahead
<1>1. /\ T \in Int /\ now \in Int /\ Window[i] \in Int /\ Limit[i] \in Nat
      /\ Cardinality(Requests) \in Nat
  BY Numbers, BoundAssumption DEF Clock
<1>2. Passed(i, T) \in SUBSET Passed(i, now)
  <2> SUFFICES ASSUME NEW e \in passed, e.key = i, T - Window[i] < e.at, e.at <= T
               PROVE  now - Window[i] < e.at /\ e.at <= now
    BY DEF Passed
  <2>1. e.at \in Int
    BY BoundAssumption DEF TypeOK, Row, Clock
  <2>2. e.at <= now
    BY DEF RowsOld
  <2> QED
    BY <1>1, <2>1, <2>2
<1>3. /\ Cardinality(Passed(i, T)) <= Cardinality(Passed(i, now))
      /\ Cardinality(Passed(i, T)) \in Nat /\ Cardinality(Passed(i, now)) \in Nat
  BY <1>1, <1>2, Finite, FS_Subset
<1>4. RoomFor(i)
  BY DEF Room
<1> QED
  BY <1>1, <1>3, <1>4, Finite DEF RoomFor

\* The row of a request that passes is a new one, and belongs to its group and
\* to the window that ends now alone.
LEMMA RowNew ==
    ASSUME TypeOK, RowsOld, NEW i \in Identifiers
    PROVE  NewRow(i) \in Row /\ NewRow(i) \notin passed
<1>1. now \in Clock /\ now \in Int
  BY BoundAssumption DEF TypeOK, Clock
<1>2. Cardinality(Group(i, now)) \in Nat
  BY <1>1, Finite
<1>3. NewRow(i) \in Row
  BY <1>1, <1>2 DEF NewRow, Row
<1>4. ASSUME NewRow(i) \in passed PROVE FALSE
  <2>1. NewRow(i).id < Cardinality(Group(NewRow(i).key, NewRow(i).at))
    BY <1>4 DEF RowsOld
  <2>2. Cardinality(Group(i, now)) < Cardinality(Group(i, now))
    BY <2>1 DEF NewRow
  <2> QED
    BY <1>2, <2>2
<1> QED
  BY <1>3, <1>4

-----------------------------------------------------------------------------
(* One lemma per action *)

\* While no row comes or goes and time stands still, only a new pending handler
\* can take up room.
LEMMA Quiet ==
    ASSUME IInv, TypeOK', UNCHANGED <<entries, passed, now>>,
           \A i \in Identifiers : Pending(i)' \in SUBSET Pending(i) \/ RoomFor(i)'
    PROVE  IInv'
<1>1. TypeOK /\ CleanupKeepsWindow /\ RowsOld /\ Room /\ BoundedOvershoot
  BY DEF IInv
<1>2. \A i, t : Group(i, t)' = Group(i, t) /\ Passed(i, t)' = Passed(i, t)
  BY DEF Group, Passed
<1>3. CleanupKeepsWindow' /\ RowsOld' /\ BoundedOvershoot'
  BY <1>1, <1>2 DEF CleanupKeepsWindow, RowsOld, BoundedOvershoot
<1>4. ASSUME NEW i \in Identifiers, Pending(i)' \in SUBSET Pending(i)
      PROVE  RoomFor(i)'
  <2>1. Passed(i, now)' = Passed(i, now)
    BY <1>2
  <2>2. /\ Cardinality(Pending(i)') <= Cardinality(Pending(i))
        /\ Cardinality(Pending(i)') \in Nat
    BY <1>1, <1>4, Finite, FS_Subset, FS_CardinalityType
  <2>3. /\ Cardinality(Passed(i, now)) \in Nat /\ Cardinality(Pending(i)) \in Nat
        /\ Cardinality(Requests) \in Nat /\ Limit[i] \in Nat
    <3>1. /\ now \in Int
          /\ Cardinality(Requests) \in Nat /\ Limit[i] \in Nat
      BY <1>1, Numbers
    <3> QED
      BY <1>1, <3>1, Finite
  <2>4. RoomFor(i)
    BY <1>1 DEF Room
  <2> QED
    BY <2>1, <2>2, <2>3, <2>4 DEF RoomFor
<1>5. Room'
  BY <1>4 DEF Room
<1> QED
  BY <1>3, <1>5 DEF IInv

\* A handler starts, or gives up: it is pending for nothing any more.
LEMMA DropStep ==
    ASSUME IInv, NEW p \in Requests, (\E r \in Routes : Arrive(p, r)) \/ Abort(p)
    PROVE  IInv'
<1> USE RouteAssumption, NoneAssumption
<1>0. TypeOK
  BY DEF IInv
<1>1. UNCHANGED <<entries, passed, now>>
  BY DEF Arrive, Abort
<1>2. /\ counted'[p] = None
      /\ \A q \in Requests \ {p} : left'[q] = left[q] /\ counted'[q] = counted[q]
      /\ left' \in [Requests -> Seq(Identifiers)]
      /\ counted' \in [Requests -> Nat \cup {None}]
  <2>1. CASE Abort(p)
    BY <1>0, <2>1 DEF Abort, TypeOK
  <2>2. ASSUME NEW r \in Routes, Arrive(p, r)
        PROVE  /\ counted' = counted /\ counted[p] = None
               /\ left' = [left EXCEPT ![p] = r] /\ r \in Seq(Identifiers)
    BY <1>0, <2>2 DEF Arrive, TypeOK
  <2>3. CASE \E r \in Routes : Arrive(p, r)
    BY <1>0, <2>2, <2>3 DEF TypeOK
  <2> QED
    BY <2>1, <2>3
<1>3. TypeOK'
  BY <1>0, <1>1, <1>2 DEF TypeOK
<1>4. \A i \in Identifiers : Pending(i)' \in SUBSET Pending(i)
  BY <1>2 DEF Pending
<1> QED
  BY <1>1, <1>3, <1>4, Quiet

\* Two statements apart, any number of handlers may pass the same count: but
\* never more than there are.
LEMMA CountStep ==
    ASSUME IInv, NEW p \in Requests, CheckCount(p)
    PROVE  IInv'
<1> USE NoneAssumption
<1>0. TypeOK /\ CleanupKeepsWindow /\ RowsOld
  BY DEF IInv
<1>1. UNCHANGED <<entries, passed, now>>
  BY DEF CheckCount
<1>2. left[p] \in Seq(Identifiers) /\ left[p] # <<>> /\ counted[p] = None
  BY <1>0 DEF CheckCount, TypeOK
<1>3. PICK i \in Identifiers : i = Head(left[p])
  BY <1>2
<1>4. /\ now \in Int /\ Window[i] \in Int /\ Limit[i] \in Nat
      /\ Cardinality(Requests) \in Nat \ {0}
  BY <1>0, <1>3, Numbers
<1>5. Count(i) = Cardinality(Passed(i, now)) /\ Count(i) \in Nat
  <2>1. \A e \in passed : e.at <= now
    BY <1>0 DEF RowsOld
  <2>2. \A e \in entries : e \in passed
    BY <1>0 DEF TypeOK
  <2>3. \A e \in passed : e.at > now - Window[e.key] => e \in entries
    BY <1>0 DEF CleanupKeepsWindow
  <2>4. \A e \in passed : e.at \in Int
    BY <1>0, BoundAssumption DEF TypeOK, Row, Clock
  <2>5. {e \in entries : e.key = i /\ e.at > now - Window[i]} = Passed(i, now)
    BY <1>4, <2>1, <2>2, <2>3, <2>4 DEF Passed
  <2>6. Cardinality(Passed(i, now)) \in Nat
    BY <1>0, <1>4, Finite
  <2> QED
    BY <2>5, <2>6 DEF Count
<1>6. CASE Count(i) >= Limit[i]
  <2>1. left' = [left EXCEPT ![p] = <<>>] /\ counted' = counted
    BY <1>3, <1>6 DEF CheckCount
  <2>2. TypeOK'
    BY <1>0, <1>1, <1>2, <2>1 DEF TypeOK
  <2>3. \A j \in Identifiers : Pending(j)' \in SUBSET Pending(j)
    BY <1>0, <1>2, <2>1 DEF Pending, TypeOK
  <2> QED
    BY <1>1, <2>2, <2>3, Quiet
<1>7. CASE Count(i) < Limit[i]
  <2>1. counted' = [counted EXCEPT ![p] = Count(i)] /\ left' = left
    <3>1. ~(Count(i) >= Limit[i])
      BY <1>4, <1>5, <1>7
    <3> QED
      BY <1>3, <3>1 DEF CheckCount
  <2>2. TypeOK'
    <3>1. counted' \in [Requests -> Nat \cup {None}]
      BY <1>0, <1>5, <2>1 DEF TypeOK
    <3>2. ASSUME NEW q \in Requests, counted'[q] # None
          PROVE  left'[q] # <<>> /\ counted'[q] < Limit[Head(left'[q])]
      <4>1. CASE q = p
        BY <1>0, <1>2, <1>3, <1>7, <2>1, <4>1 DEF TypeOK
      <4>2. CASE q # p
        BY <1>0, <2>1, <3>2, <4>2 DEF TypeOK
      <4> QED
        BY <4>1, <4>2
    <3> QED
      BY <1>0, <1>1, <2>1, <3>1, <3>2 DEF TypeOK
  <2>3. RoomFor(i)'
    <3>1. Passed(i, now)' = Passed(i, now)
      BY <1>1, <2>1 DEF Passed
    <3>2. Cardinality(Pending(i)') \in Nat /\ Cardinality(Pending(i)') <= Cardinality(Requests)
      <4>1. Pending(i)' \in SUBSET Requests
        BY DEF Pending
      <4> QED
        BY <4>1, RequestAssumption, FS_Subset, FS_CardinalityType
    <3>3. Cardinality(Passed(i, now)) + Cardinality(Pending(i)')
             <= Limit[i] + Cardinality(Requests) - 1
      BY <1>4, <1>5, <1>7, <3>2
    <3> QED
      BY <2>1, <3>1, <3>3 DEF RoomFor
  <2>4. \A j \in Identifiers : j # i => Pending(j)' \in SUBSET Pending(j)
    BY <1>0, <1>3, <2>1 DEF Pending, TypeOK
  <2>5. \A j \in Identifiers : Pending(j)' \in SUBSET Pending(j) \/ RoomFor(j)'
    BY <2>3, <2>4
  <2> QED
    BY <1>1, <2>2, <2>5, Quiet
<1> QED
  BY <1>4, <1>5, <1>6, <1>7

\* A request that passes is no longer pending: it takes the room that was kept
\* for it.
LEMMA RecordStep ==
    ASSUME IInv, NEW p \in Requests, Record(p)
    PROVE  IInv'
<1> USE NoneAssumption
<1>0. TypeOK /\ CleanupKeepsWindow /\ RowsOld /\ Room /\ BoundedOvershoot
  BY DEF IInv
<1>a. left[p] \in Seq(Identifiers) /\ left[p] # <<>> /\ counted[p] # None
  BY <1>0 DEF Record, TypeOK
<1>1. PICK i \in Identifiers : i = Head(left[p])
  BY <1>a
<1>b. PICK r : r = NewRow(i)
  OBVIOUS
<1>2. /\ r \in Row /\ r \notin passed
      /\ r.key = i /\ r.at = now /\ r.id = Cardinality(Group(i, now))
  BY <1>0, <1>b, RowNew DEF NewRow
<1>3. passed' = passed \cup {r} /\ entries' = entries \cup {r} /\ now' = now
  BY <1>1, <1>b DEF Record
<1>4. /\ left' = [left EXCEPT ![p] = Tail(@)]
      /\ counted' = [counted EXCEPT ![p] = None]
  BY DEF Record
<1>5. /\ now \in Int /\ now \in Clock /\ Window[i] \in Int /\ Window[i] > 0 /\ Limit[i] \in Nat
      /\ Cardinality(Requests) \in Nat
  BY <1>0, <1>1, Numbers DEF TypeOK
<1>6. TypeOK'
  <2>1. left' \in [Requests -> Seq(Identifiers)] /\ counted' \in [Requests -> Nat \cup {None}]
    BY <1>0, <1>a, <1>4 DEF TypeOK
  <2>2. IsFiniteSet(passed') /\ passed' \subseteq Row /\ entries' \subseteq passed'
    BY <1>0, <1>2, <1>3, FS_AddElement DEF TypeOK
  <2>3. \A q \in Requests : counted'[q] # None =>
           q # p /\ left'[q] = left[q] /\ counted'[q] = counted[q]
    BY <1>0, <1>4 DEF TypeOK
  <2> QED
    BY <1>0, <1>3, <2>1, <2>2, <2>3 DEF TypeOK
<1>7. CleanupKeepsWindow'
  BY <1>0, <1>3 DEF CleanupKeepsWindow
<1>8. RowsOld'
  <2>1. Group(r.key, r.at)' = Group(i, now) \cup {r}
    BY <1>2, <1>3 DEF Group
  <2>2. IsFiniteSet(Group(i, now)) /\ Cardinality(Group(i, now)) \in Nat
    BY <1>0, <1>5, Finite
  <2>3. r \notin Group(i, now)
    BY <1>2 DEF Group
  <2>4. Cardinality(Group(r.key, r.at)') = Cardinality(Group(i, now)) + 1
    BY <2>1, <2>2, <2>3, FS_AddElement
  <2>5. \A j, t : j # i \/ t # now => Group(j, t)' = Group(j, t)
    BY <1>2, <1>3 DEF Group
  <2>6. ASSUME NEW e \in passed'
        PROVE  e.at <= now /\ e.id < Cardinality(Group(e.key, e.at)')
    <3>1. CASE e = r
      BY <1>2, <1>5, <2>2, <2>4, <3>1
    <3>2. CASE e # r /\ e.key = i /\ e.at = now
      <4>1. e \in passed /\ e.id \in Nat /\ e.id < Cardinality(Group(i, now))
        BY <1>0, <1>3, <2>6, <3>2 DEF RowsOld, TypeOK, Row
      <4> QED
        BY <1>2, <1>5, <2>2, <2>4, <3>2, <4>1
    <3>3. CASE e # r /\ ~(e.key = i /\ e.at = now)
      <4>1. e \in passed
        BY <1>3, <2>6, <3>3
      <4> QED
        BY <1>0, <2>5, <3>3, <4>1 DEF RowsOld
    <3> QED
      BY <3>1, <3>2, <3>3
  <2> QED
    BY <2>6, <1>3 DEF RowsOld
<1>9. ASSUME NEW j \in Identifiers PROVE RoomFor(j)'
  <2>0. RoomFor(j)
    BY <1>0 DEF Room
  <2>1. CASE j = i
    <3>1. Passed(i, now)' = Passed(i, now) \cup {r}
      BY <1>2, <1>3, <1>5 DEF Passed
    <3>2. IsFiniteSet(Passed(i, now)) /\ r \notin Passed(i, now)
      BY <1>0, <1>2, <1>5, Finite DEF Passed
    <3>3. Cardinality(Passed(i, now)') = Cardinality(Passed(i, now)) + 1
      BY <3>1, <3>2, FS_AddElement
    <3>4. Pending(i)' = Pending(i) \ {p} /\ p \in Pending(i)
      <4>1. \A q \in Requests \ {p} : left'[q] = left[q] /\ counted'[q] = counted[q]
        BY <1>0, <1>4 DEF TypeOK
      <4>2. counted'[p] = None
        BY <1>0, <1>4 DEF TypeOK
      <4> QED
        BY <1>1, <1>a, <4>1, <4>2 DEF Pending
    <3>5. Cardinality(Pending(i)') = Cardinality(Pending(i)) - 1
      BY <1>0, <3>4, Finite, FS_RemoveElement
    <3>6. Cardinality(Passed(i, now)) \in Nat /\ Cardinality(Pending(i)) \in Nat
      BY <1>0, <1>5, Finite
    <3>7. Cardinality(Passed(i, now)') + Cardinality(Pending(i)')
             <= Limit[i] + Cardinality(Requests) - 1
      BY <1>5, <2>0, <2>1, <3>3, <3>5, <3>6 DEF RoomFor
    <3> QED
      BY <2>1, <3>7 DEF RoomFor
  <2>2. CASE j # i
    <3>1. Passed(j, now)' = Passed(j, now)
      BY <1>2, <1>3, <2>2 DEF Passed
    <3>2. Pending(j)' = Pending(j)
      <4>1. \A q \in Requests \ {p} : left'[q] = left[q] /\ counted'[q] = counted[q]
        BY <1>0, <1>4 DEF TypeOK
      <4>2. counted'[p] = None
        BY <1>0, <1>4 DEF TypeOK
      <4> QED
        BY <1>1, <2>2, <4>1, <4>2 DEF Pending
    <3> QED
      BY <2>0, <3>1, <3>2 DEF RoomFor
  <2> QED
    BY <2>1, <2>2
<1>10. Room'
  BY <1>9 DEF Room
<1>11. BoundedOvershoot'
  <2> SUFFICES ASSUME NEW j \in Identifiers, NEW T \in Clock
               PROVE  Cardinality(Passed(j, T)') <= Limit[j] + Cardinality(Requests) - 1
    BY DEF BoundedOvershoot
  <2>1. T \in Int
    BY BoundAssumption DEF Clock
  <2>2. CASE T >= now
    <3>1. T >= now'
      BY <1>3, <2>2
    <3>2. Ahead'
      BY <1>6, <1>8, <1>10, RoomLater, PTL
    <3> QED
      BY <3>1, <3>2 DEF Ahead
  <2>3. CASE T < now
    <3>1. Passed(j, T)' = Passed(j, T)
      BY <1>2, <1>3, <1>5, <2>1, <2>3 DEF Passed
    <3> QED
      BY <1>0, <3>1 DEF BoundedOvershoot
  <2> QED
    BY <1>5, <2>1, <2>2, <2>3
<1> QED
  BY <1>6, <1>7, <1>8, <1>10, <1>11 DEF IInv

\* Old rows go, but none that a window still counts.
LEMMA CleanupStep ==
    ASSUME IInv, Cleanup
    PROVE  IInv'
<1>0. TypeOK /\ CleanupKeepsWindow /\ RowsOld /\ Room /\ BoundedOvershoot
  BY DEF IInv
<1>1. UNCHANGED <<left, counted, now, passed>> /\ entries' \subseteq entries
  BY DEF Cleanup
<1>2. TypeOK'
  BY <1>0, <1>1 DEF TypeOK
<1>3. \A i, t : Group(i, t)' = Group(i, t) /\ Passed(i, t)' = Passed(i, t)
  BY <1>1 DEF Group, Passed
<1>4. \A i : Pending(i)' = Pending(i)
  BY <1>1 DEF Pending
<1>5. RowsOld' /\ BoundedOvershoot'
  BY <1>0, <1>1, <1>3 DEF RowsOld, BoundedOvershoot
<1>6. Room'
  <2>1. \A i : Passed(i, now)' = Passed(i, now)
    BY <1>1 DEF Passed
  <2> QED
    BY <1>0, <1>4, <2>1 DEF Room, RoomFor
<1>7. CleanupKeepsWindow'
  <2> SUFFICES ASSUME NEW e \in passed, e.at > now - Window[e.key]
               PROVE  e \in entries'
    BY <1>1 DEF CleanupKeepsWindow
  <2>1. e.key \in Identifiers /\ e.at \in Int
    BY <1>0, BoundAssumption DEF TypeOK, Row, Clock
  <2>2. now \in Int /\ Window[e.key] \in Int /\ CleanupAge \in Int /\ Window[e.key] <= CleanupAge
    BY <1>0, <2>1, Numbers, WindowAssumption
  <2>3. e.at >= now - CleanupAge
    BY <2>1, <2>2
  <2>4. e \in entries
    BY <1>0 DEF CleanupKeepsWindow
  <2> QED
    BY <2>3, <2>4 DEF Cleanup
<1> QED
  BY <1>2, <1>5, <1>6, <1>7 DEF IInv

\* The window that ends now moves on: it loses rows and gains none.
LEMMA TickStep ==
    ASSUME IInv, Tick
    PROVE  IInv'
<1>0. TypeOK /\ CleanupKeepsWindow /\ RowsOld /\ Room /\ BoundedOvershoot
  BY DEF IInv
<1>1. UNCHANGED <<entries, left, counted, passed>> /\ now' = now + 1
  BY DEF Tick
<1>2. now \in Int /\ now' \in Int /\ now' \in Clock
  BY <1>0, BoundAssumption DEF TypeOK, Clock, Tick
<1>3. TypeOK'
  BY <1>0, <1>1, <1>2 DEF TypeOK
<1>4. \A e \in passed : e.at \in Int /\ e.key \in Identifiers
  BY <1>0, BoundAssumption DEF TypeOK, Row, Clock
<1>5. \A i, t : Group(i, t)' = Group(i, t)
  BY <1>1 DEF Group
<1>6. RowsOld'
  BY <1>0, <1>1, <1>2, <1>4, <1>5 DEF RowsOld
<1>7. BoundedOvershoot'
  <2>1. \A i, t : {e \in passed' : e.key = i /\ t - Window[i] < e.at /\ e.at <= t}
                    = {e \in passed : e.key = i /\ t - Window[i] < e.at /\ e.at <= t}
    BY <1>1
  <2> QED
    BY <1>0, <2>1 DEF BoundedOvershoot, Passed
<1>8. CleanupKeepsWindow'
  <2> SUFFICES ASSUME NEW e \in passed, e.at > now' - Window[e.key]
               PROVE  e \in entries
    BY <1>1 DEF CleanupKeepsWindow
  <2>1. Window[e.key] \in Int
    BY <1>0, <1>4, Numbers
  <2>2. e.at > now - Window[e.key]
    BY <1>1, <1>2, <1>4, <2>1
  <2> QED
    BY <1>0, <2>2 DEF CleanupKeepsWindow
<1>9. ASSUME NEW i \in Identifiers PROVE RoomFor(i)'
  <2>1. /\ Window[i] \in Int /\ Limit[i] \in Nat /\ Cardinality(Requests) \in Nat
    BY <1>0, Numbers
  <2>2. Passed(i, now)' \in SUBSET Passed(i, now)
    BY <1>0, <1>1, <1>2, <1>4, <2>1 DEF Passed, RowsOld
  <2>3. /\ IsFiniteSet(Passed(i, now)) /\ Cardinality(Passed(i, now)) \in Nat
        /\ Cardinality(Pending(i)) \in Nat
    BY <1>0, <1>2, Finite
  <2>4. /\ Cardinality(Passed(i, now)') <= Cardinality(Passed(i, now))
        /\ Cardinality(Passed(i, now)') \in Nat
    BY <2>2, <2>3, FS_Subset, FS_CardinalityType
  <2>5. Pending(i)' = Pending(i)
    BY <1>1 DEF Pending
  <2>6. RoomFor(i)
    BY <1>0 DEF Room
  <2> QED
    BY <2>1, <2>3, <2>4, <2>5, <2>6 DEF RoomFor
<1>10. Room'
  BY <1>9 DEF Room
<1> QED
  BY <1>3, <1>6, <1>7, <1>8, <1>10 DEF IInv

-----------------------------------------------------------------------------
(* The theorems *)

\* The invariant holds of every reachable state.
THEOREM Invariance == Spec => []IInv
<1>1. Init => IInv
  <2> SUFFICES ASSUME Init PROVE IInv
    OBVIOUS
  <2> USE DEF Init
  <2>1. TypeOK
    BY BoundAssumption, FS_EmptySet DEF TypeOK, Clock
  <2>2. CleanupKeepsWindow /\ RowsOld
    BY DEF CleanupKeepsWindow, RowsOld
  <2>3. \A i, T : Passed(i, T) = {} /\ Pending(i) = {}
    BY DEF Passed, Pending
  <2>4. Cardinality({}) = 0
    BY FS_EmptySet
  <2>5. \A i \in Identifiers : 0 <= Limit[i] + Cardinality(Requests) - 1
    BY <2>1, Numbers
  <2>6. Room
    <3>1. ASSUME NEW i \in Identifiers PROVE RoomFor(i)
      <4>1. Passed(i, now) = {} /\ Pending(i) = {}
        BY <2>3
      <4>2. Cardinality(Passed(i, now)) = 0 /\ Cardinality(Pending(i)) = 0
        BY <2>4, <4>1, Zenon
      <4>3. 0 <= Limit[i] + Cardinality(Requests) - 1
        BY <2>5
      <4> QED
        BY <4>2, <4>3 DEF RoomFor
    <3> QED
      BY <3>1 DEF Room
  <2>7. BoundedOvershoot
    BY <2>3, <2>4, <2>5 DEF BoundedOvershoot
  <2> QED
    BY <2>1, <2>2, <2>6, <2>7 DEF IInv
<1>2. IInv /\ [Next]_vars => IInv'
  <2> SUFFICES ASSUME IInv, [Next]_vars PROVE IInv'
    OBVIOUS
  <2>1. ASSUME NEW p \in Requests, (\E r \in Routes : Arrive(p, r)) \/ Abort(p) PROVE IInv'
    BY <2>1, DropStep
  <2>2. ASSUME NEW p \in Requests, CheckCount(p) PROVE IInv'
    BY <2>2, CountStep
  <2>3. ASSUME NEW p \in Requests, Record(p) PROVE IInv'
    BY <2>3, RecordStep
  <2>4. CASE Cleanup
    BY <2>4, CleanupStep
  <2>5. CASE Tick
    BY <2>5, TickStep
  <2>6. CASE UNCHANGED vars
    <3>1. TypeOK' /\ UNCHANGED <<entries, passed, now>>
      BY <2>6 DEF IInv, TypeOK, vars
    <3>2. \A i : Pending(i)' = Pending(i)
      BY <2>6 DEF Pending, vars
    <3> QED
      BY <3>1, <3>2, Quiet
  <2> QED
    BY <2>1, <2>2, <2>3, <2>4, <2>5, <2>6 DEF Next
<1> QED
  BY <1>1, <1>2, PTL DEF Spec

\* Rows, counts and checks have their types.
THEOREM TypeAlways == Spec => []TypeOK
  BY Invariance, PTL DEF IInv

\* Counting first and recording later never lets more requests pass in a window
\* than the limit and all concurrent handlers but one.
THEOREM BoundedOvershootAlways == Spec => []BoundedOvershoot
  BY Invariance, PTL DEF IInv

\* The hourly sweep never deletes a row that some window still counts.
THEOREM CleanupKeepsWindowAlways == Spec => []CleanupKeepsWindow
  BY Invariance, PTL DEF IInv
=============================================================================
