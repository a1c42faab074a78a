------------------------- MODULE AllowedClientsProofs -------------------------
(***************************************************************************)
(* The safety properties of AllowedClients hold for any table, any changes *)
(* to it while it is fetched and any configuration.                        *)
(***************************************************************************)
EXTENDS AllowedClients, WellFoundedInduction, TLAPS

\* Every client of m was shown with an accepted status, and one without a URI has
\* the callback to fall back to.
Backed(m) ==
    \A k \in DOMAIN m :
        /\ k \in Ids \X Uris /\ m[k] \in Uris /\ Cut[m[k]] = k[2]
        /\ m[k] = 0 => config.callback # 0
        /\ \E r \in shown : /\ r.id = k[1] /\ Passes(r)
                            /\ m[k] \in Range(r.uris) \cup {0}

\* So is every client fetched so far.
OutOK == Backed(out)

\* What is fetched is the table, and until then there is no list.
Fetching ==
    /\ phase \in {"down", "fetching"} => allowed = {}
    /\ phase = "fetching" => config.url /\ ~failed /\ Range(table) \subseteq shown

\* A row that was there all the time is still ahead or its clients are fetched.
Paged ==
    phase = "fetching" /\ ~gap =>
        \A r \in steady : \E i \in DOMAIN table :
            /\ table[i] = r
            /\ i <= offset => \A c \in ClientsOf(r) : Key(c) \in DOMAIN out

\* What is fetched are the clients of whole rows that were shown.
Whole == \E S \in SUBSET shown : DOMAIN out = KeysOf(S)

\* So in the end they all are.
PagedAll ==
    phase \in {"validating", "serving", "refused"} /\ config.url /\ ~failed /\ ~gap =>
        \A r \in steady : \A c \in ClientsOf(r) : Key(c) \in DOMAIN out

\* The list is what was fetched, merged, or ALLOWED_CLIENTS as it is, and was
\* found valid or not.
ListSource ==
    /\ phase \in {"validating", "serving", "refused"} =>
          allowed = IF config.url /\ ~failed THEN Merged(out) ELSE Range(config.env)
    /\ phase = "serving" => Valid
    /\ phase = "refused" => ~Valid

\* The inductive invariant.
IInv ==
    /\ TypeOK
    /\ OutOK
    /\ Fetching
    /\ Paged
    /\ PagedAll
    /\ Whole
    /\ ListSource

-----------------------------------------------------------------------------
(* The operators of the model. *)

\* A set of naturals has a least element ...
LEMMA MinFacts ==
    ASSUME NEW S \in SUBSET Nat, S # {}
    PROVE  Min(S) \in S /\ \A n \in S : Min(S) <= n
<1>1. PICK m \in S : \A n \in S : ~(<<n, m>> \in OpToRel(<, Nat))
  BY WFMin, NatLessThanWellFounded
<1>2. \A n \in S : ~(n < m)
  BY <1>1 DEF OpToRel
<1>3. \A n \in S : m <= n
  BY <1>2
<1> QED
  BY <1>3 DEF Min

\* ... and a bounded one a greatest.
LEMMA MaxFacts ==
    ASSUME NEW n \in Nat, NEW S \in SUBSET (1 .. n), S # {}
    PROVE  Max(S) \in S
<1>1. PICK T : T = {n - i : i \in S}
  OBVIOUS
<1>0. \A i \in S : i \in Int /\ 1 <= i /\ i <= n /\ n - i \in Nat
  OBVIOUS
<1>2. T \in SUBSET Nat /\ T # {}
  <2>1. \A t \in T : \E i \in S : t = n - i
    BY <1>1
  <2>2. PICK i \in S : TRUE
    OBVIOUS
  <2>3. n - i \in T
    BY <1>1
  <2> QED
    BY <2>1, <2>3, <1>0
<1>3. Min(T) \in T /\ \A t \in T : Min(T) <= t
  BY <1>2, MinFacts
<1>4. PICK m \in S : Min(T) = n - m
  BY <1>1, <1>3
<1>5. ASSUME NEW i \in S
      PROVE  m >= i
  <2>1. n - m <= n - i
    BY <1>1, <1>3, <1>4
  <2>2. m \in Int /\ i \in Int
    BY <1>0
  <2> QED
    BY <2>1, <2>2
<1> QED
  BY <1>5 DEF Max

\* Insertion into a map: every key gets the client of it that comes last, and
\* the others keep what they had.
LEMMA PutAllFacts ==
    ASSUME NEW m, NEW n \in Nat, NEW f, DOMAIN f \subseteq 1 .. n
    PROVE  /\ DOMAIN PutAll(m, f) = DOMAIN m \cup Keys(f)
           /\ \A k \in Keys(f) : \E i \in DOMAIN f : \E c \in f[i] :
                 Key(c) = k /\ PutAll(m, f)[k] = c.uri
           /\ \A k \in DOMAIN m \ Keys(f) : PutAll(m, f)[k] = m[k]
<1>1. ASSUME NEW k \in Keys(f)
      PROVE  \E i \in DOMAIN f : \E c \in f[i] : Key(c) = k /\ Winner(f, k) = c
  <2>1. At(f, k) \in SUBSET (1 .. n) /\ At(f, k) # {}
    BY DEF Keys, At, Range
  <2>2. Max(At(f, k)) \in At(f, k)
    BY <2>1, MaxFacts
  <2> QED
    BY <2>2 DEF At, Winner
<1> QED
  BY <1>1 DEF PutAll

\* Each client inserted is there.
LEMMA KeysFacts ==
    ASSUME NEW f, NEW i \in DOMAIN f, NEW c \in f[i]
    PROVE  Key(c) \in Keys(f)
  BY DEF Keys, Range

\* The keys of some rows are those of each of them.
LEMMA KeysOfFacts ==
    /\ \A S, k : k \in KeysOf(S) <=> \E r \in S : \E c \in ClientsOf(r) : Key(c) = k
    /\ \A S, T : KeysOf(S \cup T) = KeysOf(S) \cup KeysOf(T)
    /\ KeysOf({}) = {}
<1>1. \A S, k : k \in KeysOf(S) <=> \E r \in S : \E c \in ClientsOf(r) : Key(c) = k
  BY DEF KeysOf
<1>2. ASSUME NEW S, NEW T
      PROVE  KeysOf(S \cup T) = KeysOf(S) \cup KeysOf(T)
  <2> HIDE DEF KeysOf
  <2> QED
    BY <1>1
<1>3. KeysOf({}) = {}
  BY DEF KeysOf
<1> QED
  BY <1>1, <1>2, <1>3

\* A merge key is the id and the trimmed URI.
LEMMA KeyFacts ==
    ASSUME NEW c \in Client
    PROVE  /\ Key(c) \in Ids \X Uris
           /\ Key(c)[1] = c.id /\ Key(c)[2] = Cut[c.uri]
  BY UriAssumption DEF Key, Client

\* A row contributes clients of its own id with its own URIs, if it is accepted.
LEMMA ClientsFacts ==
    ASSUME NEW r \in Row, NEW c \in ClientsOf(r)
    PROVE  /\ c \in Client /\ c.id = r.id /\ Passes(r)
           /\ c.uri \in Range(r.uris) \cup {0}
           /\ c.uri = 0 => config.callback # 0
<1>1. Listed(r) /\ Passes(r) /\ r.id \in Ids
  BY DEF ClientsOf, Listed, Row
<1>2. CASE Redirects(r) = {}
  BY <1>1, <1>2, UriAssumption DEF ClientsOf, Listed, Client
<1>3. CASE Redirects(r) # {}
  <2>1. PICK u \in Redirects(r) : c = [id |-> r.id, uri |-> u]
    BY <1>1, <1>3 DEF ClientsOf
  <2>2. r.uris \in Seq(Uris)
    BY DEF Row
  <2>3. u # 0 /\ u \in Range(r.uris) /\ u \in Uris
    BY <2>2 DEF Redirects, Range
  <2> QED
    BY <1>1, <2>1, <2>3 DEF Client
<1> QED
  BY <1>2, <1>3

\* A row inserted into a sequence moves no other row forward.
LEMMA InsertFacts ==
    ASSUME NEW S, NEW s \in Seq(S), NEW e \in S, NEW i \in 1 .. Len(s) + 1
    PROVE  /\ InsertAt(s, i, e) \in Seq(S)
           /\ Range(InsertAt(s, i, e)) \subseteq Range(s) \cup {e}
           /\ \A j \in 1 .. Len(s) :
                 \E k \in 1 .. Len(InsertAt(s, i, e)) : j <= k /\ InsertAt(s, i, e)[k] = s[j]
<1>1. PICK a : a = SubSeq(s, 1, i - 1)
  OBVIOUS
<1>2. PICK b : b = SubSeq(s, i, Len(s))
  OBVIOUS
<1>3. a \in Seq(S) /\ Len(a) = i - 1 /\ \A j \in 1 .. i - 1 : a[j] = s[j]
  BY <1>1
<1>4. b \in Seq(S) /\ Len(b) = Len(s) - i + 1 /\ \A j \in 1 .. Len(s) - i + 1 : b[j] = s[i + j - 1]
  BY <1>2
<1>5. PICK t : t = InsertAt(s, i, e)
  OBVIOUS
<1>6. t = a \o <<e>> \o b
  BY <1>1, <1>2, <1>5 DEF InsertAt
<1>7. PICK c : c = a \o <<e>>
  OBVIOUS
<1>8. c \in Seq(S) /\ Len(c) = i /\ c[i] = e /\ \A j \in 1 .. i - 1 : c[j] = s[j]
  BY <1>3, <1>7
<1>9. t = c \o b
  BY <1>6, <1>7
<1>10. t \in Seq(S) /\ Len(t) = Len(s) + 1
  BY <1>4, <1>8, <1>9
<1>11. /\ t[i] = e
       /\ \A j \in 1 .. i - 1 : t[j] = s[j]
  BY <1>4, <1>8, <1>9
<1>12. ASSUME NEW j \in i + 1 .. Len(s) + 1
       PROVE  t[j] = s[j - 1]
  <2>1. j - i \in 1 .. Len(s) - i + 1 /\ i + (j - i) - 1 = j - 1
    OBVIOUS
  <2>2. t[j] = b[j - i]
    BY <1>4, <1>8, <1>9, <2>1
  <2> QED
    BY <1>4, <2>1, <2>2
<1>13. Range(t) \subseteq Range(s) \cup {e}
  <2>1. ASSUME NEW j \in 1 .. Len(s) + 1
        PROVE  t[j] \in Range(s) \cup {e}
    <3>1. CASE j < i
      BY <1>11, <3>1 DEF Range
    <3>2. CASE j = i
      BY <1>11, <3>2
    <3>3. CASE j > i
      BY <1>12, <3>3 DEF Range
    <3> QED
      BY <3>1, <3>2, <3>3
  <2> QED
    BY <1>10, <2>1 DEF Range
<1>14. ASSUME NEW j \in 1 .. Len(s)
       PROVE  \E k \in 1 .. Len(t) : j <= k /\ t[k] = s[j]
  <2>1. CASE j < i
    BY <1>10, <1>11, <2>1
  <2>2. CASE j >= i
    <3>1. j + 1 \in i + 1 .. Len(s) + 1 /\ (j + 1) - 1 = j
      BY <2>2
    <3>2. t[j + 1] = s[j]
      BY <1>12, <3>1
    <3> QED
      BY <1>10, <3>2
  <2> QED
    BY <2>1, <2>2
<1> QED
  BY <1>5, <1>10, <1>13, <1>14

\* A row removed leaves only rows that were there.
LEMMA RemoveFacts ==
    ASSUME NEW S, NEW s \in Seq(S), NEW i \in 1 .. Len(s)
    PROVE  /\ RemoveAt(s, i) \in Seq(S)
           /\ Range(RemoveAt(s, i)) \subseteq Range(s)
<1>1. PICK a : a = SubSeq(s, 1, i - 1)
  OBVIOUS
<1>2. PICK b : b = SubSeq(s, i + 1, Len(s))
  OBVIOUS
<1>3. a \in Seq(S) /\ Len(a) = i - 1 /\ \A j \in 1 .. i - 1 : a[j] = s[j]
  BY <1>1
<1>4. b \in Seq(S) /\ Len(b) = Len(s) - i /\ \A j \in 1 .. Len(s) - i : b[j] = s[i + j]
  BY <1>2
<1>5. PICK t : t = RemoveAt(s, i)
  OBVIOUS
<1>6. t = a \o b
  BY <1>1, <1>2, <1>5 DEF RemoveAt
<1>7. t \in Seq(S) /\ Len(t) = Len(s) - 1
  BY <1>3, <1>4, <1>6
<1>8. /\ \A j \in 1 .. i - 1 : t[j] = s[j]
      /\ \A j \in i .. Len(s) - 1 : t[j] = s[j + 1]
  BY <1>3, <1>4, <1>6
<1> QED
  BY <1>5, <1>7, <1>8 DEF Range
-----------------------------------------------------------------------------
(* The current state. *)

\* The page limit is a natural number.
LEMMA LimitFacts == TypeOK => Limit \in Nat /\ offset + Limit \in Nat
  BY InputAssumption DEF TypeOK, Limit, Config

\* A page only adds to what was fetched: clients of the rows on it, all of them.
LEMMA FetchedFacts ==
    ASSUME TypeOK, OutOK, Fetching, phase = "fetching"
    PROVE  /\ Backed(Fetched)
           /\ DOMAIN out \subseteq DOMAIN Fetched
           /\ \A i \in Page : \A c \in ClientsOf(table[i]) : Key(c) \in DOMAIN Fetched
           /\ DOMAIN Fetched = DOMAIN out \cup KeysOf({table[i] : i \in Page})
<1>1. PICK f : f = [i \in Page |-> ClientsOf(table[i])]
  OBVIOUS
<1>2. DOMAIN f = Page /\ \A i \in Page : f[i] = ClientsOf(table[i])
  BY <1>1
<1>3. Len(table) \in Nat /\ DOMAIN table = 1 .. Len(table) /\ DOMAIN f \subseteq 1 .. Len(table)
  BY <1>2 DEF TypeOK, Page
<1>4. Fetched = PutAll(out, f)
  BY <1>1 DEF Fetched
<1>5. /\ DOMAIN Fetched = DOMAIN out \cup Keys(f)
      /\ \A k \in Keys(f) : \E i \in DOMAIN f : \E c \in f[i] :
            Key(c) = k /\ Fetched[k] = c.uri
      /\ \A k \in DOMAIN out \ Keys(f) : Fetched[k] = out[k]
  <2>1. PICK n \in Nat : DOMAIN f \subseteq 1 .. n
    BY <1>3
  <2>2. /\ DOMAIN PutAll(out, f) = DOMAIN out \cup Keys(f)
        /\ \A k \in Keys(f) : \E i \in DOMAIN f : \E c \in f[i] :
              Key(c) = k /\ PutAll(out, f)[k] = c.uri
        /\ \A k \in DOMAIN out \ Keys(f) : PutAll(out, f)[k] = out[k]
    BY <2>1, PutAllFacts, Zenon
  <2> QED
    BY <1>4, <2>2, Zenon
<1>6. \A i \in Page : table[i] \in Row /\ table[i] \in shown
  BY <1>3, InputAssumption DEF TypeOK, Fetching, Page, Range
<1>7. ASSUME NEW k \in Keys(f)
      PROVE  /\ k \in Ids \X Uris /\ Fetched[k] \in Uris /\ Cut[Fetched[k]] = k[2]
             /\ Fetched[k] = 0 => config.callback # 0
             /\ \E r \in shown : /\ r.id = k[1] /\ Passes(r)
                                 /\ Fetched[k] \in Range(r.uris) \cup {0}
  <2>1. PICK i \in Page : \E c \in ClientsOf(table[i]) : Key(c) = k /\ Fetched[k] = c.uri
    BY <1>2, <1>5
  <2>2. PICK c \in ClientsOf(table[i]) : Key(c) = k /\ Fetched[k] = c.uri
    BY <2>1
  <2>3. /\ c \in Client /\ c.id = table[i].id /\ Passes(table[i])
        /\ c.uri \in Range(table[i].uris) \cup {0}
        /\ c.uri = 0 => config.callback # 0
    BY <1>6, ClientsFacts
  <2>4. k \in Ids \X Uris /\ k[1] = c.id /\ k[2] = Cut[c.uri]
    BY <2>2, <2>3, KeyFacts
  <2>5. c.uri \in Uris
    BY <2>3 DEF Client
  <2> QED
    BY <1>6, <2>2, <2>3, <2>4, <2>5
<1>8. Backed(Fetched)
  BY <1>5, <1>7 DEF Backed, OutOK
<1>9. \A i \in Page : \A c \in ClientsOf(table[i]) : Key(c) \in Keys(f)
  BY <1>2, KeysFacts
<1>10. Keys(f) = KeysOf({table[i] : i \in Page})
  <2>1. \A k : k \in Keys(f) <=> \E i \in Page : \E c \in ClientsOf(table[i]) : Key(c) = k
    BY <1>2, <1>5, <1>9
  <2>2. \A k : k \in KeysOf({table[i] : i \in Page})
                  <=> \E i \in Page : \E c \in ClientsOf(table[i]) : Key(c) = k
    BY KeysOfFacts
  <2> QED
    BY <2>1, <2>2
<1> QED
  BY <1>5, <1>8, <1>9, <1>10

\* The merged list has every key fetched and every one of the environment, and
\* for these the environment's own client.
LEMMA MergedFacts ==
    ASSUME NEW m, config \in Configs, Backed(m)
    PROVE  /\ \A c \in Merged(m) :
                 /\ c \in Client
                 /\ \/ c \in Range(config.env)
                    \/ /\ c.uri = 0 => config.callback # 0
                       /\ \E r \in shown : /\ r.id = c.id /\ Passes(r)
                                           /\ c.uri \in Range(r.uris) \cup {0}
           /\ \A k \in DOMAIN m : \E d \in Merged(m) : Key(d) = k
           /\ \A c \in Range(config.env) :
                 \E d \in Range(config.env) : Key(d) = Key(c) /\ d \in Merged(m)
           /\ \A d \in Merged(m) :
                 Key(d) \in DOMAIN m \cup {Key(c) : c \in Range(config.env)}
<1>0. config.env \in Seq(Client)
  BY InputAssumption DEF Config
<1>1. PICK f : f = [i \in DOMAIN config.env |-> {config.env[i]}]
  OBVIOUS
<1>2. PICK n \in Nat : DOMAIN config.env = 1 .. n
  BY <1>0
<1>3. DOMAIN f = DOMAIN config.env /\ \A i \in DOMAIN f : f[i] = {config.env[i]}
  BY <1>1
<1>4. \A i \in DOMAIN f : config.env[i] \in Client /\ config.env[i] \in Range(config.env)
  BY <1>0, <1>3 DEF Range
<1>5. PICK all : all = PutAll(m, f)
  OBVIOUS
<1>6. /\ DOMAIN all = DOMAIN m \cup Keys(f)
      /\ \A k \in Keys(f) : \E i \in DOMAIN f : \E c \in f[i] :
            Key(c) = k /\ all[k] = c.uri
      /\ \A k \in DOMAIN m \ Keys(f) : all[k] = m[k]
  <2>1. DOMAIN f \subseteq 1 .. n
    BY <1>2, <1>3
  <2>2. /\ DOMAIN PutAll(m, f) = DOMAIN m \cup Keys(f)
        /\ \A k \in Keys(f) : \E i \in DOMAIN f : \E c \in f[i] :
              Key(c) = k /\ PutAll(m, f)[k] = c.uri
        /\ \A k \in DOMAIN m \ Keys(f) : PutAll(m, f)[k] = m[k]
    BY <2>1, PutAllFacts, Zenon
  <2> QED
    BY <1>5, <2>2, Zenon
<1>7. Merged(m) = {[id |-> k[1], uri |-> all[k]] : k \in DOMAIN all}
  BY <1>1, <1>5 DEF Merged
<1>8. ASSUME NEW k \in Keys(f)
      PROVE  \E c \in Range(config.env) :
                c \in Client /\ Key(c) = k /\ c = [id |-> k[1], uri |-> all[k]]
  <2>1. PICK i \in DOMAIN f : Key(config.env[i]) = k /\ all[k] = config.env[i].uri
    BY <1>3, <1>6
  <2>2. k[1] = config.env[i].id
    BY <1>4, <2>1, KeyFacts
  <2>3. config.env[i] = [id |-> k[1], uri |-> all[k]]
    BY <1>4, <2>1, <2>2 DEF Client
  <2> QED
    BY <1>4, <2>1, <2>3
<1>9. ASSUME NEW k \in DOMAIN m \ Keys(f), NEW d, d = [id |-> k[1], uri |-> all[k]]
      PROVE  /\ d \in Client /\ Key(d) = k
             /\ d.uri = 0 => config.callback # 0
             /\ \E r \in shown : /\ r.id = d.id /\ Passes(r)
                                 /\ d.uri \in Range(r.uris) \cup {0}
  <2>1. d.id = k[1] /\ d.uri = m[k]
    BY <1>6, <1>9
  <2>2. /\ k \in Ids \X Uris /\ m[k] \in Uris /\ Cut[m[k]] = k[2]
        /\ m[k] = 0 => config.callback # 0
        /\ \E r \in shown : /\ r.id = k[1] /\ Passes(r)
                            /\ m[k] \in Range(r.uris) \cup {0}
    BY DEF Backed
  <2>3. d \in Client
    BY <1>6, <1>9, <2>2 DEF Client
  <2>4. Key(d) = k
    BY <2>1, <2>2 DEF Key
  <2> QED
    BY <2>1, <2>2, <2>3, <2>4
<1>10. ASSUME NEW c \in Merged(m)
       PROVE  /\ c \in Client
              /\ \/ c \in Range(config.env)
                 \/ /\ c.uri = 0 => config.callback # 0
                    /\ \E r \in shown : /\ r.id = c.id /\ Passes(r)
                                        /\ c.uri \in Range(r.uris) \cup {0}
  <2>1. PICK k \in DOMAIN all : c = [id |-> k[1], uri |-> all[k]]
    BY <1>7
  <2>2. CASE k \in Keys(f)
    BY <1>8, <2>1, <2>2
  <2>3. CASE k \notin Keys(f)
    <3>1. k \in DOMAIN m \ Keys(f)
      BY <1>6, <2>3
    <3> QED
      BY <1>9, <2>1, <3>1
  <2> QED
    BY <2>2, <2>3
<1>11. ASSUME NEW k \in DOMAIN m
       PROVE  \E d \in Merged(m) : Key(d) = k
  <2>1. PICK d : d = [id |-> k[1], uri |-> all[k]]
    OBVIOUS
  <2>2. d \in Merged(m)
    BY <1>6, <1>7, <2>1
  <2>3. Key(d) = k
    BY <1>8, <1>9, <2>1
  <2> QED
    BY <2>2, <2>3
<1>12. ASSUME NEW c \in Range(config.env)
       PROVE  \E d \in Range(config.env) : Key(d) = Key(c) /\ d \in Merged(m)
  <2>1. PICK i \in DOMAIN f : c \in f[i]
    BY <1>3 DEF Range
  <2>2. Key(c) \in Keys(f)
    BY <2>1, KeysFacts
  <2>3. PICK d \in Range(config.env) :
            Key(d) = Key(c) /\ d = [id |-> Key(c)[1], uri |-> all[Key(c)]]
    BY <1>8, <2>2
  <2> QED
    BY <1>6, <1>7, <2>2, <2>3
<1>13. ASSUME NEW d \in Merged(m)
       PROVE  Key(d) \in DOMAIN m \cup {Key(c) : c \in Range(config.env)}
  <2>1. PICK k \in DOMAIN all : d = [id |-> k[1], uri |-> all[k]]
    BY <1>7
  <2>2. CASE k \in Keys(f)
    BY <1>8, <2>1, <2>2
  <2>3. CASE k \notin Keys(f)
    <3>1. k \in DOMAIN m \ Keys(f)
      BY <1>6, <2>3
    <3> QED
      BY <1>9, <2>1, <3>1
  <2> QED
    BY <2>2, <2>3
<1> QED
  BY <1>10, <1>11, <1>12, <1>13

\* So its keys are those fetched and those of the environment.
LEMMA MergedKeys ==
    ASSUME NEW m, config \in Configs, Backed(m)
    PROVE  {Key(c) : c \in Merged(m)} = {Key(c) : c \in Range(config.env)} \cup DOMAIN m
<1>1. /\ \A k \in DOMAIN m : \E d \in Merged(m) : Key(d) = k
      /\ \A c \in Range(config.env) : \E d \in Merged(m) : Key(d) = Key(c)
      /\ \A d \in Merged(m) : Key(d) \in DOMAIN m \cup {Key(c) : c \in Range(config.env)}
  BY MergedFacts
<1> HIDE DEF Merged, Key
<1> QED
  BY <1>1

-----------------------------------------------------------------------------
(* Inductive invariance. *)

\* The environment of the process does not change under it.
LEMMA SameConfig ==
    ASSUME [Next]_vars
    PROVE  /\ config' = config
           /\ \A r : Passes(r)' = Passes(r)
           /\ \A r : ClientsOf(r)' = ClientsOf(r)
           /\ \A S : KeysOf(S)' = KeysOf(S)
           /\ Valid' = (config.callback = 0 => \A c \in allowed' : c.uri # 0)
           /\ Merged(out)' = Merged(out')
<1>1. config' = config
  BY DEF Next, Start, Requests, FetchPage, FetchNothing, FetchFails, Validate, Exit,
         Register, Withdraw, vars, indexer, fetch
<1> QED
  BY <1>1 DEF Passes, ClientsOf, Listed, Valid, Merged, KeysOf

\* Nothing is fetched and nothing listed when the system starts.
LEMMA InvInit == Init => IInv
<1> SUFFICES ASSUME Init
             PROVE  IInv
  OBVIOUS
<1>1. table \in Seq(Rows)
  <2>1. PICK n \in 0 .. MaxRows : table \in [1 .. n -> Rows]
    BY DEF Init, SeqOf
  <2>2. n \in Nat
    BY <2>1, BoundAssumption
  <2> QED
    BY <2>1, <2>2
<1>2. TypeOK
  <2>1. changes \in 0 .. MaxChanges
    BY BoundAssumption DEF Init
  <2>2. DOMAIN out = {}
    BY DEF Init, Nothing
  <2> QED
    BY <1>1, <2>1, <2>2 DEF Init, TypeOK
<1>3. Whole
  BY KeysOfFacts DEF Init, Whole, Nothing
<1> QED
  BY <1>2, <1>3 DEF Init, IInv, OutOK, Backed, Fetching, Paged, PagedAll, ListSource, Nothing

\* Whatever was shown before is still shown, and the clients of a map that does
\* not change stay backed.
LEMMA BackedStays ==
    ASSUME [Next]_vars, shown \subseteq shown', NEW m, Backed(m)
    PROVE  Backed(m)'
  BY SameConfig DEF Backed

\* ... and so do its rows.
LEMMA WholeStays ==
    ASSUME [Next]_vars, Whole, shown \subseteq shown', out' = out
    PROVE  Whole'
<1>1. PICK S \in SUBSET shown : DOMAIN out = KeysOf(S)
  BY DEF Whole
<1>2. S \in SUBSET shown' /\ DOMAIN out' = KeysOf(S)'
  BY <1>1, SameConfig
<1> QED
  BY <1>2 DEF Whole

\* Where nothing is fetched no row is needed.
LEMMA WholeNothing ==
    ASSUME [Next]_vars, out' = Nothing
    PROVE  Whole'
<1>1. DOMAIN out' = KeysOf({})'
  BY KeysOfFacts, SameConfig DEF Nothing
<1> QED
  BY <1>1 DEF Whole

\* Start of the process: the table is what will be fetched.
LEMMA StartStep == IInv /\ [Next]_vars /\ Start => IInv'
<1> SUFFICES ASSUME IInv, [Next]_vars, Start
             PROVE  IInv'
  OBVIOUS
<1> USE DEF Start, indexer
<1>0. config.env \in Seq(Client)
  BY InputAssumption DEF IInv, TypeOK, Config
<1>1. TypeOK'
  <2>1. allowed' \subseteq Client
    BY <1>0 DEF IInv, TypeOK, Range
  <2>2. shown' \subseteq Rows /\ steady' \subseteq shown'
    BY DEF IInv, TypeOK, Range
  <2> QED
    BY <2>1, <2>2 DEF IInv, TypeOK, Nothing
<1>2. OutOK'
  BY DEF OutOK, Backed, Nothing
<1>3. Fetching'
  BY DEF IInv, Fetching
<1>4. Paged'
  <2>1. ASSUME NEW r \in Range(table)
        PROVE  \E i \in DOMAIN table : table[i] = r /\ ~(i <= 0)
    BY DEF IInv, TypeOK, Range
  <2> QED
    BY <2>1 DEF Paged
<1>5. PagedAll'
  BY DEF PagedAll
<1>6. ListSource'
  BY DEF ListSource
<1>7. Whole'
  BY WholeNothing
<1> QED
  BY <1>1, <1>2, <1>3, <1>4, <1>5, <1>6, <1>7 DEF IInv

\* One page: the rows before the new offset, or all of them, are fetched.
LEMMA FetchPageStep == IInv /\ [Next]_vars /\ FetchPage => IInv'
<1> SUFFICES ASSUME IInv, [Next]_vars, FetchPage
             PROVE  IInv'
  OBVIOUS
<1> USE DEF FetchPage, indexer
<1>0. /\ Backed(Fetched)
      /\ DOMAIN out \subseteq DOMAIN Fetched
      /\ \A i \in Page : \A c \in ClientsOf(table[i]) : Key(c) \in DOMAIN Fetched
      /\ DOMAIN Fetched = DOMAIN out \cup KeysOf({table[i] : i \in Page})
  BY FetchedFacts DEF IInv
<1>01. PICK m : m = Fetched
  OBVIOUS
<1>1. Backed(m) /\ DOMAIN out \subseteq DOMAIN m /\ out' = m
  BY <1>0, <1>01
<1>2. OutOK'
  <2>1. Backed(m)'
    BY <1>1, BackedStays
  <2> QED
    BY <1>1, <2>1 DEF OutOK, Backed
<1>3. offset \in Nat /\ Limit \in Nat
  BY LimitFacts DEF IInv, TypeOK
<1>4. \A i \in DOMAIN table : i <= offset + Limit =>
          i <= offset \/ \A c \in ClientsOf(table[i]) : Key(c) \in DOMAIN m
  BY <1>0, <1>01, <1>3 DEF Page, IInv, TypeOK
<1>7. Whole'
  <2>1. PICK S \in SUBSET shown : DOMAIN out = KeysOf(S)
    BY DEF IInv, Whole
  <2>2. PICK T : T = {table[i] : i \in Page}
    OBVIOUS
  <2>3. T \in SUBSET shown
    BY <2>2 DEF IInv, TypeOK, Fetching, Page, Range
  <2>4. DOMAIN m = KeysOf(S) \cup KeysOf(T)
    BY <1>0, <1>01, <2>1, <2>2
  <2>5. KeysOf(S \cup T) = KeysOf(S) \cup KeysOf(T)
    BY KeysOfFacts
  <2>6. S \cup T \in SUBSET shown' /\ DOMAIN out' = KeysOf(S \cup T)'
    BY <1>1, <2>3, <2>4, <2>5, SameConfig
  <2> QED
    BY <2>6 DEF Whole
<1>5. CASE Len(table) < offset + Limit
  <2>1. /\ phase' = "validating" /\ allowed' = Merged(m)
        /\ UNCHANGED <<config, table, changes, offset, failed, shown, steady, gap>>
    BY <1>1, <1>5
  <2>2. allowed' \subseteq Client
    BY <1>1, <2>1, MergedFacts DEF IInv, TypeOK
  <2>3. TypeOK'
    BY <1>2, <2>1, <2>2 DEF IInv, TypeOK, OutOK, Backed
  <2>4. PagedAll'
    <3>1. \A i \in DOMAIN table : i <= offset + Limit
      BY <1>3, <1>5 DEF IInv, TypeOK
    <3>2. ~gap => \A r \in steady : \A c \in ClientsOf(r) : Key(c) \in DOMAIN m
      BY <1>1, <1>4, <3>1 DEF IInv, Paged
    <3> QED
      BY <1>1, <2>1, <3>2, SameConfig DEF PagedAll
  <2>5. ListSource'
    BY <1>1, <2>1, SameConfig DEF IInv, Fetching, ListSource
  <2> QED
    BY <1>2, <1>7, <2>1, <2>3, <2>4, <2>5 DEF IInv, Fetching, Paged
<1>6. CASE ~(Len(table) < offset + Limit)
  <2>1. /\ offset' = offset + Limit
        /\ UNCHANGED <<config, table, changes, phase, allowed, failed, shown, steady, gap>>
    BY <1>6
  <2>2. TypeOK'
    BY <1>2, <1>3, <2>1 DEF IInv, TypeOK, OutOK, Backed
  <2>3. Paged'
    <3>1. ASSUME ~gap, NEW r \in steady
          PROVE  \E i \in DOMAIN table :
                    /\ table[i] = r
                    /\ i <= offset + Limit => \A c \in ClientsOf(r) : Key(c) \in DOMAIN m
      <4>1. PICK i \in DOMAIN table :
                /\ table[i] = r
                /\ i <= offset => \A c \in ClientsOf(r) : Key(c) \in DOMAIN out
        BY <3>1 DEF IInv, Paged
      <4> QED
        BY <1>1, <1>4, <4>1
    <3> QED
      BY <1>1, <2>1, <3>1, SameConfig DEF Paged
  <2> QED
    BY <1>2, <1>7, <2>1, <2>2, <2>3 DEF IInv, Fetching, PagedAll, ListSource
<1> QED
  BY <1>5, <1>6

\* No data: the list is what was fetched before.
LEMMA FetchNothingStep == IInv /\ [Next]_vars /\ FetchNothing => IInv'
<1> SUFFICES ASSUME IInv, [Next]_vars, FetchNothing
             PROVE  IInv'
  OBVIOUS
<1> USE DEF FetchNothing, indexer
<1>1. allowed' \subseteq Client
  BY MergedFacts DEF IInv, TypeOK, OutOK
<1>2. TypeOK'
  BY <1>1 DEF IInv, TypeOK
<1>3. OutOK'
  BY BackedStays DEF IInv, OutOK, Backed
<1>4. ListSource'
  BY SameConfig DEF IInv, Fetching, ListSource
<1>5. Whole'
  BY WholeStays DEF IInv
<1> QED
  BY <1>2, <1>3, <1>4, <1>5 DEF IInv, Fetching, Paged, PagedAll

\* An error: the environment alone counts.
LEMMA FetchFailsStep == IInv /\ [Next]_vars /\ FetchFails => IInv'
<1> SUFFICES ASSUME IInv, [Next]_vars, FetchFails
             PROVE  IInv'
  OBVIOUS
<1> USE DEF FetchFails, indexer, fetch
<1>0. config.env \in Seq(Client)
  BY InputAssumption DEF IInv, TypeOK, Config
<1>1. TypeOK'
  BY <1>0 DEF IInv, TypeOK, Range
<1>2. OutOK'
  BY BackedStays DEF IInv, OutOK, Backed
<1>3. Whole'
  BY WholeStays DEF IInv
<1> QED
  BY <1>1, <1>2, <1>3 DEF IInv, Fetching, Paged, PagedAll, ListSource

\* The configuration is accepted or refused.
LEMMA ValidateStep == IInv /\ [Next]_vars /\ Validate => IInv'
<1> SUFFICES ASSUME IInv, [Next]_vars, Validate
             PROVE  IInv'
  OBVIOUS
<1> USE DEF Validate, indexer, fetch
<1>1. TypeOK'
  BY DEF IInv, TypeOK
<1>2. OutOK'
  BY BackedStays DEF IInv, OutOK, Backed
<1>3. PagedAll'
  BY SameConfig DEF IInv, PagedAll
<1>4. ListSource'
  BY SameConfig DEF IInv, ListSource, Valid
<1>5. Whole'
  BY WholeStays DEF IInv
<1> QED
  BY <1>1, <1>2, <1>3, <1>4, <1>5 DEF IInv, Fetching, Paged

\* The process ends and with it all it fetched.
LEMMA ExitStep == IInv /\ [Next]_vars /\ Exit => IInv'
<1> SUFFICES ASSUME IInv, [Next]_vars, Exit
             PROVE  IInv'
  OBVIOUS
<1> USE DEF Exit, indexer
<1>1. TypeOK'
  BY DEF IInv, TypeOK, Nothing
<1>2. OutOK'
  BY DEF OutOK, Backed, Nothing
<1>3. Whole'
  BY WholeNothing
<1> QED
  BY <1>1, <1>2, <1>3 DEF IInv, Fetching, Paged, PagedAll, ListSource

\* A row appears: it moves others only away from the pages already fetched.
LEMMA RegisterStep ==
    ASSUME IInv, [Next]_vars, NEW row \in Rows, NEW i \in 1 .. Len(table) + 1,
           Register(row, i)
    PROVE  IInv'
<1> USE DEF Register
<1>1. /\ table' \in Seq(Rows)
      /\ Range(table') \subseteq Range(table) \cup {row}
      /\ \A j \in DOMAIN table : \E k \in DOMAIN table' : j <= k /\ table'[k] = table[j]
  <2>1. table \in Seq(Rows)
    BY DEF IInv, TypeOK
  <2>2. PICK t : t = InsertAt(table, i, row)
    OBVIOUS
  <2>3. /\ t \in Seq(Rows)
        /\ Range(t) \subseteq Range(table) \cup {row}
        /\ \A j \in 1 .. Len(table) : \E k \in 1 .. Len(t) : j <= k /\ t[k] = table[j]
    BY <2>1, <2>2, InsertFacts
  <2>4. table' = t
    BY <2>2
  <2> QED
    BY <2>1, <2>3, <2>4
<1>2. TypeOK'
  BY <1>1, BoundAssumption DEF IInv, TypeOK
<1>3. OutOK'
  BY BackedStays DEF IInv, OutOK, Backed
<1>4. Fetching'
  BY <1>1 DEF IInv, Fetching
<1>5. Paged'
  <2>1. ASSUME phase = "fetching", ~gap, NEW r \in steady
        PROVE  \E k \in DOMAIN table' :
                  /\ table'[k] = r
                  /\ k <= offset => \A c \in ClientsOf(r) : Key(c) \in DOMAIN out
    <3>1. PICK j \in DOMAIN table :
              /\ table[j] = r
              /\ j <= offset => \A c \in ClientsOf(r) : Key(c) \in DOMAIN out
      BY <2>1 DEF IInv, Paged
    <3>2. PICK k \in DOMAIN table' : j <= k /\ table'[k] = table[j]
      BY <1>1
    <3>3. k <= offset => j <= offset
      BY <1>1, <3>2 DEF IInv, TypeOK
    <3> QED
      BY <3>1, <3>2, <3>3
  <2> QED
    BY <2>1, SameConfig DEF Paged
<1>6. PagedAll'
  BY SameConfig DEF IInv, PagedAll
<1>7. ListSource'
  BY SameConfig DEF IInv, ListSource, Valid
<1>8. Whole'
  BY WholeStays DEF IInv
<1> QED
  BY <1>2, <1>3, <1>4, <1>5, <1>6, <1>7, <1>8 DEF IInv

\* A row leaves: from then on nothing is promised about this fetch.
LEMMA WithdrawStep ==
    ASSUME IInv, [Next]_vars, NEW i \in DOMAIN table, Withdraw(i)
    PROVE  IInv'
<1> USE DEF Withdraw
<1>1. table' \in Seq(Rows) /\ Range(table') \subseteq Range(table)
  BY RemoveFacts DEF IInv, TypeOK
<1>2. TypeOK'
  <2>1. changes' \in 0 .. MaxChanges
    BY BoundAssumption DEF IInv, TypeOK
  <2>2. steady' \subseteq steady /\ gap' \in BOOLEAN
    BY DEF IInv, TypeOK
  <2>3. UNCHANGED <<config, phase, offset, out, shown, allowed, failed>>
    OBVIOUS
  <2> HIDE DEF Withdraw
  <2> QED
    BY <1>1, <2>1, <2>2, <2>3 DEF IInv, TypeOK
<1>3. OutOK'
  BY BackedStays DEF IInv, OutOK, Backed
<1>4. Fetching'
  BY <1>1 DEF IInv, Fetching
<1>5. Paged'
  BY DEF Paged
<1>6. PagedAll'
  BY SameConfig DEF IInv, PagedAll
<1>7. ListSource'
  BY SameConfig DEF IInv, ListSource, Valid
<1>8. Whole'
  BY WholeStays DEF IInv
<1> QED
  BY <1>2, <1>3, <1>4, <1>5, <1>6, <1>7, <1>8 DEF IInv

\* No step of the process or of the indexer breaks the invariant.
LEMMA InvStep == IInv /\ [Next]_vars => IInv'
<1> SUFFICES ASSUME IInv, [Next]_vars
             PROVE  IInv'
  OBVIOUS
<1>1. CASE Start
  BY <1>1, StartStep
<1>2. CASE FetchPage
  BY <1>2, FetchPageStep
<1>3. CASE FetchNothing
  BY <1>3, FetchNothingStep
<1>4. CASE FetchFails
  BY <1>4, FetchFailsStep
<1>5. CASE Validate
  BY <1>5, ValidateStep
<1>6. CASE Exit
  BY <1>6, ExitStep
<1>7. ASSUME NEW row \in Rows, NEW i \in 1 .. Len(table) + 1, Register(row, i)
      PROVE  IInv'
  BY <1>7, RegisterStep
<1>8. ASSUME NEW i \in DOMAIN table, Withdraw(i)
      PROVE  IInv'
  BY <1>8, WithdrawStep
<1>9. CASE UNCHANGED vars
  <2>1. OutOK'
    BY <1>9, BackedStays DEF IInv, OutOK, Backed, vars, fetch
  <2>2. ListSource' /\ PagedAll' /\ Paged'
    BY <1>9, SameConfig DEF IInv, ListSource, PagedAll, Paged, Valid, vars, fetch, indexer
  <2>3. Whole'
    BY <1>9, WholeStays DEF IInv, vars, fetch
  <2> QED
    BY <1>9, <2>1, <2>2, <2>3 DEF IInv, TypeOK, Fetching, vars, fetch, indexer
<1> QED
  BY <1>1, <1>2, <1>3, <1>4, <1>5, <1>6, <1>7, <1>8, <1>9 DEF Next, Requests

\* The list in use comes from rows the indexer showed and from the environment,
\* with nothing lost on the way, in every state.
THEOREM Invariance == Spec => []IInv
<1>1. Init => IInv
  BY InvInit
<1>2. IInv /\ [Next]_vars => IInv'
  BY InvStep
<1> QED
  BY <1>1, <1>2, PTL DEF Spec

-----------------------------------------------------------------------------
(* The properties. *)

\* Every variable keeps its type.
THEOREM TypeAlways == Spec => []TypeOK
<1>1. IInv => TypeOK
  BY DEF IInv
<1> QED
  BY <1>1, Invariance, PTL

\* A client is let in only if the operator named it or the indexer showed it with
\* an accepted status during this very start.
THEOREM ServedApprovedAlways == Spec => []ServedApproved
<1>1. IInv => ServedApproved
  <2> SUFFICES ASSUME IInv, NEW c \in allowed
               PROVE  \/ c \in Range(config.env)
                      \/ /\ ~failed
                         /\ \E r \in shown : /\ r.id = c.id /\ Passes(r)
                                             /\ c.uri \in Range(r.uris) \cup {0}
    BY DEF ServedApproved
  <2>1. phase \in {"validating", "serving", "refused"}
    BY DEF IInv, Fetching, TypeOK
  <2>2. CASE config.url /\ ~failed
    <3>1. c \in Merged(out)
      BY <2>1, <2>2 DEF IInv, ListSource
    <3> QED
      BY <2>2, <3>1, MergedFacts DEF IInv, TypeOK, OutOK
  <2>3. CASE ~(config.url /\ ~failed)
    BY <2>1, <2>3 DEF IInv, ListSource
  <2> QED
    BY <2>2, <2>3
<1> QED
  BY <1>1, Invariance, PTL

\* Paging by offset loses no platform that was there all along, unless a row left
\* the table or a page came without data.
THEOREM ListedUnlessShiftedAlways == Spec => []ListedUnlessShifted
<1>1. IInv => ListedUnlessShifted
  <2> SUFFICES ASSUME IInv, phase \in {"validating", "serving"},
                      config.url, ~failed, ~gap,
                      NEW r \in steady, NEW c \in ClientsOf(r)
               PROVE  \E d \in allowed : Key(d) = Key(c)
    BY DEF ListedUnlessShifted
  <2>1. Key(c) \in DOMAIN out
    BY DEF IInv, PagedAll
  <2>2. allowed = Merged(out)
    BY DEF IInv, ListSource
  <2> QED
    BY <2>1, <2>2, MergedFacts DEF IInv, TypeOK, OutOK
<1> QED
  BY <1>1, Invariance, PTL

\* However the fetch ends, every client of ALLOWED_CLIENTS is let in as it is
\* written there.
THEOREM EnvironmentKeptAlways == Spec => []EnvironmentKept
<1>1. IInv => EnvironmentKept
  <2> SUFFICES ASSUME IInv, phase \in {"validating", "serving"},
                      NEW c \in Range(config.env)
               PROVE  \E d \in Range(config.env) : Key(d) = Key(c) /\ d \in allowed
    BY DEF EnvironmentKept
  <2>1. CASE config.url /\ ~failed
    <3>1. allowed = Merged(out)
      BY <2>1 DEF IInv, ListSource
    <3> QED
      BY <3>1, MergedFacts DEF IInv, TypeOK, OutOK
  <2>2. CASE ~(config.url /\ ~failed)
    BY <2>2 DEF IInv, ListSource
  <2> QED
    BY <2>1, <2>2
<1> QED
  BY <1>1, Invariance, PTL

\* No answer of the indexer keeps the process from starting.
THEOREM IndexerCannotRefuseAlways == Spec => []IndexerCannotRefuse
<1>1. IInv => IndexerCannotRefuse
  <2> SUFFICES ASSUME IInv, phase = "refused"
               PROVE  config.callback = 0 /\ \E c \in Range(config.env) : c.uri = 0
    BY DEF IndexerCannotRefuse
  <2>1. PICK c \in allowed : config.callback = 0 /\ c.uri = 0
    BY DEF IInv, ListSource, Valid
  <2>2. CASE config.url /\ ~failed
    <3>1. c \in Merged(out)
      BY <2>2 DEF IInv, ListSource
    <3> QED
      BY <2>1, <3>1, MergedFacts DEF IInv, TypeOK, OutOK
  <2>3. CASE ~(config.url /\ ~failed)
    BY <2>1, <2>3 DEF IInv, ListSource
  <2> QED
    BY <2>1, <2>2, <2>3
<1> QED
  BY <1>1, Invariance, PTL

\* The list is what one page with some of the rows shown would have brought, and
\* while nothing leaves the table these are at least the rows that stayed.
THEOREM AsOnePageAlways == Spec => []AsOnePage
<1>1. IInv => AsOnePage
  <2> SUFFICES ASSUME IInv, phase \in {"validating", "serving"}, config.url, ~failed
               PROVE  \E S \in SUBSET shown :
                         /\ {Key(c) : c \in allowed} =
                               {Key(c) : c \in Range(config.env)} \cup KeysOf(S)
                         /\ ~gap => steady \subseteq S
    BY DEF AsOnePage
  <2>1. PICK S \in SUBSET shown : DOMAIN out = KeysOf(S)
    BY DEF IInv, Whole
  <2>2. {Key(c) : c \in allowed} = {Key(c) : c \in Range(config.env)} \cup DOMAIN out
    <3>1. allowed = Merged(out)
      BY DEF IInv, ListSource
    <3> QED
      BY <3>1, MergedKeys DEF IInv, TypeOK, OutOK
  <2>3. CASE gap
    BY <2>1, <2>2, <2>3
  <2>4. CASE ~gap
    <3>1. KeysOf(steady) \subseteq DOMAIN out
      BY <2>4, KeysOfFacts DEF IInv, PagedAll
    <3>2. KeysOf(S \cup steady) = DOMAIN out
      <4>1. KeysOf(S \cup steady) = KeysOf(S) \cup KeysOf(steady)
        BY KeysOfFacts
      <4> QED
        BY <2>1, <3>1, <4>1
    <3>3. S \cup steady \in SUBSET shown
      BY DEF IInv, TypeOK
    <3> QED
      BY <2>2, <3>2, <3>3
  <2> QED
    BY <2>3, <2>4
<1> QED
  BY <1>1, Invariance, PTL
=============================================================================
