----------------------------- MODULE ScansProofs ------------------------------
(* What TLAPS proves of the scans: the invariant of Scans is inductive, for   *)
(* any keys, types, collections, requests, scanners and capacity.             *)
EXTENDS Scans, TLAPS, FiniteSetTheorems, WellFoundedInduction, SequenceTheorems

----------------------------------------------------------------------------
(* Finite sets of keys, in the direction way.                               *)

\* Keys, and so any of them, are finitely many integers.
LEMMA SomeKeys ==
  ASSUME NEW A \in SUBSET Keys
  PROVE  IsFiniteSet(A) /\ A \subseteq Nat \ {0}
  <1>1. IsFiniteSet(Keys) /\ Keys \subseteq Nat \ {0}
    BY ScansAssumption
  <1>2. IsFiniteSet(A)
    BY <1>1, FS_Subset
  <1>3. QED BY <1>1, <1>2

\* A key times its direction.
LEMMA Directed ==
  ASSUME NEW way \in {1, -1}, NEW j \in Nat, NEW k \in Nat
  PROVE  /\ way * j \in Int
         /\ ~(way * j < way * k) <=> way * k <= way * j
         /\ \A i \in Nat : way * i < way * j /\ way * j <= way * k => way * i < way * k
  <1>1. CASE way = 1
    BY <1>1
  <1>2. CASE way = -1
    BY <1>2
  <1>3. QED BY <1>1, <1>2

\* A key that fewer others are ahead of comes first.
LEMMA FewerComeFirst ==
  ASSUME NEW A \in SUBSET Keys, NEW way \in {1, -1}, NEW v \in A, NEW r \in A,
         NEW count \in Int,
         Cardinality({j \in A : way * j < way * v}) < count,
         ~(Cardinality({j \in A : way * j < way * r}) < count)
  PROVE  way * v < way * r
  <1> DEFINE Before(k) == {j \in A : way * j < way * k}
  <1>1. A \subseteq Nat /\ IsFiniteSet(A)
    BY SomeKeys
  <1>2. Before(r) \in SUBSET A /\ Before(v) \in SUBSET A
    OBVIOUS
  <1>3. way * r <= way * v => Before(r) \in SUBSET Before(v)
    BY <1>1, Directed
  <1>4. Cardinality(Before(v)) < count /\ ~(Cardinality(Before(r)) < count)
    OBVIOUS
  <1> HIDE DEF Before
  <1>5. IsFiniteSet(Before(v)) /\ IsFiniteSet(Before(r))
    BY <1>1, <1>2, FS_Subset
  <1>6. Cardinality(Before(r)) \in Nat /\ Cardinality(Before(v)) \in Nat
    BY <1>5, FS_CardinalityType
  <1>7. way * r <= way * v => Cardinality(Before(r)) <= Cardinality(Before(v))
    BY <1>3, <1>5, FS_Subset
  <1>8. ~(way * r <= way * v)
    BY <1>4, <1>6, <1>7
  <1>9. QED BY <1>1, <1>8, Directed

\* A set of keys that is not empty has a first one.
LEMMA FirstKey ==
  ASSUME NEW S \in SUBSET Keys, S # {}, NEW way \in {1, -1}
  PROVE  \E k \in S : \A j \in S : way * k <= way * j
  <1> DEFINE Before(k) == {j \in S : way * j < way * k}
             T == {Cardinality(Before(k)) : k \in S}
  <1>1. S \subseteq Nat /\ IsFiniteSet(S)
    BY SomeKeys
  <1>2. \A k \in S : Before(k) \in SUBSET S
    OBVIOUS
  <1>3. \A j, k \in S : way * j < way * k =>
          Before(j) \in SUBSET Before(k) /\ j \in Before(k) /\ j \notin Before(j)
    <2> SUFFICES ASSUME NEW j \in S, NEW k \in S, way * j < way * k
                 PROVE  Before(j) \in SUBSET Before(k) /\ j \in Before(k) /\ j \notin Before(j)
      OBVIOUS
    <2>1. way * j \in Int /\ way * k \in Int
      BY <1>1, Directed
    <2>2. ~(way * j < way * j) /\ way * j <= way * k
      BY <2>1
    <2>3. \A i \in S : way * i < way * j => way * i < way * k
      BY <1>1, <2>2, Directed
    <2>4. QED BY <2>2, <2>3
  <1> HIDE DEF Before
  <1>4. \A k \in S : IsFiniteSet(Before(k)) /\ Cardinality(Before(k)) \in Nat
    BY <1>1, <1>2, FS_Subset, FS_CardinalityType
  <1>5. T \subseteq Nat /\ T # {}
    BY <1>4
  <1>6. PICK x \in T : \A y \in T : ~ (<<y, x>> \in OpToRel(<, Nat))
    BY <1>5, NatLessThanWellFounded, WFMin
  <1>7. \A y \in T : ~ (y < x)
    BY <1>5, <1>6 DEF OpToRel
  <1>8. PICK k \in S : x = Cardinality(Before(k))
    OBVIOUS
  <1>9. ASSUME NEW j \in S, way * j < way * k
        PROVE  FALSE
    <2>1. Before(j) \in SUBSET Before(k) /\ Before(j) # Before(k)
      BY <1>3, <1>9
    <2>2. Cardinality(Before(j)) <= Cardinality(Before(k)) /\ Cardinality(Before(j)) # Cardinality(Before(k))
      BY <1>4, <2>1, FS_Subset
    <2>3. Cardinality(Before(j)) < Cardinality(Before(k))
      BY <1>4, <2>2
    <2>4. QED BY <1>7, <1>8, <2>3
  <1>10. QED BY <1>1, <1>9, Directed

\* Least is the least key of a set that is not empty.
LEMMA LeastIsLeast ==
  ASSUME NEW S \in SUBSET Keys, S # {}
  PROVE  Least(S) \in S /\ \A j \in S : Least(S) <= j
  <1>1. PICK k \in S : \A j \in S : 1 * k <= 1 * j
    BY FirstKey
  <1>2. \A j \in S : k <= j
    BY <1>1, ScansAssumption
  <1>3. QED BY <1>2 DEF Least

----------------------------------------------------------------------------
(* What a step visits and what it leaves.                                   *)

\* The live records from start on are visited before those that are not.
LEMMA VisitedFirst ==
  ASSUME NEW t, NEW start \in Nat, NEW count \in Int
  PROVE  LET live == {k \in Keys : k >= start /\ db[t][k] = "live"}
             visited == Visited(t, start, count)
         IN  /\ visited \in SUBSET live
             /\ \A v \in visited, k \in live \ visited : v < k
             /\ live # visited => ~(Cardinality(visited) < count)
  <1> DEFINE live == {k \in Keys : k >= start /\ db[t][k] = "live"}
             visited == {k \in live : Cardinality({j \in live : j < k}) < count}
  <1>1. live \in SUBSET Keys /\ live \subseteq Nat
    BY ScansAssumption
  <1>2. visited = Visited(t, start, count)
    BY DEF Visited
  <1> HIDE DEF live
  <1>3. ASSUME NEW v \in visited, NEW k \in live \ visited
        PROVE  v < k
    <2> \A j \in Nat : 1 * j = j
      OBVIOUS
    <2>1. {j \in live : j < v} = {j \in live : 1 * j < 1 * v} /\ {j \in live : j < k} = {j \in live : 1 * j < 1 * k}
      BY <1>1, Zenon
    <2>2. Cardinality({j \in live : 1 * j < 1 * v}) < count
      BY <2>1
    <2>3. ~(Cardinality({j \in live : 1 * j < 1 * k}) < count)
      BY <2>1
    <2>4. 1 * v < 1 * k
      BY <1>1, <2>2, <2>3, FewerComeFirst
    <2>5. QED BY <1>1, <2>4
  <1>4. ASSUME live # visited
        PROVE  ~(Cardinality(visited) < count)
    <2>1. live \ visited # {} /\ live \ visited \in SUBSET Keys
      BY <1>1, <1>4
    <2>2. PICK k \in live \ visited : \A j \in live \ visited : 1 * k <= 1 * j
      BY <2>1, FirstKey
    <2>3. \A j \in live : j < k => j \in visited
      BY <1>1, <2>2
    <2>4. {j \in live : j < k} \in SUBSET visited /\ ~(Cardinality({j \in live : j < k}) < count)
      BY <2>3
    <2> HIDE DEF visited
    <2>5. IsFiniteSet(visited) /\ IsFiniteSet({j \in live : j < k})
      BY <1>1, SomeKeys DEF visited
    <2>6. Cardinality({j \in live : j < k}) <= Cardinality(visited)
      BY <2>4, <2>5, FS_Subset
    <2>7. Cardinality({j \in live : j < k}) \in Nat /\ Cardinality(visited) \in Nat
      BY <2>5, FS_CardinalityType
    <2>8. QED BY <2>4, <2>6, <2>7
  <1>5. visited \in SUBSET live
    OBVIOUS
  <1> HIDE DEF visited
  <1>6. /\ visited \in SUBSET live
        /\ \A v \in visited, k \in live \ visited : v < k
        /\ live # visited => ~(Cardinality(visited) < count)
    BY <1>3, <1>4, <1>5
  <1>7. QED BY <1>2, <1>6 DEF live

\* Rest begins behind the visited records and has the live ones not visited.
LEMMA RestIsBehind ==
  ASSUME NEW t, NEW start \in Nat, NEW count \in Int
  PROVE  LET visited == Visited(t, start, count)
             rest    == Rest(t, start, count)
         IN  /\ rest \in SUBSET {k \in Keys : start <= k}
             /\ \A v \in visited, r \in rest : v < r
             /\ \A k \in Keys \ visited : start <= k /\ db[t][k] = "live" => k \in rest
  <1> DEFINE live == {k \in Keys : k >= start /\ db[t][k] = "live"}
             visited == Visited(t, start, count)
  <1>1. /\ visited \in SUBSET live
        /\ \A v \in visited, k \in live \ visited : v < k
        /\ live # visited => ~(Cardinality(visited) < count)
    BY VisitedFirst
  <1>2. Keys \subseteq Nat
    BY ScansAssumption
  <1>3. Rest(t, start, count) =
          IF Cardinality(visited) < count THEN {}
          ELSE {k \in Keys : k >= start /\ db[t][k] # "none" /\ \A v \in visited : v < k}
    BY DEF Rest
  <1> HIDE DEF visited
  <1>4. Rest(t, start, count) \in SUBSET {k \in Keys : start <= k}
    BY <1>2, <1>3
  <1>5. \A v \in visited, r \in Rest(t, start, count) : v < r
    BY <1>3
  <1>6. ASSUME NEW k \in Keys \ visited, start <= k, db[t][k] = "live"
        PROVE  k \in Rest(t, start, count)
    <2>1. k \in live \ visited
      BY <1>2, <1>6
    <2>2. QED BY <1>1, <1>3, <2>1
  <1>7. QED BY <1>4, <1>5, <1>6 DEF visited

\* Both for one database.
LEMMA VisitedAndRest ==
  ASSUME NEW t, NEW start \in Nat, NEW count \in Int
  PROVE  /\ \A v \in Visited(t, start, count) : v \in Keys /\ start <= v /\ db[t][v] = "live"
         /\ \A k \in Rest(t, start, count) : k \in Keys /\ start <= k
         /\ \A v \in Visited(t, start, count), k \in Rest(t, start, count) : v < k
         /\ \A k \in Keys \ Visited(t, start, count) :
              start <= k /\ db[t][k] = "live" => k \in Rest(t, start, count)
  <1>1. Keys \subseteq Nat
    BY ScansAssumption
  <1>2. \A v \in Visited(t, start, count) : v \in Keys /\ start <= v /\ db[t][v] = "live"
    BY <1>1, VisitedFirst
  <1>3. QED BY <1>2, RestIsBehind

\* Where a prefix scan is over, no key before it has the prefix.
LEMMA NothingLeft ==
  ASSUME NEW q \in Requests, NEW rest \in SUBSET Keys, ~Unfinished(rest, q.pattern)
  PROVE  rest \cap q.pattern.matches = {}
  <1>1. SUFFICES ASSUME NEW k \in rest, k \in q.pattern.matches PROVE FALSE
    OBVIOUS
  <1>2. Least(rest) \in rest /\ Least(rest) <= k
    BY LeastIsLeast
  <1>3. /\ Keys \subseteq Nat /\ q.pattern.prefix \in Nat
        /\ k \in Nat /\ Least(rest) \in Nat /\ Least(rest) \in Keys
    BY <1>2, ScansAssumption, RequestsAssumption
  <1>4. q.pattern.prefix # 0 /\ ~(Least(rest) <= q.pattern.prefix) /\ Least(rest) \notin q.pattern.matches
    BY DEF Unfinished
  <1>5. q.pattern.prefix <= Least(rest)
    BY <1>3, <1>4
  <1>6. QED BY <1>1, <1>2, <1>3, <1>4, <1>5, PrefixAssumption

\* The visited members of a collection come before the live ones that are not.
LEMMA MembersVisitedFirst ==
  ASSUME NEW c, NEW q \in Requests, NEW start \in Nat, q.pattern.prefix <= start
  PROVE  LET visited == VisitedMembers(c, start, q)
             live == {k \in Keys : start <= k /\ db[c][k] = "live"}
         IN  /\ visited \in SUBSET live
             /\ \A v \in visited, k \in live \ visited : v < k
  <1> DEFINE live == {k \in Keys : k >= start /\ db[c][k] = "live"}
             visited == VisitedMembers(c, start, q)
  <1>1. q.count \in Int /\ q.pattern.prefix \in Nat /\ Keys \subseteq Nat
    BY RequestsAssumption, ScansAssumption
  <1>2. /\ Visited(c, start, q.count) \in SUBSET live
        /\ \A v \in Visited(c, start, q.count), k \in live \ Visited(c, start, q.count) : v < k
    BY <1>1, VisitedFirst
  <1>3. visited \in SUBSET live
    BY <1>2 DEF VisitedMembers
  <1>4. ASSUME NEW v \in visited, NEW k \in live \ visited
        PROVE  v < k
    <2>1. CASE k \notin Visited(c, start, q.count)
      BY <1>2, <2>1 DEF VisitedMembers
    <2>2. CASE k \in Visited(c, start, q.count)
      <3>1. q.pattern.prefix # 0 /\ k \notin q.pattern.matches /\ v \in q.pattern.matches
        BY <2>2 DEF VisitedMembers
      <3>2. k \in Keys /\ k >= start /\ v \in Nat /\ k \in Nat
        BY <1>1, <1>3
      <3> q.pattern.prefix <= k
        BY <1>1, <3>2
      <3>3. ~(k <= v)
        BY <3>1, <3>2, PrefixAssumption
      <3>4. QED BY <3>2, <3>3
    <2>3. QED BY <2>1, <2>2
  <1>5. live = {k \in Keys : start <= k /\ db[c][k] = "live"}
    BY <1>1
  <1>6. QED BY <1>3, <1>4, <1>5

----------------------------------------------------------------------------
(* The caches.                                                              *)

\* Without an element a sequence is one shorter and keeps the order of the rest.
LEMMA RemoveAtIs ==
  ASSUME NEW E, NEW s \in Seq(E), NEW i \in 1 .. Len(s)
  PROVE  /\ RemoveAt(s, i) \in Seq(E)
         /\ Len(RemoveAt(s, i)) = Len(s) - 1
         /\ \A j \in 1 .. Len(s) - 1 : RemoveAt(s, i)[j] = s[IF j < i THEN j ELSE j + 1]
  <1> DEFINE low == SubSeq(s, 1, i - 1)
             high == SubSeq(s, i + 1, Len(s))
  <1>1. Len(s) \in Nat /\ i \in Int /\ \A j \in 1 .. Len(s) : s[j] \in E
    OBVIOUS
  <1>2. /\ low \in Seq(E) /\ Len(low) = i - 1
        /\ \A j \in 1 .. i - 1 : low[j] = s[j]
    <2>1. \A j \in 1 .. i - 1 : s[j] \in E
      BY <1>1
    <2>2. /\ low \in Seq(E) /\ Len(low) = IF 1 <= i - 1 THEN i - 1 - 1 + 1 ELSE 0
          /\ \A j \in 1 .. i - 1 - 1 + 1 : low[j] = s[1 + j - 1]
      BY <1>1, <2>1, SubSeqProperties
    <2> HIDE DEF low
    <2>3. QED BY <1>1, <2>2
  <1>3. /\ high \in Seq(E) /\ Len(high) = Len(s) - i
        /\ \A j \in 1 .. Len(s) - i : high[j] = s[i + j]
    <2>1. \A j \in i + 1 .. Len(s) : s[j] \in E
      BY <1>1
    <2>2. /\ high \in Seq(E) /\ Len(high) = IF i + 1 <= Len(s) THEN Len(s) - (i + 1) + 1 ELSE 0
          /\ \A j \in 1 .. Len(s) - (i + 1) + 1 : high[j] = s[(i + 1) + j - 1]
      BY <1>1, <2>1, SubSeqProperties
    <2> HIDE DEF high
    <2>3. QED BY <1>1, <2>2
  <1>4. RemoveAt(s, i) = low \o high
    BY DEF RemoveAt
  <1> HIDE DEF low, high
  <1>5. /\ low \o high \in Seq(E) /\ Len(low \o high) = Len(low) + Len(high)
        /\ \A j \in 1 .. Len(low) + Len(high) :
             (low \o high)[j] = IF j <= Len(low) THEN low[j] ELSE high[j - Len(low)]
    BY <1>2, <1>3, ConcatProperties
  <1>6. Len(low) + Len(high) = Len(s) - 1
    BY <1>1, <1>2, <1>3
  <1>7. ASSUME NEW j \in 1 .. Len(s) - 1
        PROVE  (low \o high)[j] = s[IF j < i THEN j ELSE j + 1]
    <2>1. CASE j < i
      BY <1>1, <1>2, <1>5, <1>6, <2>1
    <2>2. CASE ~(j < i)
      <3>1. (low \o high)[j] = high[j - (i - 1)]
        BY <1>1, <1>2, <1>5, <1>6, <2>2
      <3>2. j - (i - 1) \in 1 .. Len(s) - i /\ i + (j - (i - 1)) = j + 1
        BY <1>1, <2>2
      <3>3. QED BY <1>3, <2>2, <3>1, <3>2
    <2>3. QED BY <2>1, <2>2
  <1>8. QED BY <1>4, <1>5, <1>6, <1>7

\* What is left of a cache without a name.
LEMMA WithoutInv ==
  ASSUME NEW names, NEW places, NEW cache \in CacheOf(names, places), Proper(cache), NEW index
  PROVE  /\ Without(cache, index) \in CacheOf(names, places)
         /\ Proper(Without(cache, index))
         /\ \A n \in DOMAIN Without(cache, index) : Without(cache, index)[n].index # index
         /\ Entry(cache, index) # {} => Len(Without(cache, index)) = Len(cache) - 1
  <1> DEFINE E == [index : names \X Nat, start : places \X Nat]
             w == Without(cache, index)
  <1>1. cache \in Seq(E) /\ Capacity \in Nat
    BY ScansAssumption DEF CacheOf
  <1> HIDE DEF E
  <1>2. CASE Entry(cache, index) = {}
    <2>1. w = cache
      BY <1>2 DEF Without
    <2>2. \A n \in DOMAIN cache : cache[n].index # index
      BY <1>2 DEF Entry
    <2>3. QED BY <1>2, <2>1, <2>2
  <1>3. CASE Entry(cache, index) # {}
    <2> DEFINE i == CHOOSE n \in Entry(cache, index) : TRUE
    <2>1. i \in 1 .. Len(cache) /\ cache[i].index = index
      BY <1>1, <1>3 DEF Entry
    <2>2. w = RemoveAt(cache, i)
      BY <1>3 DEF Without
    <2> HIDE DEF i, w
    <2>3. /\ w \in Seq(E) /\ Len(w) = Len(cache) - 1
          /\ \A j \in 1 .. Len(cache) - 1 : w[j] = cache[IF j < i THEN j ELSE j + 1]
      BY <1>1, <2>1, <2>2, RemoveAtIs
    <2>4. DOMAIN w = 1 .. Len(cache) - 1 /\ DOMAIN cache = 1 .. Len(cache) /\ Len(cache) \in Nat
      BY <1>1, <2>3
    <2>5. \A m, n \in 1 .. Len(cache) : cache[m].index = cache[n].index => m = n
      BY <2>4 DEF Proper
    <2>6. ASSUME NEW m \in DOMAIN w
          PROVE  w[m].index # index
      <3>1. (IF m < i THEN m ELSE m + 1) \in 1 .. Len(cache) /\ (IF m < i THEN m ELSE m + 1) # i
        BY <2>1, <2>4
      <3>2. QED BY <2>1, <2>3, <2>4, <2>5, <3>1
    <2>7. ASSUME NEW m \in DOMAIN w, NEW n \in DOMAIN w, w[m].index = w[n].index
          PROVE  m = n
      <3> DEFINE f(x) == IF x < i THEN x ELSE x + 1
      <3>1. f(m) \in 1 .. Len(cache) /\ f(n) \in 1 .. Len(cache)
        BY <2>1, <2>4
      <3>2. w[m] = cache[f(m)] /\ w[n] = cache[f(n)]
        BY <2>3, <2>4
      <3>3. f(m) = f(n)
        BY <2>5, <2>7, <3>1, <3>2
      <3>4. QED BY <2>1, <2>4, <3>3
    <2>8. Len(w) <= Capacity
      BY <1>1, <2>3, <2>4 DEF Proper
    <2>9. QED BY <2>3, <2>6, <2>7, <2>8 DEF CacheOf, Proper, E, w
  <1>4. QED BY <1>2, <1>3

\* An entry of a name that is not there may be appended, if there is room.
LEMMA AppendInv ==
  ASSUME NEW E, NEW cache \in Seq(E), NEW e \in E,
         \A m, n \in DOMAIN cache : cache[m].index = cache[n].index => m = n,
         \A n \in DOMAIN cache : cache[n].index # e.index
  PROVE  /\ Append(cache, e) \in Seq(E) /\ Len(Append(cache, e)) = Len(cache) + 1
         /\ \A m, n \in DOMAIN Append(cache, e) :
              Append(cache, e)[m].index = Append(cache, e)[n].index => m = n
  <1> DEFINE a == Append(cache, e)
  <1>1. /\ a \in Seq(E) /\ Len(a) = Len(cache) + 1
        /\ \A i \in 1 .. Len(cache) : a[i] = cache[i]
        /\ a[Len(cache) + 1] = e
    BY AppendProperties
  <1> HIDE DEF a
  <1>2. DOMAIN a = 1 .. Len(cache) + 1 /\ DOMAIN cache = 1 .. Len(cache) /\ Len(cache) \in Nat
    BY <1>1
  <1>3. ASSUME NEW m \in DOMAIN a, NEW n \in DOMAIN a, a[m].index = a[n].index
        PROVE  m = n
    <2>1. CASE m = Len(cache) + 1 \/ n = Len(cache) + 1
      BY <1>1, <1>2, <1>3, <2>1
    <2>2. CASE m \in 1 .. Len(cache) /\ n \in 1 .. Len(cache)
      BY <1>1, <1>2, <1>3, <2>2
    <2>3. QED BY <1>2, <2>1, <2>2
  <1>4. QED BY <1>1, <1>3 DEF a

\* A lookup changes the order of a cache alone.
LEMMA TouchInv ==
  ASSUME NEW names, NEW places, NEW cache \in CacheOf(names, places), Proper(cache), NEW index
  PROVE  /\ Touch(cache, index) \in CacheOf(names, places)
         /\ Proper(Touch(cache, index))
         /\ Entry(cache, index) # {} => Lookup(cache, index) \in places \X Nat
  <1>1. CASE Entry(cache, index) = {}
    BY <1>1 DEF Touch
  <1>2. CASE Entry(cache, index) # {}
    <2> DEFINE E == [index : names \X Nat, start : places \X Nat]
               w == Without(cache, index)
               e == [index |-> index, start |-> Lookup(cache, index)]
    <2>1. cache \in Seq(E) /\ Capacity \in Nat /\ Len(cache) \in Nat
      BY ScansAssumption DEF CacheOf
    <2>2. PICK n \in DOMAIN cache : cache[n].index = index /\ Lookup(cache, index) = cache[n].start
      BY <1>2 DEF Entry, Lookup
    <2> HIDE DEF E
    <2>3. cache[n] \in E
      BY <2>1, <2>2
    <2>4. e \in E
      BY <2>2, <2>3 DEF E
    <2>5. /\ w \in CacheOf(names, places) /\ Proper(w) /\ Len(w) = Len(cache) - 1
          /\ \A m \in DOMAIN w : w[m].index # index
      BY <1>2, WithoutInv
    <2> w \in Seq(E)
      BY <2>5 DEF CacheOf, E
    <2>6. e.index = index /\ Lookup(cache, index) \in places \X Nat
      BY <2>2, <2>3 DEF E
    <2>7. Touch(cache, index) = Append(w, e)
      BY <1>2 DEF Touch
    <2> HIDE DEF w, e, E
    <2>8. /\ Append(w, e) \in Seq(E) /\ Len(Append(w, e)) = Len(w) + 1
          /\ \A l, m \in DOMAIN Append(w, e) : Append(w, e)[l].index = Append(w, e)[m].index => l = m
      BY <2>4, <2>5, <2>6, AppendInv DEF Proper
    <2>9. Len(Append(w, e)) <= Capacity
      BY <2>1, <2>5, <2>8 DEF Proper
    <2>10. QED BY <2>6, <2>7, <2>8, <2>9 DEF CacheOf, Proper, E
  <1>3. QED BY <1>1, <1>2

\* An entry that is inserted takes the place of one of its name, or of the oldest.
LEMMA InsertInv ==
  ASSUME NEW names, NEW places, NEW cache \in CacheOf(names, places), Proper(cache),
         NEW index \in names \X Nat, NEW start \in places \X Nat
  PROVE  /\ Insert(cache, index, start) \in CacheOf(names, places)
         /\ Proper(Insert(cache, index, start))
  <1> DEFINE E == [index : names \X Nat, start : places \X Nat]
             w == Without(cache, index)
             e == [index |-> index, start |-> start]
             a == Append(w, e)
  <1>1. Capacity \in Nat \ {0}
    BY ScansAssumption
  <1> w \in CacheOf(names, places) /\ Proper(w) /\ \A m \in DOMAIN w : w[m].index # index
    BY WithoutInv
  <1> HIDE DEF w
  <1>2. w \in Seq(E) /\ Proper(w) /\ \A m \in DOMAIN w : w[m].index # index
    BY DEF CacheOf
  <1>3. e \in E /\ e.index = index
    OBVIOUS
  <1>4. Insert(cache, index, start) = Trim(a)
    BY DEF Insert, w
  <1> HIDE DEF e, E
  <1>5. /\ a \in Seq(E) /\ Len(a) = Len(w) + 1
        /\ \A m, n \in DOMAIN a : a[m].index = a[n].index => m = n
    BY <1>2, <1>3, AppendInv DEF Proper
  <1>6. Len(w) \in Nat /\ Len(w) <= Capacity
    BY <1>2 DEF Proper
  <1> HIDE DEF a
  <1>7. CASE Len(a) <= Capacity
    <2>1. Trim(a) = a
      BY <1>1, <1>5, <1>6, <1>7 DEF Trim
    <2>2. QED BY <1>4, <1>5, <1>7, <2>1 DEF CacheOf, Proper, E
  <1>8. CASE ~(Len(a) <= Capacity)
    <2> DEFINE trimmed == SubSeq(a, 2, Len(a))
    <2>1. Len(a) = Capacity + 1 /\ Len(a) - Capacity + 1 = 2
      BY <1>1, <1>5, <1>6, <1>8
    <2> Len(a) > Capacity
      BY <1>1, <2>1
    <2>2. Trim(a) = trimmed
      BY <2>1, Zenon DEF Trim
    <2>3. \A i \in 2 .. Len(a) : a[i] \in E
      BY <1>5
    <2>4. /\ trimmed \in Seq(E) /\ Len(trimmed) = IF 2 <= Len(a) THEN Len(a) - 2 + 1 ELSE 0
          /\ \A i \in 1 .. Len(a) - 2 + 1 : trimmed[i] = a[2 + i - 1]
      BY <1>5, <2>3, SubSeqProperties
    <2> HIDE DEF trimmed
    <2>5. Len(trimmed) = Capacity /\ \A i \in 1 .. Capacity : trimmed[i] = a[i + 1]
      BY <1>1, <2>1, <2>4
    <2>6. ASSUME NEW m \in DOMAIN trimmed, NEW n \in DOMAIN trimmed, trimmed[m].index = trimmed[n].index
          PROVE  m = n
      <3>1. m \in 1 .. Capacity /\ n \in 1 .. Capacity
        BY <2>4, <2>5
      <3>2. m + 1 \in DOMAIN a /\ n + 1 \in DOMAIN a
        BY <1>1, <1>5, <2>1, <3>1
      <3>3. m + 1 = n + 1
        BY <1>5, <2>5, <2>6, <3>1, <3>2
      <3>4. QED BY <3>1, <3>3
    <2>7. QED BY <1>1, <1>4, <2>2, <2>4, <2>5, <2>6 DEF CacheOf, Proper, E
  <1>9. QED BY <1>7, <1>8

----------------------------------------------------------------------------
(* The steps.                                                               *)

DataTypesAsked == {q.dtype : q \in {r \in Requests : r.op = "Scan"}}

Patterns == {q.pattern : q \in Requests}

CachesInv ==
  /\ cursors \in CacheOf(DataTypesAsked, Dbs) /\ Proper(cursors)
  /\ DOMAIN points = Collections
  /\ \A c \in Collections : points[c] \in CacheOf(Patterns, {c}) /\ Proper(points[c])

\* ScansInv in parts.
LEMMA InvParts ==
  ScansInv <=>
    /\ db \in [Places -> [Keys -> Record]] /\ changes \in 0 .. MaxChanges
    /\ versions \in [Collections -> Incarnations]
    /\ CachesInv
    /\ scan \in [Scanners -> {Idle} \cup OutsideCall \cup InsideCall]
    /\ \A s \in Scanners : ScanInv(scan[s])
  BY DEF ScansInv, CursorsInv, ScansTypeOK, CachesInv, DataTypesAsked, Patterns

\* The same of the state a step leads to.
LEMMA InvPartsPrime ==
  ScansInv' <=>
    /\ db' \in [Places -> [Keys -> Record]] /\ changes' \in 0 .. MaxChanges
    /\ versions' \in [Collections -> Incarnations]
    /\ CachesInv'
    /\ scan' \in [Scanners -> {Idle} \cup OutsideCall \cup InsideCall]
    /\ \A s \in Scanners : ScanInv(scan[s])'
  BY DEF ScansInv, CursorsInv, ScansTypeOK, CachesInv, DataTypesAsked, Patterns

\* A step of one scanner leaves the scans of the others alone.
LEMMA ScannerInv ==
  ASSUME ScansInv, NEW s \in Scanners, NEW x \in OutsideCall \cup InsideCall,
         scan' = [scan EXCEPT ![s] = x], UNCHANGED <<db, versions, changes>>,
         CachesInv', ScanInv(x)
  PROVE  ScansInv'
  <1>1. scan' \in [Scanners -> {Idle} \cup OutsideCall \cup InsideCall]
    BY InvParts
  <1>2. ASSUME NEW u \in Scanners
        PROVE  ScanInv(scan[u])'
    <2>1. scan'[u] = IF u = s THEN x ELSE scan[u]
      BY InvParts
    <2>2. ScanInv(scan'[u])
      BY <2>1, InvParts
    <2>3. ASSUME NEW state
          PROVE  ScanInv(state)' = ScanInv(state)
      BY DEF ScanInv, Matching, OwnStart, InPlace, Passed, Place
    <2>4. QED BY <2>2, <2>3 DEF ScanInv, Matching, OwnStart, InPlace, Passed, Place, Asked, InRange, Way, FirstDb, Dbs
  <1>3. QED BY <1>1, <1>2, InvParts, InvPartsPrime

\* What a scan of the databases has behind it.
LEMMA PassedByScan ==
  ASSUME NEW state, state.request.op = "Scan", NEW t, NEW k
  PROVE  LET p == Place(state)
         IN  Passed(state, t, k) <=> t \in 1 .. p[1] /\ (t < p[1] \/ k < p[2])
  BY DEF Passed, RangeScans, CollectionScans

\* What a scan knows when it returns a batch.
LEMMA ReturningIs ==
  ASSUME NEW s, scan[s] \in OutsideCall \cup InsideCall, NEW batch \in SUBSET (Places \X Keys)
  PROVE  LET r == Returning(s, batch)
         IN  /\ r \in OutsideCall \cup InsideCall
             /\ scan[s] \in InsideCall => r \in InsideCall
             /\ r.at = scan[s].at /\ r.request = scan[s].request /\ r.cursor = scan[s].cursor
             /\ r.own = scan[s].own /\ r.stayed = scan[s].stayed
             /\ r.disturbed = scan[s].disturbed /\ r.astray = scan[s].astray
             /\ r.found = scan[s].found \cup batch
             /\ r.twice = (scan[s].twice \/ batch \cap scan[s].found # {})
  <1>1. CASE scan[s] \in OutsideCall
    BY <1>1 DEF Returning, OutsideCall, InsideCall
  <1>2. CASE scan[s] \in InsideCall
    BY <1>2 DEF Returning, InsideCall
  <1>3. QED BY <1>1, <1>2

\* The start that a scan without one of its own takes is before all that it seeks.
LEMMA FirstPlace ==
  ASSUME ScansInv, NEW q \in Requests, NEW e \in Matching(q)
  PROVE  /\ e[1] \in Places /\ e[2] \in Keys /\ e[2] \in Nat
         /\ e[2] \in q.pattern.matches /\ InRange(q, e[2])
         /\ db[e[1]][e[2]] = "live"
         /\ q.pattern.prefix <= e[2] /\ q.pattern.prefix \in Nat
         /\ q.op # "Scan" => e[1] = q.place
         /\ q.op = "Scan" => /\ e[1] \in Dbs /\ FirstDb(q.dtype) \in Dbs
                             /\ FirstDb(q.dtype) <= e[1]
                             /\ q.dtype # All => Types[e[1]] = q.dtype
  <1>1. /\ e[1] \in Asked(q) /\ e[2] \in Keys /\ e[2] \in q.pattern.matches /\ InRange(q, e[2])
        /\ db[e[1]][e[2]] = "live"
    BY DEF Matching
  <1>2. e[2] \in Nat /\ q.pattern.prefix \in Nat
    BY <1>1, ScansAssumption, RequestsAssumption
  <1>3. q.pattern.prefix <= e[2]
    BY <1>1, <1>2, PrefixAssumption
  <1>4. CASE q.op = "Scan"
    <2>1. e[1] \in Dbs /\ q.dtype \in {All, Types[e[1]]}
      BY <1>1, <1>4 DEF Asked
    <2>2. q.dtype = All \/ \E t \in Dbs : q.dtype = Types[t]
      BY <1>4, RequestsAssumption
    <2>3. CASE q.dtype = All
      <3>1. FirstDb(q.dtype) = 1
        BY <2>3 DEF FirstDb
      <3>2. QED BY <1>1, <1>2, <1>3, <1>4, <2>1, <2>3, <3>1, ScansAssumption DEF Dbs, Places
    <2>4. CASE q.dtype # All
      <3>1. Types[e[1]] = q.dtype
        BY <2>1, <2>4
      <3>2. FirstDb(q.dtype) = CHOOSE t \in Dbs : Types[t] = q.dtype
        BY <2>4 DEF FirstDb
      <3>3. FirstDb(q.dtype) \in Dbs /\ Types[FirstDb(q.dtype)] = q.dtype
        BY <2>1, <3>1, <3>2
      <3>4. FirstDb(q.dtype) = e[1]
        BY <2>1, <3>1, <3>3, ScansAssumption
      <3>5. QED BY <1>1, <1>2, <1>3, <1>4, <2>1, <3>1, <3>4 DEF Dbs, Places
    <2>5. QED BY <2>3, <2>4
  <1>5. CASE q.op # "Scan"
    <2>1. e[1] = q.place /\ q.place \in Places
      BY <1>1, <1>5, RequestsAssumption DEF Asked, Places
    <2>2. QED BY <1>1, <1>2, <1>3, <1>5, <2>1
  <1>6. QED BY <1>4, <1>5

\* A request names places, a pattern and, if it is a Scan, a type that are there.
LEMMA AskedPlaces ==
  ASSUME NEW q \in Requests
  PROVE  /\ Matching(q) \in SUBSET (Places \X Keys)
         /\ q.op = "Scan" => q.dtype \in DataTypesAsked /\ FirstDb(q.dtype) \in Dbs
         /\ q.op # "Scan" => q.place \in Places
         /\ q.pattern \in Patterns
  <1>1. Asked(q) \subseteq Places /\ (q.op # "Scan" => q.place \in Places)
    BY RequestsAssumption DEF Asked, Places
  <1>2. q.op = "Scan" => FirstDb(q.dtype) \in Dbs
    <2>1. CASE q.op = "Scan" /\ q.dtype = All
      BY <2>1, ScansAssumption DEF FirstDb, Dbs
    <2>2. CASE q.op = "Scan" /\ q.dtype # All
      <3>1. \E t \in Dbs : q.dtype = Types[t]
        BY <2>2, RequestsAssumption
      <3>2. QED BY <2>2, <3>1 DEF FirstDb
    <2>3. QED BY <2>1, <2>2
  <1>3. QED BY <1>1, <1>2 DEF Matching, DataTypesAsked, Patterns

\* A scan begins with nothing behind it.
LEMMA BeginInv ==
  ASSUME ScansInv, NEW s \in Scanners, Begin(s)
  PROVE  ScansInv'
  <1>1. PICK q \in Requests :
          scan' = [scan EXCEPT ![s] =
            [at |-> "between", request |-> q, found |-> {}, twice |-> FALSE,
             cursor |-> IF q.op \in {"Scan", "HScan", "SScan", "ZScan"} THEN 0 ELSE q.from,
             stayed |-> Matching(q), own |-> NoStart,
             disturbed |-> FALSE, astray |-> FALSE]]
    BY DEF Begin
  <1> DEFINE cursor == IF q.op \in {"Scan", "HScan", "SScan", "ZScan"} THEN 0 ELSE q.from
             x == [at |-> "between", request |-> q, found |-> {}, twice |-> FALSE,
                   cursor |-> cursor,
                   stayed |-> Matching(q), own |-> NoStart,
             disturbed |-> FALSE, astray |-> FALSE]
  <1>2. cursor \in Nat /\ (q.op \in RangeScans => cursor = q.from)
    BY RequestsAssumption DEF CollectionScans, RangeScans
  <1>3. x \in OutsideCall
    BY <1>2, AskedPlaces DEF OutsideCall, Starts
  <1>4. OwnStart(x)
    BY DEF OwnStart
  <1>5. ASSUME NEW e \in Matching(q)
        PROVE  ~Passed(x, e[1], e[2])
    <2>1. CASE q.op \in RangeScans
      <3>1. Passed(x, e[1], e[2]) <=> cursor # 0 /\ Way(q) * e[2] < Way(q) * cursor
        BY <2>1 DEF Passed, RangeScans, CollectionScans
      <3>2. q.from = 0 \/ Way(q) * q.from <= Way(q) * e[2]
        BY <2>1, FirstPlace DEF InRange
      <3>3. Way(q) \in {1, -1} /\ q.from \in Nat /\ e[2] \in Nat
        BY <2>1, FirstPlace, RequestsAssumption DEF Way
      <3>4. QED BY <1>2, <2>1, <3>1, <3>2, <3>3, Directed
    <2>2. CASE q.op \notin RangeScans
      <3>1. Place(x) = <<IF q.op = "Scan" THEN FirstDb(q.dtype) ELSE q.place, q.pattern.prefix>>
        BY DEF Place
      <3>2. ~(e[2] < q.pattern.prefix)
        BY FirstPlace
      <3>3. q.op = "Scan" => ~(e[1] < FirstDb(q.dtype))
        BY FirstPlace DEF Dbs
      <3>4. Passed(x, e[1], e[2]) => (q.op = "Scan" /\ e[1] < FirstDb(q.dtype)) \/ e[2] < q.pattern.prefix
        BY <2>2, <3>1 DEF Passed
      <3>5. QED BY <3>2, <3>3, <3>4
    <2>3. QED BY <2>1, <2>2
  <1>6. InPlace(x)
    BY <1>5 DEF InPlace
  <1>7. ScanInv(x)
    BY <1>4, <1>6 DEF ScanInv
  <1>8. CachesInv'
    BY InvParts DEF Begin, CachesInv, Proper
  <1>9. UNCHANGED <<db, versions, changes>> /\ scan' = [scan EXCEPT ![s] = x]
    BY <1>1 DEF Begin
  <1> HIDE DEF x
  <1>10. QED BY <1>3, <1>7, <1>8, <1>9, ScannerInv

\* Call takes the start it left, or the first, unless another's or none was there.
LEMMA CallInv ==
  ASSUME ScansInv, NEW s \in Scanners, Call(s)
  PROVE  ScansInv'
  <1> DEFINE y     == scan[s]
             q     == y.request
             index == <<q.dtype, y.cursor>>
             known == Entry(cursors, index) # {}
             start == IF known THEN Lookup(cursors, index)
                      ELSE <<FirstDb(q.dtype), q.pattern.prefix>>
             x == [at |-> "inside", request |-> q, found |-> y.found, twice |-> y.twice,
                   cursor |-> IF known THEN y.cursor ELSE 0, stayed |-> y.stayed,
                   db |-> start[1], start |-> start[2], leftover |-> q.count,
                   own |-> y.own, astray |-> y.astray,
                   disturbed |-> y.disturbed \/ y.own # IF known THEN start ELSE NoStart]
  <1>1. y \in OutsideCall /\ y.at = "between" /\ q.op = "Scan" /\ ScanInv(y)
    BY InvParts DEF Call, Asks, OutsideCall, InsideCall, Idle
  <1>2. q \in Requests /\ q.count \in Nat /\ q.pattern.prefix \in Nat
    BY <1>1, RequestsAssumption DEF OutsideCall
  <1>3. cursors \in CacheOf(DataTypesAsked, Dbs) /\ Proper(cursors)
    BY InvParts DEF CachesInv
  <1>4. start \in Dbs \X Nat
    BY <1>1, <1>2, <1>3, AskedPlaces, TouchInv
  <1>5. scan' = [scan EXCEPT ![s] = x] /\ cursors' = Touch(cursors, index) /\ UNCHANGED <<db, versions, points, changes>>
    BY DEF Call
  <1>6. CachesInv'
    <2>1. Touch(cursors, index) \in CacheOf(DataTypesAsked, Dbs) /\ Proper(Touch(cursors, index))
      BY <1>3, TouchInv
    <2>2. QED BY <1>5, <2>1, InvParts DEF CachesInv, Proper
  <1>7. start[1] \in Dbs /\ start[2] \in Nat /\ start = <<start[1], start[2]>>
    BY <1>4
  <1>8. y.own # NoStart /\ ~x.disturbed => start = y.own
    OBVIOUS
  <1>9. y.own = NoStart /\ ~x.disturbed => start = <<FirstDb(q.dtype), q.pattern.prefix>>
    <2>1. NoStart \notin Dbs \X Nat
      BY ScansAssumption DEF Places
    <2>2. QED BY <1>4, <2>1
  <1> HIDE DEF start, known, index
  <1>10. x \in InsideCall
    BY <1>1, <1>2, <1>7 DEF OutsideCall, InsideCall
  <1>11. ~x.disturbed => Place(x) = Place(y)
    BY <1>1, <1>7, <1>8, <1>9 DEF Place
  <1>12. ~x.disturbed => OwnStart(x) /\ InPlace(x)
    <2>1. SUFFICES ASSUME ~x.disturbed PROVE OwnStart(x) /\ InPlace(x)
      OBVIOUS
    <2>2. OwnStart(y) /\ InPlace(y)
      BY <1>1, <2>1 DEF ScanInv
    <2>3. OwnStart(x)
      BY <1>1, <2>2 DEF OwnStart
    <2>4. ASSUME NEW t, NEW k
          PROVE  Passed(x, t, k) <=> Passed(y, t, k)
      BY <1>1, <1>11, <2>1 DEF Passed, RangeScans
    <2>5. InPlace(x)
      BY <2>2, <2>4 DEF InPlace
    <2>6. QED BY <2>3, <2>5
  <1>13. ScanInv(x)
    BY <1>1, <1>12 DEF ScanInv
  <1> HIDE DEF x
  <1>14. QED BY <1>5, <1>6, <1>10, <1>13, ScannerInv

\* One database: what it returns is ahead of the place, what it leaves behind is
\* found, and what it leaves ahead is where it goes on.
LEMMA ScanDbInv ==
  ASSUME ScansInv, NEW s \in Scanners, ScanDb(s)
  PROVE  ScansInv'
  <1> DEFINE y == scan[s]
             q == y.request
  <1>1. y \in InsideCall /\ ScanInv(y)
    BY InvParts DEF ScanDb, OutsideCall, Idle
  <1>0. PICK t \in Dbs, start \in Nat, count \in Int :
           t = y.db /\ start = y.start /\ count = y.leftover
    BY <1>1 DEF InsideCall
  <1>2. /\ y.at = "inside" /\ q \in Requests /\ q.op = "Scan" /\ t \in Places
        /\ y.cursor \in Nat /\ y.disturbed \in BOOLEAN
    BY <1>1 DEF InsideCall, ScanInv, Places
  <1> DEFINE visited == Visited(t, start, count)
             rest  == Rest(t, start, count)
             batch == {<<t, k>> : k \in visited \cap q.pattern.matches}
             r     == Returning(s, batch)
             cursor == y.cursor + q.count
             leftover == count - Cardinality(visited)
  <1>3. q.count \in Nat /\ q.pattern.prefix \in Nat /\ cursor \in Nat /\ Keys \subseteq Nat
    BY <1>2, RequestsAssumption, ScansAssumption
  <1>4. /\ visited \in SUBSET Keys /\ \A v \in visited : start <= v /\ db[t][v] = "live"
        /\ rest \in SUBSET Keys /\ \A k \in rest : start <= k
        /\ \A v \in visited, k \in rest : v < k
        /\ \A k \in Keys \ visited : start <= k /\ db[t][k] = "live" => k \in rest
    BY VisitedAndRest
  <1>5. leftover \in Int
    <2>1. IsFiniteSet(visited)
      BY <1>4, SomeKeys
    <2>2. QED BY <1>2, <2>1, FS_CardinalityType
  <1>6. Return(s) = batch
    BY <1>0 DEF Return
  <1>7. batch \in SUBSET (Places \X Keys)
    BY <1>2, <1>4
  <1>8. rest # {} => Least(rest) \in rest /\ Least(rest) \in Nat /\ \A k \in rest : Least(rest) <= k
    BY <1>3, <1>4, LeastIsLeast
  <1> HIDE DEF visited, rest
  <1>9. /\ r \in InsideCall /\ r.at = "inside" /\ r.request = q /\ r.cursor = y.cursor
        /\ r.own = y.own /\ r.stayed = y.stayed /\ r.disturbed = y.disturbed
        /\ r.found = y.found \cup batch
        /\ r.twice = (y.twice \/ batch \cap y.found # {})
    BY <1>1, <1>2, <1>7, ReturningIs
  <1> HIDE DEF r
  <1>10. y.stayed \subseteq Matching(q)
    BY <1>1, <1>2 DEF ScanInv
  <1>11. \A e \in y.stayed : /\ e \in Dbs \X Keys /\ e = <<e[1], e[2]>> /\ e[1] \in Dbs /\ e[1] \in Int
                             /\ e[2] \in Keys /\ e[2] \in Nat /\ e[2] \in q.pattern.matches
                             /\ db[e[1]][e[2]] = "live" /\ q.pattern.prefix <= e[2]
                             /\ q.dtype # All => Types[e[1]] = q.dtype
    <2>1. \A e \in y.stayed : e \in Places \X Keys
      BY <1>1 DEF InsideCall
    <2>2. QED BY <1>2, <1>10, <2>1, FirstPlace DEF Dbs
  \* Of an undisturbed scan: nothing is returned again, and what is behind is found.
  <1>12. ~y.disturbed =>
           /\ ~r.twice
           /\ \A e \in r.found : e[1] \in 1 .. t /\ (e[1] < t \/ e[2] < start \/ e[2] \in visited)
           /\ \A e \in r.stayed \ r.found : t < e[1] \/ (e[1] = t /\ e[2] \in rest)
    <2>1. SUFFICES ASSUME ~y.disturbed
                   PROVE  /\ ~r.twice
                          /\ \A e \in r.found : e[1] \in 1 .. t /\ (e[1] < t \/ e[2] < start \/ e[2] \in visited)
                          /\ \A e \in r.stayed \ r.found : t < e[1] \/ (e[1] = t /\ e[2] \in rest)
      OBVIOUS
    <2>2. InPlace(y)
      BY <1>1, <1>2, <2>1 DEF ScanInv
    <2>3. ASSUME NEW u, NEW k
          PROVE  Passed(y, u, k) <=> u \in 1 .. t /\ (u < t \/ k < start)
      BY <1>2, <1>0, PassedByScan DEF Place
    <2>4. ~y.twice /\ \A e \in y.found : e[1] \in 1 .. t /\ (e[1] < t \/ e[2] < start)
      BY <2>2, <2>3 DEF InPlace
    <2>5. \A e \in y.stayed \ y.found : ~(e[1] \in 1 .. t /\ (e[1] < t \/ e[2] < start))
      BY <2>2, <2>3 DEF InPlace
    <2>6. \A e \in batch : e[1] = t /\ e[2] \in visited /\ e[2] \in Nat /\ e[2] >= start
      BY <1>3, <1>4
    <2>7. ~r.twice
      <3>1. ASSUME NEW e \in batch, e \in y.found PROVE FALSE
        BY <1>2, <2>4, <2>6, <3>1 DEF Dbs
      <3>2. QED BY <1>9, <2>4, <3>1
    <2>8. ASSUME NEW e \in r.stayed \ r.found
          PROVE  t < e[1] \/ (e[1] = t /\ e[2] \in rest)
      <3>1. e \in y.stayed \ y.found /\ e \notin batch
        BY <1>9
      <3>2. t \in Nat \ {0} /\ e[1] \in Nat \ {0}
        BY <1>2, <1>9, <1>11 DEF Dbs
      <3>3. CASE e[1] = t
        <4>1. e[2] \notin visited
          BY <1>11, <3>1, <3>3
        <4>2. start <= e[2]
          BY <1>2, <1>11, <2>5, <3>1, <3>2, <3>3
        <4>3. QED BY <1>4, <1>11, <3>1, <3>3, <4>1, <4>2
      <3>4. CASE e[1] # t
        <4>1. ~(e[1] \in 1 .. t /\ e[1] < t)
          BY <2>5, <3>1
        <4>2. t \in Int /\ e[1] \in Int /\ 1 <= e[1]
          BY <3>2
        <4>3. e[1] < t => e[1] \in 1 .. t
          BY <4>2
        <4>4. t < e[1]
          BY <3>4, <4>1, <4>2, <4>3
        <4>5. QED BY <4>4
      <3>5. QED BY <3>3, <3>4
    <2>9. ASSUME NEW e \in r.found
          PROVE  e[1] \in 1 .. t /\ (e[1] < t \/ e[2] < start \/ e[2] \in visited)
      <3>1. t \in 1 .. t
        BY <1>2 DEF Dbs
      <3>2. e \in y.found \/ e \in batch
        BY <1>9
      <3>3. CASE e \in y.found
        BY <2>4, <3>3
      <3>4. CASE e \in batch
        BY <2>6, <3>1, <3>4
      <3>5. QED BY <3>2, <3>3, <3>4
    <2>10. QED BY <2>7, <2>8, <2>9
  <1>13. ~Unfinished(rest, q.pattern) => \A e \in y.stayed : e[2] \notin rest
    <2>1. rest \in SUBSET Keys
      BY <1>4
    <2>2. QED BY <1>2, <1>11, <2>1, NothingLeft
  <1>14. ~Unfinished(rest, q.pattern) /\ ~y.disturbed =>
           \A e \in r.stayed \ r.found : t < e[1]
    BY <1>9, <1>12, <1>13
  \* The scan stops at a place p: there it finds itself again.
  <1>15. ASSUME NEW p \in Dbs \X Nat, Suspend(s, batch, p), UNCHANGED <<db, versions, points, changes>>,
                ~y.disturbed =>
                  /\ \A e \in r.found : e[1] \in 1 .. p[1] /\ (e[1] < p[1] \/ e[2] < p[2])
                  /\ \A e \in r.stayed \ r.found :
                       ~(e[1] \in 1 .. p[1] /\ (e[1] < p[1] \/ e[2] < p[2]))
         PROVE  ScansInv'
    <2> DEFINE x == Leave(r, "between", cursor, p)
    <2>1. scan' = [scan EXCEPT ![s] = x] /\ cursors' = Insert(cursors, <<q.dtype, cursor>>, p)
      BY <1>15 DEF Suspend, r
    <2>2. /\ x.at = "between" /\ x.request = q /\ x.cursor = cursor /\ x.found = r.found
          /\ x.twice = r.twice /\ x.stayed = r.stayed /\ x.own = p /\ x.disturbed = y.disturbed
      BY <1>9 DEF Leave
    <2>3. x \in OutsideCall
      BY <1>3, <1>9 DEF Leave, OutsideCall, InsideCall, Starts, Places
    <2> HIDE DEF x
    <2>4. p # NoStart
      BY ScansAssumption DEF Places
    <2>5. Place(x) = p
      BY <2>2, <2>4 DEF Place
    <2>6. ASSUME NEW u, NEW k
          PROVE  Passed(x, u, k) <=> u \in 1 .. p[1] /\ (u < p[1] \/ k < p[2])
      BY <1>2, <2>2, <2>5, PassedByScan
    <2>7. ~x.disturbed => OwnStart(x) /\ InPlace(x)
      <3>1. OwnStart(x)
        BY <1>2, <2>2 DEF OwnStart, RangeScans, CollectionScans
      <3>2. ~x.disturbed => InPlace(x)
        BY <1>12, <1>15, <2>2, <2>6 DEF InPlace
      <3>3. QED BY <3>1, <3>2
    <2>8. ScanInv(x)
      BY <1>9, <1>10, <2>2, <2>7 DEF ScanInv
    <2>9. CachesInv'
      <3>1. cursors \in CacheOf(DataTypesAsked, Dbs) /\ Proper(cursors)
        BY InvParts DEF CachesInv
      <3>2. <<q.dtype, cursor>> \in DataTypesAsked \X Nat
        BY <1>2, <1>3, AskedPlaces
      <3>3. cursors' \in CacheOf(DataTypesAsked, Dbs) /\ Proper(cursors')
        BY <2>1, <3>1, <3>2, InsertInv
      <3>4. QED BY <1>15, <3>3, InvParts DEF CachesInv, Proper
    <2>10. QED BY <1>15, <2>1, <2>3, <2>8, <2>9, ScannerInv
  <1>16. CASE Unfinished(rest, q.pattern)
    <2> DEFINE p == <<t, Least(rest)>>
    <2>1. Suspend(s, batch, p) /\ UNCHANGED <<db, versions, points, changes>>
      BY <1>6, <1>0, <1>16 DEF ScanDb, visited, rest
    <2>2. Least(rest) \in rest /\ Least(rest) \in Nat /\ \A k \in rest : Least(rest) <= k
      BY <1>8, <1>16 DEF Unfinished
    <2>3. start <= Least(rest) /\ \A v \in visited : v < Least(rest)
      BY <1>4, <2>2
    <2>4. p \in Dbs \X Nat /\ p[1] = t /\ p[2] = Least(rest)
      BY <1>2, <2>2
    <2>5. ~y.disturbed =>
                  /\ \A e \in r.found : e[1] \in 1 .. p[1] /\ (e[1] < p[1] \/ e[2] < p[2])
                  /\ \A e \in r.stayed \ r.found :
                       ~(e[1] \in 1 .. p[1] /\ (e[1] < p[1] \/ e[2] < p[2]))
      <3>1. \A e \in r.found : e[2] \in Nat
        BY <1>3, <1>9 DEF InsideCall
      <3>2. ~y.disturbed => \A e \in r.found : e[1] \in 1 .. t /\ (e[1] < t \/ e[2] < Least(rest))
        BY <1>2, <1>12, <2>2, <2>3, <3>1
      <3>3. t \in Int /\ \A e \in r.stayed : e[1] \in Int /\ e[2] \in Nat
        BY <1>2, <1>9, <1>11 DEF Dbs
      <3>4. ~y.disturbed => \A e \in r.stayed \ r.found : ~(e[1] \in 1 .. t /\ (e[1] < t \/ e[2] < Least(rest)))
        BY <1>12, <2>2, <3>3
      <3>5. QED BY <2>4, <3>2, <3>4
    <2>6. QED BY <1>15, <2>1, <2>4, <2>5
  <1>17. CASE ~Unfinished(rest, q.pattern) /\ (q.dtype = Types[t] \/ t = Len(Types))
    <2> DEFINE x == Leave(r, "done", 0, NoStart)
    <2>1. scan' = [scan EXCEPT ![s] = x] /\ UNCHANGED <<db, versions, cursors, points, changes>>
      BY <1>6, <1>0, <1>17 DEF ScanDb, visited, rest, End, r
    <2>2. /\ x.at = "done" /\ x.request = q /\ x.found = r.found
          /\ x.twice = r.twice /\ x.stayed = r.stayed /\ x.disturbed = y.disturbed
      BY <1>9 DEF Leave
    <2>3. x \in OutsideCall
      BY <1>9 DEF Leave, OutsideCall, InsideCall, Starts
    <2> HIDE DEF x
    <2>4. ASSUME NEW e \in r.stayed
          PROVE  ~(t < e[1])
      <3>1. e[1] \in Dbs /\ (q.dtype # All => Types[e[1]] = q.dtype)
        BY <1>9, <1>11
      <3>2. CASE t = Len(Types)
        BY <1>2, <3>1, <3>2 DEF Dbs
      <3>3. CASE q.dtype = Types[t]
        <4>1. q.dtype # All
          BY <1>2, <3>3, ScansAssumption
        <4>2. e[1] = t
          BY <1>2, <3>1, <3>3, <4>1, ScansAssumption
        <4>3. QED BY <1>2, <4>2 DEF Dbs
      <3>4. QED BY <1>17, <3>2, <3>3
    <2>5. ~x.disturbed => ~x.twice /\ x.stayed \subseteq x.found
      BY <1>12, <1>14, <1>17, <2>2, <2>4
    <2>6. ScanInv(x)
      BY <2>2, <2>5 DEF ScanInv
    <2>7. CachesInv'
      BY <2>1, InvParts DEF CachesInv, Proper
    <2>8. QED BY <2>1, <2>3, <2>6, <2>7, ScannerInv
  <1>18. CASE ~Unfinished(rest, q.pattern) /\ ~(q.dtype = Types[t] \/ t = Len(Types))
    <2>1. t + 1 \in Dbs /\ t \in Int
      BY <1>2, <1>18, ScansAssumption DEF Dbs
    <2>2. ~y.disturbed =>
            /\ \A e \in r.found : e[1] \in 1 .. t + 1 /\ (e[1] < t + 1 \/ e[2] < q.pattern.prefix)
            /\ \A e \in r.stayed \ r.found :
                 ~(e[1] \in 1 .. t + 1 /\ (e[1] < t + 1 \/ e[2] < q.pattern.prefix))
      <3>1. ~y.disturbed => \A e \in r.found : e[1] \in 1 .. t
        BY <1>12
      <3>3. \A e \in r.stayed : e[1] \in Int /\ e[2] \in Nat /\ q.pattern.prefix <= e[2]
        BY <1>9, <1>11
      <3>4. ~y.disturbed => \A e \in r.stayed \ r.found : t < e[1]
        BY <1>14, <1>18
      <3>5. QED BY <1>3, <2>1, <3>1, <3>3, <3>4
    <2>3. CASE leftover = 0
      <3> DEFINE p == <<t + 1, q.pattern.prefix>>
      <3>1. Suspend(s, batch, p) /\ UNCHANGED <<db, versions, points, changes>>
        BY <1>6, <1>0, <1>18, <2>3 DEF ScanDb, visited, rest
      <3>2. p \in Dbs \X Nat /\ p[1] = t + 1 /\ p[2] = q.pattern.prefix
        BY <1>3, <2>1
      <3> HIDE DEF p
      <3>3. QED BY <1>15, <2>2, <3>1, <3>2
    <2>4. CASE leftover # 0
      <3> DEFINE x == [r EXCEPT !.db = @ + 1, !.start = q.pattern.prefix, !.leftover = leftover]
      <3>1. scan' = [scan EXCEPT ![s] = x] /\ UNCHANGED <<db, versions, cursors, points, changes>>
        BY <1>6, <1>0, <1>18, <2>4 DEF ScanDb, visited, rest, GoOn, r
      <3>2. r.db = t
        BY <1>1, <1>2, <1>0 DEF Returning, InsideCall, r
      <3>3. x \in InsideCall
        BY <1>3, <1>5, <1>9, <2>1, <3>2 DEF InsideCall
      <3>4. /\ x.at = "inside" /\ x.request = q /\ x.found = r.found /\ x.own = y.own
            /\ x.twice = r.twice /\ x.stayed = r.stayed /\ x.disturbed = y.disturbed
            /\ x.db = t + 1 /\ x.start = q.pattern.prefix
        BY <1>9, <3>2 DEF InsideCall
      <3> HIDE DEF x
      <3>5. ASSUME NEW u, NEW k
            PROVE  Passed(x, u, k) <=> u \in 1 .. t + 1 /\ (u < t + 1 \/ k < q.pattern.prefix)
        BY <1>2, <3>4, PassedByScan DEF Place
      <3>6. ~x.disturbed => InPlace(x)
        BY <1>12, <2>2, <3>4, <3>5 DEF InPlace
      <3>7. ~x.disturbed => OwnStart(x)
        BY <1>1, <1>2, <3>4 DEF ScanInv, OwnStart
      <3>8. ScanInv(x)
        BY <1>2, <1>9, <1>10, <3>4, <3>6, <3>7 DEF ScanInv
      <3>9. CachesInv'
        BY <3>1, InvParts DEF CachesInv, Proper
      <3>10. QED BY <3>1, <3>3, <3>8, <3>9, ScannerInv
    <2>5. QED BY <2>3, <2>4
  <1>19. QED BY <1>16, <1>17, <1>18

\* A call of HScan, SScan or ZScan is a lookup, one visit and a start that is left.
LEMMA CollectionInv ==
  ASSUME ScansInv, NEW s \in Scanners, scan[s].at = "between",
         scan[s].request.op \in CollectionScans, ScanCollection(s)
  PROVE  ScansInv'
  <1> DEFINE y == scan[s]
             q == y.request
  <1>1. y \in OutsideCall /\ ScanInv(y)
    BY InvParts DEF OutsideCall, InsideCall, Idle
  <1>2. /\ q \in Requests /\ q.op \in CollectionScans /\ q.place \in Collections /\ q.place \in Places
        /\ y.cursor \in Nat /\ y.disturbed \in BOOLEAN /\ q.pattern.prefix \in Nat /\ q.count \in Nat
        /\ Keys \subseteq Nat
    BY <1>1, RequestsAssumption, ScansAssumption DEF OutsideCall, Places
  <1> DEFINE cache == points[q.place]
             index == Point(q, y.cursor)
             known == Entry(cache, index) # {}
             first == IF known THEN Lookup(cache, index) ELSE <<q.place, q.pattern.prefix>>
             cursor == (IF known THEN y.cursor ELSE 0) + q.count
  <1>3. cache \in CacheOf(Patterns, {q.place}) /\ Proper(cache)
    BY <1>2, InvParts DEF CachesInv
  <1>4. first \in {q.place} \X Nat
    <2>1. known => Lookup(cache, index) \in {q.place} \X Nat
      BY <1>3, TouchInv
    <2>2. QED BY <1>2, <2>1
  <1> DEFINE start == first[2]
             visited == VisitedMembers(q.place, start, q)
             rest == {k \in Keys \ visited : db[q.place][k] = "live" /\ k >= start}
             batch == {q.place} \X (visited \cap q.pattern.matches)
             r == Returning(s, batch)
             state == [r EXCEPT !.disturbed = @ \/ y.own # IF known THEN first ELSE NoStart]
             disturbed == y.disturbed \/ y.own # IF known THEN first ELSE NoStart
             touched == Touch(cache, index)
             next == <<q.place, Least(rest)>>
  <1>6. /\ UNCHANGED <<db, versions, cursors, changes>>
        /\ IF \A k \in Keys : db[q.place][k] # "live"
           THEN scan' = [scan EXCEPT ![s] = Leave(y, "done", 0, NoStart)] /\ UNCHANGED points
           ELSE IF Unfinished(rest, q.pattern)
           THEN /\ scan' = [scan EXCEPT ![s] = Leave(state, "between", cursor, next)]
                /\ points' = [points EXCEPT ![q.place] = Insert(touched, Point(q, cursor), next)]
           ELSE /\ scan' = [scan EXCEPT ![s] = Leave(state, "done", 0, NoStart)]
                /\ points' = [points EXCEPT ![q.place] = touched]
    BY DEF ScanCollection, Empty
  <1>5. start \in Nat /\ first = <<q.place, start>>
    BY <1>4
  <1>7. cursor \in Nat /\ index \in Patterns \X Nat /\ Point(q, cursor) \in Patterns \X Nat
    BY <1>2, AskedPlaces DEF Point
  <1>8. touched \in CacheOf(Patterns, {q.place}) /\ Proper(touched)
    BY <1>3, TouchInv
  \* Where an undisturbed call takes up.
  <1>9. ~disturbed => /\ ~y.disturbed /\ Place(y) = <<q.place, start>> /\ q.pattern.prefix <= start
    <2>1. SUFFICES ASSUME ~disturbed PROVE Place(y) = <<q.place, start>> /\ q.pattern.prefix <= start
      OBVIOUS
    <2>2. NoStart \notin {q.place} \X Nat
      BY <1>2, ScansAssumption
    <2>3. OwnStart(y)
      BY <1>1, <2>1 DEF ScanInv
    <2>4. CASE y.own = NoStart
      <3>1. first = <<q.place, q.pattern.prefix>>
        BY <1>4, <2>1, <2>2, <2>4
      <3>2. q.op # "Scan"
        BY <1>2 DEF CollectionScans
      <3>3. Place(y) = <<q.place, q.pattern.prefix>>
        BY <2>4, <3>2 DEF Place
      <3> HIDE DEF first
      <3>4. start = q.pattern.prefix
        BY <3>1
      <3>5. QED BY <1>2, <3>3, <3>4
    <2>5. CASE y.own # NoStart
      <3>1. first = y.own
        BY <2>1, <2>5
      <3>2. QED BY <1>2, <1>5, <2>3, <2>5, <3>1 DEF Place, OwnStart
    <2>6. QED BY <2>4, <2>5
  <1> HIDE DEF cache, index, known, start, first, disturbed, touched
  <1>10. batch \in SUBSET (Places \X Keys)
    BY <1>2 DEF VisitedMembers, Visited
  <1>11. /\ r \in OutsideCall /\ r.request = q /\ r.disturbed = y.disturbed /\ r.stayed = y.stayed /\ r.own = y.own
         /\ r.found = y.found \cup batch /\ r.twice = (y.twice \/ batch \cap y.found # {})
    <2>1. /\ r \in OutsideCall \cup InsideCall /\ r.disturbed = y.disturbed /\ r.at = y.at /\ r.request = q /\ r.stayed = y.stayed
          /\ r.own = y.own
          /\ r.found = y.found \cup batch /\ r.twice = (y.twice \/ batch \cap y.found # {})
      BY <1>1, <1>10, ReturningIs
    <2>2. QED BY <2>1 DEF InsideCall
  <1>12. disturbed \in BOOLEAN
    BY <1>2 DEF disturbed
  <1> HIDE DEF r
  <1>13. /\ state \in OutsideCall /\ state.request = q /\ state.stayed = y.stayed
         /\ state.found = r.found /\ state.twice = r.twice /\ state.disturbed = disturbed
    BY <1>11, <1>12 DEF OutsideCall, disturbed
  <1> HIDE DEF state
  <1>14. y.stayed \subseteq Matching(q) /\ q.op # "Scan" /\ q.op \notin RangeScans
    BY <1>1, <1>2 DEF ScanInv, CollectionScans, RangeScans
  <1>15. \A e \in y.stayed : /\ e = <<e[1], e[2]>> /\ e[1] = q.place /\ e[2] \in Keys /\ e[2] \in Nat
                             /\ e[2] \in q.pattern.matches /\ db[q.place][e[2]] = "live"
    <2>2. ASSUME NEW e \in y.stayed
          PROVE  /\ e = <<e[1], e[2]>> /\ e[1] = q.place /\ e[2] \in Keys /\ e[2] \in Nat
                 /\ e[2] \in q.pattern.matches /\ db[q.place][e[2]] = "live"
      <3>1. e \in Matching(q)
        BY <1>14
      <3>2. e \in Places \X Keys
        BY <1>1 DEF OutsideCall
      <3>3. e = <<e[1], e[2]>>
        BY <3>2
      <3>4. QED BY <1>2, <1>14, <3>1, <3>3, FirstPlace
    <2>3. QED BY <2>2
  <1>16. rest \in SUBSET Keys /\ \A k \in rest : start <= k
    BY <1>2, <1>5
  <1>17. rest # {} => Least(rest) \in rest /\ Least(rest) \in Nat /\ \A k \in rest : Least(rest) <= k
    BY <1>2, <1>16, LeastIsLeast
  \* Of an undisturbed scan: nothing is returned again, and what is behind is found.
  <1>18. ~disturbed =>
           /\ ~r.twice /\ \A v \in visited, k \in rest : v < k
           /\ \A e \in r.found : e[2] \in Nat /\ (e[2] < start \/ e[2] \in visited)
           /\ \A e \in r.stayed \ r.found : e[2] \in rest
    <2>1. SUFFICES ASSUME ~disturbed
                   PROVE  /\ ~r.twice /\ \A v \in visited, k \in rest : v < k
                          /\ \A e \in r.found : e[2] \in Nat /\ (e[2] < start \/ e[2] \in visited)
                          /\ \A e \in r.stayed \ r.found : e[2] \in rest
      OBVIOUS
    <2>2. InPlace(y) /\ Place(y) = <<q.place, start>> /\ q.pattern.prefix <= start
      BY <1>1, <1>9, <2>1 DEF ScanInv
    <2>3. ASSUME NEW t, NEW k
          PROVE  Passed(y, t, k) <=> k < start
      BY <1>2, <1>14, <2>2 DEF Passed
    <2>4. ~y.twice /\ (\A e \in y.found : e[2] < start) /\ \A e \in y.stayed \ y.found : ~(e[2] < start)
      BY <2>2, <2>3 DEF InPlace
    <2> DEFINE live == {k \in Keys : start <= k /\ db[q.place][k] = "live"}
    <2>5. visited \in SUBSET live /\ \A v \in visited, k \in live \ visited : v < k
      BY <1>2, <1>5, <2>2, MembersVisitedFirst
    <2>6. rest = live \ visited
      BY <1>2, <1>5
    <2> HIDE DEF rest, visited
    <2>7. \A e \in batch : e[2] \in visited /\ e[2] \in Nat /\ start <= e[2]
      BY <1>2, <2>5
    <2>8. ~r.twice
      <3>1. ASSUME NEW e \in batch, e \in y.found PROVE FALSE
        BY <1>5, <2>4, <2>7, <3>1
      <3>2. QED BY <1>11, <2>4, <3>1
    <2>9. ASSUME NEW e \in r.found
          PROVE  e[2] \in Nat /\ (e[2] < start \/ e[2] \in visited)
      <3>1. e \in Places \X Keys
        BY <1>11 DEF OutsideCall
      <3>2. QED BY <1>2, <1>11, <2>4, <2>7, <3>1
    <2>10. ASSUME NEW e \in r.stayed \ r.found
           PROVE  e[2] \in rest
      <3>1. e \in y.stayed \ y.found /\ e \notin batch
        BY <1>11
      <3>2. e[2] \notin visited
        BY <1>15, <3>1
      <3>3. start <= e[2]
        BY <1>5, <1>15, <2>4, <3>1
      <3>4. QED BY <1>15, <2>6, <3>1, <3>2, <3>3
    <2>11. QED BY <2>5, <2>6, <2>8, <2>9, <2>10
  <1>19. ASSUME NEW places \in CacheOf(Patterns, {q.place}), Proper(places), cursors' = cursors,
                points' = [points EXCEPT ![q.place] = places]
         PROVE  CachesInv'
    <2>1. DOMAIN points' = Collections
      BY <1>19, InvParts DEF CachesInv
    <2>2. ASSUME NEW c \in Collections
          PROVE  points'[c] \in CacheOf(Patterns, {c}) /\ Proper(points'[c])
      BY <1>19, InvParts DEF CachesInv
    <2>3. cursors' \in CacheOf(DataTypesAsked, Dbs) /\ Proper(cursors')
      BY <1>19, InvParts DEF CachesInv
    <2>4. \A c \in Collections : Proper(points[c])'
      BY <2>2 DEF Proper
    <2>5. QED BY <2>1, <2>2, <2>3, <2>4 DEF CachesInv, Proper
  <1> HIDE DEF visited, batch
  <1>20. CASE \A k \in Keys : db[q.place][k] # "live"
    <2> DEFINE x == Leave(y, "done", 0, NoStart)
    <2>1. scan' = [scan EXCEPT ![s] = x] /\ UNCHANGED <<db, versions, cursors, points, changes>>
      BY <1>6, <1>20
    <2>2. /\ x.at = "done" /\ x.found = y.found /\ x.twice = y.twice
          /\ x.stayed = y.stayed /\ x.disturbed = y.disturbed
      BY DEF Leave
    <2>3. x \in OutsideCall
      BY <1>1 DEF Leave, OutsideCall, Starts
    <2> HIDE DEF x
    <2>4. y.stayed = {}
      BY <1>15, <1>20
    <2>5. ~y.disturbed => ~y.twice
      BY <1>1 DEF ScanInv, InPlace
    <2>6. ScanInv(x)
      BY <2>2, <2>4, <2>5 DEF ScanInv
    <2>7. CachesInv'
      BY <2>1, InvParts DEF CachesInv, Proper
    <2>8. QED BY <2>1, <2>3, <2>6, <2>7, ScannerInv
  <1>21. CASE ~(\A k \in Keys : db[q.place][k] # "live") /\ Unfinished(rest, q.pattern)
    <2> DEFINE x == Leave(state, "between", cursor, next)
    <2>1. /\ scan' = [scan EXCEPT ![s] = x] /\ UNCHANGED <<db, versions, cursors, changes>>
          /\ points' = [points EXCEPT ![q.place] = Insert(touched, Point(q, cursor), next)]
      BY <1>6, <1>21
    <2>2. Least(rest) \in rest /\ Least(rest) \in Nat /\ \A k \in rest : Least(rest) <= k
      BY <1>17, <1>21 DEF Unfinished
    <2>3. next \in {q.place} \X Nat /\ next[1] = q.place /\ next[2] = Least(rest)
      BY <2>2
    <2>4. next # NoStart /\ next \in Starts
      BY <1>2, <2>3, ScansAssumption DEF Starts
    <2> HIDE DEF rest, next
    <2>5. /\ x.at = "between" /\ x.request = q /\ x.found = r.found /\ x.twice = r.twice
          /\ x.stayed = y.stayed /\ x.own = next /\ x.disturbed = disturbed
      BY <1>13 DEF Leave
    <2>6. x \in OutsideCall
      BY <1>7, <1>13, <2>4 DEF Leave, OutsideCall
    <2> HIDE DEF x
    <2>7. ASSUME NEW t, NEW k
          PROVE  Passed(x, t, k) <=> k < Least(rest)
      BY <1>2, <1>14, <2>3, <2>4, <2>5 DEF Passed, Place
    <2>8. ~disturbed => InPlace(x)
      <3>1. SUFFICES ASSUME ~disturbed PROVE InPlace(x)
        OBVIOUS
      <3>2. start <= Least(rest) /\ \A v \in visited : v < Least(rest)
        BY <1>16, <1>18, <2>2, <3>1
      <3>3. \A e \in x.found : Passed(x, e[1], e[2])
        BY <1>5, <1>18, <2>2, <2>5, <2>7, <3>1, <3>2
      <3>4. \A e \in x.stayed \ x.found : e[2] \in Nat /\ Least(rest) <= e[2]
        BY <1>11, <1>15, <1>18, <2>2, <2>5, <3>1
      <3>5. \A e \in x.stayed \ x.found : ~Passed(x, e[1], e[2])
        BY <2>2, <2>7, <3>4
      <3>6. QED BY <1>18, <2>5, <3>1, <3>3, <3>5 DEF InPlace
    <2>9. ~disturbed => OwnStart(x)
      <3>1. ~disturbed => q.pattern.prefix <= Least(rest)
        BY <1>2, <1>5, <1>9, <1>16, <2>2
      <3>2. QED BY <1>14, <2>3, <2>5, <3>1 DEF OwnStart
    <2>10. ScanInv(x)
      BY <1>14, <2>5, <2>8, <2>9 DEF ScanInv
    <2>11. CachesInv'
      <3>1. next \in {q.place} \X Nat
        BY <2>3
      <3>2. /\ Insert(touched, Point(q, cursor), next) \in CacheOf(Patterns, {q.place})
            /\ Proper(Insert(touched, Point(q, cursor), next))
        BY <1>7, <1>8, <3>1, InsertInv
      <3>3. QED BY <1>19, <2>1, <3>2
    <2>12. QED BY <2>1, <2>6, <2>10, <2>11, ScannerInv
  <1>22. CASE ~(\A k \in Keys : db[q.place][k] # "live") /\ ~Unfinished(rest, q.pattern)
    <2> DEFINE x == Leave(state, "done", 0, NoStart)
    <2>1. /\ scan' = [scan EXCEPT ![s] = x] /\ UNCHANGED <<db, versions, cursors, changes>>
          /\ points' = [points EXCEPT ![q.place] = touched]
      BY <1>6, <1>22
    <2>2. /\ x.at = "done" /\ x.found = r.found /\ x.twice = r.twice
          /\ x.stayed = y.stayed /\ x.disturbed = disturbed
      BY <1>13 DEF Leave
    <2>3. x \in OutsideCall
      BY <1>13 DEF Leave, OutsideCall, Starts
    <2> HIDE DEF x
    <2>4. rest \cap q.pattern.matches = {}
      BY <1>2, <1>16, <1>22, NothingLeft
    <2> HIDE DEF rest
    <2>5. ~disturbed => ~r.twice /\ y.stayed \subseteq r.found
      BY <1>11, <1>15, <1>18, <2>4
    <2>6. ScanInv(x)
      BY <2>2, <2>5 DEF ScanInv
    <2>7. CachesInv'
      BY <1>8, <1>19, <2>1
    <2>8. QED BY <2>1, <2>3, <2>6, <2>7, ScannerInv
  <1>23. QED BY <1>20, <1>21, <1>22

\* A call of a range scan visits what is ahead and names the first that is left.
LEMMA RangeInv ==
  ASSUME ScansInv, NEW s \in Scanners, scan[s].at = "between",
         scan[s].request.op \in RangeScans,
         NEW astray \in BOOLEAN, NEW ahead, ahead = Ahead(s) \/ (astray /\ ahead = {}),
         Advance(s, ahead, astray)
  PROVE  ScansInv'
  <1> DEFINE y == scan[s]
             q == y.request
             way == Way(q)
             visited == {k \in ahead : Cardinality({j \in ahead : way * j < way * k}) < q.count}
             rest == ahead \ visited
             next == CHOOSE k \in rest : \A j \in rest : way * k <= way * j
             batch == {q.place} \X (visited \cap q.pattern.matches)
             r == [Returning(s, batch) EXCEPT !.astray = @ \/ astray]
  <1>1. y \in OutsideCall /\ ScanInv(y)
    BY InvParts DEF OutsideCall, InsideCall, Idle
  <1>2. /\ q \in Requests /\ q.op \in RangeScans /\ q.op # "Scan" /\ q.op \notin CollectionScans
        /\ q.place \in Places /\ y.cursor \in Nat /\ q.count \in Int /\ q.to \in Nat /\ way \in {1, -1}
        /\ Keys \subseteq Nat \ {0} /\ y.disturbed \in BOOLEAN
    BY <1>1, RequestsAssumption, ScansAssumption DEF OutsideCall, Way, RangeScans, CollectionScans
  <1>3. /\ scan' = [scan EXCEPT ![s] = IF rest = {} THEN Leave(r, "done", 0, NoStart)
                                     ELSE Leave(r, "between", next, NoStart)]
        /\ UNCHANGED <<db, versions, cursors, points, changes>>
    BY DEF Advance
  <1>4. CachesInv'
    BY <1>3, InvParts DEF CachesInv, Proper
  <1>5. ahead \in SUBSET Keys /\ \A k \in ahead : y.cursor = 0 \/ way * k >= way * y.cursor
    BY DEF Ahead
  <1>6. ASSUME NEW v \in visited, NEW k \in rest
        PROVE  way * v < way * k
    BY <1>2, <1>5, FewerComeFirst
  <1>7. visited \in SUBSET ahead /\ rest = ahead \ visited
    OBVIOUS
  <1>8. rest # {} => next \in rest /\ \A j \in rest : way * next <= way * j
    <2>1. rest \in SUBSET Keys
      BY <1>5
    <2>2. rest # {} => \E k \in rest : \A j \in rest : way * k <= way * j
      BY <1>2, <2>1, FirstKey
    <2> HIDE DEF rest
    <2>3. QED BY <2>2
  <1>9. batch \in SUBSET (Places \X Keys)
    BY <1>2, <1>5
  <1> HIDE DEF visited, rest, next
  <1>10. /\ r \in OutsideCall /\ r.request = q /\ r.stayed = y.stayed /\ r.disturbed = y.disturbed
         /\ r.found = y.found \cup batch /\ r.twice = (y.twice \/ batch \cap y.found # {})
         /\ ~r.astray => ~astray
    <2>1. PICK returning : returning = Returning(s, batch)
      OBVIOUS
    <2>2. /\ returning \in OutsideCall \cup InsideCall /\ returning.at = y.at /\ returning.request = q
          /\ returning.stayed = y.stayed /\ returning.disturbed = y.disturbed
          /\ returning.found = y.found \cup batch /\ returning.twice = (y.twice \/ batch \cap y.found # {})
      BY <1>1, <1>9, <2>1, ReturningIs
    <2>3. returning \in OutsideCall
      BY <2>2 DEF InsideCall
    <2>4. r = [returning EXCEPT !.astray = @ \/ astray]
      BY <2>1
    <2> HIDE DEF r
    <2>5. QED BY <2>2, <2>3, <2>4 DEF OutsideCall
  <1> HIDE DEF r
  <1>11. y.stayed \subseteq Matching(q)
    BY <1>1 DEF ScanInv
  <1>12. \A e \in y.found : e = <<e[1], e[2]>> /\ e[2] \in Nat
    BY <1>1, <1>2 DEF OutsideCall
  <1>13. ASSUME NEW e \in y.stayed
         PROVE  /\ e = <<e[1], e[2]>> /\ e[1] = q.place /\ e[2] \in Keys /\ e[2] \in Nat
                /\ e[2] \in q.pattern.matches /\ InRange(q, e[2]) /\ db[q.place][e[2]] = "live"
    <2>1. e \in Matching(q)
      BY <1>11
    <2>2. e \in Places \X Keys
      BY <1>1 DEF OutsideCall
    <2>3. e = <<e[1], e[2]>>
      BY <2>2
    <2>4. QED BY <1>2, <2>1, <2>3, FirstPlace
  \* Of an undisturbed scan: nothing is returned again, and what is behind is found.
  <1>14. ~y.disturbed =>
           /\ ~r.twice
           /\ \A e \in r.found : \/ y.cursor # 0 /\ way * e[2] < way * y.cursor
                                 \/ e[2] \in visited
           /\ ahead = Ahead(s) => \A e \in r.stayed \ r.found : e[2] \in rest
    <2>1. SUFFICES ASSUME ~y.disturbed
                   PROVE  /\ ~r.twice
                          /\ \A e \in r.found : \/ y.cursor # 0 /\ way * e[2] < way * y.cursor
                                                \/ e[2] \in visited
                          /\ ahead = Ahead(s) => \A e \in r.stayed \ r.found : e[2] \in rest
      OBVIOUS
    <2>2. InPlace(y)
      BY <1>1, <2>1 DEF ScanInv
    <2>3. ASSUME NEW t, NEW k
          PROVE  Passed(y, t, k) <=> y.cursor # 0 /\ way * k < way * y.cursor
      BY <1>2 DEF Passed
    <2>4. /\ ~y.twice /\ \A e \in y.found : y.cursor # 0 /\ way * e[2] < way * y.cursor
          /\ \A e \in y.stayed \ y.found : ~(y.cursor # 0 /\ way * e[2] < way * y.cursor)
      BY <2>2, <2>3 DEF InPlace
    <2>5. \A e \in batch : e[2] \in visited
      OBVIOUS
    <2>6. \A k \in ahead : ~(y.cursor # 0 /\ way * k < way * y.cursor)
      <3> SUFFICES ASSUME NEW k \in ahead, y.cursor # 0 PROVE ~(way * k < way * y.cursor)
        OBVIOUS
      <3>1. k \in Nat /\ way * k >= way * y.cursor
        BY <1>2, <1>5
      <3>2. way * k \in Int /\ way * y.cursor \in Int
        BY <1>2, <3>1, Directed
      <3>3. QED BY <3>1, <3>2
    <2>7. ~r.twice
      <3>1. ASSUME NEW e \in batch, e \in y.found PROVE FALSE
        BY <1>7, <2>4, <2>5, <2>6, <3>1
      <3>2. QED BY <1>10, <2>4, <3>1
    <2>8. \A e \in r.stayed \ r.found : e \in y.stayed \ y.found /\ e[2] \notin visited
      BY <1>10, <1>13
    <2>9. ASSUME NEW e \in r.stayed \ r.found
          PROVE  e[2] \in Ahead(s)
      <3>1. e \in y.stayed \ y.found /\ e[2] \in Nat /\ InRange(q, e[2]) /\ db[q.place][e[2]] = "live"
        BY <1>13, <2>8
      <3>2. y.cursor = 0 \/ way * e[2] >= way * y.cursor
        <4>1. CASE y.cursor # 0
          <5>1. way * y.cursor <= way * e[2]
            BY <1>2, <2>4, <3>1, <4>1, Directed
          <5>2. way * e[2] \in Int /\ way * y.cursor \in Int
            BY <1>2, <3>1, Directed
          <5>3. QED BY <5>1, <5>2
        <4>2. QED BY <4>1
      <3>3. q.to = 0 \/ way * e[2] <= way * q.to
        BY <1>2, <3>1 DEF InRange
      <3>4. QED BY <1>13, <2>8, <3>1, <3>2, <3>3 DEF Ahead
    <2>10. QED BY <1>7, <1>10, <2>4, <2>5, <2>7, <2>8, <2>9
  <1>15. CASE rest = {}
    <2> DEFINE x == Leave(r, "done", 0, NoStart)
    <2>1. scan' = [scan EXCEPT ![s] = x]
      BY <1>3, <1>15
    <2>2. /\ x.at = "done" /\ x.found = r.found /\ x.twice = r.twice
          /\ x.stayed = r.stayed /\ x.disturbed = y.disturbed /\ x.astray = r.astray
      BY <1>10 DEF Leave
    <2>3. x \in OutsideCall
      BY <1>10 DEF Leave, OutsideCall, Starts
    <2> HIDE DEF x
    <2>6. ~r.astray => ahead = Ahead(s)
      BY <1>10
    <2>4. ~x.disturbed => ~x.twice /\ (~x.astray => x.stayed \subseteq x.found)
      BY <1>14, <1>15, <2>2, <2>6
    <2>7. ScanInv(x)
      BY <2>2, <2>4 DEF ScanInv
    <2>5. QED BY <1>3, <1>4, <2>1, <2>3, <2>7, ScannerInv
  <1>16. CASE rest # {}
    <2> DEFINE x == Leave(r, "between", next, NoStart)
    <2>1. scan' = [scan EXCEPT ![s] = x]
      BY <1>3, <1>16
    <2>2. next \in Nat /\ next # 0 /\ next \in rest
      BY <1>2, <1>5, <1>7, <1>8, <1>16
    <2>3. /\ x.at = "between" /\ x.request = q /\ x.found = r.found /\ x.twice = r.twice
          /\ x.stayed = r.stayed /\ x.own = NoStart /\ x.disturbed = y.disturbed /\ x.cursor = next
      BY <1>10 DEF Leave
    <2>4. x \in OutsideCall
      BY <1>10, <2>2 DEF Leave, OutsideCall, Starts
    <2> HIDE DEF x
    <2>5. ASSUME NEW t, NEW k
          PROVE  Passed(x, t, k) <=> way * k < way * next
      BY <1>2, <2>2, <2>3 DEF Passed
    <2>6. ~y.disturbed => InPlace(x)
      <3>1. SUFFICES ASSUME ~y.disturbed PROVE InPlace(x)
        OBVIOUS
      <3>2. y.cursor # 0 => way * y.cursor <= way * next
        <4> SUFFICES ASSUME y.cursor # 0 PROVE way * y.cursor <= way * next
          OBVIOUS
        <4>1. way * next >= way * y.cursor
          BY <1>5, <1>7, <2>2
        <4>2. way * next \in Int /\ way * y.cursor \in Int
          BY <1>2, <2>2, Directed
        <4>3. QED BY <4>1, <4>2
      <3>3. ASSUME NEW e \in r.found
            PROVE  way * e[2] < way * next
        <4>1. e \in Places \X Keys
          BY <1>10 DEF OutsideCall
        <4>2. e[2] \in Nat
          BY <1>2, <4>1
        <4>3. CASE y.cursor # 0 /\ way * e[2] < way * y.cursor
          BY <1>2, <2>2, <3>2, <4>2, <4>3, Directed
        <4>4. CASE e[2] \in visited
          BY <1>6, <2>2, <4>4
        <4>5. QED BY <1>14, <3>1, <4>3, <4>4
      <3>4. ahead = Ahead(s)
        BY <1>7, <1>16
      <3>5. ASSUME NEW e \in r.stayed \ r.found
            PROVE  ~(way * e[2] < way * next)
        <4>1. e[2] \in rest /\ e[2] \in Nat
          BY <1>10, <1>13, <1>14, <3>1, <3>4, <3>5
        <4>2. way * next <= way * e[2]
          BY <1>8, <1>16, <4>1
        <4>3. QED BY <1>2, <2>2, <4>1, <4>2, Directed
      <3>6. QED BY <1>14, <2>3, <2>5, <3>1, <3>3, <3>5 DEF InPlace
    <2>7. OwnStart(x)
      BY <1>2, <2>3 DEF OwnStart
    <2>8. ScanInv(x)
      BY <1>10, <1>11, <2>3, <2>6, <2>7 DEF ScanInv
    <2>9. QED BY <1>3, <1>4, <2>1, <2>4, <2>8, ScannerInv
  <1>17. QED BY <1>15, <1>16

\* The digits of a version, low one first.
LEMMA Digits ==
  ASSUME NEW v \in Nat
  PROVE  /\ EncodeFixed32(v) \in [1 .. 4 -> 0 .. Base - 1]
         /\ EncodeFixed32(v)[1] = v % Base
  <1>1. Base \in Nat \ {0, 1}
    BY ScansAssumption
  <1> DEFINE weight == <<1, Base, Base * Base, Base * Base * Base>>
  <1>2. \A i \in 1 .. 4 : weight[i] \in Nat \ {0}
    <2>1. Base * Base \in Nat \ {0} /\ Base * Base * Base \in Nat \ {0}
      BY <1>1
    <2>2. QED BY <1>1, <2>1
  <1>3. EncodeFixed32(v) = [i \in 1 .. 4 |-> (v \div weight[i]) % Base]
    BY DEF EncodeFixed32
  <1>4. weight[1] = 1
    OBVIOUS
  <1> HIDE DEF weight
  <1>5. \A i \in 1 .. 4 : v \div weight[i] \in Int
    BY <1>2
  <1>6. \A i \in 1 .. 4 : (v \div weight[i]) % Base \in 0 .. Base - 1
    BY <1>1, <1>5
  <1>7. v \div weight[1] = v
    BY <1>4
  <1>8. QED BY <1>3, <1>6, <1>7

\* Where SeeksBehind holds, a seek that begins behind a collection lands in it.
LEMMA LandsOnPresent ==
  ASSUME NEW c \in Collections, versions \in [Collections -> Incarnations],
         ~Empty(c), SeeksBehind(c)
  PROVE  versions[c].present \in Landing(c)
  <1>1. PICK v \in Nat : v = versions[c].present
    BY DEF Incarnations, Versions
  <1>2. /\ v % Base # Base - 1
        /\ \A w \in versions[c].left : ~(SortsBefore(v, w) /\ SortsBefore(w, v + 1))
    BY <1>1 DEF SeeksBehind
  <1>3. Stored(c) = versions[c].left \cup {v}
    BY <1>1 DEF Stored
  <1>4. (v + 1) % Base = (v % Base) + 1
    BY <1>2, ScansAssumption
  <1>5. SortsBefore(v, v + 1)
    <2>1. v % Base \in Int
      BY ScansAssumption
    <2>2. EncodeFixed32(v)[1] < EncodeFixed32(v + 1)[1]
      BY <1>4, <2>1, Digits
    <2>3. 1 \in 1 .. 4 /\ 1 .. 1 - 1 = {}
      OBVIOUS
    <2>4. QED BY <2>2, <2>3 DEF SortsBefore
  <1>6. ~SortsBefore(v, v)
    <2>0. EncodeFixed32(v) \in [1 .. 4 -> 0 .. Base - 1]
      BY Digits
    <2>1. \A i \in 1 .. 4 : EncodeFixed32(v)[i] \in Int
      BY <2>0, ScansAssumption
    <2>2. \A i \in 1 .. 4 : ~(EncodeFixed32(v)[i] < EncodeFixed32(v)[i])
      BY <2>1
    <2>3. QED BY <2>2 DEF SortsBefore
  <1>7. Landing(c) = SeekForPrev(c, v + 1)
    BY <1>1 DEF Landing
  <1>8. \A w \in Stored(c) : SortsBefore(w, v + 1) => ~SortsBefore(v, w)
    BY <1>2, <1>3, <1>6
  <1>9. QED BY <1>1, <1>3, <1>5, <1>7, <1>8 DEF SeekForPrev

\* The first seek of a backward scan of a hash misses it only where it is astray.
LEMMA ReverseInv ==
  ASSUME ScansInv, NEW s \in Scanners, PKHRScanRange(s)
  PROVE  ScansInv'
  <1> DEFINE c == scan[s].request.place
             first == scan[s].cursor = 0
             ahead == IF first /\ versions[c].present \notin Landing(c) THEN {} ELSE Ahead(s)
             astray == first /\ ~SeeksBehind(c)
  <1>1. /\ scan[s].at = "between" /\ scan[s].request.op = "PKHRScanRange"
        /\ Advance(s, ahead, astray)
    BY DEF PKHRScanRange, Asks
  <1>2. scan[s].request.op \in RangeScans /\ scan[s].request.op \in FieldScans
    BY <1>1 DEF RangeScans, FieldScans
  <1>3. c \in Collections
    <2>1. scan[s] \in OutsideCall
      BY <1>1, InvParts DEF OutsideCall, InsideCall, Idle
    <2>2. scan[s].request \in Requests
      BY <2>1 DEF OutsideCall
    <2>3. QED BY <1>2, <2>2, RequestsAssumption
  <1>4. ASSUME ahead # Ahead(s)
        PROVE  astray /\ ahead = {}
    <2>1. first /\ versions[c].present \notin Landing(c) /\ ahead = {}
      BY <1>4
    <2>2. ~Empty(c)
      BY <1>4, <2>1 DEF Empty, Ahead
    <2>3. ~SeeksBehind(c)
      BY <1>3, <2>1, <2>2, InvParts, LandsOnPresent
    <2>4. QED BY <2>1, <2>3
  <1>5. astray \in BOOLEAN
    OBVIOUS
  <1> HIDE DEF ahead, astray
  <1>6. QED BY <1>1, <1>2, <1>4, <1>5, RangeInv

\* A scan from which the keys that do not stay alive are dropped.
LEMMA DroppedInv ==
  ASSUME NEW y \in OutsideCall \cup InsideCall, ScanInv(y), NEW gone, NEW x,
         x = [y EXCEPT !.stayed = @ \ gone],
         \A e \in (Places \X Keys) \ gone : db[e[1]][e[2]] = "live" => db'[e[1]][e[2]] = "live"
  PROVE  x \in OutsideCall \cup InsideCall /\ ScanInv(x)'
  <1>1. /\ x \in OutsideCall \cup InsideCall
        /\ x.at = y.at /\ x.request = y.request /\ x.cursor = y.cursor /\ x.own = y.own
        /\ x.found = y.found /\ x.stayed = y.stayed \ gone /\ x.twice = y.twice
        /\ x.disturbed = y.disturbed /\ x.astray = y.astray
        /\ y.stayed \subseteq Places \X Keys
        /\ y.at = "inside" => x.db = y.db /\ x.start = y.start
    BY DEF OutsideCall, InsideCall
  <1>2. Place(x) = Place(y)
    BY <1>1 DEF Place
  <1>3. ASSUME NEW t, NEW k
        PROVE  Passed(x, t, k) <=> Passed(y, t, k)
    BY <1>1, <1>2 DEF Passed
  <1>4. OwnStart(y) /\ InPlace(y) => OwnStart(x) /\ InPlace(x)
    BY <1>1, <1>3 DEF OwnStart, InPlace
  <1>5. ASSUME NEW q, NEW e \in Matching(q), e \in Places \X Keys, e \notin gone
        PROVE  e \in Matching(q)'
    <2>1. db'[e[1]][e[2]] = "live"
      BY <1>5 DEF Matching
    <2>2. QED BY <1>5, <2>1 DEF Matching, Asked, InRange, Way, Dbs
  <1>6. ASSUME y.at \in {"between", "inside"}
        PROVE  x.stayed \subseteq Matching(x.request)'
    <2>1. PICK q : q = y.request
      OBVIOUS
    <2>2. \A e \in x.stayed : e \in Matching(q)'
      BY <1>1, <1>5, <1>6, <2>1 DEF ScanInv
    <2>3. QED BY <1>1, <2>1, <2>2
  <1>7. /\ x.at = "inside" => x.request.op = "Scan"
        /\ x.at \in {"between", "inside"} /\ ~x.disturbed => OwnStart(x) /\ InPlace(x)
        /\ x.at = "done" /\ ~x.disturbed =>
             /\ ~x.twice
             /\ ~x.astray => x.stayed \subseteq x.found
    BY <1>1, <1>4 DEF ScanInv
  <1>8. ScanInv(x)'
    BY <1>1, <1>6, <1>7 DEF ScanInv, OwnStart, InPlace, Passed, Place
  <1>9. QED BY <1>1, <1>8

\* What changes is watched; a key that does not stay alive stays in no scan.
LEMMA ForgetInv ==
  ASSUME ScansInv, NEW gone, Forget(gone), changes < MaxChanges, changes' = changes + 1,
         UNCHANGED <<cursors, points>>, db' \in [Places -> [Keys -> Record]],
         versions' \in [Collections -> Incarnations],
         \A e \in (Places \X Keys) \ gone : db[e[1]][e[2]] = "live" => db'[e[1]][e[2]] = "live"
  PROVE  ScansInv'
  <1>1. changes' \in 0 .. MaxChanges
    BY InvParts, ScansAssumption
  <1>2. CachesInv'
    BY InvParts DEF CachesInv, Proper
  <1>3. ASSUME NEW s \in Scanners
        PROVE  scan'[s] \in {Idle} \cup OutsideCall \cup InsideCall /\ ScanInv(scan[s])'
    <2>1. CASE scan[s].at = "idle"
      <3>1. scan'[s] = scan[s]
        BY <2>1 DEF Forget
      <3>2. QED BY <2>1, <3>1, InvParts DEF ScanInv
    <2>2. CASE scan[s].at # "idle"
      <3>1. PICK y : y = scan[s]
        OBVIOUS
      <3>2. PICK x : x = [y EXCEPT !.stayed = @ \ gone]
        OBVIOUS
      <3>3. scan'[s] = x
        BY <2>2, <3>1, <3>2 DEF Forget
      <3>4. y \in OutsideCall \cup InsideCall /\ ScanInv(y)
        BY <2>2, <3>1, InvParts DEF Idle
      <3>5. x \in OutsideCall \cup InsideCall /\ ScanInv(x)'
        BY <3>2, <3>4, DroppedInv
      <3>6. ScanInv(scan[s])'
        BY <3>3, <3>5, ZenonT(60) DEF ScanInv, Matching, OwnStart, InPlace, Passed, Place, Asked, InRange, Way, FirstDb, Dbs
      <3>7. QED BY <3>3, <3>5, <3>6
    <2>3. QED BY <2>1, <2>2
  <1>4. scan' \in [Scanners -> {Idle} \cup OutsideCall \cup InsideCall]
    BY <1>3 DEF Forget
  <1>5. QED BY <1>1, <1>2, <1>3, <1>4, InvPartsPrime

\* A write of a key may end its record's life, and brings no other's to an end.
LEMMA ChangeInv ==
  ASSUME ScansInv, NEW t \in Places, NEW k \in Keys, Change(t, k)
  PROVE  ScansInv'
  <1>1. PICK r \in Record : db' = [db EXCEPT ![t][k] = r]
    BY DEF Change
  <1> DEFINE gone == IF db'[t][k] = "live" THEN {} ELSE {<<t, k>>}
  <1>2. db \in [Places -> [Keys -> Record]]
    BY InvParts
  <1>3. db' \in [Places -> [Keys -> Record]]
    BY <1>1, <1>2
  <1>4. ASSUME NEW e \in (Places \X Keys) \ gone, db[e[1]][e[2]] = "live"
        PROVE  db'[e[1]][e[2]] = "live"
    <2>1. e[1] \in Places /\ e[2] \in Keys /\ e = <<e[1], e[2]>>
      OBVIOUS
    <2>2. CASE e = <<t, k>>
      BY <2>1, <2>2
    <2>3. CASE e[1] # t \/ e[2] # k
      BY <1>1, <1>2, <1>4, <2>1, <2>3
    <2>4. QED BY <2>1, <2>2, <2>3
  <1>5. /\ Forget(gone) /\ changes < MaxChanges /\ changes' = changes + 1
        /\ UNCHANGED <<versions, cursors, points>>
    BY DEF Change
  <1>6. versions' \in [Collections -> Incarnations]
    BY <1>5, InvParts
  <1> HIDE DEF gone
  <1>7. QED BY <1>3, <1>4, <1>5, <1>6, ForgetInv

\* A collection that goes takes the records in it, and no others.
LEMMA VanishInv ==
  ASSUME ScansInv, NEW c \in Collections, Vanish(c)
  PROVE  ScansInv'
  <1>1. db \in [Places -> [Keys -> Record]] /\ db' = [db EXCEPT ![c] = [k \in Keys |-> "none"]]
    BY InvParts DEF Vanish
  <1>2. db' \in [Places -> [Keys -> Record]]
    BY <1>1 DEF Record, Places
  <1>3. ASSUME NEW e \in (Places \X Keys) \ ({c} \X Keys), db[e[1]][e[2]] = "live"
        PROVE  db'[e[1]][e[2]] = "live"
    <2>1. e[1] \in Places /\ e[2] \in Keys /\ e[1] # c
      OBVIOUS
    <2>2. QED BY <1>1, <1>3, <2>1
  <1>4. /\ Forget({c} \X Keys) /\ changes < MaxChanges /\ changes' = changes + 1
        /\ UNCHANGED <<cursors, points>>
    BY DEF Vanish
  <1>5. versions' \in [Collections -> Incarnations]
    <2>1. versions \in [Collections -> Incarnations] /\ versions' = [versions EXCEPT ![c].left = Stored(c)]
      BY InvParts DEF Vanish
    <2>2. Stored(c) \in SUBSET Versions
      BY <2>1 DEF Stored, Incarnations
    <2>3. QED BY <2>1, <2>2 DEF Incarnations
  <1>6. QED BY <1>2, <1>3, <1>4, <1>5, ForgetInv

\* Where no scan loses a key, the scans are as they were.
LEMMA NothingForgotten ==
  ASSUME ScansInv, UNCHANGED scan
  PROVE  Forget({})
  <1>1. ASSUME NEW s \in Scanners, scan[s].at # "idle"
        PROVE  scan[s] = [scan[s] EXCEPT !.stayed = @ \ {}]
    <2>1. PICK y : y = scan[s]
      OBVIOUS
    <2>2. y \in OutsideCall \/ y \in InsideCall
      BY <1>1, <2>1, InvParts DEF Idle
    <2>3. CASE y \in OutsideCall
      BY <2>1, <2>3 DEF OutsideCall
    <2>4. CASE y \in InsideCall
      BY <2>1, <2>4 DEF InsideCall
    <2>5. QED BY <2>2, <2>3, <2>4
  <1>2. scan = [s \in Scanners |-> scan[s]]
    BY InvParts
  <1>3. QED BY <1>1, <1>2 DEF Forget

\* A collection that begins anew takes nothing away.
LEMMA RenewInv ==
  ASSUME ScansInv, NEW c \in Collections, NEW k \in Keys, Renew(c, k)
  PROVE  ScansInv'
  <1>1. db \in [Places -> [Keys -> Record]] /\ db' = [db EXCEPT ![c][k] = "live"]
    BY InvParts DEF Renew
  <1>2. db' \in [Places -> [Keys -> Record]]
    BY <1>1 DEF Record
  <1>3. ASSUME NEW e \in (Places \X Keys) \ {}, db[e[1]][e[2]] = "live"
        PROVE  db'[e[1]][e[2]] = "live"
    <2>1. e[1] \in Places /\ e[2] \in Keys
      OBVIOUS
    <2>2. QED BY <1>1, <1>3, <2>1
  <1>4. /\ Forget({}) /\ changes < MaxChanges /\ changes' = changes + 1
        /\ UNCHANGED <<cursors, points>>
    BY NothingForgotten DEF Renew
  <1>5. versions' \in [Collections -> Incarnations]
    <2>1. versions \in [Collections -> Incarnations] /\ MaxVersion \in Nat
      BY InvParts, ScansAssumption
    <2>2. PICK v \in versions[c].present + 1 .. MaxVersion : versions' = [versions EXCEPT ![c].present = v]
      BY DEF Renew
    <2>3. v \in Versions
      BY <2>1 DEF Incarnations, Versions
    <2>4. QED BY <2>1, <2>2, <2>3 DEF Incarnations
  <1>6. QED BY <1>2, <1>3, <1>4, <1>5, ForgetInv

\* Compaction takes no record that a scan is to find.
LEMMA CollectInv ==
  ASSUME ScansInv, NEW c \in Collections, Collect(c)
  PROVE  ScansInv'
  <1>1. db \in [Places -> [Keys -> Record]] /\ UNCHANGED db
    BY InvParts DEF Collect
  <1>2. /\ Forget({}) /\ changes < MaxChanges /\ changes' = changes + 1
        /\ UNCHANGED <<cursors, points>>
    BY NothingForgotten DEF Collect
  <1>3. versions' \in [Collections -> Incarnations]
    <2>1. versions \in [Collections -> Incarnations]
      BY InvParts
    <2>2. PICK v : versions' = [versions EXCEPT ![c].left = @ \ {v}]
      BY DEF Collect
    <2>3. QED BY <2>1, <2>2 DEF Incarnations
  <1>4. QED BY <1>1, <1>2, <1>3, ForgetInv

----------------------------------------------------------------------------
(* Invariants.                                                              *)

\* At first nothing is cached and nobody scans.
LEMMA InitInv ==
  ASSUME ScansInit
  PROVE  ScansInv
  <1>1. /\ db \in [Places -> [Keys -> Record]] /\ changes \in 0 .. MaxChanges
        /\ versions \in [Collections -> Incarnations]
    <2>1. PICK initial \in Initial : db = initial.db /\ versions = initial.versions
      BY DEF ScansInit
    <2>2. initial \in [db : [Places -> [Keys -> Record]], versions : [Collections -> Incarnations]]
      BY ScansAssumption
    <2>3. QED BY <2>1, <2>2, ScansAssumption DEF ScansInit
  <1>2. ASSUME NEW names, NEW places
        PROVE  <<>> \in CacheOf(names, places) /\ Proper(<<>>)
    BY ScansAssumption DEF CacheOf, Proper
  <1>3. CachesInv
    BY <1>2 DEF ScansInit, CachesInv
  <1>4. scan \in [Scanners -> {Idle} \cup OutsideCall \cup InsideCall]
    BY DEF ScansInit
  <1>5. \A s \in Scanners : ScanInv(scan[s])
    BY DEF ScansInit, ScanInv, Idle
  <1>6. QED BY <1>1, <1>3, <1>4, <1>5, InvParts

\* Every step keeps the invariant.
LEMMA NextInv ==
  ASSUME ScansInv, [Next]_scansVars
  PROVE  ScansInv'
  <1>1. ASSUME NEW s \in Scanners, Scanner(s)
        PROVE  ScansInv'
    <2>1. CASE Call(s)
      BY <2>1, CallInv
    <2>2. CASE ScanDb(s)
      BY <2>2, ScanDbInv
    <2>3. CASE HScan(s) \/ SScan(s) \/ ZScan(s)
      BY <2>3, CollectionInv DEF HScan, SScan, ZScan, Asks, CollectionScans
    <2>4. CASE PKScanRange(s) \/ PKRScanRange(s) \/ HScanx(s) \/ PKHScanRange(s)
      <3>1. /\ scan[s].at = "between" /\ scan[s].request.op \in RangeScans
            /\ Advance(s, Ahead(s), FALSE)
        BY <2>4 DEF PKScanRange, PKRScanRange, HScanx, PKHScanRange, Asks, RangeScans, FieldScans
      <3>2. FALSE \in BOOLEAN
        OBVIOUS
      <3>3. QED BY <3>1, <3>2, RangeInv
    <2>5. CASE PKHRScanRange(s)
      BY <2>5, ReverseInv
    <2>6. QED BY <1>1, <2>1, <2>2, <2>3, <2>4, <2>5 DEF Scanner
  <1>2. CASE UNCHANGED scansVars
    <2>1. CachesInv'
      BY <1>2, InvParts DEF scansVars, CachesInv, Proper
    <2>2. ASSUME NEW s \in Scanners
          PROVE  ScanInv(scan[s])'
      BY <1>2, InvParts, ZenonT(60) DEF scansVars, ScanInv, Matching, OwnStart, InPlace, Passed, Place,
           Asked, InRange, Way, FirstDb, Dbs
    <2>3. QED BY <1>2, <2>1, <2>2, InvParts, InvPartsPrime DEF scansVars
  <1>3. QED BY <1>1, <1>2, BeginInv, ChangeInv, VanishInv, RenewInv, CollectInv DEF Next

\* In every reachable state the caches are proper, and every scan that was given
\* no other's start has returned what is behind its place, once.
THEOREM ScansInvHolds == Spec => []ScansInv
  <1>1. ScansInit => ScansInv
    BY InitInv
  <1>2. ScansInv /\ [Next]_scansVars => ScansInv'
    BY NextInv
  <1>3. QED BY <1>1, <1>2, PTL DEF Spec

\* The caches hold each name once, no more entries than they may, and places.
THEOREM CachesAreProper == Spec => []CursorsInv
  <1>1. ScansInv => CursorsInv
    BY DEF ScansInv
  <1>2. QED BY <1>1, ScansInvHolds, PTL

\* A scan that ends undisturbed has missed no key that was there all the time.
THEOREM ScansMissNothing == Spec => []ScanFindsAll
  <1>1. ScansInv => ScanFindsAll
    BY DEF ScansInv, ScanInv, ScanFindsAll
  <1>2. QED BY <1>1, ScansInvHolds, PTL

\* An undisturbed scan returns no key twice, at no time.
THEOREM ScansRepeatNothing == Spec => []ReturnsOnce
  <1>1. ScansInv => ReturnsOnce
    <2> SUFFICES ASSUME ScansInv, NEW s \in Scanners, scan[s].at # "idle", scan[s].twice, ~scan[s].disturbed
                 PROVE  FALSE
      BY DEF ReturnsOnce
    <2>1. scan[s].at \in {"between", "inside", "done"} /\ ScanInv(scan[s])
      BY InvParts DEF Idle, OutsideCall, InsideCall
    <2>2. QED BY <2>1 DEF ScanInv, InPlace
  <1>2. QED BY <1>1, ScansInvHolds, PTL
=============================================================================
