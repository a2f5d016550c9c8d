--------------------------- MODULE RedisListsProofs ---------------------------
(***************************************************************************)
(* What TLAPS proves of the lists, when pushes exclude each other and no      *)
(* key's life is extended behind a filter's back: ListsInv is inductive, the  *)
(* reads and the handlers do what their commands promise, and the lists       *)
(* implement ExpiringLists.                                                   *)
(***************************************************************************)
EXTENDS RedisLists, CollectionStoreProofs, WellFoundedInduction, SequenceTheorems

----------------------------------------------------------------------------
(* Windows.                                                                 *)

\* The number of indices from one to another.
LEMMA WidthIs ==
  ASSUME NEW a \in Int, NEW b \in Int, a <= b + 1
  PROVE  Cardinality(a .. b) = b - a + 1
  <1>1. Cardinality(a .. b) = IF a > b THEN 0 ELSE b - a + 1
    BY FS_Interval
  <1>2. QED BY <1>1

\* Indices are numbers, and those of a new list lie side by side.
LEMMA SomeIndices ==
  /\ Members \subseteq Nat
  /\ \A w \in Window : w.left \in Members /\ w.right \in Members
  /\ InitialWindow \in Window /\ InitialWindow.right = InitialWindow.left + 1
  <1>1. Half \in Nat \ {0} /\ Members = 0 .. 2 * Half - 1
    BY ListsAssumption
  <1>2. Half - 1 \in Members /\ Half \in Members
    BY <1>1
  <1>3. QED BY <1>1, <1>2 DEF Window, InitialWindow

\* The nodes that the data column family D has of k under m's version lie inside
\* the window w, and m counts them.
Encloses(k, m, w, D) ==
  /\ w.left < w.right
  /\ StoredIn(D, k, m.version) = w.left + 1 .. w.right - 1
  /\ m.count = w.right - 1 - w.left

\* A window that encloses nodes has as many as it is wide.
LEMMA EnclosedCount ==
  ASSUME NEW w \in Window, w.left < w.right
  PROVE  Cardinality(w.left + 1 .. w.right - 1) = w.right - 1 - w.left
  <1>1. w.left \in Nat /\ w.right \in Nat
    BY SomeIndices
  <1>2. w.left + 1 \in Int /\ w.right - 1 \in Int /\ w.left + 1 <= w.right - 1 + 1
    BY <1>1
  <1>3. Cardinality(w.left + 1 .. w.right - 1) = w.right - 1 - (w.left + 1) + 1
    BY <1>2, WidthIs
  <1>4. QED BY <1>1, <1>3

\* The window of a key that has not expired encloses its nodes.
LEMMA FreshEncloses ==
  ASSUME ListsInv, raced = {}, NEW k \in Keys, Fresh(k)
  PROVE  /\ meta[k] \in MetaValue /\ meta[k].version \in Nat /\ meta[k] # NoMeta
         /\ window[k] \in Window /\ window[k].left \in Nat /\ window[k].right \in Nat
         /\ Encloses(k, meta[k], window[k], data)
         /\ First(k) = window[k].left + 1 /\ Last(k) = window[k].right - 1
         /\ Stored(k, meta[k].version) = First(k) .. Last(k)
  <1>1. meta[k] \in MetaValue /\ meta[k].version \in Nat /\ meta[k].count \in Int
    BY DEF ListsInv, StoreInv, StoreTypeOK, Fresh, MetaValue
  <1>2. window[k] \in Window /\ window[k].left \in Nat /\ window[k].right \in Nat
    BY SomeIndices DEF ListsInv, ListsTypeOK
  <1>3. /\ Stored(k, meta[k].version) = First(k) .. Last(k)
        /\ meta[k].count = Last(k) - window[k].left
    BY DEF ListsInv, WindowEnclosesNodes
  <1>4. meta[k].count = Cardinality(First(k) .. Last(k))
    BY <1>3 DEF ListsInv, StoreInv, CountsStored
  <1>5. Cardinality(First(k) .. Last(k)) \in Nat
    <2>1. First(k) \in Int /\ Last(k) \in Int
      BY <1>2 DEF First, Last
    <2>2. QED BY <2>1, FS_Interval, FS_CardinalityType
  <1>6. window[k].left < window[k].right
    BY <1>2, <1>3, <1>4, <1>5 DEF Last
  <1>7. Encloses(k, meta[k], window[k], data)
    BY <1>2, <1>3, <1>6 DEF Encloses, First, Last, StoredIn, Stored
  <1>8. QED BY <1>1, <1>2, <1>3, <1>7 DEF First, Last, Fresh

\* And is enough for what ListsInv says of it.
LEMMA EnclosesAll ==
  ASSUME meta' \in [Keys -> MetaValue \cup {NoMeta}], window' \in [Keys -> Window],
         \A k \in Keys : Fresh(k)' => Encloses(k, meta'[k], window'[k], data')
  PROVE  CountsStored' /\ WindowEnclosesNodes'
  <1>1. ASSUME NEW k \in Keys, Fresh(k)'
        PROVE  /\ meta'[k].count = Cardinality(Stored(k, meta[k].version)')
               /\ Stored(k, meta[k].version)' = (First(k) .. Last(k))'
               /\ meta'[k].count = Last(k)' - window'[k].left
    <2>1. window'[k] \in Window /\ window'[k].left \in Nat /\ window'[k].right \in Nat
      BY SomeIndices
    <2>2. Stored(k, meta[k].version)' = StoredIn(data', k, meta'[k].version)
      BY DEF Stored, StoredIn
    <2>3. QED BY <1>1, <2>1, <2>2, EnclosedCount DEF Encloses, First, Last
  <1>2. QED BY <1>1 DEF CountsStored, WindowEnclosesNodes

----------------------------------------------------------------------------
(* Writes.                                                                  *)

\* A step keeps what ListsInv says of the store, windows and values.
Kept ==
  /\ StoreInv' /\ WindowEnclosesNodes'
  /\ window' \in [Keys -> Window] /\ value' \in [data' -> Values]

\* A batch that leaves behind, of every key it writes, nodes that the window it
\* writes encloses, under a version that is not behind any node's.
LEMMA WriteInv ==
  ASSUME ListsInv, raced = {}, raced' = {},
         NEW K \in SUBSET Keys, NEW ms \in [K -> MetaValue], NEW ws \in [K -> Window],
         NEW P \in SUBSET DataKey, NEW puts \in [P -> Values], NEW dels,
         Write(ms, ws, puts, dels),
         \A rec \in P : rec[1] \in K /\ rec[2] = ms[rec[1]].version,
         \A rec \in dels : rec[1] \in K,
         \A rec \in data : rec[1] \in K => rec[2] <= ms[rec[1]].version,
         \A k \in K : ~IsStale(ms[k], now) =>
           Encloses(k, ms[k], ws[k], (data \cup P) \ dels),
         DoomedAreDead', AbsenceStaysTrue', MemoryStaysSafe'
  PROVE  Kept
  <1>1. /\ DOMAIN ms = K /\ DOMAIN ws = K /\ DOMAIN puts = P
        /\ meta' = [k \in Keys |-> IF k \in K THEN ms[k] ELSE meta[k]]
        /\ window' = [k \in Keys |-> IF k \in K THEN ws[k] ELSE window[k]]
        /\ data' = (data \cup P) \ dels /\ now' = now
        /\ value' = [rec \in data' |-> IF rec \in P THEN puts[rec] ELSE value[rec]]
        /\ Shadow(P \cup dels)
    BY DEF Write
  <1>2. /\ meta \in [Keys -> MetaValue \cup {NoMeta}] /\ data \in SUBSET DataKey
        /\ now \in Nat \ {0} /\ window \in [Keys -> Window] /\ value \in [data -> Values]
        /\ filter \in Filter
    BY DEF ListsInv, ListsTypeOK, StoreTypeOK
  <1>3. /\ filter' \in Filter /\ filter'.todo = filter.todo \ (P \cup dels)
        /\ filter'.doomed = filter.doomed \ (P \cup dels)
    BY <1>1, ShadowShrinks DEF FilterOnlyShrinks, ListsInv, StoreInv
  <1>4. /\ meta' \in [Keys -> MetaValue \cup {NoMeta}] /\ window' \in [Keys -> Window]
        /\ \A k \in K : meta'[k] = ms[k] /\ meta'[k] # NoMeta /\ window'[k] = ws[k]
        /\ \A k \in Keys \ K : meta'[k] = meta[k] /\ window'[k] = window[k]
    BY <1>1, <1>2, NoMetaAssumption
  <1>5. data' \in SUBSET DataKey /\ value' \in [data' -> Values]
    BY <1>1, <1>2
  <1>6. StoreTypeOK'
    BY <1>1, <1>2, <1>3, <1>4, <1>5 DEF StoreTypeOK
  <1>7. VersionsBehindMeta'
    <2> SUFFICES ASSUME NEW rec \in data'
                 PROVE  IF meta'[rec[1]] = NoMeta THEN rec[2] < now
                                                  ELSE rec[2] <= meta'[rec[1]].version
      BY <1>1 DEF VersionsBehindMeta
    <2>1. rec[1] \in Keys /\ rec[2] \in Nat
      BY <1>5 DEF DataKey
    <2>2. CASE rec[1] \in K
      <3>1. rec[2] <= ms[rec[1]].version
        BY <1>1, <2>1, <2>2
      <3>2. QED BY <1>4, <2>2, <3>1
    <2>3. CASE rec[1] \notin K
      BY <1>1, <1>4, <2>1, <2>3 DEF ListsInv, StoreInv, VersionsBehindMeta
    <2>4. QED BY <2>2, <2>3
  <1>8. ASSUME NEW k \in Keys, Fresh(k)'
        PROVE  Encloses(k, meta'[k], window'[k], data')
    <2>1. CASE k \in K
      BY <1>1, <1>4, <1>8, <2>1 DEF Fresh, IsStale
    <2>2. CASE k \notin K
      <3>1. Fresh(k) /\ meta'[k] = meta[k] /\ window'[k] = window[k]
        BY <1>1, <1>4, <1>8, <2>2 DEF Fresh, IsStale
      <3>2. Encloses(k, meta[k], window[k], data)
        BY <3>1, FreshEncloses
      <3>3. \A v : StoredIn(data', k, v) = StoredIn(data, k, v)
        BY <1>1, <2>2 DEF StoredIn
      <3>4. QED BY <3>1, <3>2, <3>3 DEF Encloses
    <2>3. QED BY <2>1, <2>2
  <1>9. CountsStored' /\ WindowEnclosesNodes'
    BY <1>4, <1>8, EnclosesAll
  <1>10. FilterWorksOnData'
    BY <1>1, <1>3 DEF ListsInv, StoreInv, FilterWorksOnData
  <1>11. QED BY <1>4, <1>5, <1>6, <1>7, <1>9, <1>10 DEF Kept, StoreInv

\* A batch whose keys each keep their incarnation and deadline or begin one that
\* nothing has reached, and whose windows enclose what it leaves under them.
WritesLives(K, ms, ws, P, puts, dels) ==
  /\ Write(ms, ws, puts, dels)
  /\ K \in SUBSET Keys /\ ms \in [K -> MetaValue] /\ ws \in [K -> Window]
  /\ P \in SUBSET DataKey /\ puts \in [P -> Values]
  /\ \A rec \in P : rec[1] \in K /\ rec[2] = ms[rec[1]].version
  /\ \A rec \in dels : rec[1] \in K
  /\ \A k \in K : \/ /\ meta[k] # NoMeta
                     /\ ms[k].version = meta[k].version
                     /\ ms[k].timestamp = meta[k].timestamp
                  \/ Unreached(k, ms[k].version)
  /\ \A k \in K : ~IsStale(ms[k], now) =>
       Encloses(k, ms[k], ws[k], (data \cup P) \ dels)

\* Such a batch keeps the filter's memory true.
LEMMA WriteOfLivesInv ==
  ASSUME ListsInv, raced = {}, raced' = {},
         NEW K, NEW ms, NEW ws, NEW P, NEW puts, NEW dels,
         WritesLives(K, ms, ws, P, puts, dels)
  PROVE  Kept
  <1>0. /\ Write(ms, ws, puts, dels)
        /\ K \in SUBSET Keys /\ ms \in [K -> MetaValue] /\ ws \in [K -> Window]
        /\ P \in SUBSET DataKey /\ puts \in [P -> Values]
        /\ \A rec \in P : rec[1] \in K /\ rec[2] = ms[rec[1]].version
        /\ \A rec \in dels : rec[1] \in K
        /\ \A k \in K : \/ /\ meta[k] # NoMeta
                           /\ ms[k].version = meta[k].version
                           /\ ms[k].timestamp = meta[k].timestamp
                        \/ Unreached(k, ms[k].version)
        /\ \A k \in K : ~IsStale(ms[k], now) =>
             Encloses(k, ms[k], ws[k], (data \cup P) \ dels)
    BY DEF WritesLives
  <1>1. /\ meta' = [k \in Keys |-> IF k \in K THEN ms[k] ELSE meta[k]]
        /\ now' = now /\ Shadow(P \cup dels)
    BY <1>0 DEF Write
  <1>2. FilterOnlyShrinks
    BY <1>1, ShadowShrinks DEF ListsInv, StoreInv
  <1>3. \A k \in K : meta'[k] = ms[k] /\ meta'[k] # NoMeta /\ ms[k].version \in Nat
    BY <1>0, <1>1, NoMetaAssumption DEF MetaValue
  <1>4. \A k \in Keys \ K : meta'[k] = meta[k]
    BY <1>1
  <1>5. \A k \in Keys : Stays(k) \/ Begins(k)
    BY <1>0, <1>3, <1>4 DEF Stays, Begins
  <1>6. DoomedAreDead' /\ AbsenceStaysTrue' /\ MemoryStaysSafe'
    BY <1>1, <1>2, <1>5, StaysOrBegins DEF ListsInv
  <1>7. ASSUME NEW rec \in data, rec[1] \in K
        PROVE  rec[2] <= ms[rec[1]].version
    <2>1. rec[2] \in Nat /\ ms[rec[1]].version \in Nat
      BY <1>0, <1>3, <1>7 DEF ListsInv, ListsTypeOK, StoreTypeOK, DataKey
    <2>2. QED BY <1>0, <1>7, <2>1 DEF ListsInv, StoreInv, VersionsBehindMeta, Unreached
  <1>8. QED BY <1>0, <1>6, <1>7, WriteInv

\* The records of one key and version.
LEMMA NodesAre ==
  ASSUME NEW k \in Keys, NEW v \in Nat, NEW S \in SUBSET Members, NEW f \in [S -> Values]
  PROVE  /\ Records(k, v, S) \in SUBSET DataKey
         /\ \A rec \in Records(k, v, S) : rec[1] = k /\ rec[2] = v
         /\ Nodes(k, v, f) \in [Records(k, v, S) -> Values]
  <1>1. \A rec \in Records(k, v, S) : rec[3] \in S
    BY DEF Records
  <1>2. QED BY <1>1, RecordsType DEF Nodes

\* What a batch leaves of the version it writes.
LEMMA StoredAfter ==
  ASSUME NEW k, NEW v, NEW S \in SUBSET Members, NEW G \in SUBSET Members, NEW D
  PROVE  StoredIn((D \cup Records(k, v, S)) \ Records(k, v, G), k, v)
           = (StoredIn(D, k, v) \cup S) \ G
  BY DEF StoredIn, Records

\* A function of one key.
LEMMA OnlyIs ==
  ASSUME NEW k, NEW A, NEW x \in A
  PROVE  Only(k, x) \in [{k} -> A] /\ Only(k, x)[k] = x
  BY DEF Only

\* A write to a live list that moves its indices by what it puts and deletes.
Shifts(k, delta, left, right, S, f, G) ==
  /\ Live(k)
  /\ Update(k, delta, left, right, f, G)
  /\ S \in SUBSET Members /\ f \in [S -> Values] /\ G \in SUBSET Members
  /\ left < right
  /\ (First(k) .. Last(k) \cup S) \ G = left + 1 .. right - 1
  /\ delta = (right - left) - (window[k].right - window[k].left)

\* Such a write keeps the window around the nodes.
LEMMA UpdateInv ==
  ASSUME ListsInv, raced = {}, raced' = {}, NEW k \in Keys,
         NEW delta, NEW left, NEW right, NEW S, NEW f, NEW G,
         Shifts(k, delta, left, right, S, f, G)
  PROVE  Kept
  <1>0. /\ Live(k) /\ Update(k, delta, left, right, f, G)
        /\ S \in SUBSET Members /\ f \in [S -> Values] /\ G \in SUBSET Members
        /\ left < right
        /\ (First(k) .. Last(k) \cup S) \ G = left + 1 .. right - 1
        /\ delta = (right - left) - (window[k].right - window[k].left)
        /\ left \in Nat /\ right \in Nat /\ delta \in Int
    <2>1. left \in Nat /\ right \in Nat
      BY SomeIndices DEF Shifts, Update, Write, Only, Window
    <2>2. window[k].left \in Nat /\ window[k].right \in Nat
      BY SomeIndices DEF ListsInv, ListsTypeOK
    <2>3. QED BY <2>1, <2>2 DEF Shifts
  <1>1. /\ meta[k] \in MetaValue /\ meta[k] # NoMeta /\ meta[k].count \in Int
        /\ Fresh(k)
    BY <1>0, LiveFacts DEF ListsInv, StoreInv
  <1>2. PICK v \in Nat : v = meta[k].version
    BY <1>1 DEF MetaValue
  <1>3. PICK m \in MetaValue :
          /\ m = ModifyCount(meta[k], delta)
          /\ m.version = v /\ m.timestamp = meta[k].timestamp
          /\ m.count = meta[k].count + delta
    <2>1. ModifyCount(meta[k], delta) \in MetaValue
      BY <1>0, <1>1 DEF ModifyCount, MetaValue
    <2>2. QED BY <1>0, <1>1, <1>2, <2>1 DEF ModifyCount, MetaValue
  <1>4. PICK w : w = [left |-> left, right |-> right]
    OBVIOUS
  <1>5. Write(Only(k, m), Only(k, w), Nodes(k, v, f), Records(k, v, G))
    BY <1>0, <1>2, <1>3, <1>4 DEF Update
  <1>6. w \in Window /\ left \in Nat /\ right \in Nat /\ w.left = left /\ w.right = right
    BY <1>0, <1>4, <1>5 DEF Write, Only, Window
  <1>7. PICK ms \in [{k} -> MetaValue], ws \in [{k} -> Window] :
          ms = Only(k, m) /\ ms[k] = m /\ ws = Only(k, w) /\ ws[k] = w
    <2>1. Only(k, m) \in [{k} -> MetaValue] /\ Only(k, m)[k] = m
      BY OnlyIs
    <2>2. Only(k, w) \in [{k} -> Window] /\ Only(k, w)[k] = w
      BY <1>6, OnlyIs
    <2>3. QED BY <2>1, <2>2
  <1>8. Encloses(k, m, w, (data \cup Records(k, v, S)) \ Records(k, v, G))
    <2>1. /\ StoredIn(data, k, v) = First(k) .. Last(k)
          /\ window[k].left \in Nat /\ window[k].right \in Nat
          /\ meta[k].count = window[k].right - 1 - window[k].left
      BY <1>1, <1>2, FreshEncloses DEF Encloses, Stored, StoredIn
    <2>2. StoredIn((data \cup Records(k, v, S)) \ Records(k, v, G), k, v)
            = (StoredIn(data, k, v) \cup S) \ G
      BY <1>0, StoredAfter
    <2>3. m.count = right - 1 - left
      BY <1>0, <1>3, <1>6, <2>1
    <2>4. QED BY <1>0, <1>3, <1>6, <2>1, <2>2, <2>3 DEF Encloses
  <1>9. /\ Records(k, v, S) \in SUBSET DataKey
        /\ Nodes(k, v, f) \in [Records(k, v, S) -> Values]
        /\ \A rec \in Records(k, v, S) : rec[1] = k /\ rec[2] = v
        /\ \A rec \in Records(k, v, G) : rec[1] = k
    BY <1>0, NodesAre, RecordsType
  <1>10. PICK P \in SUBSET DataKey, dels \in SUBSET DataKey :
           P = Records(k, v, S) /\ dels = Records(k, v, G)
    BY <1>0, <1>9, RecordsType
  <1>11. PICK puts \in [P -> Values] : puts = Nodes(k, v, f)
    BY <1>9, <1>10
  <1>12. /\ \A j \in {k} : ~IsStale(ms[j], now) =>
              Encloses(j, ms[j], ws[j], (data \cup P) \ dels)
         /\ \A j \in {k} : /\ meta[j] # NoMeta
                          /\ ms[j].version = meta[j].version
                          /\ ms[j].timestamp = meta[j].timestamp
         /\ \A rec \in P : rec[1] \in {k} /\ rec[2] = ms[rec[1]].version
         /\ \A rec \in dels : rec[1] \in {k}
    BY <1>1, <1>2, <1>3, <1>7, <1>8, <1>9, <1>10
  <1>13. Write(ms, ws, puts, dels)
    BY <1>5, <1>7, <1>10, <1>11
  <1>14. {k} \in SUBSET Keys
    OBVIOUS
  <1>15. WritesLives({k}, ms, ws, P, puts, dels)
    BY <1>12, <1>13, <1>14 DEF WritesLives
  <1>16. QED BY <1>15, WriteOfLivesInv

\* A write that starts a list anew and fills the window it writes.
StartsAnew(k, m, w, S, f, dels) ==
  /\ Write(Only(k, m), Only(k, w), Nodes(k, m.version, f), dels)
  /\ m \in MetaValue /\ Unreached(k, m.version)
  /\ w \in Window /\ S \in SUBSET Members /\ f \in [S -> Values]
  /\ \A rec \in dels : rec[1] = k /\ rec \in data
  /\ w.left < w.right
  /\ S = w.left + 1 .. w.right - 1
  /\ m.count = w.right - 1 - w.left

\* So does one that starts anew: no record has its version yet.
LEMMA AnewInv ==
  ASSUME ListsInv, raced = {}, raced' = {}, NEW k \in Keys,
         NEW m, NEW w, NEW S, NEW f, NEW dels, StartsAnew(k, m, w, S, f, dels)
  PROVE  Kept
  <1>0. /\ Write(Only(k, m), Only(k, w), Nodes(k, m.version, f), dels)
        /\ m \in MetaValue /\ Unreached(k, m.version)
        /\ w \in Window /\ S \in SUBSET Members /\ f \in [S -> Values]
        /\ \A rec \in dels : rec[1] = k /\ rec \in data
        /\ w.left < w.right
        /\ S = w.left + 1 .. w.right - 1
        /\ m.count = w.right - 1 - w.left
    BY DEF StartsAnew
  <1>1. PICK v \in Nat : v = m.version
    BY <1>0 DEF MetaValue
  <1>2. PICK ms \in [{k} -> MetaValue], ws \in [{k} -> Window] :
          ms = Only(k, m) /\ ms[k] = m /\ ws = Only(k, w) /\ ws[k] = w
    <2>1. Only(k, m) \in [{k} -> MetaValue] /\ Only(k, m)[k] = m
      BY <1>0, OnlyIs
    <2>2. Only(k, w) \in [{k} -> Window] /\ Only(k, w)[k] = w
      BY <1>0, OnlyIs
    <2>3. QED BY <2>1, <2>2
  <1>3. /\ Records(k, v, S) \in SUBSET DataKey
        /\ Nodes(k, v, f) \in [Records(k, v, S) -> Values]
        /\ \A rec \in Records(k, v, S) : rec[1] = k /\ rec[2] = v
    BY <1>0, NodesAre
  <1>4. \A rec \in data : rec[1] = k => rec[2] # v
    BY <1>0, <1>1 DEF Unreached, ListsInv, ListsTypeOK, StoreTypeOK, DataKey
  <1>5. StoredIn((data \cup Records(k, v, S)) \ dels, k, v) = S
    BY <1>0, <1>4 DEF StoredIn, Records
  <1>6. Encloses(k, m, w, (data \cup Records(k, v, S)) \ dels)
    BY <1>0, <1>1, <1>5 DEF Encloses
  <1>7. PICK P \in SUBSET DataKey : P = Records(k, v, S)
    BY <1>3
  <1>8. PICK puts \in [P -> Values] : puts = Nodes(k, v, f)
    BY <1>3, <1>7
  <1>9. /\ \A j \in {k} : ~IsStale(ms[j], now) =>
             Encloses(j, ms[j], ws[j], (data \cup P) \ dels)
        /\ \A j \in {k} : Unreached(j, ms[j].version)
        /\ \A rec \in P : rec[1] \in {k} /\ rec[2] = ms[rec[1]].version
        /\ \A rec \in dels : rec[1] \in {k}
    BY <1>0, <1>1, <1>2, <1>3, <1>6, <1>7
  <1>10. Write(ms, ws, puts, dels)
    BY <1>0, <1>1, <1>2, <1>7, <1>8
  <1>11. {k} \in SUBSET Keys
    OBVIOUS
  <1>12. WritesLives({k}, ms, ws, P, puts, dels)
    BY <1>9, <1>10, <1>11 DEF WritesLives
  <1>13. QED BY <1>12, WriteOfLivesInv

----------------------------------------------------------------------------
(* Handlers of one list.                                                    *)

\* What is known of a live list.
LEMMA LiveList ==
  ASSUME ListsInv, raced = {}, NEW k \in Keys, Live(k)
  PROVE  \E L, R \in Nat :
          /\ window[k] = [left |-> L, right |-> R] /\ L < R
          /\ First(k) = L + 1 /\ Last(k) = R - 1
          /\ L \in Members /\ R \in Members /\ L + 1 .. R - 1 \subseteq Members
          /\ \A i \in Members : Node(k, i) # NoValue <=> i \in L + 1 .. R - 1
          /\ \A i \in L + 1 .. R - 1 : Node(k, i) \in Values
  <1>1. Fresh(k)
    BY LiveFacts DEF ListsInv, StoreInv
  <1>2. /\ window[k] \in Window /\ window[k].left \in Nat /\ window[k].right \in Nat
        /\ window[k].left < window[k].right
        /\ First(k) = window[k].left + 1 /\ Last(k) = window[k].right - 1
        /\ Stored(k, meta[k].version) = First(k) .. Last(k)
    BY <1>1, FreshEncloses DEF Encloses
  <1>3. First(k) .. Last(k) \subseteq Members
    BY <1>2 DEF Stored
  <1>4. \A i \in Members : i \in First(k) .. Last(k) <=> <<k, meta[k].version, i>> \in data
    BY <1>2 DEF Stored
  <1>5. value \in [data -> Values] /\ NoValue \notin Values
    BY ListsAssumption DEF ListsInv, ListsTypeOK
  <1>6. \A i \in Members : i \in First(k) .. Last(k) => Node(k, i) \in Values
    BY <1>4, <1>5 DEF Node
  <1>7. \A i \in Members : Node(k, i) # NoValue <=> i \in First(k) .. Last(k)
    BY <1>4, <1>5, <1>6 DEF Node
  <1>8. /\ window[k] = [left |-> window[k].left, right |-> window[k].right]
        /\ window[k].left \in Members /\ window[k].right \in Members
    BY <1>2 DEF Window
  <1>9. PICK L \in Nat, R \in Nat : L = window[k].left /\ R = window[k].right
    BY <1>2
  <1>10. QED BY <1>2, <1>3, <1>6, <1>7, <1>8, <1>9

\* The handlers of a list that write within it or at its ends.
LEMMA RPushxInv ==
  ASSUME ListsInv, raced = {}, raced' = {}, NEW k \in Keys, NEW v \in Values, RPushx(k, v)
  PROVE  Kept
  <1>1. /\ Live(k)
        /\ Update(k, 1, window[k].left, window[k].right + 1, Only(window[k].right, v), {})
    BY DEF RPushx
  <1>2. PICK L \in Nat, R \in Nat :
          /\ window[k] = [left |-> L, right |-> R] /\ L < R
          /\ First(k) = L + 1 /\ Last(k) = R - 1 /\ R \in Members
    BY <1>1, LiveList
  <1>3. Only(R, v) \in [{R} -> Values]
    BY OnlyIs
  <1>4. Shifts(k, 1, L, R + 1, {R}, Only(R, v), {})
    BY <1>1, <1>2, <1>3 DEF Shifts
  <1>5. QED BY <1>4, UpdateInv

\* The first node is there as long as the list is live.
LEMMA LPopInv ==
  ASSUME ListsInv, raced = {}, raced' = {}, NEW k \in Keys, LPop(k)
  PROVE  Kept
  <1>1. /\ Live(k) /\ Node(k, First(k)) # NoValue
        /\ Update(k, -1, window[k].left + 1, window[k].right, <<>>, {First(k)})
    BY DEF LPop
  <1>2. PICK L \in Nat, R \in Nat :
          /\ window[k] = [left |-> L, right |-> R] /\ L < R
          /\ First(k) = L + 1 /\ Last(k) = R - 1
          /\ \A i \in Members : Node(k, i) # NoValue <=> i \in L + 1 .. R - 1
    BY <1>1, LiveList
  <1>3. L + 1 \in Members /\ <<>> \in [{} -> Values]
    BY <1>1, <1>2 DEF Update, Write, Only, Window
  <1>4. L + 1 < R
    BY <1>1, <1>2, <1>3
  <1>5. Shifts(k, -1, L + 1, R, {}, <<>>, {L + 1})
    BY <1>1, <1>2, <1>3, <1>4 DEF Shifts
  <1>6. QED BY <1>5, UpdateInv

\* So is the last.
LEMMA RPopInv ==
  ASSUME ListsInv, raced = {}, raced' = {}, NEW k \in Keys, RPop(k)
  PROVE  Kept
  <1>1. /\ Live(k) /\ Node(k, Last(k)) # NoValue
        /\ Update(k, -1, window[k].left, window[k].right - 1, <<>>, {Last(k)})
    BY DEF RPop
  <1>2. PICK L \in Nat, R \in Nat :
          /\ window[k] = [left |-> L, right |-> R] /\ L < R
          /\ First(k) = L + 1 /\ Last(k) = R - 1
          /\ \A i \in Members : Node(k, i) # NoValue <=> i \in L + 1 .. R - 1
    BY <1>1, LiveList
  <1>3. R - 1 \in Members /\ <<>> \in [{} -> Values]
    BY <1>1, <1>2 DEF Update, Write, Only, Window
  <1>4. L < R - 1
    BY <1>1, <1>2, <1>3
  <1>5. Shifts(k, -1, L, R - 1, {}, <<>>, {R - 1})
    BY <1>1, <1>2, <1>3, <1>4 DEF Shifts
  <1>6. QED BY <1>5, UpdateInv

\* A node set within the window is one that is there.
LEMMA LSetInv ==
  ASSUME ListsInv, raced = {}, raced' = {}, NEW k \in Keys, NEW i, NEW v \in Values,
         LSet(k, i, v)
  PROVE  Kept
  <1>1. /\ Live(k)
        /\ Update(k, 0, window[k].left, window[k].right, Only(Position(k, i), v), {})
        /\ Position(k, i) \in First(k) .. Last(k)
    BY DEF LSet
  <1>2. PICK p : p = Position(k, i)
    OBVIOUS
  <1>3. PICK L \in Nat, R \in Nat :
          /\ window[k] = [left |-> L, right |-> R] /\ L < R
          /\ First(k) = L + 1 /\ Last(k) = R - 1 /\ L + 1 .. R - 1 \subseteq Members
    BY <1>1, LiveList
  <1>4. Only(p, v) \in [{p} -> Values]
    BY OnlyIs
  <1>5. Shifts(k, 0, L, R, {p}, Only(p, v), {})
    BY <1>1, <1>2, <1>3, <1>4 DEF Shifts
  <1>6. QED BY <1>5, UpdateInv

\* The nodes S of a push in front of index L, and what it does to a list that ends
\* before R.
Pushes(k, vs, L, R, S, f) ==
  /\ S = L - Len(vs) + 1 .. L
  /\ f \in [S -> Values] /\ f = [i \in S |-> vs[L - i + 1]]
  /\ PushWindow(k) = [left |-> L, right |-> R]
  /\ \/ /\ Live(k)
        /\ Shifts(k, Len(vs), L - Len(vs), R, S, f, {})
     \/ /\ ~Live(k) /\ R = L + 1
        /\ \E m : /\ m.timestamp = 0
                  /\ StartsAnew(k, m, [left |-> L - Len(vs), right |-> R], S, f, {})

\* A push prolongs a live list or starts one anew, in front of the middle.
LEMMA LPushPushes ==
  ASSUME ListsInv, raced = {}, NEW k \in Keys, NEW vs \in Seq(Values),
         vs # <<>>, LPush(k, vs)
  PROVE  \E L, R \in Nat : \E S, f : Pushes(k, vs, L, R, S, f)
  <1>1. PICK n \in Nat \ {0} : n = Len(vs)
    OBVIOUS
  <1>2. PICK L \in Members, R \in Members : PushWindow(k) = [left |-> L, right |-> R]
    BY SomeIndices DEF PushWindow, ListsInv, ListsTypeOK, Window
  <1>3. L \in Nat /\ R \in Nat
    BY SomeIndices
  <1>4. PICK w, S, f : /\ w = [left |-> L - n, right |-> R]
                       /\ S = L - n + 1 .. L
                       /\ f = [i \in S |-> vs[L - i + 1]]
    OBVIOUS
  <1>5. PICK m : m = ModifyCount(PushMeta(k), n)
    OBVIOUS
  <1>6. Write(Only(k, m), Only(k, w), Nodes(k, m.version, f), {})
    <2>1. w = [PushWindow(k) EXCEPT !.left = @ - n]
      BY <1>2, <1>4
    <2>2. QED BY <1>1, <1>2, <1>4, <1>5, <2>1 DEF LPush
  <1>7. w \in Window /\ L - n \in Members /\ L - n \in Nat /\ S \in SUBSET Members
    <2>1. w \in Window
      BY <1>6 DEF Write, Only
    <2>2. L - n \in Members
      BY <1>4, <2>1 DEF Window
    <2>3. QED BY <1>3, <1>4, <2>1, <2>2, SomeIndices, ListsAssumption
  <1>8. f \in [S -> Values]
    BY <1>1, <1>3, <1>4
  <1>9. CASE Live(k)
    <2>1. PushWindow(k) = window[k] /\ PushMeta(k) = meta[k]
      BY <1>9 DEF PushWindow, PushMeta
    <2>2. m.version = meta[k].version
      BY <1>5, <1>9, <2>1, LiveFacts DEF ListsInv, StoreInv, ModifyCount, MetaValue
    <2>3. Update(k, n, L - n, R, f, {})
      BY <1>4, <1>5, <1>6, <2>1, <2>2 DEF Update, Records
    <2>4. L < R /\ First(k) = L + 1 /\ Last(k) = R - 1
      <3>1. window[k].left = L /\ window[k].right = R
        BY <1>2, <2>1
      <3>2. \E l, r \in Nat : window[k] = [left |-> l, right |-> r] /\ l < r
        BY <1>9, LiveList
      <3>3. QED BY <3>1, <3>2 DEF First, Last
    <2>5. (First(k) .. Last(k) \cup S) \ {} = (L - n) + 1 .. R - 1
      BY <1>3, <1>4, <2>4
    <2>6. n = (R - (L - n)) - (window[k].right - window[k].left)
      BY <1>2, <1>3, <2>1
    <2>7. Shifts(k, n, L - n, R, S, f, {})
      BY <1>3, <1>7, <1>8, <1>9, <2>3, <2>4, <2>5, <2>6 DEF Shifts
    <2>8. Pushes(k, vs, L, R, S, f)
      BY <1>1, <1>2, <1>4, <1>8, <1>9, <2>7 DEF Pushes
    <2>9. QED BY <1>3, <2>8
  <1>10. CASE ~Live(k)
    <2>1. PushWindow(k) = InitialWindow /\ PushMeta(k) = Renewed(k)
      BY <1>10 DEF PushWindow, PushMeta
    <2>2. R = L + 1
      BY <1>2, <2>1, SomeIndices
    <2>3. m \in MetaValue /\ m.version = Renewed(k).version
          /\ m.count = n /\ m.timestamp = 0
      BY <1>5, <2>1, RenewedMeta DEF ListsInv, StoreInv, ModifyCount, MetaValue
    <2>4. Unreached(k, m.version)
      BY <2>3, RenewedUnreached DEF ListsInv
    <2>5. /\ w.left < w.right /\ S = w.left + 1 .. w.right - 1
          /\ m.count = w.right - 1 - w.left
      BY <1>3, <1>4, <2>2, <2>3
    <2>6. StartsAnew(k, m, w, S, f, {})
      BY <1>6, <1>7, <1>8, <2>3, <2>4, <2>5 DEF StartsAnew
    <2>7. Pushes(k, vs, L, R, S, f)
      BY <1>1, <1>2, <1>4, <1>8, <1>10, <2>2, <2>3, <2>6 DEF Pushes
    <2>8. QED BY <1>3, <2>7
  <1>11. QED BY <1>9, <1>10

\* Either way its window encloses the nodes.
LEMMA LPushInv ==
  ASSUME ListsInv, raced = {}, raced' = {}, NEW k \in Keys, NEW vs \in Seq(Values),
         vs # <<>>, LPush(k, vs)
  PROVE  Kept
  <1>0. PICK L \in Nat, R \in Nat : \E S, f : Pushes(k, vs, L, R, S, f)
    BY LPushPushes
  <1>1. PICK S, f : Pushes(k, vs, L, R, S, f)
    BY <1>0
  <1>2. CASE Shifts(k, Len(vs), L - Len(vs), R, S, f, {})
    BY <1>2, UpdateInv
  <1>3. ASSUME NEW m, StartsAnew(k, m, [left |-> L - Len(vs), right |-> R], S, f, {})
        PROVE  Kept
    BY <1>3, AnewInv
  <1>4. QED BY <1>1, <1>2, <1>3 DEF Pushes

\* The ends of a set of numbers below a bound.
LEMMA EndsAre ==
  ASSUME NEW b \in Nat, NEW S \in SUBSET (0 .. b), S # {}
  PROVE  /\ Least(S) \in S /\ Greatest(S) \in S
         /\ \A i \in S : Least(S) <= i /\ i <= Greatest(S)
  <1>1. \E i \in S : \A j \in S : i <= j
    <2>1. S \subseteq Nat
      OBVIOUS
    <2>2. PICK i \in S : \A j \in S : ~(<<j, i>> \in OpToRel(<, Nat))
      BY <2>1, NatLessThanWellFounded, WFMin
    <2>3. \A j \in S : ~(j < i)
      BY <2>1, <2>2 DEF OpToRel
    <2>4. QED BY <2>1, <2>3
  <1>2. \E i \in S : \A j \in S : j <= i
    <2> DEFINE T == {b - i : i \in S}
    <2>1. T \subseteq Nat /\ T # {}
      <3>1. \A i \in S : b - i \in Nat
        OBVIOUS
      <3>2. PICK i \in S : TRUE
        OBVIOUS
      <3>3. b - i \in T
        BY <3>2
      <3>4. QED BY <3>1, <3>3
    <2>2. PICK x \in T : \A y \in T : ~(<<y, x>> \in OpToRel(<, Nat))
      BY <2>1, NatLessThanWellFounded, WFMin
    <2>3. PICK i \in S : x = b - i
      OBVIOUS
    <2>4. \A j \in S : ~(b - j < x)
      BY <2>1, <2>2 DEF OpToRel
    <2>5. QED BY <2>3, <2>4
  <1>3. QED BY <1>1, <1>2 DEF Least, Greatest

\* An index argument counts from an end of the list to some number.
LEMMA PositionIs ==
  ASSUME NEW k, NEW L \in Nat, NEW R \in Nat, window[k] = [left |-> L, right |-> R],
         NEW i \in Indexes
  PROVE  Position(k, i) \in Int
  <1>1. 2 * Half \in Nat \ {0} /\ i \in Int
    BY ListsAssumption
  <1>2. \A a \in Int : a % (2 * Half) \in Int
    BY <1>1
  <1>3. QED BY <1>1, <1>2 DEF Position

\* A trimmed list keeps the indices from l to h.
Trims(k, l, h) ==
  /\ l \in Nat /\ h \in Nat /\ First(k) <= l /\ l <= h /\ h <= Last(k)
  /\ \E gone : Shifts(k, -Cardinality(gone), l - 1, h + 1, {}, <<>>, gone)

\* Or it starts anew with none.
Empties(k) == \E f, dels : StartsAnew(k, Renewed(k), InitialWindow, {}, f, dels)

\* LTrim does the one or the other.
LEMMA LTrimTrims ==
  ASSUME ListsInv, raced = {}, NEW k \in Keys, NEW start \in Indexes,
         NEW stop \in Indexes, LTrim(k, start, stop)
  PROVE  \/ InRange(k, start, stop) = {} /\ Empties(k)
         \/ \E l, h : InRange(k, start, stop) = l .. h /\ Trims(k, l, h)
  <1>1. Live(k)
    BY DEF LTrim
  <1>2. PICK L \in Nat, R \in Nat :
          /\ window[k] = [left |-> L, right |-> R] /\ L < R
          /\ First(k) = L + 1 /\ Last(k) = R - 1 /\ L + 1 .. R - 1 \subseteq Members
    BY <1>1, LiveList
  <1>3. PICK kept : kept = InRange(k, start, stop)
    OBVIOUS
  <1>4. PICK gone : gone = (L + 1 .. R - 1) \ kept
    OBVIOUS
  <1>5. PICK v \in Nat : v = meta[k].version /\ Stored(k, v) = L + 1 .. R - 1
    <2>1. Fresh(k) /\ meta[k].version \in Nat
      BY <1>1, LiveFacts DEF ListsInv, StoreInv
    <2>2. QED BY <1>2, <2>1, FreshEncloses
  <1>6. CASE kept = {}
    <2>1. Write(Only(k, Renewed(k)), Only(k, InitialWindow), <<>>, Records(k, v, gone))
      BY <1>2, <1>3, <1>4, <1>5, <1>6 DEF LTrim
    <2>2. PICK m \in MetaValue : m = Renewed(k) /\ m.count = 0 /\ Unreached(k, m.version)
      BY RenewedMeta, RenewedUnreached DEF ListsInv, StoreInv
    <2>3. PICK f : f = [x \in {} |-> 0]
      OBVIOUS
    <2>4. f \in [{} -> Values] /\ Nodes(k, m.version, f) = <<>>
      BY <2>3 DEF Nodes, Records
    <2>5. \A rec \in Records(k, v, gone) : rec[1] = k /\ rec \in data
      BY <1>4, <1>5 DEF Records, Stored
    <2>6. PICK a \in Nat : /\ InitialWindow.left = a /\ InitialWindow.right = a + 1
                           /\ InitialWindow \in Window
      BY SomeIndices DEF Window
    <2>7. /\ InitialWindow.left < InitialWindow.right
          /\ {} = InitialWindow.left + 1 .. InitialWindow.right - 1
          /\ m.count = InitialWindow.right - 1 - InitialWindow.left
      BY <2>2, <2>6
    <2>8. StartsAnew(k, m, InitialWindow, {}, f, Records(k, v, gone))
      BY <2>1, <2>2, <2>4, <2>5, <2>6, <2>7 DEF StartsAnew
    <2>9. QED BY <1>3, <1>6, <2>2, <2>8 DEF Empties
  <1>7. CASE kept # {}
    <2>1. PICK l, h : l = Least(kept) /\ h = Greatest(kept)
      OBVIOUS
    <2>2. Update(k, -Cardinality(gone), l - 1, h + 1, <<>>, gone)
      BY <1>2, <1>3, <1>4, <1>7, <2>1 DEF LTrim
    <2>3. /\ kept \subseteq L + 1 .. R - 1
          /\ l \in kept /\ h \in kept
          /\ \A i \in L + 1 .. R - 1 : l <= i /\ i <= h => i \in kept
          /\ \A i \in kept : l <= i /\ i <= h
      <3>1. PICK p \in Int, q \in Int : p = Position(k, start) /\ q = Position(k, stop)
        BY <1>2, PositionIs
      <3>2. kept = {i \in L + 1 .. R - 1 : p <= i /\ i <= q}
        BY <1>2, <1>3, <3>1 DEF InRange
      <3>3. kept \in SUBSET (0 .. R)
        BY <3>2
      <3>4. l \in kept /\ h \in kept /\ \A i \in kept : l <= i /\ i <= h
        BY <1>7, <2>1, <3>3, EndsAre
      <3>5. QED BY <3>2, <3>4
    <2>4. kept = l .. h /\ l \in Nat /\ h \in Nat /\ L < l /\ l <= h /\ h < R
      <3>1. l \in Nat /\ h \in Nat /\ L < l /\ l <= h /\ h < R
        BY <2>3
      <3>2. kept \subseteq l .. h
        BY <2>3, <3>1
      <3>3. l .. h \subseteq L + 1 .. R - 1
        BY <3>1
      <3>4. l .. h \subseteq kept
        BY <2>3, <3>1, <3>3
      <3>5. QED BY <3>1, <3>2, <3>4
    <2>5. Cardinality(gone) = (R - 1 - L) - (h - l + 1)
      <3>1. kept \in SUBSET (L + 1 .. R - 1) /\ (L + 1 .. R - 1) \in SUBSET Members
        BY <1>2, <2>3
      <3>2. Cardinality(gone) = Cardinality(L + 1 .. R - 1) - Cardinality(kept)
        BY <1>4, <3>1, ShrinksByHeld
      <3>3. /\ Cardinality(L + 1 .. R - 1) = R - 1 - L
            /\ Cardinality(kept) = h - l + 1
        BY <2>4, WidthIs
      <3>4. QED BY <3>2, <3>3
    <2>6. Shifts(k, -Cardinality(gone), l - 1, h + 1, {}, <<>>, gone)
      BY <1>1, <1>2, <1>4, <2>2, <2>4, <2>5 DEF Shifts
    <2>7. Trims(k, l, h)
      BY <1>2, <2>4, <2>6 DEF Trims
    <2>8. QED BY <1>3, <2>4, <2>7
  <1>8. QED BY <1>6, <1>7

\* Either way its window encloses the nodes.
LEMMA LTrimInv ==
  ASSUME ListsInv, raced = {}, raced' = {}, NEW k \in Keys, NEW start \in Indexes,
         NEW stop \in Indexes, LTrim(k, start, stop)
  PROVE  Kept
  <1>1. CASE Empties(k)
    BY <1>1, AnewInv DEF Empties
  <1>2. ASSUME NEW l, NEW h, Trims(k, l, h)
        PROVE  Kept
    BY <1>2, UpdateInv DEF Trims
  <1>3. QED BY <1>1, <1>2, LTrimTrims

\* v comes between the nodes at l and l + 1 of a list from L + 1 to R - 1: those up
\* to l move left, or those behind it right.
Inserts(k, v, L, R, l) ==
  \/ \E S, f : /\ S = L .. l /\ f = [i \in S |-> IF i = l THEN v ELSE Node(k, i + 1)]
              /\ Shifts(k, 1, L - 1, R, S, f, {})
  \/ \E S, f : /\ S = l + 1 .. R
              /\ f = [i \in S |-> IF i = l + 1 THEN v ELSE Node(k, i - 1)]
              /\ Shifts(k, 1, L, R + 1, S, f, {})

\* LInsert puts v on one side of the first pivot.
LEMMA LInsertInserts ==
  ASSUME ListsInv, raced = {}, NEW k \in Keys, NEW before \in BOOLEAN,
         NEW pivot, NEW v \in Values, LInsert(k, before, pivot, v)
  PROVE  \E L, R, p \in Nat :
           /\ window[k] = [left |-> L, right |-> R]
           /\ p \in L + 1 .. R - 1 /\ Node(k, p) = pivot
           /\ \A i \in L + 1 .. p - 1 : Node(k, i) # pivot
           /\ Inserts(k, v, L, R, IF before THEN p - 1 ELSE p)
  <1>1. Live(k) /\ Consecutive(k) /\ Occurrences(k, pivot) # {}
    BY DEF LInsert
  <1>2. PICK L \in Nat, R \in Nat :
          /\ window[k] = [left |-> L, right |-> R] /\ L < R
          /\ First(k) = L + 1 /\ Last(k) = R - 1
          /\ L \in Members /\ R \in Members
          /\ \A i \in L + 1 .. R - 1 : Node(k, i) \in Values
    BY <1>1, LiveList
  <1>3. PICK p \in Nat : /\ p = Least(Occurrences(k, pivot)) /\ L < p /\ p < R
                        /\ Node(k, p) = pivot
                        /\ \A i \in L + 1 .. p - 1 : Node(k, i) # pivot
    <2>1. Occurrences(k, pivot) \in SUBSET (L + 1 .. R - 1)
      BY <1>2 DEF Occurrences
    <2>2. Occurrences(k, pivot) \in SUBSET (0 .. R)
      BY <2>1
    <2>3. PICK p \in Occurrences(k, pivot) :
            p = Least(Occurrences(k, pivot)) /\ \A i \in Occurrences(k, pivot) : p <= i
      BY <1>1, <2>2, EndsAre
    <2>4. p \in Nat /\ L < p /\ p < R /\ Node(k, p) = pivot
      BY <1>2, <2>1, <2>3 DEF Occurrences
    <2>5. \A i \in L + 1 .. p - 1 : i \in L + 1 .. R - 1 /\ ~(p <= i)
      BY <2>4
    <2>6. \A i \in L + 1 .. p - 1 : Node(k, i) # pivot
      BY <1>2, <2>3, <2>5 DEF Occurrences
    <2>7. QED BY <2>3, <2>4, <2>6
  <1>4. PICK l, r : /\ l = IF before THEN p - 1 ELSE p
                    /\ r = IF before THEN p ELSE p + 1
    OBVIOUS
  <1>5. ASSUME Update(k, 1, L - 1, R,
               [i \in L .. l |-> IF i = l THEN v ELSE Node(k, i + 1)], {})
        PROVE  Inserts(k, v, L, R, l)
    <2>1. L .. l \in SUBSET Members /\ \A i \in (L .. l) \ {l} : i + 1 \in L + 1 .. R - 1
      <3>1. l \in Int /\ l < R
        BY <1>3, <1>4
      <3>2. PICK N \in Int : N = 2 * Half - 1 /\ R <= N
        BY <1>2, ListsAssumption
      <3>3. L .. l \in SUBSET (0 .. N)
        BY <3>1, <3>2
      <3>4. \A i \in (L .. l) \ {l} : i + 1 \in L + 1 .. R - 1
        BY <3>1
      <3>5. QED BY <3>2, <3>3, <3>4, ListsAssumption
    <2>2. [i \in L .. l |-> IF i = l THEN v ELSE Node(k, i + 1)] \in [L .. l -> Values]
      BY <1>2, <2>1
    <2>3. (L + 1 .. R - 1 \cup L .. l) \ {} = (L - 1) + 1 .. R - 1
      BY <1>2, <1>3, <1>4
    <2>4. PICK S, f : /\ S = L .. l
                      /\ f = [i \in L .. l |-> IF i = l THEN v ELSE Node(k, i + 1)]
      OBVIOUS
    <2>5. Shifts(k, 1, L - 1, R, S, f, {})
      BY <1>1, <1>2, <1>5, <2>1, <2>2, <2>3, <2>4 DEF Shifts
    <2>6. QED BY <2>4, <2>5 DEF Inserts
  <1>6. ASSUME Update(k, 1, L, R + 1,
               [i \in r .. R |-> IF i = r THEN v ELSE Node(k, i - 1)], {})
        PROVE  Inserts(k, v, L, R, l)
    <2>1. r .. R \in SUBSET Members /\ \A i \in (r .. R) \ {r} : i - 1 \in L + 1 .. R - 1
      <3>1. r \in Int /\ L < r
        BY <1>3, <1>4
      <3>2. PICK N \in Int : N = 2 * Half - 1 /\ R <= N
        BY <1>2, ListsAssumption
      <3>3. r .. R \in SUBSET (0 .. N)
        BY <3>1, <3>2
      <3>4. \A i \in (r .. R) \ {r} : i - 1 \in L + 1 .. R - 1
        BY <3>1
      <3>5. QED BY <3>2, <3>3, <3>4, ListsAssumption
    <2>2. [i \in r .. R |-> IF i = r THEN v ELSE Node(k, i - 1)] \in [r .. R -> Values]
      BY <1>2, <2>1
    <2>3. (L + 1 .. R - 1 \cup r .. R) \ {} = L + 1 .. (R + 1) - 1
      BY <1>2, <1>3, <1>4
    <2>4. PICK S, f : /\ S = r .. R
                      /\ f = [i \in r .. R |-> IF i = r THEN v ELSE Node(k, i - 1)]
      OBVIOUS
    <2>5. Shifts(k, 1, L, R + 1, S, f, {})
      BY <1>1, <1>2, <1>6, <2>1, <2>2, <2>3, <2>4 DEF Shifts
    <2>6. r = l + 1
      BY <1>3, <1>4
    <2>7. QED BY <2>4, <2>5, <2>6 DEF Inserts
  <1>7. Inserts(k, v, L, R, l)
    BY <1>2, <1>3, <1>4, <1>5, <1>6 DEF LInsert
  <1>8. p \in L + 1 .. R - 1 /\ Inserts(k, v, L, R, IF before THEN p - 1 ELSE p)
    BY <1>2, <1>3, <1>4, <1>7
  <1>9. QED BY <1>2, <1>3, <1>8

\* An inserted node pushes those on one side of it one index outwards.
LEMMA LInsertInv ==
  ASSUME ListsInv, raced = {}, raced' = {}, NEW k \in Keys, NEW before \in BOOLEAN,
         NEW pivot, NEW v \in Values, LInsert(k, before, pivot, v)
  PROVE  Kept
  <1>1. PICK L \in Nat, R \in Nat, p \in Nat :
          /\ window[k] = [left |-> L, right |-> R]
          /\ p \in L + 1 .. R - 1 /\ Node(k, p) = pivot
          /\ \A i \in L + 1 .. p - 1 : Node(k, i) # pivot
          /\ Inserts(k, v, L, R, IF before THEN p - 1 ELSE p)
    BY LInsertInserts
  <1>2. PICK l : Inserts(k, v, L, R, l)
    BY <1>1
  <1>3. QED BY <1>2, UpdateInv DEF Inserts

\* The targets at or behind an index, and those at or before it.
Beyond(T, j) == {t \in T : t >= j}

UpTo(T, j) == {t \in T : t <= j}

\* Stepping over an index leaves all of them behind but the one at it.
LEMMA OneFewer ==
  ASSUME NEW T \in SUBSET Int, IsFiniteSet(T), NEW j \in Int
  PROVE  /\ Cardinality(Beyond(T, j)) \in Nat
         /\ Cardinality(Beyond(T, j)) =
              Cardinality(Beyond(T, j + 1)) + (IF j \in T THEN 1 ELSE 0)
         /\ Cardinality(UpTo(T, j)) \in Nat
         /\ Cardinality(UpTo(T, j)) =
              Cardinality(UpTo(T, j - 1)) + (IF j \in T THEN 1 ELSE 0)
  <1>1. /\ Beyond(T, j) = IF j \in T THEN Beyond(T, j + 1) \cup {j} ELSE Beyond(T, j + 1)
        /\ UpTo(T, j) = IF j \in T THEN UpTo(T, j - 1) \cup {j} ELSE UpTo(T, j - 1)
    <2>1. \A t \in Int : t >= j <=> t >= j + 1 \/ t = j
      OBVIOUS
    <2>2. \A t \in Int : t <= j <=> t <= j - 1 \/ t = j
      OBVIOUS
    <2>3. QED BY <2>1, <2>2 DEF Beyond, UpTo
  <1>2. j \notin Beyond(T, j + 1) /\ j \notin UpTo(T, j - 1)
    BY DEF Beyond, UpTo
  <1>3. \A i : Beyond(T, i) \in SUBSET T /\ UpTo(T, i) \in SUBSET T
    BY DEF Beyond, UpTo
  <1>4. \A i : /\ IsFiniteSet(Beyond(T, i)) /\ Cardinality(Beyond(T, i)) \in Nat
               /\ IsFiniteSet(UpTo(T, i)) /\ Cardinality(UpTo(T, i)) \in Nat
    BY <1>3, FS_Subset, FS_CardinalityType
  <1>5. /\ Cardinality(Beyond(T, j + 1) \cup {j}) = Cardinality(Beyond(T, j + 1)) + 1
        /\ Cardinality(UpTo(T, j - 1) \cup {j}) = Cardinality(UpTo(T, j - 1)) + 1
    BY <1>2, <1>4, FS_AddElement
  <1>6. QED BY <1>1, <1>4, <1>5

\* When the nodes from a to h that are no targets slide right, as far as there are
\* targets behind them, every index behind the gap gets one of them.
LEMMA SlidesRight ==
  ASSUME NEW a \in Nat, NEW h \in Nat, NEW T \in SUBSET Int, h \in T,
         \A t \in T : a <= t /\ t <= h,
         NEW i \in Int, a + Cardinality(T) <= i, i <= h
  PROVE  \E j \in (a .. h) \ T : j + Cardinality(Beyond(T, j)) = i
  <1>1. IsFiniteSet(T)
    <2>1. IsFiniteSet(a .. h) /\ T \in SUBSET (a .. h)
      BY FS_Interval
    <2>2. QED BY <2>1, FS_Subset
  <1>2. \A j \in Int :
          /\ Cardinality(Beyond(T, j)) \in Nat
          /\ Cardinality(Beyond(T, j)) =
               Cardinality(Beyond(T, j + 1)) + (IF j \in T THEN 1 ELSE 0)
    BY <1>1, OneFewer
  <1>3. Beyond(T, a) = T
    BY DEF Beyond
  <1>4. Beyond(T, h + 1) = {}
    <2>1. \A t \in T : ~(t >= h + 1)
      OBVIOUS
    <2>2. QED BY <2>1 DEF Beyond
  <1>5. Cardinality(Beyond(T, h)) = 1
    <2>1. Cardinality(Beyond(T, h)) = Cardinality(Beyond(T, h + 1)) + 1
      BY <1>2
    <2>2. QED BY <1>4, <2>1, FS_EmptySet
  <1>6. PICK S : S = {j \in a .. h : j + Cardinality(Beyond(T, j)) <= i}
    OBVIOUS
  <1>7. S \in SUBSET (0 .. h) /\ a \in S /\ h \notin S
    BY <1>3, <1>5, <1>6
  <1>8. PICK j \in S : \A m \in S : m <= j
    BY <1>7, EndsAre
  <1>9. j \in Int /\ j \in a .. h /\ j + 1 \in a .. h /\ j + 1 \notin S
    BY <1>6, <1>7, <1>8
  <1>10. /\ j + Cardinality(Beyond(T, j)) <= i
         /\ ~((j + 1) + Cardinality(Beyond(T, j + 1)) <= i)
    BY <1>6, <1>8, <1>9
  <1>11. PICK c \in Nat, d \in Nat :
           /\ c = Cardinality(Beyond(T, j)) /\ d = Cardinality(Beyond(T, j + 1))
           /\ c = d + (IF j \in T THEN 1 ELSE 0)
    <2>1. Cardinality(Beyond(T, j)) \in Nat /\ Cardinality(Beyond(T, j + 1)) \in Nat
      BY <1>2, <1>9
    <2>2. Cardinality(Beyond(T, j)) = Cardinality(Beyond(T, j + 1)) + (IF j \in T THEN 1 ELSE 0)
      BY <1>2, <1>9
    <2>3. QED BY <2>1, <2>2
  <1>12. j \notin T /\ j + c = i
    BY <1>9, <1>10, <1>11
  <1>13. QED BY <1>9, <1>11, <1>12

\* And so it is the other way round.
LEMMA SlidesLeft ==
  ASSUME NEW l \in Nat, NEW b \in Nat, NEW T \in SUBSET Int, l \in T,
         \A t \in T : l <= t /\ t <= b,
         NEW i \in Int, l <= i, i <= b - Cardinality(T)
  PROVE  \E j \in (l .. b) \ T : j - Cardinality(UpTo(T, j)) = i
  <1>1. IsFiniteSet(T)
    <2>1. IsFiniteSet(l .. b) /\ T \in SUBSET (l .. b)
      BY FS_Interval
    <2>2. QED BY <2>1, FS_Subset
  <1>2. \A j \in Int :
          /\ Cardinality(UpTo(T, j)) \in Nat
          /\ Cardinality(UpTo(T, j)) =
               Cardinality(UpTo(T, j - 1)) + (IF j \in T THEN 1 ELSE 0)
    BY <1>1, OneFewer
  <1>3. UpTo(T, b) = T
    BY DEF UpTo
  <1>4. UpTo(T, l - 1) = {}
    <2>1. \A t \in T : ~(t <= l - 1)
      OBVIOUS
    <2>2. QED BY <2>1 DEF UpTo
  <1>5. Cardinality(UpTo(T, l)) = 1
    <2>1. Cardinality(UpTo(T, l)) = Cardinality(UpTo(T, l - 1)) + 1
      BY <1>2
    <2>2. QED BY <1>4, <2>1, FS_EmptySet
  <1>6. PICK S : S = {j \in l .. b : i <= j - Cardinality(UpTo(T, j))}
    OBVIOUS
  <1>7. S \in SUBSET (0 .. b) /\ b \in S /\ l \notin S
    <2>1. l <= b /\ Cardinality(T) \in Nat
      BY <1>1, FS_CardinalityType
    <2>2. QED BY <1>3, <1>5, <1>6, <2>1
  <1>8. PICK j \in S : \A m \in S : j <= m
    BY <1>7, EndsAre
  <1>9. j \in Int /\ j \in l .. b /\ j - 1 \in l .. b /\ j - 1 \notin S
    BY <1>6, <1>7, <1>8
  <1>10. /\ i <= j - Cardinality(UpTo(T, j))
         /\ ~(i <= (j - 1) - Cardinality(UpTo(T, j - 1)))
    BY <1>6, <1>8, <1>9
  <1>11. PICK c \in Nat, d \in Nat :
           /\ c = Cardinality(UpTo(T, j)) /\ d = Cardinality(UpTo(T, j - 1))
           /\ c = d + (IF j \in T THEN 1 ELSE 0)
    <2>1. Cardinality(UpTo(T, j)) \in Nat /\ Cardinality(UpTo(T, j - 1)) \in Nat
      BY <1>2, <1>9
    <2>2. Cardinality(UpTo(T, j)) = Cardinality(UpTo(T, j - 1)) + (IF j \in T THEN 1 ELSE 0)
      BY <1>2, <1>9
    <2>3. QED BY <2>1, <2>2
  <1>12. j \notin T /\ j - c = i
    BY <1>9, <1>10, <1>11
  <1>13. QED BY <1>9, <1>11, <1>12

\* The nodes of a list from L + 1 to R - 1 close ranks where those of T go: what lies
\* before the last of T slides right, or what lies behind the first slides left.
Closes(k, L, R, T) ==
  \/ \E S, f, G : \E h \in T :
       /\ S = L + 1 + Cardinality(T) .. h /\ \A t \in T : t <= h
       /\ \A i \in S : \E j \in (L + 1 .. h) \ T :
            j + Cardinality(Beyond(T, j)) = i /\ f[i] = Node(k, j)
       /\ Shifts(k, -Cardinality(T), L + Cardinality(T), R, S, f, G)
  \/ \E S, f, G : \E l \in T :
       /\ S = l .. R - 1 - Cardinality(T) /\ \A t \in T : l <= t
       /\ \A i \in S : \E j \in (l .. R - 1) \ T :
            j - Cardinality(UpTo(T, j)) = i /\ f[i] = Node(k, j)
       /\ Shifts(k, -Cardinality(T), L, R - Cardinality(T), S, f, G)

\* The nodes between the nearer end and the farthest target of LRem fill all but a
\* gap as wide as there are targets.
LEMMA LRemCloses ==
  ASSUME ListsInv, raced = {}, NEW k \in Keys, NEW count \in Indexes, NEW v,
         LRem(k, count, v)
  PROVE  \E L, R \in Nat : \E T :
           /\ window[k] = [left |-> L, right |-> R]
           /\ T = Targets(k, count, v) /\ T \in SUBSET (L + 1 .. R - 1)
           /\ Closes(k, L, R, T)
  <1>1. Live(k)
    BY DEF LRem
  <1>2. PICK L \in Nat, R \in Nat :
          /\ window[k] = [left |-> L, right |-> R] /\ L < R
          /\ First(k) = L + 1 /\ Last(k) = R - 1 /\ L + 1 .. R - 1 \subseteq Members
          /\ \A i \in L + 1 .. R - 1 : Node(k, i) \in Values
    BY <1>1, LiveList
  <1>3. PICK T, n, l, h : /\ T = Targets(k, count, v) /\ n = Cardinality(T)
                          /\ l = Least(T) /\ h = Greatest(T)
    OBVIOUS
  <1>4. T \in SUBSET (L + 1 .. R - 1) /\ T # {}
    <2>1. Occurrences(k, v) \in SUBSET (L + 1 .. R - 1)
      BY <1>2 DEF Occurrences
    <2>2. Targets(k, count, v) \in SUBSET Occurrences(k, v)
      BY ListsAssumption DEF Targets
    <2>3. QED BY <1>3, <2>1, <2>2 DEF LRem
  <1>5. /\ l \in T /\ h \in T /\ l \in L + 1 .. R - 1 /\ h \in L + 1 .. R - 1
        /\ T \in SUBSET (l .. R - 1) /\ T \in SUBSET (L + 1 .. h)
        /\ \A t \in T : l <= t /\ t <= h
    <2>1. T \in SUBSET (0 .. R)
      BY <1>4
    <2>2. l \in T /\ h \in T /\ \A i \in T : l <= i /\ i <= h
      BY <1>3, <1>4, <2>1, EndsAre
    <2>3. QED BY <1>4, <2>2
  <1>6. n \in Nat /\ n <= R - 1 - L
    <2>1. Cardinality(L + 1 .. R - 1) = R - 1 - L /\ IsFiniteSet(L + 1 .. R - 1)
      BY <1>2, WidthIs, FS_Interval
    <2>2. QED BY <1>3, <1>4, <2>1, FS_Subset, FS_CardinalityType
  <1> DEFINE FromLeft(i) == CHOOSE j \in (L + 1 .. h) \ T : j + Cardinality(Beyond(T, j)) = i
             FromRight(i) == CHOOSE j \in (l .. R - 1) \ T : j - Cardinality(UpTo(T, j)) = i
  <1>7. ASSUME Update(k, -n, L + n, R, [i \in L + 1 + n .. h |-> Node(k, FromLeft(i))],
                      L + 1 .. L + 1 + n - 1)
        PROVE  Closes(k, L, R, T)
    <2>1. ASSUME NEW i \in L + 1 + n .. h
          PROVE  /\ FromLeft(i) \in L + 1 .. R - 1 /\ FromLeft(i) \in (L + 1 .. h) \ T
                 /\ FromLeft(i) + Cardinality(Beyond(T, FromLeft(i))) = i
      <3>1. PICK a \in Nat : a = L + 1
        OBVIOUS
      <3>2. /\ h \in Nat /\ T \in SUBSET Int /\ \A t \in T : a <= t /\ t <= h
            /\ i \in Int /\ a + Cardinality(T) <= i /\ i <= h
        BY <1>3, <1>5, <1>6, <3>1
      <3>3. \E j \in (a .. h) \ T : j + Cardinality(Beyond(T, j)) = i
        BY <1>5, <3>2, SlidesRight
      <3>4. /\ FromLeft(i) \in (L + 1 .. h) \ T
            /\ FromLeft(i) + Cardinality(Beyond(T, FromLeft(i))) = i
        BY <3>1, <3>3
      <3> HIDE DEF FromLeft
      <3>5. QED BY <1>5, <3>4
    <2> HIDE DEF FromLeft
    <2>2. PICK S, f, G : /\ S = L + 1 + n .. h /\ G = L + 1 .. L + 1 + n - 1
                         /\ f = [i \in S |-> Node(k, FromLeft(i))]
      OBVIOUS
    <2>3. f \in [S -> Values]
      BY <1>2, <2>1, <2>2
    <2>4. S \in SUBSET Members /\ G \in SUBSET Members
      BY <1>2, <1>5, <1>6, <2>2
    <2>5. (L + 1 .. R - 1 \cup S) \ G = (L + n) + 1 .. R - 1
      BY <1>5, <1>6, <2>2
    <2>6. Shifts(k, -n, L + n, R, S, f, G)
      BY <1>1, <1>2, <1>6, <1>7, <2>2, <2>3, <2>4, <2>5 DEF Shifts
    <2>7. \A i \in S : \E j \in (L + 1 .. h) \ T :
            j + Cardinality(Beyond(T, j)) = i /\ f[i] = Node(k, j)
      BY <2>1, <2>2
    <2>8. QED BY <1>3, <1>5, <2>2, <2>6, <2>7 DEF Closes
  <1>8. ASSUME Update(k, -n, L, R - n, [i \in l .. R - 1 - n |-> Node(k, FromRight(i))],
                      R - 1 - n + 1 .. R - 1)
        PROVE  Closes(k, L, R, T)
    <2>1. ASSUME NEW i \in l .. R - 1 - n
          PROVE  /\ FromRight(i) \in L + 1 .. R - 1 /\ FromRight(i) \in (l .. R - 1) \ T
                 /\ FromRight(i) - Cardinality(UpTo(T, FromRight(i))) = i
      <3>1. PICK b \in Nat : b = R - 1
        BY <1>5
      <3>2. /\ l \in Nat /\ T \in SUBSET Int /\ \A t \in T : l <= t /\ t <= b
            /\ i \in Int /\ l <= i /\ i <= b - Cardinality(T)
        BY <1>3, <1>5, <1>6, <3>1
      <3>3. \E j \in (l .. b) \ T : j - Cardinality(UpTo(T, j)) = i
        BY <1>5, <3>2, SlidesLeft
      <3>4. /\ FromRight(i) \in (l .. R - 1) \ T
            /\ FromRight(i) - Cardinality(UpTo(T, FromRight(i))) = i
        BY <3>1, <3>3
      <3> HIDE DEF FromRight
      <3>5. QED BY <1>5, <3>4
    <2> HIDE DEF FromRight
    <2>2. PICK S, f, G : /\ S = l .. R - 1 - n /\ G = R - 1 - n + 1 .. R - 1
                         /\ f = [i \in S |-> Node(k, FromRight(i))]
      OBVIOUS
    <2>3. f \in [S -> Values]
      BY <1>2, <2>1, <2>2
    <2>4. S \in SUBSET Members /\ G \in SUBSET Members
      BY <1>2, <1>5, <1>6, <2>2
    <2>5. (L + 1 .. R - 1 \cup S) \ G = L + 1 .. (R - n) - 1
      BY <1>5, <1>6, <2>2
    <2>6. Shifts(k, -n, L, R - n, S, f, G)
      BY <1>1, <1>2, <1>6, <1>8, <2>2, <2>3, <2>4, <2>5 DEF Shifts
    <2>7. \A i \in S : \E j \in (l .. R - 1) \ T :
            j - Cardinality(UpTo(T, j)) = i /\ f[i] = Node(k, j)
      BY <2>1, <2>2
    <2>8. QED BY <1>3, <1>5, <2>2, <2>6, <2>7 DEF Closes
  <1>9. Closes(k, L, R, T)
    BY <1>2, <1>3, <1>7, <1>8 DEF LRem, Beyond, UpTo
  <1>10. QED BY <1>2, <1>3, <1>4, <1>9

\* So the window it leaves encloses the nodes.
LEMMA LRemInv ==
  ASSUME ListsInv, raced = {}, raced' = {}, NEW k \in Keys, NEW count \in Indexes, NEW v,
         LRem(k, count, v)
  PROVE  Kept
  <1>1. ASSUME NEW L, NEW R, NEW T, Closes(k, L, R, T)
        PROVE  Kept
    BY <1>1, UpdateInv DEF Closes
  <1>2. QED BY <1>1, LRemCloses

----------------------------------------------------------------------------
(* Expiry, time and compaction.                                             *)

\* Then its window follows.
LEMMA FollowsInv ==
  ASSUME ListsInv, raced = {}, StoreInv', WindowFollows, data' \subseteq data,
         \A k \in Keys : FollowsOn(k)
  PROVE  Kept
  <1>1. /\ window \in [Keys -> Window] /\ value \in [data -> Values]
        /\ InitialWindow \in Window
    BY SomeIndices DEF ListsInv, ListsTypeOK
  <1>2. /\ window' = [k \in Keys |->
             IF meta[k] # NoMeta /\ meta'[k] # NoMeta /\ meta'[k].version = meta[k].version
             THEN window[k] ELSE InitialWindow]
        /\ value' = [rec \in data' |-> value[rec]]
    BY DEF WindowFollows
  <1>3. window' \in [Keys -> Window] /\ value' \in [data' -> Values]
    BY <1>1, <1>2
  <1>4. ASSUME NEW k \in Keys, Fresh(k)'
        PROVE  Encloses(k, meta'[k], window'[k], data')
    <2>1. CASE /\ Fresh(k) /\ meta'[k].version = meta[k].version
               /\ meta'[k].count = meta[k].count
               /\ StoredIn(data', k, meta[k].version) = StoredIn(data, k, meta[k].version)
      <3>1. window'[k] = window[k]
        BY <1>2, <1>4, <2>1 DEF Fresh
      <3>2. Encloses(k, meta[k], window[k], data)
        BY <2>1, FreshEncloses
      <3>3. QED BY <2>1, <3>1, <3>2 DEF Encloses
    <2>2. CASE /\ meta[k] # NoMeta => meta'[k].version # meta[k].version
               /\ meta'[k].count = 0
               /\ StoredIn(data', k, meta'[k].version) = {}
      <3>1. window'[k] = InitialWindow
        BY <1>2, <2>2
      <3>2. PICK a \in Nat : InitialWindow.left = a /\ InitialWindow.right = a + 1
        BY <1>1, SomeIndices
      <3>3. QED BY <2>2, <3>1, <3>2 DEF Encloses
    <2>3. QED BY <1>4, <2>1, <2>2 DEF FollowsOn
  <1>5. meta' \in [Keys -> MetaValue \cup {NoMeta}]
    BY DEF StoreInv, StoreTypeOK
  <1>6. WindowEnclosesNodes'
    BY <1>3, <1>4, <1>5, EnclosesAll
  <1>7. QED BY <1>3, <1>6 DEF Kept

\* Expire, Expireat and Persist keep the window, Del and a past deadline renew it.
LEMMA KeyHandlerInv ==
  ASSUME ListsInv, raced = {}, NEW k \in Keys, KeyHandler(k), WindowFollows
  PROVE  Kept
  <1>1. StoreInv'
    BY ExpiryInv DEF ListsInv, KeyHandler
  <1>2. data' = data /\ \A j \in Keys : FollowsOn(j)
    BY ExpiryFollows DEF ListsInv, KeyHandler
  <1>3. QED BY <1>1, <1>2, FollowsInv

\* So the windows of lists that have not expired stay.
LEMMA MaintenanceInv ==
  ASSUME ListsInv, raced = {}, raced' = {}, Maintenance, WindowFollows
  PROVE  Kept
  <1>1. StoreInv'
    BY BackgroundInv DEF Background, ListsInv
  <1>2. data' \subseteq data /\ \A k \in Keys : FollowsOn(k)
    BY MaintenanceFollows DEF ListsInv
  <1>3. QED BY <1>1, <1>2, FollowsInv

\* A restart forgets the compaction and the push that waits, and no list.
LEMMA ReopenInv ==
  ASSUME ListsInv, ListsReopen
  PROVE  Kept
  <1>1. /\ filter' = NoCompaction
        /\ UNCHANGED <<meta, data, now, raced, window, value>>
    BY DEF ListsReopen
  <1>2. StoreInv'
    BY <1>1, CompactionEndInv DEF ListsInv
  <1>3. WindowEnclosesNodes'
    BY <1>1 DEF ListsInv, WindowEnclosesNodes, Fresh, IsStale, Stored, First, Last
  <1>4. QED BY <1>1, <1>2, <1>3 DEF Kept, ListsInv, ListsTypeOK

----------------------------------------------------------------------------
(* RPoplpush.                                                               *)

\* A push of one node at index at, in front of the first or as the only one,
\* with the meta value to and the window w.
Fronts(k, to, w, at) ==
  /\ to \in MetaValue /\ at \in Members
  /\ \/ /\ meta[k] # NoMeta
        /\ to.version = meta[k].version
        /\ to.timestamp = meta[k].timestamp
     \/ Unreached(k, to.version)
  /\ w.left < w.right
  /\ StoredIn(data, k, to.version) \cup {at} = w.left + 1 .. w.right - 1
  /\ to.count = w.right - 1 - w.left

\* A push of one node is such a push, over a live list or none.
LEMMA PushFronts ==
  ASSUME ListsInv, raced = {}, NEW k \in Keys
  PROVE  Fronts(k, ModifyCount(PushMeta(k), 1),
                [PushWindow(k) EXCEPT !.left = @ - 1], PushWindow(k).left)
  <1>1. PICK L \in Nat, R \in Nat :
          /\ PushWindow(k) = [left |-> L, right |-> R] /\ L \in Members
    <2>1. PushWindow(k) \in Window
      BY SomeIndices DEF PushWindow, ListsInv, ListsTypeOK
    <2>2. QED BY <2>1, SomeIndices DEF Window
  <1>2. PICK w : w = [PushWindow(k) EXCEPT !.left = @ - 1]
    OBVIOUS
  <1>3. w.left = L - 1 /\ w.right = R
    BY <1>1, <1>2
  <1>4. PICK to : to = ModifyCount(PushMeta(k), 1)
    OBVIOUS
  <1>5. CASE Live(k)
    <2>1. Fresh(k) /\ meta[k] \in MetaValue /\ meta[k] # NoMeta
      BY <1>5, LiveFacts DEF ListsInv, StoreInv
    <2>2. /\ to \in MetaValue /\ to.version = meta[k].version
          /\ to.timestamp = meta[k].timestamp /\ to.count = meta[k].count + 1
      BY <1>4, <1>5, <2>1 DEF PushMeta, ModifyCount, MetaValue
    <2>3. window[k] = [left |-> L, right |-> R]
      BY <1>1, <1>5 DEF PushWindow
    <2>4. Encloses(k, meta[k], window[k], data)
      BY <2>1, FreshEncloses
    <2>5. /\ L < R /\ StoredIn(data, k, meta[k].version) = L + 1 .. R - 1
          /\ meta[k].count = R - 1 - L
      BY <2>3, <2>4 DEF Encloses
    <2>6. L + 1 .. R - 1 \cup {L} = L - 1 + 1 .. R - 1
      BY <2>5
    <2>7. to.count = R - 1 - (L - 1)
      BY <2>2, <2>5
    <2>8. Fronts(k, to, w, L)
      BY <1>1, <1>3, <2>1, <2>2, <2>5, <2>6, <2>7 DEF Fronts
    <2>9. QED BY <1>1, <1>2, <1>4, <2>8
  <1>6. CASE ~Live(k)
    <2>1. PushWindow(k) = InitialWindow /\ PushMeta(k) = Renewed(k)
      BY <1>6 DEF PushWindow, PushMeta
    <2>2. R = L + 1
      BY <1>1, <2>1, SomeIndices
    <2>3. /\ to \in MetaValue /\ to.version = Renewed(k).version /\ to.count = 1
          /\ to.version \in Nat
      BY <1>4, <2>1, RenewedMeta DEF ListsInv, StoreInv, ModifyCount, MetaValue
    <2>4. Unreached(k, to.version)
      BY <2>3, RenewedUnreached DEF ListsInv
    <2>5. \A rec \in data : rec[1] = k => rec[2] # to.version
      BY <2>3, <2>4 DEF Unreached, ListsInv, ListsTypeOK, StoreTypeOK, DataKey
    <2>6. StoredIn(data, k, to.version) = {}
      BY <2>5 DEF StoredIn
    <2>7. {} \cup {L} = L - 1 + 1 .. R - 1
      BY <2>2
    <2>8. Fronts(k, to, w, L)
      BY <1>1, <1>3, <2>2, <2>3, <2>4, <2>6, <2>7 DEF Fronts
    <2>9. QED BY <1>1, <1>2, <1>4, <2>8
  <1>7. QED BY <1>5, <1>6

\* A node moves from the end of a list to the front of another or of its own.
LEMMA RPoplpushInv ==
  ASSUME ListsInv, raced = {}, raced' = {}, NEW src \in Keys, NEW dst \in Keys,
         RPoplpush(src, dst)
  PROVE  Kept
  <1>1. PICK v : v = Node(src, Last(src)) /\ v # NoValue
    BY DEF RPoplpush
  <1>2. Live(src)
    BY DEF RPoplpush
  <1>3. PICK L \in Nat, R \in Nat :
          /\ window[src] = [left |-> L, right |-> R] /\ L < R
          /\ First(src) = L + 1 /\ Last(src) = R - 1
          /\ L \in Members /\ R \in Members /\ L + 1 .. R - 1 \subseteq Members
          /\ \A i \in Members : Node(src, i) # NoValue <=> i \in L + 1 .. R - 1
          /\ \A i \in L + 1 .. R - 1 : Node(src, i) \in Values
    BY <1>2, LiveList
  <1>4. R - 1 \in Members
    BY <1>3, ListsAssumption
  <1>5. R - 1 \in L + 1 .. R - 1 /\ v \in Values /\ L < R - 1
    BY <1>1, <1>3, <1>4
  <1>6. CASE src = dst
    <2>1. Update(src, 0, L - 1, R - 1, Only(L, v), {R - 1})
      BY <1>1, <1>3, <1>6 DEF RPoplpush
    <2>2. Only(L, v) \in [{L} -> Values]
      BY <1>5, OnlyIs
    <2>3. (L + 1 .. R - 1 \cup {L}) \ {R - 1} = (L - 1) + 1 .. (R - 1) - 1
      BY <1>5
    <2>4. Shifts(src, 0, L - 1, R - 1, {L}, Only(L, v), {R - 1})
      BY <1>2, <1>3, <1>4, <1>5, <2>1, <2>2, <2>3 DEF Shifts
    <2>5. QED BY <2>4, UpdateInv
  <1>7. CASE src # dst
    <2>1. PICK to, at, ws : /\ to = ModifyCount(PushMeta(dst), 1)
                            /\ at = PushWindow(dst).left
                            /\ ws = [k \in {src, dst} |->
                                  IF k = src THEN [window[src] EXCEPT !.right = @ - 1]
                                  ELSE [PushWindow(dst) EXCEPT !.left = @ - 1]]
      OBVIOUS
    <2>2. PICK from : from = ModifyCount(meta[src], -1)
      OBVIOUS
    <2>3. Fronts(dst, to, ws[dst], at)
      BY <1>7, <2>1, PushFronts
    <2>4. /\ to \in MetaValue /\ to.version \in Nat /\ at \in Members
          /\ \/ /\ meta[dst] # NoMeta
                /\ to.version = meta[dst].version
                /\ to.timestamp = meta[dst].timestamp
             \/ Unreached(dst, to.version)
      BY <2>3 DEF Fronts, MetaValue
    <2>5. /\ Fresh(src) /\ meta[src] \in MetaValue /\ meta[src] # NoMeta
      BY <1>2, LiveFacts DEF ListsInv, StoreInv
    <2>6. /\ from \in MetaValue /\ from.version = meta[src].version
          /\ from.timestamp = meta[src].timestamp /\ from.count = meta[src].count - 1
      BY <2>2, <2>5 DEF ModifyCount, MetaValue
    <2>7. PICK K \in SUBSET Keys : K = {src, dst}
      OBVIOUS
    <2>8. PICK ms \in [K -> MetaValue] :
            ms = [k \in {src, dst} |-> IF k = src THEN from ELSE to]
      BY <2>4, <2>6, <2>7
    <2>9. PICK f \in [{at} -> Values] : f = Only(at, v)
      BY <1>5, OnlyIs
    <2>10. PICK P \in SUBSET DataKey, dels \in SUBSET DataKey :
             /\ P = Records(dst, to.version, {at})
             /\ dels = Records(src, meta[src].version, {R - 1})
      <3>1. {at} \in SUBSET Members /\ {R - 1} \in SUBSET Members /\ meta[src].version \in Nat
        BY <1>4, <2>4, <2>5 DEF MetaValue
      <3>2. QED BY <2>4, <3>1, RecordsType
    <2>11. PICK puts \in [P -> Values] : puts = Nodes(dst, to.version, f)
      <3>1. {at} \in SUBSET Members
        BY <2>4
      <3>2. Nodes(dst, to.version, f) \in [Records(dst, to.version, {at}) -> Values]
        BY <2>4, <3>1, NodesAre
      <3>3. QED BY <2>10, <3>2
    <2>12. Write(ms, ws, puts, dels)
      BY <1>1, <1>3, <1>7, <2>1, <2>2, <2>8, <2>9, <2>10, <2>11 DEF RPoplpush
    <2>13. ws \in [K -> Window]
      BY <2>1, <2>7, <2>8, <2>12 DEF Write
    <2>14. ws[src].left = L /\ ws[src].right = R - 1
      BY <1>3, <2>1
    <2>15. ms[src] = from /\ ms[dst] = to
      BY <1>7, <2>8
    <2>16. Encloses(src, from, ws[src], (data \cup P) \ dels)
      <3>1. Encloses(src, meta[src], window[src], data)
        BY <2>5, FreshEncloses
      <3>2. /\ StoredIn(data, src, meta[src].version) = L + 1 .. R - 1
            /\ meta[src].count = R - 1 - L
        BY <1>3, <3>1 DEF Encloses
      <3>3. StoredIn((data \cup P) \ dels, src, meta[src].version)
              = StoredIn(data, src, meta[src].version) \ {R - 1}
        BY <1>7, <2>10 DEF StoredIn, Records
      <3>4. (L + 1 .. R - 1) \ {R - 1} = L + 1 .. (R - 1) - 1
        OBVIOUS
      <3>5. from.count = (R - 1) - 1 - L
        BY <2>6, <3>2
      <3>6. StoredIn((data \cup P) \ dels, src, from.version) = L + 1 .. (R - 1) - 1
        BY <2>6, <3>2, <3>3, <3>4
      <3>7. QED BY <1>5, <2>14, <3>5, <3>6 DEF Encloses
    <2>17. Encloses(dst, to, ws[dst], (data \cup P) \ dels)
      <3>1. StoredIn((data \cup P) \ dels, dst, to.version)
              = StoredIn(data, dst, to.version) \cup {at}
        BY <1>7, <2>4, <2>10 DEF StoredIn, Records
      <3>2. QED BY <2>3, <3>1 DEF Fronts, Encloses
    <2>18. /\ \A rec \in P : rec[1] \in K /\ rec[2] = ms[rec[1]].version
           /\ \A rec \in dels : rec[1] \in K
      BY <2>7, <2>10, <2>15 DEF Records
    <2>19. \A k \in K : \/ /\ meta[k] # NoMeta
                           /\ ms[k].version = meta[k].version
                           /\ ms[k].timestamp = meta[k].timestamp
                        \/ Unreached(k, ms[k].version)
      BY <2>4, <2>5, <2>6, <2>7, <2>15
    <2>20. \A k \in K : ~IsStale(ms[k], now) =>
             Encloses(k, ms[k], ws[k], (data \cup P) \ dels)
      BY <2>7, <2>15, <2>16, <2>17
    <2>21. WritesLives(K, ms, ws, P, puts, dels)
      BY <2>12, <2>13, <2>18, <2>19, <2>20 DEF WritesLives
    <2>22. QED BY <2>21, WriteOfLivesInv
  <1>8. QED BY <1>6, <1>7

\* Every handler keeps the store and its windows in agreement.
LEMMA HandlerInv ==
  ASSUME ListsInv, raced = {}, raced' = {}, NEW k \in Keys, Handler(k)
  PROVE  Kept
  <1>1. ASSUME NEW vs \in PushArgs, LPush(k, vs)
        PROVE  Kept
    BY <1>1, LPushInv, ListsAssumption
  <1>2. ASSUME NEW v \in Values, LPushx(k, v)
        PROVE  Kept
    <2>1. <<v>> \in Seq(Values) /\ <<v>> # <<>> /\ LPush(k, <<v>>)
      BY <1>2 DEF LPushx
    <2>2. QED BY <2>1, LPushInv
  <1>3. QED BY <1>1, <1>2, RPushxInv, LPopInv, RPopInv, LSetInv, LRemInv, LInsertInv,
            LTrimInv, KeyHandlerInv DEF Handler

----------------------------------------------------------------------------
(* RPush, in two steps.                                                     *)

\* The push found its list live and prolongs it, or found none and begins one.
LEMMA RPushReadReady ==
  ASSUME ListsInv, raced = {}, NEW k \in Keys, NEW vs \in PushArgs, RPushRead(k, vs)
  PROVE  pending' \in PendingPush /\ (PushBegins \/ PushProlongs)'
  <1>1. vs \in Seq(Values) /\ Len(vs) \in Nat
    BY ListsAssumption
  <1>2. PICK n \in Nat : n = Len(vs)
    BY <1>1
  <1>3. PICK m : m = ModifyCount(PushMeta(k), n)
    OBVIOUS
  <1>4. PICK w \in Window : w = [PushWindow(k) EXCEPT !.right = @ + n]
    BY <1>2 DEF RPushRead
  <1>5. /\ pending' = [key |-> k, meta |-> m, window |-> w, values |-> vs]
        /\ pending'.key = k /\ pending'.meta = m /\ pending'.window = w
        /\ Len(pending'.values) = n
        /\ meta' = meta /\ data' = data /\ now' = now /\ filter' = filter
        /\ window' = window
    BY <1>2, <1>3, <1>4 DEF RPushRead, storeVars
  <1>6. CASE Live(k)
    <2>1. /\ meta[k] \in MetaValue /\ meta[k] # NoMeta /\ meta[k].version \in Nat
          /\ meta[k].count # 0
      BY <1>6, LiveFacts DEF ListsInv, StoreInv, Live, IsLive
    <2>2. /\ m = ModifyCount(meta[k], n) /\ m \in MetaValue
          /\ m.version = meta[k].version /\ m.timestamp = meta[k].timestamp
      BY <1>3, <1>6, <2>1 DEF PushMeta, ModifyCount, MetaValue
    <2>3. \E L, R \in Nat : window[k] = [left |-> L, right |-> R] /\ L < R
      BY <1>6, LiveList
    <2>4. w = [window[k] EXCEPT !.right = @ + n] /\ w.left < w.right - n
      BY <1>4, <1>6, <2>3 DEF PushWindow
    <2>5. \A rec \in data : rec[1] = k => rec[2] <= m.version
      BY <2>1, <2>2 DEF ListsInv, StoreInv, VersionsBehindMeta
    <2>6. filter.key = k /\ filter.meta # NoMeta =>
            /\ filter.meta.version <= m.version
            /\ filter.meta.version = m.version /\ filter.meta.timestamp # 0 =>
                 m.timestamp # 0 /\ m.timestamp <= filter.meta.timestamp
      BY <2>1, <2>2, StoreAssumption DEF ListsInv, StoreInv, MemoryStaysSafe
    <2>7. PushProlongs'
      BY <1>5, <2>1, <2>2, <2>4, <2>5, <2>6 DEF PushProlongs
    <2>8. pending' \in PendingPush
      BY <1>1, <1>5, <2>2 DEF PendingPush
    <2>9. QED BY <2>7, <2>8
  <1>7. CASE ~Live(k)
    <2>1. PushWindow(k) = InitialWindow /\ PushMeta(k) = Renewed(k)
      BY <1>7 DEF PushWindow, PushMeta
    <2>2. /\ m \in MetaValue /\ m.version = Renewed(k).version /\ m.count = n
          /\ m.timestamp = 0
      BY <1>3, <2>1, RenewedMeta DEF ListsInv, StoreInv, ModifyCount, MetaValue
    <2>3. Unreached(k, m.version) /\ ~Live(k)'
      BY <1>5, <1>7, <2>2, RenewedUnreached DEF ListsInv, Live
    <2>4. PushBegins'
      BY <1>4, <1>5, <2>1, <2>2, <2>3 DEF PushBegins, Unreached, Live
    <2>5. pending' \in PendingPush
      BY <1>1, <1>5, <2>2 DEF PendingPush
    <2>6. QED BY <2>4, <2>5
  <1>8. QED BY <1>6, <1>7

\* A push over a list that has expired meanwhile writes a meta value that is as
\* dead, and nothing the filter remembers or has dropped is at odds with it.
LEMMA StalePushFilter ==
  ASSUME ListsInv, raced = {}, NEW k \in Keys, NEW m \in MetaValue, IsStale(m, now),
         k = pending.key, m = pending.meta, PushProlongs,
         meta' = [j \in Keys |-> IF j = k THEN m ELSE meta[j]], now' = now,
         FilterOnlyShrinks
  PROVE  DoomedAreDead' /\ AbsenceStaysTrue' /\ MemoryStaysSafe'
  <1>1. /\ ~Fresh(k)' /\ meta'[k] = m /\ m # NoMeta
        /\ \A j \in Keys \ {k} : meta'[j] = meta[j] /\ (Fresh(j)' <=> Fresh(j))
    BY NoMetaAssumption DEF Fresh, IsStale
  <1>2. \A rec \in filter.todo \cup filter.doomed : rec[1] \in Keys
    BY DEF ListsInv, ListsTypeOK, StoreTypeOK, Filter, DataKey
  <1>3. DoomedAreDead'
    BY <1>1, <1>2 DEF ListsInv, StoreInv, DoomedAreDead, FilterOnlyShrinks
  <1>4. AbsenceStaysTrue'
    BY <1>1, <1>2 DEF ListsInv, StoreInv, AbsenceStaysTrue, FilterOnlyShrinks
  <1>5. MemoryStaysSafe'
    <2> SUFFICES ASSUME filter.key # NoKey, filter.meta # NoMeta
                 PROVE  MemoryStaysSafe'
      BY DEF MemoryStaysSafe, FilterOnlyShrinks
    <2>1. \A rec \in filter'.todo :
            rec[1] = filter'.key => rec[2] <= filter'.meta.version
      BY DEF ListsInv, StoreInv, MemoryStaysSafe, FilterOnlyShrinks
    <2>2. CASE filter.key = k
      BY <1>1, <2>1, <2>2 DEF PushProlongs, MemoryStaysSafe, FilterOnlyShrinks
    <2>3. CASE filter.key # k
      <3>1. filter.key \in Keys
        BY DEF ListsInv, ListsTypeOK, StoreTypeOK, Filter
      <3>2. QED BY <1>1, <2>1, <2>3, <3>1 DEF ListsInv, StoreInv, MemoryStaysSafe, FilterOnlyShrinks
    <2>4. QED BY <2>2, <2>3
  <1>6. QED BY <1>3, <1>4, <1>5

\* The nodes S of a push behind the last of a list that begins after L, and what it
\* does to the list.
Appends(k, vs, L, R, S, f) ==
  /\ S = R - Len(vs) .. R - 1
  /\ f \in [S -> Values] /\ f = [i \in S |-> vs[i - (R - Len(vs)) + 1]]
  /\ \/ /\ Live(k)
        /\ Shifts(k, Len(vs), L, R, S, f, {})
     \/ /\ ~Live(k) /\ R = L + 1 + Len(vs)
        /\ \E m : /\ m.timestamp = 0
                  /\ StartsAnew(k, m, [left |-> L, right |-> R], S, f, {})

\* The push of a list that has expired since: so has what it writes.
Lapses(k, m, w, S, f) ==
  /\ m = pending.meta /\ m \in MetaValue /\ w \in Window /\ PushProlongs
  /\ IsStale(m, now) /\ ~Live(k)
  /\ S \in SUBSET Members /\ f \in [S -> Values]
  /\ Write(Only(k, m), Only(k, w), Nodes(k, m.version, f), {})

\* The push writes what it prepared: it prolongs its list, begins one, or comes too
\* late.
LEMMA RPushAppends ==
  ASSUME ListsInv, raced = {}, RPushWrite
  PROVE  \E k \in Keys, vs \in PushArgs :
           /\ k = pending.key
           /\ \/ \E L, R \in Nat : \E S, f : Appends(k, vs, L, R, S, f)
              \/ \E m, w, S, f : Lapses(k, m, w, S, f)
  <1>1. pending \in PendingPush /\ pending # NoPush /\ (PushBegins \/ PushProlongs)
    BY DEF RPushWrite, ListsInv, ListsTypeOK
  <1>2. PICK k \in Keys, m \in MetaValue, w \in Window, vs \in PushArgs :
          k = pending.key /\ m = pending.meta /\ w = pending.window /\ vs = pending.values
    BY <1>1 DEF PendingPush
  <1>3. PICK n \in Nat : n = Len(vs) /\ vs \in Seq(Values)
    BY ListsAssumption
  <1>4. PICK L \in Nat, R \in Nat : /\ w = [left |-> L, right |-> R]
                                    /\ R \in Members /\ R <= 2 * Half - 1
    BY SomeIndices, ListsAssumption DEF Window
  <1>5. PICK S, f : S = R - n .. R - 1 /\ f = [i \in S |-> vs[i - (R - n) + 1]]
    OBVIOUS
  <1>6. Write(Only(k, m), Only(k, w), Nodes(k, m.version, f), {})
    BY <1>2, <1>3, <1>4, <1>5 DEF RPushWrite
  <1>7. f \in [S -> Values]
    <2>1. \A i \in S : i - (R - n) + 1 \in 1 .. n
      BY <1>3, <1>4, <1>5
    <2>2. \A j \in 1 .. n : vs[j] \in Values
      BY <1>3
    <2>3. QED BY <1>5, <2>1, <2>2
  <1>8. m.version \in Nat /\ m.timestamp \in Nat
    BY DEF MetaValue
  <1>9. CASE PushBegins
    <2>1. /\ Unreached(k, m.version) /\ m.count = n
          /\ w = [InitialWindow EXCEPT !.right = @ + n]
          /\ ~Live(k) /\ m.timestamp = 0
      BY <1>2, <1>3, <1>9 DEF PushBegins, Unreached
    <2>2. L = Half - 1 /\ R = Half + n /\ R = L + 1 + n
      <3>1. w = [left |-> Half - 1, right |-> Half + n]
        BY <2>1 DEF InitialWindow
      <3>2. L = Half - 1 /\ R = Half + n
        BY <1>4, <3>1
      <3>3. QED BY <3>2, ListsAssumption
    <2>3. S \in SUBSET Members
      BY <1>4, <1>5, <2>2, ListsAssumption
    <2>4. /\ w.left < w.right /\ S = w.left + 1 .. w.right - 1
          /\ m.count = w.right - 1 - w.left
      <3>1. w.left = Half - 1 /\ w.right = Half + n /\ Half \in Nat
        BY <1>4, <2>2, ListsAssumption
      <3>2. R - n = (Half - 1) + 1 /\ n = Half + n - 1 - (Half - 1)
        BY <2>2, <3>1
      <3>3. Half - 1 < Half + n
        BY <3>1
      <3>4. S = w.left + 1 .. w.right - 1
        BY <1>5, <2>2, <3>1, <3>2
      <3>5. m.count = w.right - 1 - w.left
        <4>1. PICK a \in Nat, b \in Nat : a = w.left /\ b = w.right /\ b = a + 1 + n
          BY <1>4, <2>2, <3>1
        <4>2. QED BY <2>1, <4>1
      <3>6. QED BY <3>1, <3>3, <3>4, <3>5
    <2>5. StartsAnew(k, m, w, S, f, {})
      BY <1>6, <1>7, <2>1, <2>3, <2>4 DEF StartsAnew
    <2>6. Appends(k, vs, L, R, S, f)
      BY <1>3, <1>4, <1>5, <1>7, <2>1, <2>2, <2>5 DEF Appends
    <2>7. QED BY <1>2, <2>6
  <1>10. CASE PushProlongs
    <2>1. /\ w.left < w.right - n
          /\ meta[k] = NoMeta => IsStale(m, now)
          /\ meta[k] # NoMeta => /\ m = ModifyCount(meta[k], n) /\ meta[k].count # 0
                                 /\ w = [window[k] EXCEPT !.right = @ + n]
      BY <1>2, <1>3, <1>10 DEF PushProlongs
    <2>2. L < R - n /\ S \in SUBSET Members
      <3>1. L < R - n
        BY <1>4, <2>1
      <3>2. QED BY <1>4, <1>5, <3>1, ListsAssumption
    <2>3. meta[k] # NoMeta =>
            meta[k] \in MetaValue /\ m.version = meta[k].version /\ m.timestamp = meta[k].timestamp
      BY <2>1 DEF ModifyCount, MetaValue, ListsInv, StoreInv, StoreTypeOK
    <2>4. CASE IsStale(m, now)
      <3>1. ~Live(k)
        BY <2>3, <2>4 DEF Live, IsLive, IsStale
      <3>2. Lapses(k, m, w, S, f)
        BY <1>2, <1>6, <1>7, <1>10, <2>2, <2>4, <3>1 DEF Lapses
      <3>3. QED BY <1>2, <3>2
    <2>5. CASE ~IsStale(m, now)
      <3>1. /\ m = ModifyCount(meta[k], n) /\ meta[k].count # 0 /\ meta[k] # NoMeta
            /\ w = [window[k] EXCEPT !.right = @ + n]
        BY <2>1, <2>5
      <3>2. Live(k)
        BY <2>3, <2>5, <3>1 DEF Live, IsLive, IsStale
      <3>3. PICK l \in Nat, r \in Nat :
              /\ window[k] = [left |-> l, right |-> r]
              /\ First(k) = l + 1 /\ Last(k) = r - 1 /\ l < r
        BY <3>2, LiveList
      <3>4. l = L /\ R = r + n /\ R - n = r
        BY <1>4, <3>1, <3>3
      <3>5. Update(k, n, L, R, f, {})
        BY <1>4, <1>6, <2>3, <3>1 DEF Update, Records
      <3>6. (First(k) .. Last(k) \cup S) \ {} = L + 1 .. R - 1
        BY <1>5, <3>3, <3>4
      <3>7. n = (R - L) - (window[k].right - window[k].left)
        BY <3>3, <3>4
      <3>8. Shifts(k, n, L, R, S, f, {})
        BY <1>7, <2>2, <3>2, <3>3, <3>4, <3>5, <3>6, <3>7 DEF Shifts
      <3>9. Appends(k, vs, L, R, S, f)
        BY <1>3, <1>5, <1>7, <3>2, <3>8 DEF Appends
      <3>10. QED BY <1>2, <3>9
    <2>6. QED BY <2>4, <2>5
  <1>11. QED BY <1>1, <1>9, <1>10

\* A push that comes too late changes no list that has not expired.
LEMMA LapsesInv ==
  ASSUME ListsInv, raced = {}, raced' = {}, NEW k \in Keys, k = pending.key,
         NEW m, NEW w, NEW S, NEW f, Lapses(k, m, w, S, f)
  PROVE  Kept
  <1>0. /\ m = pending.meta /\ m \in MetaValue /\ m.version \in Nat /\ w \in Window
        /\ PushProlongs /\ IsStale(m, now)
        /\ S \in SUBSET Members /\ f \in [S -> Values]
        /\ Write(Only(k, m), Only(k, w), Nodes(k, m.version, f), {})
    BY DEF Lapses, MetaValue
  <1>1. PICK P \in SUBSET DataKey : P = Records(k, m.version, S)
    BY <1>0, RecordsType
  <1>2. PICK puts \in [P -> Values] : puts = Nodes(k, m.version, f)
    BY <1>0, <1>1, NodesAre
  <1>3. PICK K \in SUBSET Keys, dels \in SUBSET DataKey : K = {k} /\ dels = {}
    OBVIOUS
  <1>4. PICK ms \in [K -> MetaValue], ws \in [K -> Window] :
          ms = Only(k, m) /\ ms[k] = m /\ ws = Only(k, w)
    <2>1. Only(k, m) \in [{k} -> MetaValue] /\ Only(k, m)[k] = m
      BY <1>0, OnlyIs
    <2>2. Only(k, w) \in [{k} -> Window]
      BY <1>0, OnlyIs
    <2>3. QED BY <1>3, <2>1, <2>2
  <1>5. Write(ms, ws, puts, dels)
    BY <1>0, <1>2, <1>3, <1>4
  <1>6. /\ meta' = [j \in Keys |-> IF j = k THEN m ELSE meta[j]] /\ now' = now
        /\ Shadow(P \cup dels)
    BY <1>3, <1>4, <1>5 DEF Write
  <1>7. FilterOnlyShrinks
    BY <1>6, ShadowShrinks DEF ListsInv, StoreInv
  <1>8. DoomedAreDead' /\ AbsenceStaysTrue' /\ MemoryStaysSafe'
    BY <1>0, <1>6, <1>7, StalePushFilter
  <1>9. \A rec \in data : rec[1] = k => rec[2] <= m.version
    BY <1>0 DEF PushProlongs
  <1>10. /\ \A rec \in P : rec[1] \in K /\ rec[2] = ms[rec[1]].version
         /\ \A rec \in dels : rec[1] \in K
         /\ \A rec \in data : rec[1] \in K => rec[2] <= ms[rec[1]].version
         /\ \A j \in K : ~IsStale(ms[j], now) =>
              Encloses(j, ms[j], ws[j], (data \cup P) \ dels)
    BY <1>0, <1>1, <1>3, <1>4, <1>9 DEF Records
  <1>11. QED BY <1>5, <1>8, <1>10, WriteInv

\* So the window of the list it writes encloses its nodes.
LEMMA RPushWriteInv ==
  ASSUME ListsInv, raced = {}, raced' = {}, RPushWrite
  PROVE  Kept
  <1>1. PICK k \in Keys, vs \in PushArgs :
           /\ k = pending.key
           /\ \/ \E L, R \in Nat : \E S, f : Appends(k, vs, L, R, S, f)
              \/ \E m, w, S, f : Lapses(k, m, w, S, f)
    BY RPushAppends
  <1>2. ASSUME NEW L, NEW R, NEW S, NEW f, Appends(k, vs, L, R, S, f)
        PROVE  Kept
    BY <1>2, UpdateInv, AnewInv DEF Appends
  <1>3. ASSUME NEW m, NEW w, NEW S, NEW f, Lapses(k, m, w, S, f)
        PROVE  Kept
    BY <1>1, <1>3, LapsesInv
  <1>4. QED BY <1>1, <1>2, <1>3

----------------------------------------------------------------------------
(* What other steps leave of a push that waits for its write.               *)

\* A step leaves k's list alone, but for compaction.
LeavesList(k) ==
  /\ \A rec \in data' : rec[1] = k => rec \in data
  /\ now' \in Nat /\ now <= now'
  /\ \/ meta'[k] = meta[k] /\ (meta[k] # NoMeta => window'[k] = window[k])
     \/ meta'[k] = NoMeta /\ meta[k] # NoMeta /\ MetaFilterDrops(meta[k], now)
  /\ filter'.key = k /\ filter'.meta # NoMeta =>
       \/ filter'.key = filter.key /\ filter'.meta = filter.meta
       \/ filter'.meta = meta[k]

\* Then the push begins or prolongs its list as before.
LEMMA PendingKept ==
  ASSUME ListsInv, pending # NoPush, pending' = pending, LeavesList(pending.key)
  PROVE  (PushBegins \/ PushProlongs)'
  <1>1. PICK k \in Keys, m \in MetaValue, w \in Window, n \in Nat :
          /\ k = pending.key /\ m = pending.meta /\ w = pending.window
          /\ n = Len(pending.values)
    BY ListsAssumption DEF ListsInv, ListsTypeOK, PendingPush
  <1>2. /\ m.version \in Nat /\ m.timestamp \in Nat
        /\ meta[k] # NoMeta => /\ meta[k] \in MetaValue /\ meta[k].version \in Nat
                               /\ meta[k].timestamp \in Nat
        /\ now \in Nat
    BY DEF ListsInv, ListsTypeOK, StoreTypeOK, MetaValue
  <1>3. LeavesList(k) /\ (PushBegins \/ PushProlongs)
    BY <1>1 DEF ListsInv
  <1>4. CASE PushBegins
    <2>1. ~Live(k) /\ ~Live(k)'
      BY <1>1, <1>2, <1>3, <1>4 DEF PushBegins, LeavesList, Live, IsLive, IsStale
    <2>2. QED BY <1>1, <1>2, <1>3, <1>4, <2>1 DEF PushBegins, LeavesList, Live
  <1>5. CASE PushProlongs
    <2>1. /\ \A rec \in data : rec[1] = k => rec[2] <= m.version
          /\ w.left < w.right - n
          /\ meta[k] = NoMeta => IsStale(m, now)
          /\ meta[k] # NoMeta => /\ m = ModifyCount(meta[k], n) /\ meta[k].count # 0
                                 /\ w = [window[k] EXCEPT !.right = @ + n]
          /\ filter.key = k /\ filter.meta # NoMeta =>
               /\ filter.meta.version <= m.version
               /\ filter.meta.version = m.version /\ filter.meta.timestamp # 0 =>
                    m.timestamp # 0 /\ m.timestamp <= filter.meta.timestamp
      BY <1>1, <1>5 DEF PushProlongs
    <2>2. meta[k] # NoMeta => m.version = meta[k].version /\ m.timestamp = meta[k].timestamp
      BY <1>2, <2>1 DEF ModifyCount, MetaValue
    <2>3. \A rec \in data' : rec[1] = k => rec[2] <= m.version
      BY <1>3, <2>1 DEF LeavesList
    <2>4. IsStale(m, now) => IsStale(m, now')
      BY <1>2, <1>3 DEF LeavesList, IsStale
    <2>5. meta'[k] = NoMeta => IsStale(m, now')
      BY <1>3, <2>1, <2>2, <2>4 DEF LeavesList, MetaFilterDrops, IsStale
    <2>6. meta'[k] # NoMeta => /\ m = ModifyCount(meta'[k], n) /\ meta'[k].count # 0
                               /\ w = [window'[k] EXCEPT !.right = @ + n]
      BY <1>3, <2>1 DEF LeavesList
    <2>7. filter'.key = k /\ filter'.meta # NoMeta =>
            /\ filter'.meta.version <= m.version
            /\ filter'.meta.version = m.version /\ filter'.meta.timestamp # 0 =>
                 m.timestamp # 0 /\ m.timestamp <= filter'.meta.timestamp
      BY <1>2, <1>3, <2>1, <2>2 DEF LeavesList
    <2>8. PushProlongs'
      BY <1>1, <2>1, <2>3, <2>5, <2>6, <2>7 DEF PushProlongs
    <2>9. QED BY <2>8
  <1>6. QED BY <1>3, <1>4, <1>5

\* A batch leaves the lists alone that it does not write.
LEMMA WriteLeaves ==
  ASSUME ListsInv, NEW k \in Keys, NEW ms, NEW ws, NEW puts, NEW dels,
         Write(ms, ws, puts, dels), k \notin DOMAIN ms, k \notin DOMAIN ws,
         \A rec \in DOMAIN puts : rec[1] # k
  PROVE  LeavesList(k)
  <1>1. /\ meta'[k] = meta[k] /\ window'[k] = window[k] /\ now' = now /\ now \in Nat
        /\ \A rec \in data' : rec[1] = k => rec \in data
        /\ Shadow(DOMAIN puts \cup dels)
    BY DEF Write, ListsInv, ListsTypeOK, StoreTypeOK
  <1>2. filter'.key = filter.key /\ filter'.meta = filter.meta
    BY <1>1, ShadowShrinks DEF FilterOnlyShrinks, ListsInv, StoreInv
  <1>3. QED BY <1>1, <1>2 DEF LeavesList

\* So do the handlers of another list.
LEMMA UpdateLeaves ==
  ASSUME ListsInv, NEW j \in Keys, NEW k \in Keys \ {j},
         NEW delta, NEW left, NEW right, NEW f, NEW gone,
         Update(j, delta, left, right, f, gone)
  PROVE  LeavesList(k)
  <1>1. PICK ms, ws, puts, dels :
          /\ ms = Only(j, ModifyCount(meta[j], delta))
          /\ ws = Only(j, [left |-> left, right |-> right])
          /\ puts = Nodes(j, meta[j].version, f)
          /\ dels = Records(j, meta[j].version, gone)
    OBVIOUS
  <1>2. Write(ms, ws, puts, dels)
    BY <1>1 DEF Update
  <1>3. /\ DOMAIN ms = {j} /\ DOMAIN ws = {j}
        /\ \A rec \in DOMAIN puts : rec[1] = j
    BY <1>1 DEF Only, Nodes, Records
  <1>4. QED BY <1>2, <1>3, WriteLeaves

\* LPush writes one key.
LEMMA LPushLeaves ==
  ASSUME ListsInv, NEW j \in Keys, NEW k \in Keys \ {j}, NEW vs, LPush(j, vs)
  PROVE  LeavesList(k)
  <1>1. PICK m, w, f : Write(Only(j, m), Only(j, w), Nodes(j, m.version, f), {})
    BY DEF LPush
  <1>2. DOMAIN Only(j, m) = {j} /\ DOMAIN Only(j, w) = {j}
    BY DEF Only
  <1>3. \A rec \in DOMAIN Nodes(j, m.version, f) : rec[1] = j
    BY DEF Nodes, Records
  <1>4. QED BY <1>1, <1>2, <1>3, WriteLeaves

\* So does LTrim, whether it renews the list or keeps a part.
LEMMA LTrimLeaves ==
  ASSUME ListsInv, NEW j \in Keys, NEW k \in Keys \ {j}, NEW start, NEW stop,
         LTrim(j, start, stop)
  PROVE  LeavesList(k)
  <1>1. CASE \E dels : Write(Only(j, Renewed(j)), Only(j, InitialWindow), <<>>, dels)
    <2>1. PICK dels : Write(Only(j, Renewed(j)), Only(j, InitialWindow), <<>>, dels)
      BY <1>1
    <2>2. /\ DOMAIN Only(j, Renewed(j)) = {j} /\ DOMAIN Only(j, InitialWindow) = {j}
          /\ \A rec \in DOMAIN <<>> : rec[1] = j
      BY DEF Only
    <2>3. QED BY <2>1, <2>2, WriteLeaves
  <1>2. CASE \E delta, left, right, f, gone : Update(j, delta, left, right, f, gone)
    BY <1>2, UpdateLeaves
  <1>3. QED BY <1>1, <1>2 DEF LTrim

\* The handlers of expiry write one meta value.
LEMMA KeyHandlerLeaves ==
  ASSUME ListsInv, NEW j \in Keys, NEW k \in Keys \ {j}, KeyHandler(j), WindowFollows
  PROVE  LeavesList(k)
  <1>1. /\ data' = data /\ now' = now /\ filter' = filter /\ now \in Nat
        /\ \E m : meta' = [meta EXCEPT ![j] = m]
    BY ExpiryMeta DEF KeyHandler, ListsInv, StoreInv, StoreTypeOK
  <1>2. meta'[k] = meta[k]
    BY <1>1 DEF ListsInv, StoreInv, StoreTypeOK
  <1>3. meta[k] # NoMeta => window'[k] = window[k]
    BY <1>2 DEF WindowFollows
  <1>4. QED BY <1>1, <1>2, <1>3 DEF LeavesList

\* So no handler of another key touches the list a push waits for.
LEMMA HandlerLeaves ==
  ASSUME ListsInv, NEW j \in Keys, NEW k \in Keys \ {j}, Handler(j)
  PROVE  LeavesList(k)
  <1>1. ASSUME NEW v, LPushx(j, v) PROVE LeavesList(k)
    BY <1>1, LPushLeaves DEF LPushx
  <1>2. ASSUME NEW v, RPushx(j, v) PROVE LeavesList(k)
    BY <1>2, UpdateLeaves DEF RPushx
  <1>3. CASE LPop(j) \/ RPop(j)
    BY <1>3, UpdateLeaves DEF LPop, RPop
  <1>4. ASSUME NEW i, NEW v, LSet(j, i, v) PROVE LeavesList(k)
    BY <1>4, UpdateLeaves DEF LSet
  <1>5. ASSUME NEW i, NEW v, LRem(j, i, v) PROVE LeavesList(k)
    <2>1. \E delta, left, right, f, gone : Update(j, delta, left, right, f, gone)
      BY <1>5 DEF LRem
    <2>2. QED BY <2>1, UpdateLeaves
  <1>6. ASSUME NEW before, NEW pivot, NEW v, LInsert(j, before, pivot, v)
        PROVE  LeavesList(k)
    <2>1. \E delta, left, right, f, gone : Update(j, delta, left, right, f, gone)
      BY <1>6 DEF LInsert
    <2>2. QED BY <2>1, UpdateLeaves
  <1>7. QED BY <1>1, <1>2, <1>3, <1>4, <1>5, <1>6, LPushLeaves, LTrimLeaves, KeyHandlerLeaves
            DEF Handler

\* Nor does RPoplpush between two others.
LEMMA RPoplpushLeaves ==
  ASSUME ListsInv, NEW src \in Keys, NEW dst \in Keys, NEW k \in Keys \ {src, dst},
         RPoplpush(src, dst)
  PROVE  LeavesList(k)
  <1>1. CASE \E delta, left, right, f, gone : Update(src, delta, left, right, f, gone)
    BY <1>1, UpdateLeaves
  <1>2. CASE \E ms, ws, puts, dels :
               /\ Write(ms, ws, puts, dels)
               /\ DOMAIN ms = {src, dst} /\ DOMAIN ws = {src, dst}
               /\ \A rec \in DOMAIN puts : rec[1] = dst
    BY <1>2, WriteLeaves
  <1>3. QED BY <1>1, <1>2 DEF RPoplpush, Nodes, Records

\* Compaction leaves a list with its meta value or without one.
LEMMA MaintenanceLeavesList ==
  ASSUME ListsInv, NEW k \in Keys, Maintenance, WindowFollows
  PROVE  LeavesList(k)
  <1>1. now \in Nat /\ meta \in [Keys -> MetaValue \cup {NoMeta}] /\ k # NoKey
    BY StoreAssumption DEF ListsInv, ListsTypeOK, StoreTypeOK
  <1>2. meta'[k] = meta[k] => (meta[k] # NoMeta => window'[k] = window[k])
    BY DEF WindowFollows
  <1>3. CASE Tick
    BY <1>1, <1>2, <1>3 DEF Tick, LeavesList
  <1>4. ASSUME NEW j \in Keys, MetaCompact(j) PROVE LeavesList(k)
    BY <1>1, <1>2, <1>4 DEF MetaCompact, LeavesList
  <1>5. CASE CompactionStart
    <2>1. filter'.meta = NoMeta /\ meta' = meta /\ data' = data /\ now' = now
      BY <1>5 DEF CompactionStart, NoCompaction
    <2>2. QED BY <1>1, <1>2, <2>1 DEF LeavesList
  <1>6. ASSUME NEW rec \in filter.todo, FilterRecord(rec) PROVE LeavesList(k)
    <2>1. /\ meta' = meta /\ data' = data /\ now' = now
          /\ filter'.key = rec[1]
          /\ filter'.meta = IF rec[1] = filter.key THEN filter.meta ELSE meta[rec[1]]
      BY <1>6 DEF FilterRecord
    <2>2. QED BY <1>1, <1>2, <2>1 DEF LeavesList
  <1>7. CASE CompactionInstall
    <2>1. filter'.meta = NoMeta /\ meta' = meta /\ data' \subseteq data /\ now' = now
      BY <1>7 DEF CompactionInstall, NoCompaction
    <2>2. QED BY <1>1, <1>2, <2>1 DEF LeavesList
  <1>8. QED BY <1>3, <1>4, <1>5, <1>6, <1>7 DEF Maintenance

----------------------------------------------------------------------------
(* The lists' inductive invariant.                                          *)

\* Every step of UnracedSpec keeps the invariant.
LEMMA NextInv ==
  ASSUME ListsInv, raced = {}, Locked(Keys \ {pending.key}) \/ Others, raced' = {}
  PROVE  ListsInv'
  <1>1. /\ pending \in PendingPush \cup {NoPush}
        /\ pending # NoPush => pending.key \in Keys
    BY DEF ListsInv, ListsTypeOK, PendingPush
  <1>2. ASSUME Kept, pending' \in PendingPush \cup {NoPush},
               pending' # NoPush => (PushBegins \/ PushProlongs)'
        PROVE  ListsInv'
    BY <1>2 DEF Kept, StoreInv, ListsInv, ListsTypeOK
  <1>3. ASSUME Kept, pending' = pending, pending # NoPush => LeavesList(pending.key)
        PROVE  ListsInv'
    BY <1>1, <1>2, <1>3, PendingKept
  <1>4. ASSUME NEW k \in Keys \ {pending.key}, Handler(k), pending' = pending
        PROVE  ListsInv'
    <2>1. Kept
      BY <1>4, HandlerInv
    <2>2. pending # NoPush => LeavesList(pending.key)
      BY <1>1, <1>4, HandlerLeaves
    <2>3. QED BY <1>3, <1>4, <2>1, <2>2
  <1>5. ASSUME NEW src \in Keys \ {pending.key}, NEW dst \in Keys \ {pending.key},
               RPoplpush(src, dst), pending' = pending
        PROVE  ListsInv'
    <2>1. Kept
      BY <1>5, RPoplpushInv
    <2>2. pending # NoPush => LeavesList(pending.key)
      BY <1>1, <1>5, RPoplpushLeaves
    <2>3. QED BY <1>3, <1>5, <2>1, <2>2
  <1>6. ASSUME NEW k \in Keys, NEW vs \in PushArgs, RPushRead(k, vs)
        PROVE  ListsInv'
    <2>1. UNCHANGED <<storeVars, window, value>>
      BY <1>6 DEF RPushRead
    <2>2. Kept
      <3>1. StoreInv'
        BY <2>1, StutterInv DEF ListsInv
      <3>2. WindowEnclosesNodes'
        BY <2>1 DEF ListsInv, WindowEnclosesNodes, Fresh, IsStale, Stored, First, Last,
                    storeVars
      <3>3. QED BY <2>1, <3>1, <3>2 DEF Kept, ListsInv, ListsTypeOK, storeVars
    <2>3. pending' \in PendingPush /\ (PushBegins \/ PushProlongs)'
      BY <1>6, RPushReadReady
    <2>4. QED BY <1>2, <2>2, <2>3
  <1>7. CASE RPushWrite
    <2>1. Kept /\ pending' = NoPush
      BY <1>7, RPushWriteInv DEF RPushWrite
    <2>2. QED BY <1>2, <2>1
  <1>8. CASE Maintenance /\ WindowFollows /\ UNCHANGED pending
    <2>1. Kept
      BY <1>8, MaintenanceInv
    <2>2. pending # NoPush => LeavesList(pending.key)
      BY <1>1, <1>8, MaintenanceLeavesList
    <2>3. QED BY <1>3, <1>8, <2>1, <2>2
  <1>9. CASE ListsReopen
    <2>1. Kept /\ pending' = NoPush
      BY <1>9, ReopenInv DEF ListsReopen
    <2>2. QED BY <1>2, <2>1
  <1>10. QED BY <1>4, <1>5, <1>6, <1>7, <1>8, <1>9 DEF Locked, Others

\* The empty database has it.
LEMMA InitInv == ListsInit => ListsInv /\ raced = {}
  <1> SUFFICES ASSUME ListsInit PROVE ListsInv /\ raced = {}
    OBVIOUS
  <1>1. StoreInv /\ raced = {} /\ data = {} /\ meta = [k \in Keys |-> NoMeta]
    BY StoreInitInv DEF ListsInit, StoreInit
  <1>2. ListsTypeOK
    BY <1>1, SomeIndices DEF ListsInit, ListsTypeOK, StoreInv
  <1>3. WindowEnclosesNodes
    BY <1>1 DEF WindowEnclosesNodes, Fresh
  <1>4. QED BY <1>1, <1>2, <1>3 DEF ListsInit, ListsInv

\* So does a step that changes nothing.
LEMMA ListsStutterInv ==
  ASSUME ListsInv, UNCHANGED listsVars
  PROVE  ListsInv'
  <1>1. UNCHANGED <<meta, data, now, filter, raced, window, value, pending>>
    BY DEF listsVars
  <1>2. StoreInv'
    BY <1>1, StutterInv DEF storeVars, ListsInv
  <1>3. WindowEnclosesNodes'
    BY <1>1 DEF ListsInv, WindowEnclosesNodes, Fresh, IsStale, Stored, First, Last
  <1>4. ListsTypeOK'
    BY <1>1, <1>2 DEF ListsInv, ListsTypeOK, StoreInv
  <1>5. pending' # NoPush => (PushBegins \/ PushProlongs)'
    BY <1>1 DEF ListsInv, PushBegins, PushProlongs, Live
  <1>6. QED BY <1>2, <1>3, <1>4, <1>5 DEF ListsInv

\* Every list's window encloses its nodes and its count is their number, through
\* any order of handlers, compaction, restarts and the two steps of RPush, as long
\* as no other handler of the key runs between those and no key's life is extended
\* behind a filter's back.
THEOREM ListsInvHolds == UnracedSpec => [](ListsInv /\ raced = {})
  <1>1. ListsInit => ListsInv /\ raced = {}
    BY InitInv
  <1>2. /\ ListsInv /\ raced = {}
        /\ [(Locked(Keys \ {pending.key}) \/ Others) /\ raced' = {}]_listsVars
        => (ListsInv /\ raced = {})'
    BY NextInv, ListsStutterInv DEF listsVars
  <1>3. QED BY <1>1, <1>2, PTL DEF UnracedSpec

\* LLen is the number of nodes under the list's version, on the same condition.
THEOREM ListLengthIsRight == UnracedSpec => []LengthAlwaysCountsMembers
  <1>1. ListsInv /\ raced = {} => LengthAlwaysCountsMembers
    <2> SUFFICES ASSUME ListsInv, raced = {}, NEW k \in Keys
                 PROVE  Length(k) = Cardinality(Visible(k))
      BY DEF LengthAlwaysCountsMembers
    <2>1. CASE Live(k)
      BY <2>1, LiveFacts DEF ListsInv, StoreInv, CountsStored, Length, Visible
    <2>2. CASE ~Live(k)
      BY <2>2, FS_EmptySet DEF Length, Visible
    <2>3. QED BY <2>1, <2>2
  <1>2. QED BY <1>1, ListsInvHolds, PTL

----------------------------------------------------------------------------
(* What a reader sees of a write.                                           *)

\* What a live list is made of, and that a list is live when it has elements.
LEMMA ElementsAre ==
  ASSUME ListsInv, raced = {}, NEW k \in Keys
  PROVE  /\ Live(k) <=> Elements(k) # <<>>
         /\ Elements(k) \in Seq(Values)
         /\ Live(k) => \E L, R \in Nat :
              /\ window[k] = [left |-> L, right |-> R] /\ L + 1 < R
              /\ First(k) = L + 1 /\ Last(k) = R - 1
              /\ L \in Members /\ R \in Members /\ L + 1 .. R - 1 \subseteq Members
              /\ Elements(k) = [i \in 1 .. R - 1 - L |-> Node(k, L + i)]
              /\ Len(Elements(k)) = R - 1 - L
              /\ meta[k].count = R - 1 - L
              /\ \A i \in L + 1 .. R - 1 : Node(k, i) \in Values
  <1>1. CASE ~Live(k)
    BY <1>1, EmptySeq DEF Elements
  <1>2. CASE Live(k)
    <2>1. PICK L \in Nat, R \in Nat :
            /\ window[k] = [left |-> L, right |-> R] /\ L < R
            /\ First(k) = L + 1 /\ Last(k) = R - 1
            /\ L \in Members /\ R \in Members /\ L + 1 .. R - 1 \subseteq Members
            /\ \A i \in L + 1 .. R - 1 : Node(k, i) \in Values
      BY <1>2, LiveList
    <2>2. L + 1 < R /\ meta[k].count = R - 1 - L
      <3>1. Fresh(k) /\ meta[k].count # 0
        BY <1>2, LiveFacts DEF ListsInv, StoreInv, Live, IsLive
      <3>2. meta[k].count = window[k].right - 1 - window[k].left
        BY <3>1, FreshEncloses DEF Encloses
      <3>3. QED BY <2>1, <3>1, <3>2
    <2>3. PICK n \in Nat : n = R - 1 - L /\ n > 0
      BY <2>2
    <2>4. Elements(k) = [i \in 1 .. n |-> Node(k, L + i)]
      BY <1>2, <2>1, <2>3 DEF Elements
    <2>5. \A i \in 1 .. n : Node(k, L + i) \in Values
      BY <2>1, <2>3
    <2>6. Elements(k) \in Seq(Values) /\ Len(Elements(k)) = n
      BY <2>4, <2>5
    <2>7. Elements(k) # <<>>
      BY <2>3, <2>6
    <2>8. QED BY <1>2, <2>1, <2>2, <2>3, <2>4, <2>6, <2>7
  <1>3. QED BY <1>1, <1>2

\* The same, element by element.
LEMMA LiveElements ==
  ASSUME ListsInv, raced = {}, NEW k \in Keys, Live(k)
  PROVE  \E L, R \in Nat, s \in Seq(Values) :
           /\ window[k] = [left |-> L, right |-> R] /\ L + 1 < R
           /\ First(k) = L + 1 /\ Last(k) = R - 1
           /\ L \in Members /\ R \in Members /\ L + 1 .. R - 1 \subseteq Members
           /\ s = Elements(k) /\ s # <<>> /\ Len(s) = R - 1 - L
           /\ \A i \in 1 .. R - 1 - L : s[i] = Node(k, L + i) /\ s[i] \in Values
  <1>1. PICK L \in Nat, R \in Nat :
          /\ window[k] = [left |-> L, right |-> R] /\ L + 1 < R
          /\ First(k) = L + 1 /\ Last(k) = R - 1
          /\ L \in Members /\ R \in Members /\ L + 1 .. R - 1 \subseteq Members
          /\ Elements(k) = [i \in 1 .. R - 1 - L |-> Node(k, L + i)]
          /\ Len(Elements(k)) = R - 1 - L
          /\ \A i \in L + 1 .. R - 1 : Node(k, i) \in Values
    BY ElementsAre
  <1>2. PICK s \in Seq(Values) : s = Elements(k) /\ s # <<>>
    BY ElementsAre
  <1>3. \A i \in 1 .. R - 1 - L : L + i \in L + 1 .. R - 1
    OBVIOUS
  <1>4. \A i \in 1 .. R - 1 - L : s[i] = Node(k, L + i) /\ s[i] \in Values
    BY <1>1, <1>2, <1>3
  <1>5. QED BY <1>1, <1>2, <1>4

\* A batch that writes keys K: the records P, the deletions dels.
WritesTo(K, ms, ws, P, puts, dels) ==
  /\ Write(ms, ws, puts, dels)
  /\ K \in SUBSET Keys /\ DOMAIN ms = K /\ DOMAIN ws = K /\ DOMAIN puts = P
  /\ \A rec \in P : rec[1] \in K
  /\ \A rec \in dels : rec[1] \in K

\* The node it leaves at an index, of a key it writes.
NodeAfter(ms, P, puts, dels, k, i) ==
  LET rec == <<k, ms[k].version, i>>
  IN  IF rec \in dels THEN NoValue
      ELSE IF rec \in P THEN puts[rec]
      ELSE IF rec \in data THEN value[rec] ELSE NoValue

\* The keys it writes have the nodes it leaves, the others what they had.
LEMMA WriteSeen ==
  ASSUME NEW K, NEW ms, NEW ws, NEW P, NEW puts, NEW dels,
         WritesTo(K, ms, ws, P, puts, dels)
  PROVE  /\ now' = now
         /\ \A k \in K :
              /\ meta'[k] = ms[k] /\ window'[k] = ws[k]
              /\ Live(k)' <=> IsLive(ms[k], now)
              /\ \A i : Node(k, i)' = NodeAfter(ms, P, puts, dels, k, i)
         /\ \A k \in Keys \ K : /\ meta'[k] = meta[k]
                                /\ Elements(k)' = Elements(k)
  <1>1. /\ meta' = [k \in Keys |-> IF k \in K THEN ms[k] ELSE meta[k]]
        /\ window' = [k \in Keys |-> IF k \in K THEN ws[k] ELSE window[k]]
        /\ data' = (data \cup P) \ dels /\ now' = now
        /\ value' = [rec \in data' |-> IF rec \in P THEN puts[rec] ELSE value[rec]]
        /\ K \in SUBSET Keys
        /\ \A rec \in P : rec[1] \in K
        /\ \A rec \in dels : rec[1] \in K
    BY DEF WritesTo, Write
  <1>2. ASSUME NEW k \in K
        PROVE  /\ meta'[k] = ms[k] /\ window'[k] = ws[k]
               /\ Live(k)' <=> IsLive(ms[k], now)
               /\ \A i : Node(k, i)' = NodeAfter(ms, P, puts, dels, k, i)
    <2>1. meta'[k] = ms[k] /\ window'[k] = ws[k]
      BY <1>1
    <2>2. Live(k)' <=> IsLive(ms[k], now)
      BY <1>1, <2>1 DEF Live
    <2>3. ASSUME NEW i
          PROVE  Node(k, i)' = NodeAfter(ms, P, puts, dels, k, i)
      <3>1. PICK rec : rec = <<k, ms[k].version, i>>
        OBVIOUS
      <3>2. Node(k, i)' = IF rec \in data' THEN value'[rec] ELSE NoValue
        BY <2>1, <3>1 DEF Node
      <3>3. rec \in data' => value'[rec] = IF rec \in P THEN puts[rec] ELSE value[rec]
        BY <1>1
      <3>4. QED BY <1>1, <3>1, <3>2, <3>3 DEF NodeAfter
    <2>4. QED BY <2>1, <2>2, <2>3
  <1>3. ASSUME NEW k \in Keys \ K
        PROVE  meta'[k] = meta[k] /\ Elements(k)' = Elements(k)
    <2>1. meta'[k] = meta[k] /\ window'[k] = window[k]
      BY <1>1
    <2>2. Live(k)' <=> Live(k)
      BY <1>1, <2>1 DEF Live
    <2>3. ASSUME NEW i
          PROVE  Node(k, i)' = Node(k, i)
      <3>1. PICK rec : rec = <<k, meta[k].version, i>>
        OBVIOUS
      <3>0. rec[1] = k
        BY <3>1
      <3>2. rec \in data' <=> rec \in data
        BY <1>1, <3>0
      <3>3. rec \in data' => value'[rec] = value[rec]
        BY <1>1, <3>0
      <3>4. QED BY <2>1, <3>1, <3>2, <3>3 DEF Node
    <2>4. QED BY <2>1, <2>2, <2>3, Zenon DEF Elements, First, Last
  <1>4. QED BY <1>1, <1>2, <1>3

\* The list that the nodes of f, where it has some, and those there were, make up
\* between two indices.
Spliced(k, left, right, S, f) ==
  [i \in 1 .. right - 1 - left |->
     IF left + i \in S THEN f[left + i] ELSE Node(k, left + i)]

\* A write that moves the indices of a live list by what it puts and deletes.
LEMMA UpdateSeen ==
  ASSUME ListsInv, raced = {}, NEW k \in Keys,
         NEW delta, NEW left, NEW right, NEW S, NEW f, NEW G,
         Shifts(k, delta, left, right, S, f, G)
  PROVE  /\ now' = now /\ meta'[k].timestamp = meta[k].timestamp
         /\ left \in Nat /\ right \in Nat
         /\ Elements(k)' = Spliced(k, left, right, S, f)
         /\ \A j \in Keys \ {k} : meta'[j] = meta[j] /\ Elements(j)' = Elements(j)
  <1>0. /\ Live(k) /\ Update(k, delta, left, right, f, G)
        /\ S \in SUBSET Members /\ f \in [S -> Values] /\ G \in SUBSET Members
        /\ left < right
        /\ (First(k) .. Last(k) \cup S) \ G = left + 1 .. right - 1
        /\ delta = (right - left) - (window[k].right - window[k].left)
        /\ left \in Nat /\ right \in Nat
    BY SomeIndices DEF Shifts, Update, Write, Only, Window
  <1>1. PICK L \in Nat, R \in Nat :
          /\ window[k] = [left |-> L, right |-> R] /\ L + 1 < R
          /\ First(k) = L + 1 /\ Last(k) = R - 1
          /\ meta[k].count = R - 1 - L
    BY <1>0, ElementsAre
  <1>2. PICK v \in Nat : v = meta[k].version /\ meta[k] \in MetaValue
    BY <1>0, LiveFacts DEF ListsInv, StoreInv
  <1>3. PICK m \in MetaValue :
          /\ m = ModifyCount(meta[k], delta)
          /\ m.version = v /\ m.timestamp = meta[k].timestamp
          /\ m.count = right - 1 - left
    <2>1. delta \in Int /\ meta[k].count + delta = right - 1 - left
      BY <1>0, <1>1
    <2>2. ModifyCount(meta[k], delta) \in MetaValue
      BY <1>2, <2>1 DEF ModifyCount, MetaValue
    <2>3. QED BY <1>2, <2>1, <2>2 DEF ModifyCount, MetaValue
  <1>4. PICK w : w = [left |-> left, right |-> right]
    OBVIOUS
  <1>5. PICK ms, ws, puts, P, dels :
          /\ ms = Only(k, m) /\ ws = Only(k, w) /\ puts = Nodes(k, v, f)
          /\ P = Records(k, v, S) /\ dels = Records(k, v, G)
    OBVIOUS
  <1>6. WritesTo({k}, ms, ws, P, puts, dels)
    <2>1. Write(ms, ws, puts, dels)
      BY <1>0, <1>2, <1>3, <1>4, <1>5 DEF Update
    <2>2. DOMAIN f = S
      BY <1>0
    <2>3. DOMAIN puts = P
      BY <1>5, <2>2 DEF Nodes
    <2>4. QED BY <1>5, <2>1, <2>3 DEF WritesTo, Only, Records
  <1>7. /\ now' = now
        /\ meta'[k] = m /\ window'[k] = w
        /\ Live(k)' <=> IsLive(m, now)
        /\ \A i : Node(k, i)' = NodeAfter(ms, P, puts, dels, k, i)
        /\ \A j \in Keys \ {k} : meta'[j] = meta[j] /\ Elements(j)' = Elements(j)
    BY <1>5, <1>6, WriteSeen DEF Only
  <1>8. ASSUME NEW i \in left + 1 .. right - 1
        PROVE  Node(k, i)' = IF i \in S THEN f[i] ELSE Node(k, i)
    <2>1. i \notin G /\ i \in First(k) .. Last(k) \cup S
      BY <1>0
    <2>2. PICK rec : rec = <<k, v, i>>
      OBVIOUS
    <2>3. /\ rec \notin dels
          /\ rec \in P <=> i \in S
          /\ i \in S => puts[rec] = f[i]
      BY <1>0, <1>5, <2>1, <2>2 DEF Records, Nodes
    <2>4. Node(k, i) = IF rec \in data THEN value[rec] ELSE NoValue
      BY <1>2, <2>2 DEF Node
    <2>5. ms[k].version = v
      BY <1>3, <1>5 DEF Only
    <2>6. NodeAfter(ms, P, puts, dels, k, i) = IF i \in S THEN f[i] ELSE Node(k, i)
      BY <2>2, <2>3, <2>4, <2>5 DEF NodeAfter
    <2>7. QED BY <1>7, <2>6
  <1>9. Elements(k)' = Spliced(k, left, right, S, f)
    <2>1. \A i \in 1 .. right - 1 - left : left + i \in left + 1 .. right - 1
      BY <1>0
    <2>2. \A i \in 1 .. right - 1 - left :
            Node(k, left + i)' = IF left + i \in S THEN f[left + i] ELSE Node(k, left + i)
      BY <1>8, <2>1
    <2>3. window'[k].left = left /\ Last(k)' = right - 1
      BY <1>4, <1>7 DEF Last
    <2>4. CASE IsLive(m, now)
      <3>1. Elements(k)' = [i \in 1 .. right - 1 - left |-> Node(k, left + i)']
        BY <1>7, <2>3, <2>4 DEF Elements
      <3>2. QED BY <2>2, <3>1 DEF Spliced
    <2>5. CASE ~IsLive(m, now)
      <3>1. m.count = 0
        BY <1>0, <1>3, <2>5, NoMetaAssumption DEF Live, IsLive, IsStale
      <3>2. 1 .. right - 1 - left = {}
        BY <1>0, <1>3, <3>1
      <3>3. Spliced(k, left, right, S, f) = <<>>
        BY <3>2 DEF Spliced
      <3>4. Elements(k)' = <<>>
        BY <1>7, <2>5 DEF Elements
      <3>5. QED BY <3>3, <3>4
    <2>6. QED BY <2>4, <2>5
  <1>10. QED BY <1>0, <1>3, <1>7, <1>9

\* A write that begins a list of k anew, whatever it deletes besides.
LEMMA AnewSeen ==
  ASSUME ListsInv, NEW k \in Keys, NEW m, NEW w, NEW S, NEW f, NEW dels,
         StartsAnew(k, m, w, S, f, dels), ~IsStale(m, now)
  PROVE  /\ now' = now /\ meta'[k] = m
         /\ Elements(k)' = [i \in 1 .. w.right - 1 - w.left |-> f[w.left + i]]
         /\ \A j \in Keys \ {k} : meta'[j] = meta[j] /\ Elements(j)' = Elements(j)
  <1>0. /\ Write(Only(k, m), Only(k, w), Nodes(k, m.version, f), dels)
        /\ m \in MetaValue /\ m # NoMeta /\ Unreached(k, m.version)
        /\ w \in Window /\ S \in SUBSET Members /\ f \in [S -> Values]
        /\ \A rec \in dels : rec[1] = k /\ rec \in data
        /\ w.left < w.right
        /\ S = w.left + 1 .. w.right - 1
        /\ m.count = w.right - 1 - w.left
    BY NoMetaAssumption DEF StartsAnew
  <1>1. PICK v \in Nat, l \in Nat, r \in Nat : m.version = v /\ w.left = l /\ w.right = r
    BY <1>0, SomeIndices DEF MetaValue
  <1>2. PICK ms, ws, puts, P :
          /\ ms = Only(k, m) /\ ws = Only(k, w) /\ puts = Nodes(k, v, f)
          /\ P = Records(k, v, S)
    OBVIOUS
  <1>3. WritesTo({k}, ms, ws, P, puts, dels)
    <2>1. Write(ms, ws, puts, dels)
      BY <1>0, <1>1, <1>2
    <2>2. DOMAIN f = S
      BY <1>0
    <2>3. DOMAIN puts = P
      BY <1>2, <2>2 DEF Nodes
    <2>4. QED BY <1>0, <1>2, <2>1, <2>3 DEF WritesTo, Only, Records
  <1>4. /\ now' = now
        /\ meta'[k] = m /\ window'[k] = w
        /\ Live(k)' <=> IsLive(m, now)
        /\ \A i : Node(k, i)' = NodeAfter(ms, P, puts, dels, k, i)
        /\ \A j \in Keys \ {k} : meta'[j] = meta[j] /\ Elements(j)' = Elements(j)
    BY <1>2, <1>3, WriteSeen DEF Only
  <1>5. ASSUME NEW i \in S
        PROVE  Node(k, i)' = f[i]
    <2>1. PICK rec : rec = <<k, v, i>>
      OBVIOUS
    <2>2. rec[1] = k /\ rec[2] = v /\ rec[3] = i
      BY <2>1
    <2>3. rec \notin dels
      BY <1>0, <1>1, <2>2 DEF Unreached
    <2>4. rec \in P /\ puts[rec] = f[i]
      BY <1>0, <1>2, <1>5, <2>1, <2>2 DEF Records, Nodes
    <2>5. ms[k].version = v
      BY <1>1, <1>2 DEF Only
    <2>6. QED BY <1>4, <2>1, <2>3, <2>4, <2>5 DEF NodeAfter
  <1>6. window'[k].left = l /\ Last(k)' = r - 1
    BY <1>1, <1>4 DEF Last
  <1>7. \A i \in 1 .. r - 1 - l : Node(k, l + i)' = f[l + i]
    <2>1. \A i \in 1 .. r - 1 - l : l + i \in S
      BY <1>0, <1>1
    <2>2. QED BY <1>5, <2>1
  <1>8. Elements(k)' = [i \in 1 .. r - 1 - l |-> f[l + i]]
    <2>1. CASE IsLive(m, now)
      <3>1. Elements(k)' = [i \in 1 .. r - 1 - l |-> Node(k, l + i)']
        BY <1>4, <1>6, <2>1 DEF Elements
      <3>2. QED BY <1>7, <3>1
    <2>2. CASE ~IsLive(m, now)
      <3>1. m.count = 0
        BY <1>0, <2>2 DEF IsLive
      <3>2. 1 .. r - 1 - l = {}
        BY <1>0, <1>1, <3>1
      <3>3. [i \in 1 .. r - 1 - l |-> f[l + i]] = <<>>
        BY <3>2
      <3>4. Elements(k)' = <<>>
        BY <1>4, <2>2 DEF Elements
      <3>5. QED BY <3>3, <3>4
    <2>3. QED BY <2>1, <2>2
  <1>9. QED BY <1>1, <1>4, <1>8

----------------------------------------------------------------------------
(* Steps of the lists are steps of ExpiringLists, or invisible to it.       *)

\* What ExpiringLists calls contents and deadline.
Row == [k \in Keys |-> Elements(k)]

Until == [k \in Keys |-> IF Elements(k) = <<>> THEN 0 ELSE meta[k].timestamp]

\* k comes to hold s, and the other keys are left alone.
BecomesList(k, s) ==
  /\ Row' = [Row EXCEPT ![k] = s]
  /\ Until' = [Until EXCEPT ![k] = IF s = <<>> THEN 0 ELSE @]
  /\ now' = now

\* A step that gives one key a list, and leaves the others alone.
LEMMA BecomeListed ==
  ASSUME NEW k \in Keys, NEW s, now' = now, Elements(k)' = s,
         s # <<>> => meta'[k].timestamp =
                       IF Elements(k) = <<>> THEN 0 ELSE meta[k].timestamp,
         \A j \in Keys \ {k} : meta'[j] = meta[j] /\ Elements(j)' = Elements(j)
  PROVE  BecomesList(k, s)
  BY DEF BecomesList, Row, Until

\* s is the list that the nodes of f and those there were make up.
Splices(k, left, right, S, f, s) ==
  /\ s \in Seq(Values) /\ Len(s) = right - 1 - left
  /\ \A i \in 1 .. right - 1 - left :
       s[i] = IF left + i \in S THEN f[left + i] ELSE Node(k, left + i)

\* So does every write that moves the indices of a live list by what it puts and
\* deletes.
LEMMA UpdateListed ==
  ASSUME ListsInv, raced = {}, NEW k \in Keys,
         NEW delta, NEW left, NEW right, NEW S, NEW f, NEW G,
         NEW s, Shifts(k, delta, left, right, S, f, G), Splices(k, left, right, S, f, s)
  PROVE  BecomesList(k, s)
  <1>1. /\ now' = now /\ meta'[k].timestamp = meta[k].timestamp
        /\ left \in Nat /\ right \in Nat
        /\ Elements(k)' = Spliced(k, left, right, S, f)
        /\ \A j \in Keys \ {k} : meta'[j] = meta[j] /\ Elements(j)' = Elements(j)
    BY UpdateSeen
  <1>2. s = [i \in 1 .. right - 1 - left |-> s[i]]
    BY <1>1 DEF Splices
  <1>3. Spliced(k, left, right, S, f) = s
    BY <1>2, Zenon DEF Spliced, Splices
  <1>4. Elements(k) # <<>>
    BY ElementsAre DEF Shifts
  <1>5. QED BY <1>1, <1>3, <1>4, BecomeListed

\* LPop takes the first element.
LEMMA LPopListed ==
  ASSUME ListsInv, raced = {}, NEW k \in Keys, LPop(k)
  PROVE  Lists!PopLeft(k)
  <1>1. /\ Live(k) /\ Node(k, First(k)) # NoValue
        /\ Update(k, -1, window[k].left + 1, window[k].right, <<>>, {First(k)})
    BY DEF LPop
  <1>2. PICK L \in Nat, R \in Nat, s \in Seq(Values) :
          /\ window[k] = [left |-> L, right |-> R] /\ L + 1 < R
          /\ First(k) = L + 1 /\ Last(k) = R - 1 /\ L + 1 .. R - 1 \subseteq Members
          /\ s = Elements(k) /\ s # <<>> /\ Len(s) = R - 1 - L
          /\ \A i \in 1 .. R - 1 - L : s[i] = Node(k, L + i) /\ s[i] \in Values
    <2>1. Live(k)
      BY <1>1
    <2>2. QED BY <2>1, LiveElements
  <1>3. L + 1 \in Members /\ <<>> \in [{} -> Values]
    BY <1>2
  <1>4. Shifts(k, -1, L + 1, R, {}, <<>>, {L + 1})
    BY <1>1, <1>2, <1>3 DEF Shifts
  <1>5. s # <<>>
    BY <1>2
  <1>6. PICK t \in Seq(Values) :
          t = Tail(s) /\ Len(t) = Len(s) - 1 /\ \A i \in 1 .. Len(t) : t[i] = s[i + 1]
    BY <1>5, HeadTailProperties
  <1>7. Splices(k, L + 1, R, {}, <<>>, t)
    <2>1. Len(t) = R - 1 - (L + 1)
      BY <1>2, <1>6
    <2>2. \A i \in 1 .. R - 1 - (L + 1) : t[i] = Node(k, L + 1 + i)
      BY <1>2, <1>6, <2>1
    <2>3. QED BY <1>6, <2>1, <2>2 DEF Splices
  <1>8. BecomesList(k, t)
    BY <1>4, <1>7, UpdateListed
  <1>9. QED BY <1>2, <1>5, <1>6, <1>8
           DEF BecomesList, Row, Until, Lists!PopLeft, Lists!Become

\* RPop takes the last.
LEMMA RPopListed ==
  ASSUME ListsInv, raced = {}, NEW k \in Keys, RPop(k)
  PROVE  Lists!PopRight(k)
  <1>1. /\ Live(k) /\ Node(k, Last(k)) # NoValue
        /\ Update(k, -1, window[k].left, window[k].right - 1, <<>>, {Last(k)})
    BY DEF RPop
  <1>2. PICK L \in Nat, R \in Nat, s \in Seq(Values) :
          /\ window[k] = [left |-> L, right |-> R] /\ L + 1 < R
          /\ First(k) = L + 1 /\ Last(k) = R - 1 /\ L + 1 .. R - 1 \subseteq Members
          /\ s = Elements(k) /\ s # <<>> /\ Len(s) = R - 1 - L
          /\ \A i \in 1 .. R - 1 - L : s[i] = Node(k, L + i) /\ s[i] \in Values
    <2>1. Live(k)
      BY <1>1
    <2>2. QED BY <2>1, LiveElements
  <1>3. R - 1 \in Members /\ <<>> \in [{} -> Values]
    BY <1>2
  <1>4. Shifts(k, -1, L, R - 1, {}, <<>>, {R - 1})
    <2>1. (L + 1 .. R - 1) \ {R - 1} = L + 1 .. (R - 1) - 1
      BY <1>2
    <2>2. L < R - 1 /\ -1 = ((R - 1) - L) - (R - L)
      BY <1>2
    <2>3. QED BY <1>1, <1>2, <1>3, <2>1, <2>2 DEF Shifts
  <1>5. PICK n \in Nat : n = R - 2 - L
    BY <1>2
  <1>6. PICK t \in Seq(Values) :
          t = SubSeq(s, 1, n) /\ Len(t) = n /\ \A i \in 1 .. n : t[i] = s[i]
    <2>1. \A i \in 1 .. n : s[i] \in Values
      BY <1>2, <1>5
    <2>2. /\ SubSeq(s, 1, n) \in Seq(Values) /\ Len(SubSeq(s, 1, n)) = n
          /\ \A i \in 1 .. n : SubSeq(s, 1, n)[i] = s[i]
      BY <1>5, <2>1, SubSeqProperties
    <2>3. QED BY <2>2
  <1>7. Splices(k, L, R - 1, {}, <<>>, t)
    BY <1>2, <1>5, <1>6 DEF Splices
  <1>8. BecomesList(k, t)
    BY <1>4, <1>7, UpdateListed
  <1>9. s # <<>> /\ t = SubSeq(s, 1, Len(s) - 1)
    BY <1>2, <1>5, <1>6
  <1>10. QED BY <1>2, <1>8, <1>9
            DEF BecomesList, Row, Until, Lists!PopRight, Lists!Become

\* A sum of an index and an argument, in 64 bits.
LEMMA Wraps ==
  ASSUME NEW m \in Nat \ {0}, NEW x \in Int, -m <= x, x < 2 * m
  PROVE  x % m = IF x < 0 THEN x + m ELSE IF x < m THEN x ELSE x - m
  <1>1. CASE x < 0
    BY <1>1
  <1>2. CASE 0 <= x /\ x < m
    BY <1>2
  <1>3. CASE m <= x
    BY <1>3
  <1>4. QED BY <1>1, <1>2, <1>3

\* An argument that names a node names the element that the node is, and whether
\* or not it wraps it names a node if it names an element.
LEMMA PositionIsPlace ==
  ASSUME NEW k, NEW L \in Members, NEW R \in Members, L < R,
         window[k] = [left |-> L, right |-> R],
         NEW i \in Indexes, NEW s, Len(s) = R - 1 - L
  PROVE  /\ Position(k, i) \in L + 1 .. R - 1 <=> Lists!Place(s, i) \in 1 .. R - 1 - L
         /\ Position(k, i) \in L + 1 .. R - 1 => Position(k, i) = L + Lists!Place(s, i)
         /\ Fits(k, i) => Position(k, i) = L + Lists!Place(s, i)
         /\ Lists!Place(s, i) \in Int
  <1>1. PICK h \in Nat \ {0} : h = Half /\ i \in -h .. h - 1 /\ Members = 0 .. 2 * h - 1
    BY ListsAssumption
  <1>2. PICK m \in Nat \ {0} : m = 2 * h
    OBVIOUS
  <1>3. window[k].left = L /\ window[k].right = R /\ L \in 0 .. m - 1 /\ R \in 0 .. m - 1
    BY <1>1, <1>2
  <1>4. CASE i >= 0
    <2>1. PICK x \in Int : x = L + i + 1
      BY <1>1, <1>3
    <2>2. -m <= x /\ x < 2 * m
      BY <1>1, <1>2, <1>3, <1>4, <2>1
    <2>3. x % m = IF x < m THEN x ELSE x - m
      <3>1. 0 <= x
        BY <1>1, <1>3, <1>4, <2>1
      <3>2. x % m = IF x < 0 THEN x + m ELSE IF x < m THEN x ELSE x - m
        BY <2>2, Wraps
      <3>3. QED BY <3>1, <3>2
    <2>4. Position(k, i) = x % m
      BY <1>1, <1>2, <1>3, <1>4, <2>1 DEF Position
    <2>5. Lists!Place(s, i) = i + 1
      BY <1>4 DEF Lists!Place
    <2>6. Fits(k, i) => x < m
      BY <1>1, <1>2, <1>3, <1>4, <2>1 DEF Fits
    <2>7. QED BY <1>1, <1>2, <1>3, <1>4, <2>1, <2>3, <2>4, <2>5, <2>6
  <1>5. CASE i < 0
    <2>1. PICK x \in Int : x = R + i
      BY <1>1, <1>3
    <2>2. -m <= x /\ x < m
      BY <1>1, <1>2, <1>3, <1>5, <2>1
    <2>3. x % m = IF x < 0 THEN x + m ELSE x
      BY <1>2, <2>1, <2>2, Wraps
    <2>4. Position(k, i) = x % m
      BY <1>1, <1>2, <1>3, <1>5, <2>1 DEF Position
    <2>5. Lists!Place(s, i) = R - L + i
      BY <1>1, <1>3, <1>5 DEF Lists!Place
    <2>6. Fits(k, i) => 0 <= x
      BY <1>1, <1>2, <1>3, <1>5, <2>1 DEF Fits
    <2>7. QED BY <1>1, <1>2, <1>3, <1>5, <2>1, <2>3, <2>4, <2>5, <2>6
  <1>6. QED BY <1>1, <1>4, <1>5

\* LSet sets the element its argument names.
LEMMA LSetListed ==
  ASSUME ListsInv, raced = {}, NEW k \in Keys, NEW i \in Indexes, NEW v \in Values,
         LSet(k, i, v)
  PROVE  Lists!Set(k, i, v)
  <1>1. /\ Live(k) /\ Position(k, i) \in First(k) .. Last(k)
        /\ Update(k, 0, window[k].left, window[k].right, Only(Position(k, i), v), {})
    BY DEF LSet
  <1>2. PICK L \in Nat, R \in Nat, s \in Seq(Values) :
          /\ window[k] = [left |-> L, right |-> R] /\ L + 1 < R
          /\ First(k) = L + 1 /\ Last(k) = R - 1
          /\ L \in Members /\ R \in Members /\ L + 1 .. R - 1 \subseteq Members
          /\ s = Elements(k) /\ s # <<>> /\ Len(s) = R - 1 - L
          /\ \A j \in 1 .. R - 1 - L : s[j] = Node(k, L + j) /\ s[j] \in Values
    <2>1. Live(k)
      BY <1>1
    <2>2. QED BY <2>1, LiveElements
  <1>3. PICK a \in Nat : a = Lists!Place(s, i) /\ a \in 1 .. R - 1 - L /\ Position(k, i) = L + a
    <2>1. Position(k, i) \in L + 1 .. R - 1 /\ L < R
      BY <1>1, <1>2
    <2>2. /\ Lists!Place(s, i) \in 1 .. R - 1 - L
          /\ Position(k, i) = L + Lists!Place(s, i)
      BY <1>2, <2>1, PositionIsPlace
    <2>3. QED BY <2>2
  <1>4. Only(L + a, v) \in [{L + a} -> Values] /\ Only(L + a, v)[L + a] = v
    BY OnlyIs
  <1>5. Shifts(k, 0, L, R, {L + a}, Only(L + a, v), {})
    <2>1. (L + 1 .. R - 1 \cup {L + a}) \ {} = L + 1 .. R - 1
      BY <1>3
    <2>2. L + a \in L + 1 .. R - 1
      BY <1>3
    <2>3. {L + a} \in SUBSET Members
      BY <1>2, <2>2
    <2>4. QED BY <1>1, <1>2, <1>3, <1>4, <2>1, <2>3 DEF Shifts
  <1>6. PICK t \in Seq(Values) :
          /\ t = [s EXCEPT ![a] = v] /\ Len(t) = R - 1 - L
          /\ \A j \in 1 .. R - 1 - L : t[j] = IF j = a THEN v ELSE s[j]
    <2>1. a \in 1 .. Len(s)
      BY <1>2, <1>3
    <2>2. /\ [s EXCEPT ![a] = v] \in Seq(Values) /\ Len([s EXCEPT ![a] = v]) = Len(s)
          /\ \A j \in 1 .. Len(s) : [s EXCEPT ![a] = v][j] = IF j = a THEN v ELSE s[j]
      BY <2>1, ExceptSeq
    <2>3. QED BY <1>2, <2>2
  <1>7. Splices(k, L, R, {L + a}, Only(L + a, v), t)
    <2>1. PICK f : f = Only(L + a, v) /\ f[L + a] = v
      BY <1>4
    <2>2. ASSUME NEW j \in 1 .. R - 1 - L
          PROVE  t[j] = IF L + j \in {L + a} THEN f[L + j] ELSE Node(k, L + j)
      <3>1. L + j \in {L + a} <=> j = a
        BY <1>3
      <3>2. t[j] = IF j = a THEN v ELSE Node(k, L + j)
        BY <1>2, <1>6
      <3>3. QED BY <2>1, <3>1, <3>2
    <2>3. QED BY <1>6, <2>1, <2>2 DEF Splices
  <1>8. BecomesList(k, t)
    BY <1>5, <1>7, UpdateListed
  <1>9. a \in DOMAIN s
    BY <1>2, <1>3
  <1>10. QED BY <1>2, <1>3, <1>6, <1>8, <1>9
            DEF BecomesList, Row, Until, Lists!Set, Lists!Become

\* RPushx appends an element.
LEMMA RPushxListed ==
  ASSUME ListsInv, raced = {}, NEW k \in Keys, NEW v \in Values, RPushx(k, v)
  PROVE  Lists!PushRight(k, <<v>>)
  <1>1. /\ Live(k)
        /\ Update(k, 1, window[k].left, window[k].right + 1, Only(window[k].right, v), {})
    BY DEF RPushx
  <1>2. PICK L \in Nat, R \in Nat, s \in Seq(Values) :
          /\ window[k] = [left |-> L, right |-> R] /\ L + 1 < R
          /\ First(k) = L + 1 /\ Last(k) = R - 1 /\ R \in Members
          /\ s = Elements(k) /\ s # <<>> /\ Len(s) = R - 1 - L
          /\ \A i \in 1 .. R - 1 - L : s[i] = Node(k, L + i) /\ s[i] \in Values
    <2>1. Live(k)
      BY <1>1
    <2>2. QED BY <2>1, LiveElements
  <1>3. Only(R, v) \in [{R} -> Values] /\ Only(R, v)[R] = v
    BY OnlyIs
  <1>4. Shifts(k, 1, L, R + 1, {R}, Only(R, v), {})
    BY <1>1, <1>2, <1>3 DEF Shifts
  <1>5. <<v>> \in Seq(Values) /\ Len(<<v>>) = 1 /\ <<v>>[1] = v
    OBVIOUS
  <1>6. PICK t \in Seq(Values) :
          /\ t = s \o <<v>> /\ Len(t) = Len(s) + 1
          /\ \A i \in 1 .. Len(s) + 1 : t[i] = IF i <= Len(s) THEN s[i] ELSE v
    <2>1. /\ s \o <<v>> \in Seq(Values) /\ Len(s \o <<v>>) = Len(s) + 1
          /\ \A i \in 1 .. Len(s) + 1 :
               (s \o <<v>>)[i] = IF i <= Len(s) THEN s[i] ELSE <<v>>[i - Len(s)]
      BY <1>5, ConcatProperties
    <2>2. \A i \in 1 .. Len(s) + 1 : ~(i <= Len(s)) => i - Len(s) = 1
      BY <1>2
    <2>3. QED BY <1>5, <2>1, <2>2
  <1>7. Splices(k, L, R + 1, {R}, Only(R, v), t)
    BY <1>2, <1>3, <1>6 DEF Splices
  <1>8. BecomesList(k, t)
    BY <1>4, <1>7, UpdateListed
  <1>9. QED BY <1>2, <1>6, <1>8
           DEF BecomesList, Row, Until, Lists!PushRight, Lists!Become

\* LPush puts its arguments in front, the last foremost.
LEMMA LPushListed ==
  ASSUME ListsInv, raced = {}, NEW k \in Keys, NEW vs \in Seq(Values), vs # <<>>,
         LPush(k, vs)
  PROVE  Lists!PushLeft(k, vs)
  <1>1. PICK n \in Nat \ {0} : n = Len(vs)
    OBVIOUS
  <1>0. PICK L \in Nat, R \in Nat : \E S, f : Pushes(k, vs, L, R, S, f)
    BY LPushPushes
  <1>2. PICK S, f : Pushes(k, vs, L, R, S, f)
    BY <1>0
  <1>3. PushWindow(k) = [left |-> L, right |-> R]
    BY <1>2 DEF Pushes
  <1>4. S = L - n + 1 .. L /\ f \in [S -> Values] /\ f = [i \in S |-> vs[L - i + 1]]
    BY <1>1, <1>2 DEF Pushes
  <1>9. PICK r \in Seq(Values) :
          r = Lists!Reversed(vs) /\ Len(r) = n /\ \A i \in 1 .. n : r[i] = f[L - n + i]
    <2>1. \A i \in 1 .. n : vs[n - i + 1] \in Values
      BY <1>1
    <2>2. Lists!Reversed(vs) = [i \in 1 .. n |-> vs[n - i + 1]]
      BY <1>1 DEF Lists!Reversed
    <2>3. Lists!Reversed(vs) \in Seq(Values) /\ Len(Lists!Reversed(vs)) = n
      BY <2>1, <2>2
    <2>4. \A i \in 1 .. n : L - n + i \in S /\ L - (L - n + i) + 1 = n - i + 1
      BY <1>3, <1>4
    <2>5. \A i \in 1 .. n : f[L - n + i] = vs[n - i + 1]
      BY <1>4, <2>4
    <2>6. QED BY <2>2, <2>3, <2>5
  <1>10. CASE Live(k)
    <2>1. PICK s \in Seq(Values) :
            /\ window[k] = [left |-> L, right |-> R] /\ L + 1 < R
            /\ First(k) = L + 1 /\ Last(k) = R - 1
            /\ s = Elements(k) /\ s # <<>> /\ Len(s) = R - 1 - L
            /\ \A i \in 1 .. R - 1 - L : s[i] = Node(k, L + i)
      <3>1. window[k] = [left |-> L, right |-> R]
        BY <1>3, <1>10 DEF PushWindow
      <3>2. window[k].left = L /\ window[k].right = R
        BY <3>1
      <3>3. PICK l \in Nat, h \in Nat, s \in Seq(Values) :
              /\ window[k] = [left |-> l, right |-> h] /\ l + 1 < h
              /\ First(k) = l + 1 /\ Last(k) = h - 1
              /\ l \in Members /\ h \in Members /\ l + 1 .. h - 1 \subseteq Members
              /\ s = Elements(k) /\ s # <<>> /\ Len(s) = h - 1 - l
              /\ \A i \in 1 .. h - 1 - l : s[i] = Node(k, l + i) /\ s[i] \in Values
        BY <1>10, LiveElements
      <3>4. l = L /\ h = R
        BY <3>2, <3>3
      <3>5. QED BY <3>3, <3>4
    <2>4. Shifts(k, n, L - n, R, S, f, {})
      BY <1>1, <1>2, <1>10 DEF Pushes
    <2>5. PICK t \in Seq(Values) :
            /\ t = r \o s /\ Len(t) = n + (R - 1 - L)
            /\ \A i \in 1 .. n + (R - 1 - L) : t[i] = IF i <= n THEN r[i] ELSE s[i - n]
      <3>1. /\ r \o s \in Seq(Values) /\ Len(r \o s) = Len(r) + Len(s)
            /\ \A i \in 1 .. Len(r) + Len(s) :
                 (r \o s)[i] = IF i <= Len(r) THEN r[i] ELSE s[i - Len(r)]
        BY ConcatProperties
      <3>2. Len(r) = n /\ Len(s) = R - 1 - L
        BY <1>9, <2>1
      <3>3. QED BY <3>1, <3>2
    <2>6. Splices(k, L - n, R, S, f, t)
      <3>1. R - 1 - (L - n) = n + (R - 1 - L)
        BY <1>3
      <3>2. ASSUME NEW i \in 1 .. n + (R - 1 - L)
            PROVE  t[i] = IF L - n + i \in S THEN f[L - n + i] ELSE Node(k, L - n + i)
        <4>1. CASE i <= n
          <5>1. i \in 1 .. n
            BY <1>3, <2>1, <4>1
          <5>2. L - n + i \in S
            BY <1>3, <1>4, <5>1
          <5>3. QED BY <1>9, <2>5, <5>1, <5>2
        <4>2. CASE ~(i <= n)
          <5>1. i - n \in 1 .. R - 1 - L /\ L + (i - n) = L - n + i /\ L - n + i \notin S
            BY <1>3, <1>4, <2>1, <4>2
          <5>2. QED BY <2>1, <2>5, <4>2, <5>1
        <4>3. QED BY <4>1, <4>2
      <3>3. QED BY <2>5, <3>1, <3>2 DEF Splices
    <2>7. BecomesList(k, t)
      BY <2>4, <2>6, UpdateListed
    <2>8. QED BY <1>9, <2>1, <2>5, <2>7
             DEF BecomesList, Row, Until, Lists!PushLeft, Lists!Become
  <1>11. CASE ~Live(k)
    <2>1. PICK m, w : /\ R = L + 1 /\ m.timestamp = 0
                      /\ w = [left |-> L - n, right |-> R]
                      /\ StartsAnew(k, m, w, S, f, {})
      BY <1>1, <1>2, <1>11 DEF Pushes
    <2>7. /\ now' = now /\ meta'[k] = m
          /\ Elements(k)' = [i \in 1 .. w.right - 1 - w.left |-> f[w.left + i]]
          /\ \A j \in Keys \ {k} : meta'[j] = meta[j] /\ Elements(j)' = Elements(j)
      <3>1. ~IsStale(m, now)
        BY <2>1 DEF IsStale
      <3>2. StartsAnew(k, m, w, S, f, {})
        BY <2>1
      <3>3. QED BY <3>1, <3>2, AnewSeen
    <2>8. Elements(k)' = r
      <3>1. w.right - 1 - w.left = n /\ w.left = L - n
        BY <2>1
      <3>2. r = [i \in 1 .. n |-> r[i]]
        BY <1>9
      <3>3. QED BY <1>9, <2>7, <3>1, <3>2
    <2>9. Elements(k) = <<>> /\ r \o <<>> = r
      BY <1>11, ConcatEmptySeq DEF Elements
    <2>10. BecomesList(k, r)
      BY <2>1, <2>7, <2>8, <2>9, BecomeListed
    <2>11. QED BY <1>9, <2>9, <2>10
              DEF BecomesList, Row, Until, Lists!PushLeft, Lists!Become
  <1>12. QED BY <1>10, <1>11

\* A list that starts anew with no elements has gone.
LEMMA EmptiesListed ==
  ASSUME ListsInv, raced = {}, NEW k \in Keys, Empties(k)
  PROVE  BecomesList(k, <<>>)
  <1>1. PICK f, dels : StartsAnew(k, Renewed(k), InitialWindow, {}, f, dels)
    BY DEF Empties
  <1>2. PICK m : m = Renewed(k) /\ m.timestamp = 0
    BY RenewedMeta DEF ListsInv, StoreInv
  <1>3. PICK a \in Nat : InitialWindow.left = a /\ InitialWindow.right = a + 1
    BY SomeIndices DEF Window
  <1>4. /\ now' = now
        /\ Elements(k)' = [i \in 1 .. InitialWindow.right - 1 - InitialWindow.left |->
                             f[InitialWindow.left + i]]
        /\ \A j \in Keys \ {k} : meta'[j] = meta[j] /\ Elements(j)' = Elements(j)
    BY <1>1, <1>2, AnewSeen DEF IsStale
  <1>5. InitialWindow.right - 1 - InitialWindow.left = 0
    BY <1>3
  <1>6. Elements(k)' = <<>>
    BY <1>4, <1>5
  <1>7. QED BY <1>4, <1>6, BecomeListed

\* A trimmed list keeps a run of its elements.
LEMMA TrimsListed ==
  ASSUME ListsInv, raced = {}, NEW k \in Keys, NEW l, NEW h, Trims(k, l, h)
  PROVE  \E L, R \in Nat, s \in Seq(Values) :
           /\ window[k] = [left |-> L, right |-> R] /\ s = Elements(k) /\ Len(s) = R - 1 - L
           /\ l \in Nat /\ h \in Nat /\ L < l /\ l <= h /\ h < R
           /\ BecomesList(k, SubSeq(s, l - L, h - L))
  <1>1. PICK gone : /\ l \in Nat /\ h \in Nat /\ First(k) <= l /\ l <= h /\ h <= Last(k)
                    /\ Shifts(k, -Cardinality(gone), l - 1, h + 1, {}, <<>>, gone)
    BY DEF Trims
  <1>2. Live(k)
    BY <1>1 DEF Shifts
  <1>3. PICK L \in Nat, R \in Nat, s \in Seq(Values) :
          /\ window[k] = [left |-> L, right |-> R] /\ L + 1 < R
          /\ First(k) = L + 1 /\ Last(k) = R - 1
          /\ L \in Members /\ R \in Members /\ L + 1 .. R - 1 \subseteq Members
          /\ s = Elements(k) /\ s # <<>> /\ Len(s) = R - 1 - L
          /\ \A i \in 1 .. R - 1 - L : s[i] = Node(k, L + i) /\ s[i] \in Values
    BY <1>2, LiveElements
  <1>4. L < l /\ h < R
    BY <1>1, <1>3
  <1>5. PICK a \in Nat, b \in Nat : a = l - L /\ b = h - L /\ 0 < a /\ a <= b /\ b <= R - 1 - L
    BY <1>1, <1>3, <1>4
  <1>6. PICK t \in Seq(Values) :
          /\ t = SubSeq(s, a, b) /\ Len(t) = b - a + 1
          /\ \A i \in 1 .. b - a + 1 : t[i] = s[a + i - 1]
    <2>1. \A i \in a .. b : i \in 1 .. R - 1 - L
      BY <1>5
    <2>2. \A i \in a .. b : s[i] \in Values
      BY <1>3, <2>1
    <2>3. /\ SubSeq(s, a, b) \in Seq(Values)
          /\ Len(SubSeq(s, a, b)) = IF a <= b THEN b - a + 1 ELSE 0
          /\ \A i \in 1 .. b - a + 1 : SubSeq(s, a, b)[i] = s[a + i - 1]
      BY <2>2, SubSeqProperties
    <2>4. QED BY <1>5, <2>3
  <1>7. Splices(k, l - 1, h + 1, {}, <<>>, t)
    <2>1. (h + 1) - 1 - (l - 1) = b - a + 1
      BY <1>1, <1>3, <1>5
    <2>2. ASSUME NEW i \in 1 .. b - a + 1
          PROVE  t[i] = Node(k, l - 1 + i)
      <3>1. a + i - 1 \in 1 .. R - 1 - L /\ L + (a + i - 1) = l - 1 + i
        BY <1>1, <1>5
      <3>2. QED BY <1>3, <1>6, <3>1
    <2>3. QED BY <1>6, <2>1, <2>2 DEF Splices
  <1>8. BecomesList(k, t)
    BY <1>1, <1>7, UpdateListed
  <1>9. QED BY <1>1, <1>3, <1>4, <1>5, <1>6, <1>8

\* The indices of a list between two numbers.
LEMMA RunIs ==
  ASSUME NEW a \in Int, NEW b \in Int, NEW p \in Int, NEW q \in Int
  PROVE  {i \in a .. b : p <= i /\ i <= q}
           = (IF p < a THEN a ELSE p) .. (IF q > b THEN b ELSE q)
  OBVIOUS

\* A run that is not empty has the ends it has.
LEMMA RunEnds ==
  ASSUME NEW a \in Int, NEW b \in Int, NEW c \in Int, NEW d \in Int, a .. b = c .. d
  PROVE  (a <= b \/ c <= d) => a = c /\ b = d
  <1> SUFFICES ASSUME a <= b \/ c <= d
               PROVE  a = c /\ b = d
    OBVIOUS
  <1>1. a <= b /\ c <= d
    <2>1. CASE a <= b
      <3>1. a \in c .. d
        BY <2>1
      <3>2. QED BY <2>1, <3>1
    <2>2. CASE c <= d
      <3>1. c \in a .. b
        BY <2>2
      <3>2. QED BY <2>2, <3>1
    <2>3. QED BY <2>1, <2>2
  <1>2. a \in c .. d /\ b \in c .. d /\ c \in a .. b /\ d \in a .. b
    BY <1>1
  <1>3. QED BY <1>2

\* What LRange and LTrim keep of a list, from L + 1 to R - 1, whose elements are s:
\* those from place a to place b.
Ranges(k, start, stop, L, R, s, a, b) ==
  /\ a \in Int /\ b \in Int /\ 1 <= a /\ b <= R - 1 - L
  /\ InRange(k, start, stop) = L + a .. L + b
  /\ Lists!Trimmed(s, start, stop) = SubSeq(s, a, b)

\* It is what the arguments name, if their sums with the window do not wrap.
LEMMA RangeListed ==
  ASSUME NEW k \in Keys, NEW L \in Members, NEW R \in Members, L + 1 < R,
         window[k] = [left |-> L, right |-> R], First(k) = L + 1, Last(k) = R - 1,
         NEW s, Len(s) = R - 1 - L, NEW start \in Indexes, NEW stop \in Indexes,
         Fits(k, start), Fits(k, stop)
  PROVE  \E a, b : Ranges(k, start, stop, L, R, s, a, b)
  <1>1. L \in Nat /\ R \in Nat /\ L < R
    BY SomeIndices
  <1>2. PICK p \in Int, q \in Int :
          /\ p = Lists!Place(s, start) /\ q = Lists!Place(s, stop)
          /\ Position(k, start) = L + p /\ Position(k, stop) = L + q
    <2>1. ASSUME NEW i \in Indexes, Fits(k, i)
          PROVE  Lists!Place(s, i) \in Int /\ Position(k, i) = L + Lists!Place(s, i)
      <3>1. L < R
        BY <1>1
      <3>2. QED BY <2>1, <3>1, PositionIsPlace
    <2>2. QED BY <2>1
  <1>3. PICK a \in Int, b \in Int : /\ a = IF p < 1 THEN 1 ELSE p
                                  /\ b = IF q > R - 1 - L THEN R - 1 - L ELSE q
    BY <1>1, <1>2
  <1>4. InRange(k, start, stop) = L + a .. L + b
    <2>1. InRange(k, start, stop) = {i \in L + 1 .. R - 1 : L + p <= i /\ i <= L + q}
      BY <1>2 DEF InRange
    <2>2. PICK c \in Int, d \in Int, e \in Int, f \in Int :
            c = L + 1 /\ d = R - 1 /\ e = L + p /\ f = L + q
      BY <1>1, <1>2
    <2>3. {i \in c .. d : e <= i /\ i <= f}
            = (IF e < c THEN c ELSE e) .. (IF f > d THEN d ELSE f)
      BY RunIs
    <2>4. (IF e < c THEN c ELSE e) = L + a /\ (IF f > d THEN d ELSE f) = L + b
      <3>1. (IF e < c THEN c ELSE e) = L + a
        BY <1>1, <1>3, <2>2
      <3>2. (IF f > d THEN d ELSE f) = L + b
        BY <1>1, <1>3, <2>2
      <3>3. QED BY <3>1, <3>2
    <2>5. QED BY <2>1, <2>2, <2>3, <2>4
  <1>5. Lists!Trimmed(s, start, stop) = SubSeq(s, a, b)
    <2>1. b = IF q > Len(s) THEN Len(s) ELSE q
      BY <1>3
    <2>2. QED BY <1>2, <1>3, <2>1 DEF Lists!Trimmed
  <1>6. 1 <= a /\ b <= R - 1 - L
    BY <1>1, <1>3
  <1>7. QED BY <1>4, <1>5, <1>6 DEF Ranges

\* LTrim keeps the elements its arguments name, if their sums with the window do
\* not wrap.
LEMMA LTrimListed ==
  ASSUME ListsInv, raced = {}, NEW k \in Keys, NEW start \in Indexes,
         NEW stop \in Indexes, Fits(k, start), Fits(k, stop), LTrim(k, start, stop)
  PROVE  Lists!Trim(k, start, stop)
  <1>1. Live(k)
    BY DEF LTrim
  <1>2. PICK L \in Nat, R \in Nat, s \in Seq(Values) :
          /\ window[k] = [left |-> L, right |-> R] /\ L + 1 < R
          /\ First(k) = L + 1 /\ Last(k) = R - 1
          /\ L \in Members /\ R \in Members /\ L + 1 .. R - 1 \subseteq Members
          /\ s = Elements(k) /\ s # <<>> /\ Len(s) = R - 1 - L
          /\ \A i \in 1 .. R - 1 - L : s[i] = Node(k, L + i) /\ s[i] \in Values
    BY <1>1, LiveElements
  <1>3. PICK a, b : Ranges(k, start, stop, L, R, s, a, b)
    <2>1. /\ L \in Members /\ R \in Members /\ L + 1 < R
          /\ window[k] = [left |-> L, right |-> R] /\ First(k) = L + 1 /\ Last(k) = R - 1
          /\ Len(s) = R - 1 - L
      BY <1>2
    <2>2. QED BY <2>1, RangeListed
  <1>4. a \in Int /\ b \in Int
    BY <1>3 DEF Ranges
  <1>5. InRange(k, start, stop) = L + a .. L + b
    BY <1>3 DEF Ranges
  <1>6. Lists!Trimmed(s, start, stop) = SubSeq(s, a, b)
    BY <1>3 DEF Ranges
  <1>7. BecomesList(k, SubSeq(s, a, b))
    <2>1. CASE InRange(k, start, stop) = {} /\ Empties(k)
      <3>0. L + a \notin L + a .. L + b
        BY <1>5, <2>1
      <3>1. ~(L + a <= L + b)
        BY <1>4, <3>0
      <3>2. b < a
        BY <1>4, <3>1
      <3>3. SubSeq(s, a, b) = <<>>
        BY <1>4, <3>2, SubSeqEmpty
      <3>4. QED BY <2>1, <3>3, EmptiesListed
    <2>2. ASSUME NEW l, NEW h, InRange(k, start, stop) = l .. h, Trims(k, l, h)
          PROVE  BecomesList(k, SubSeq(s, a, b))
      <3>1. PICK L2 \in Nat, R2 \in Nat, s2 \in Seq(Values) :
              /\ window[k] = [left |-> L2, right |-> R2] /\ s2 = Elements(k)
              /\ l \in Nat /\ h \in Nat /\ l <= h
              /\ BecomesList(k, SubSeq(s2, l - L2, h - L2))
        BY <2>2, TrimsListed
      <3>2. L2 = L /\ s2 = s
        <4>1. window[k].left = L /\ window[k].left = L2
          BY <1>2, <3>1
        <4>2. QED BY <1>2, <3>1, <4>1
      <3>3. l = L + a /\ h = L + b
        <4>1. L + a \in Int /\ L + b \in Int
          BY <1>4
        <4>2. l \in Int /\ h \in Int /\ l <= h
          BY <3>1
        <4>3. QED BY <1>5, <2>2, <4>1, <4>2, RunEnds
      <3>4. l - L = a /\ h - L = b
        BY <1>4, <3>3
      <3>5. QED BY <3>1, <3>2, <3>4
    <2>3. QED BY <2>1, <2>2, LTrimTrims
  <1>8. QED BY <1>2, <1>6, <1>7
           DEF BecomesList, Row, Until, Lists!Trim, Lists!Become

\* Whatever its arguments, it leaves a run of the elements or none.
LEMMA LTrimRun ==
  ASSUME ListsInv, raced = {}, NEW k \in Keys, NEW start \in Indexes,
         NEW stop \in Indexes, LTrim(k, start, stop)
  PROVE  \/ Lists!Clear(k)
         \/ \E i, j \in DOMAIN Elements(k) : Lists!Trim(k, i - 1, j - 1)
  <1>1. CASE Empties(k)
    BY <1>1, EmptiesListed DEF BecomesList, Row, Until, Lists!Clear, Lists!Become
  <1>2. ASSUME NEW l, NEW h, Trims(k, l, h)
        PROVE  \E i, j \in DOMAIN Elements(k) : Lists!Trim(k, i - 1, j - 1)
    <2>1. PICK L \in Nat, R \in Nat, s \in Seq(Values) :
            /\ window[k] = [left |-> L, right |-> R] /\ s = Elements(k) /\ Len(s) = R - 1 - L
            /\ l \in Nat /\ h \in Nat /\ L < l /\ l <= h /\ h < R
            /\ BecomesList(k, SubSeq(s, l - L, h - L))
      BY <1>2, TrimsListed
    <2>2. PICK i \in Nat, j \in Nat : i = l - L /\ j = h - L
      BY <2>1
    <2>3. 1 <= i /\ i <= Len(s) /\ 1 <= j /\ j <= Len(s)
      BY <2>1, <2>2
    <2>4. Lists!Place(s, i - 1) = i /\ Lists!Place(s, j - 1) = j
      BY <2>3 DEF Lists!Place
    <2>5. Lists!Trimmed(s, i - 1, j - 1) = SubSeq(s, i, j)
      <3>1. ~(i < 1) /\ ~(j > Len(s))
        BY <2>3
      <3>2. QED BY <2>4, <3>1 DEF Lists!Trimmed
    <2>6. PICK t : t = SubSeq(s, i, j) /\ BecomesList(k, t)
      BY <2>1, <2>2
    <2>7. Lists!Trimmed(Elements(k), i - 1, j - 1) = t
      BY <2>1, <2>5, <2>6
    <2>8. Row[k] = Elements(k)
      BY DEF Row
    <2>9. Lists!Trim(k, i - 1, j - 1)
      BY <2>6, <2>7, <2>8 DEF BecomesList, Row, Until, Lists!Trim, Lists!Become
    <2>10. i \in DOMAIN Elements(k) /\ j \in DOMAIN Elements(k)
      BY <2>1, <2>3
    <2>11. QED BY <2>9, <2>10
  <1>3. QED BY <1>1, <1>2, LTrimTrims

\* t is s with v behind its first g elements.
InsertedAt(s, g, v, t) ==
  /\ t \in Seq(Values) /\ t = SubSeq(s, 1, g) \o <<v>> \o SubSeq(s, g + 1, Len(s))
  /\ Len(t) = Len(s) + 1
  /\ \A i \in 1 .. Len(s) + 1 :
       t[i] = IF i <= g THEN s[i] ELSE IF i = g + 1 THEN v ELSE s[i - 1]

\* What it is, element by element.
LEMMA InsertedIs ==
  ASSUME NEW s \in Seq(Values), NEW v \in Values, NEW g \in Nat, g <= Len(s)
  PROVE  \E t : InsertedAt(s, g, v, t)
  <1>1. PICK n \in Nat : n = Len(s) /\ g <= n
    OBVIOUS
  <1>2. \A i \in 1 .. n : s[i] \in Values
    BY <1>1
  <1>3. PICK x \in Seq(Values) : x = SubSeq(s, 1, g) /\ Len(x) = g /\ \A i \in 1 .. g : x[i] = s[i]
    <2>1. \A i \in 1 .. g : s[i] \in Values
      BY <1>1, <1>2
    <2>2. /\ SubSeq(s, 1, g) \in Seq(Values)
          /\ Len(SubSeq(s, 1, g)) = IF 1 <= g THEN g - 1 + 1 ELSE 0
          /\ \A i \in 1 .. g - 1 + 1 : SubSeq(s, 1, g)[i] = s[1 + i - 1]
      BY <2>1, SubSeqProperties
    <2>3. Len(SubSeq(s, 1, g)) = g
      BY <2>2
    <2>4. \A i \in 1 .. g : i \in 1 .. g - 1 + 1 /\ 1 + i - 1 = i
      OBVIOUS
    <2>5. \A i \in 1 .. g : SubSeq(s, 1, g)[i] = s[i]
      BY <2>2, <2>4
    <2>6. QED BY <2>2, <2>3, <2>5
  <1>4. PICK y \in Seq(Values) : /\ y = SubSeq(s, g + 1, n) /\ Len(y) = n - g
                            /\ \A i \in 1 .. n - g : y[i] = s[g + i]
    <2>1. PICK c \in Nat : c = g + 1
      OBVIOUS
    <2>2. \A i \in c .. n : s[i] \in Values
      BY <1>2, <2>1
    <2>3. /\ SubSeq(s, c, n) \in Seq(Values)
          /\ Len(SubSeq(s, c, n)) = IF c <= n THEN n - c + 1 ELSE 0
          /\ \A i \in 1 .. n - c + 1 : SubSeq(s, c, n)[i] = s[c + i - 1]
      BY <2>2, SubSeqProperties
    <2>4. Len(SubSeq(s, c, n)) = n - g
      BY <1>1, <2>1, <2>3
    <2>5. \A i \in 1 .. n - g : i \in 1 .. n - c + 1 /\ c + i - 1 = g + i
      BY <2>1
    <2>6. \A i \in 1 .. n - g : SubSeq(s, c, n)[i] = s[g + i]
      BY <2>3, <2>5
    <2>7. QED BY <2>1, <2>3, <2>4, <2>6
  <1>5. PICK z \in Seq(Values) : /\ z = x \o <<v>> /\ Len(z) = g + 1
                            /\ \A i \in 1 .. g + 1 : z[i] = IF i <= g THEN s[i] ELSE v
    <2>0. <<v>> \in Seq(Values) /\ Len(<<v>>) = 1 /\ <<v>>[1] = v
      OBVIOUS
    <2>1. PICK o \in Seq(Values) : o = <<v>> /\ Len(o) = 1 /\ o[1] = v
      BY <2>0
    <2>2. /\ x \o o \in Seq(Values) /\ Len(x \o o) = Len(x) + Len(o)
          /\ \A i \in 1 .. Len(x) + Len(o) :
               (x \o o)[i] = IF i <= Len(x) THEN x[i] ELSE o[i - Len(x)]
      BY ConcatProperties
    <2>3. Len(x \o o) = g + 1
      BY <1>3, <2>1, <2>2
    <2>4. ASSUME NEW i \in 1 .. g + 1
          PROVE  (x \o o)[i] = IF i <= g THEN s[i] ELSE v
      <3>1. (x \o o)[i] = IF i <= g THEN x[i] ELSE o[i - g]
        BY <1>3, <2>1, <2>2
      <3>2. i <= g => i \in 1 .. g
        OBVIOUS
      <3>3. ~(i <= g) => i - g = 1
        OBVIOUS
      <3>4. QED BY <1>3, <2>1, <3>1, <3>2, <3>3
    <2>5. QED BY <2>1, <2>2, <2>3, <2>4
  <1>6. /\ z \o y \in Seq(Values) /\ Len(z \o y) = Len(z) + Len(y)
        /\ \A i \in 1 .. Len(z) + Len(y) :
             (z \o y)[i] = IF i <= Len(z) THEN z[i] ELSE y[i - Len(z)]
    BY ConcatProperties
  <1>7. Len(z) + Len(y) = n + 1
    <2>1. Len(z) = g + 1 /\ Len(y) = n - g
      BY <1>4, <1>5
    <2>2. QED BY <1>1, <2>1
  <1>8. ASSUME NEW i \in 1 .. n + 1
        PROVE  (z \o y)[i] = IF i <= g THEN s[i] ELSE IF i = g + 1 THEN v ELSE s[i - 1]
    <2>1. (z \o y)[i] = IF i <= g + 1 THEN z[i] ELSE y[i - (g + 1)]
      BY <1>5, <1>6, <1>7
    <2>2. CASE i <= g + 1
      <3>1. i \in 1 .. g + 1 /\ (~(i <= g) => i = g + 1)
        BY <2>2
      <3>2. QED BY <1>5, <2>1, <2>2, <3>1
    <2>3. CASE ~(i <= g + 1)
      <3>1. i - (g + 1) \in 1 .. n - g /\ g + (i - (g + 1)) = i - 1
        BY <1>1, <2>3
      <3>2. ~(i <= g) /\ i # g + 1
        BY <2>3
      <3>3. QED BY <1>4, <2>1, <2>3, <3>1, <3>2
    <2>4. QED BY <2>2, <2>3
  <1>9. z \o y = SubSeq(s, 1, g) \o <<v>> \o SubSeq(s, g + 1, Len(s))
    BY <1>1, <1>3, <1>4, <1>5
  <1>10. PICK t \in Seq(Values) : t = z \o y
    BY <1>6
  <1>11. /\ t = SubSeq(s, 1, g) \o <<v>> \o SubSeq(s, g + 1, Len(s))
         /\ t \in Seq(Values) /\ Len(t) = Len(s) + 1
         /\ \A i \in 1 .. Len(s) + 1 :
              t[i] = IF i <= g THEN s[i] ELSE IF i = g + 1 THEN v ELSE s[i - 1]
    BY <1>1, <1>6, <1>7, <1>8, <1>9, <1>10
  <1>12. QED BY <1>11 DEF InsertedAt
\* LInsert puts an element beside the first that equals the pivot.
LEMMA LInsertListed ==
  ASSUME ListsInv, raced = {}, NEW k \in Keys, NEW before \in BOOLEAN,
         NEW pivot, NEW v \in Values, LInsert(k, before, pivot, v)
  PROVE  Lists!Insert(k, before, pivot, v)
  <1>1. Live(k)
    BY DEF LInsert
  <1>2. PICK L \in Nat, R \in Nat, s \in Seq(Values) :
          /\ window[k] = [left |-> L, right |-> R] /\ L + 1 < R
          /\ First(k) = L + 1 /\ Last(k) = R - 1
          /\ L \in Members /\ R \in Members /\ L + 1 .. R - 1 \subseteq Members
          /\ s = Elements(k) /\ s # <<>> /\ Len(s) = R - 1 - L
          /\ \A i \in 1 .. R - 1 - L : s[i] = Node(k, L + i) /\ s[i] \in Values
    BY <1>1, LiveElements
  <1>3. PICK p \in Nat :
          /\ p \in L + 1 .. R - 1 /\ Node(k, p) = pivot
          /\ \A i \in L + 1 .. p - 1 : Node(k, i) # pivot
          /\ Inserts(k, v, L, R, IF before THEN p - 1 ELSE p)
    <2>1. PICK L2 \in Nat, R2 \in Nat, p \in Nat :
            /\ window[k] = [left |-> L2, right |-> R2]
            /\ p \in L2 + 1 .. R2 - 1 /\ Node(k, p) = pivot
            /\ \A i \in L2 + 1 .. p - 1 : Node(k, i) # pivot
            /\ Inserts(k, v, L2, R2, IF before THEN p - 1 ELSE p)
      BY LInsertInserts
    <2>2. window[k].left = L /\ window[k].right = R
      BY <1>2
    <2>3. L2 = L /\ R2 = R
      BY <2>1, <2>2
    <2>4. QED BY <2>1, <2>3
  <1>4. PICK a \in Nat : a = p - L /\ a \in 1 .. R - 1 - L
    BY <1>3
  <1>5. Lists!FirstPlace(s, pivot) = a /\ \E i \in DOMAIN s : s[i] = pivot
    <2>1. a \in DOMAIN s /\ s[a] = pivot
      BY <1>2, <1>3, <1>4
    <2>2. \A j \in 1 .. a - 1 : s[j] # pivot
      <3>1. \A j \in 1 .. a - 1 : j \in 1 .. R - 1 - L /\ L + j \in L + 1 .. p - 1
        BY <1>4
      <3>2. QED BY <1>2, <1>3, <3>1
    <2>3. ASSUME NEW b \in DOMAIN s, s[b] = pivot, \A j \in 1 .. b - 1 : s[j] # pivot
          PROVE  b = a
      <3>1. b \in Nat /\ b >= 1
        OBVIOUS
      <3>2. ~(b < a) /\ ~(a < b)
        BY <1>4, <2>1, <2>2, <2>3, <3>1
      <3>3. QED BY <3>1, <3>2
    <2>4. QED BY <2>1, <2>2, <2>3 DEF Lists!FirstPlace
  <1>6. PICK l, g : /\ l = (IF before THEN p - 1 ELSE p)
                    /\ g = (IF before THEN Lists!FirstPlace(s, pivot) - 1
                                      ELSE Lists!FirstPlace(s, pivot))
    OBVIOUS
  <1>7. g \in Nat /\ g <= R - 1 - L /\ l = L + g
    <2>1. CASE before
      <3>1. g = a - 1 /\ l = p - 1
        BY <1>5, <1>6, <2>1
      <3>2. QED BY <1>3, <1>4, <3>1
    <2>2. CASE ~before
      <3>1. g = a /\ l = p
        BY <1>5, <1>6, <2>2
      <3>2. QED BY <1>3, <1>4, <3>1
    <2>3. QED BY <2>1, <2>2
  <1>8. PICK t \in Seq(Values) :
          /\ t = SubSeq(s, 1, g) \o <<v>> \o SubSeq(s, g + 1, Len(s))
          /\ Len(t) = R - L
          /\ \A i \in 1 .. R - L : t[i] = IF i <= g THEN s[i] ELSE IF i = g + 1 THEN v ELSE s[i - 1]
    <2>1. PICK n \in Nat : n = Len(s) /\ n = R - 1 - L
      BY <1>2
    <2>2. g <= Len(s)
      BY <1>7, <2>1
    <2>3. PICK t : InsertedAt(s, g, v, t)
      BY <1>7, <2>2, InsertedIs
    <2>4. Len(s) + 1 = R - L
      BY <2>1
    <2>5. QED BY <2>3, <2>4 DEF InsertedAt
  <1>9. Inserts(k, v, L, R, l)
    BY <1>3, <1>6
  <1>10. ASSUME NEW S, NEW f, S = L .. l, f = [i \in S |-> IF i = l THEN v ELSE Node(k, i + 1)],
                Shifts(k, 1, L - 1, R, S, f, {})
         PROVE  BecomesList(k, t)
    <2>1. R - 1 - (L - 1) = R - L
      BY <1>2
    <2>2. ASSUME NEW i \in 1 .. R - L
          PROVE  t[i] = IF L - 1 + i \in S THEN f[L - 1 + i] ELSE Node(k, L - 1 + i)
      <3>1. CASE i <= g
        <4>1. i \in 1 .. R - 1 - L /\ L - 1 + i \in L .. l /\ L - 1 + i # l /\ L - 1 + i + 1 = L + i
          BY <1>7, <3>1
        <4>2. f[L - 1 + i] = Node(k, L + i)
          BY <1>10, <4>1
        <4>3. QED BY <1>2, <1>8, <1>10, <3>1, <4>1, <4>2
      <3>2. CASE i = g + 1
        <4>1. L - 1 + i = l /\ l \in L .. l /\ ~(i <= g)
          BY <1>7, <3>2
        <4>2. QED BY <1>8, <1>10, <3>2, <4>1
      <3>3. CASE i > g + 1
        <4>1. /\ i - 1 \in 1 .. R - 1 - L /\ L + (i - 1) = L - 1 + i
              /\ L - 1 + i \notin L .. l /\ ~(i <= g) /\ i # g + 1
          BY <1>7, <3>3
        <4>2. QED BY <1>2, <1>8, <1>10, <4>1
      <3>4. QED BY <1>7, <3>1, <3>2, <3>3
    <2>3. Splices(k, L - 1, R, S, f, t)
      BY <1>8, <2>1, <2>2 DEF Splices
    <2>4. QED BY <1>10, <2>3, UpdateListed
  <1>11. ASSUME NEW S, NEW f, S = l + 1 .. R,
                f = [i \in S |-> IF i = l + 1 THEN v ELSE Node(k, i - 1)],
                Shifts(k, 1, L, R + 1, S, f, {})
         PROVE  BecomesList(k, t)
    <2>1. PICK r : r = R + 1 /\ r - 1 - L = R - L
      BY <1>2
    <2>2. ASSUME NEW i \in 1 .. R - L
          PROVE  t[i] = IF L + i \in S THEN f[L + i] ELSE Node(k, L + i)
      <3>1. CASE i <= g
        <4>1. i \in 1 .. R - 1 - L /\ L + i \notin l + 1 .. R
          BY <1>7, <3>1
        <4>2. QED BY <1>2, <1>8, <1>11, <3>1, <4>1
      <3>2. CASE i = g + 1
        <4>1. L + i = l + 1 /\ l + 1 \in l + 1 .. R /\ ~(i <= g)
          BY <1>7, <3>2
        <4>2. QED BY <1>8, <1>11, <3>2, <4>1
      <3>3. CASE i > g + 1
        <4>1. /\ i - 1 \in 1 .. R - 1 - L /\ L + (i - 1) = L + i - 1
              /\ L + i \in l + 1 .. R /\ L + i # l + 1 /\ ~(i <= g) /\ i # g + 1
          BY <1>7, <3>3
        <4>2. f[L + i] = Node(k, L + i - 1)
          BY <1>11, <4>1
        <4>3. QED BY <1>2, <1>8, <1>11, <4>1, <4>2
      <3>4. QED BY <1>7, <3>1, <3>2, <3>3
    <2>3. r - 1 - L = R - L
      BY <2>1
    <2>4. Splices(k, L, r, S, f, t)
      BY <1>8, <2>2, <2>3 DEF Splices
    <2>5. QED BY <1>11, <2>1, <2>4, UpdateListed
  <1>12. BecomesList(k, t)
    BY <1>9, <1>10, <1>11 DEF Inserts
  <1>13. QED BY <1>2, <1>5, <1>6, <1>8, <1>12
            DEF BecomesList, Row, Until, Lists!Insert, Lists!Become

\* The places, in a list whose first node is at L + 1, of the nodes at the indices S.
PlacesOf(S, L) == {x - L : x \in S}

\* There are as many.
LEMMA AsManyPlaces ==
  ASSUME NEW S \in SUBSET Int, IsFiniteSet(S), NEW L \in Int
  PROVE  IsFiniteSet(PlacesOf(S, L)) /\ Cardinality(PlacesOf(S, L)) = Cardinality(S)
  <1>1. PICK f : f = [x \in S |-> x - L]
    OBVIOUS
  <1>2. f \in [S -> PlacesOf(S, L)]
    BY <1>1 DEF PlacesOf
  <1>3. \A x, y \in S : f[x] = f[y] => x = y
    BY <1>1
  <1>4. \A y \in PlacesOf(S, L) : \E x \in S : f[x] = y
    BY <1>1 DEF PlacesOf
  <1>5. f \in Bijection(S, PlacesOf(S, L))
    BY <1>2, <1>3, <1>4 DEF Bijection, Injection, Surjection, IsInjective
  <1>6. ExistsBijection(S, PlacesOf(S, L))
    BY <1>5 DEF ExistsBijection
  <1>7. QED BY <1>6, FS_Bijection

\* Both modules count alike.
LEMMA CountsListed ==
  \A T : Lists!Cardinality(T) = Cardinality(T)
  BY Zenon DEF Lists!Cardinality, Cardinality

\* The places of a list of m elements that are left when those of D go.
Left(m, D) == (1 .. m) \ D

\* How many of the first j there are.
LEMMA KeptBefore ==
  ASSUME NEW m \in Nat, NEW D \in SUBSET (1 .. m), NEW j \in 0 .. m
  PROVE  /\ IsFiniteSet(UpTo(Left(m, D), j))
         /\ Cardinality(UpTo(D, j)) \in Nat
         /\ Cardinality(UpTo(Left(m, D), j)) = j - Cardinality(UpTo(D, j))
  <1>1. PICK U, I : U = UpTo(D, j) /\ I = 1 .. j
    OBVIOUS
  <1>2. IsFiniteSet(I) /\ Cardinality(I) = j
    <2>1. j \in Int /\ IsFiniteSet(1 .. j)
      BY FS_Interval
    <2>2. Cardinality(1 .. j) = j
      BY WidthIs
    <2>3. QED BY <1>1, <2>1, <2>2
  <1>3. UpTo(Left(m, D), j) = I \ U
    BY <1>1 DEF UpTo, Left
  <1>4. U \in SUBSET I
    <2>1. \A x \in U : x \in 1 .. m /\ x <= j
      BY <1>1 DEF UpTo
    <2>2. QED BY <1>1, <2>1
  <1>5. I \cap U = U
    BY <1>4
  <1>6. Cardinality(U) \in Nat
    BY <1>2, <1>4, FS_Subset, FS_CardinalityType
  <1>7. /\ IsFiniteSet(I \ U)
        /\ Cardinality(I \ U) = Cardinality(I) - Cardinality(I \cap U)
    BY <1>2, FS_Difference
  <1>8. QED BY <1>1, <1>2, <1>3, <1>5, <1>6, <1>7

\* Of two places that are left the later comes behind more.
LEMMA RankGrows ==
  ASSUME NEW m \in Nat, NEW D \in SUBSET (1 .. m),
         NEW i \in Left(m, D), NEW j \in Left(m, D), i < j
  PROVE  i - Cardinality(UpTo(D, i)) # j - Cardinality(UpTo(D, j))
  <1>1. PICK A, B : A = UpTo(Left(m, D), i) /\ B = UpTo(Left(m, D), j)
    OBVIOUS
  <1>2. i \in 0 .. m /\ j \in 0 .. m
    BY DEF Left
  <1>3. IsFiniteSet(A) /\ Cardinality(A) = i - Cardinality(UpTo(D, i))
    BY <1>1, <1>2, KeptBefore
  <1>4. IsFiniteSet(B) /\ Cardinality(B) = j - Cardinality(UpTo(D, j))
    BY <1>1, <1>2, KeptBefore
  <1>5. A \in SUBSET B /\ j \in B /\ j \notin A
    BY <1>1, <1>2 DEF UpTo, Left
  <1>6. Cardinality(B) # Cardinality(A)
    BY <1>4, <1>5, FS_Subset
  <1>7. QED BY <1>3, <1>4, <1>6

\* So no two of them come to lie at the same place.
LEMMA RankTells ==
  ASSUME NEW m \in Nat, NEW D \in SUBSET (1 .. m),
         NEW i \in Left(m, D), NEW j \in Left(m, D),
         i - Cardinality(UpTo(D, i)) = j - Cardinality(UpTo(D, j))
  PROVE  i = j
  <1>1. i \in Int /\ j \in Int
    BY DEF Left
  <1>2. CASE i < j
    BY <1>2, RankGrows
  <1>3. CASE j < i
    BY <1>3, RankGrows
  <1>4. QED BY <1>1, <1>2, <1>3

\* Each element of t is one of s, as far from the first as there are others before
\* it that are not at the places D.
Remains(s, m, D, t) ==
  /\ m \in Nat /\ m = Len(s) /\ D \in SUBSET (1 .. m)
  /\ t \in Seq(Values) /\ Len(t) = m - Cardinality(D)
  /\ \A i \in 1 .. Len(t) : \E j \in (1 .. m) \ D :
       j - Cardinality(UpTo(D, j)) = i /\ t[i] = s[j]

\* Then t is s without them.
LEMMA WithoutIs ==
  ASSUME NEW s \in Seq(Values), NEW m, NEW D, NEW t, Remains(s, m, D, t)
  PROVE  Lists!Without(s, D) = t
  <1>0. /\ m \in Nat /\ m = Len(s) /\ D \in SUBSET (1 .. m)
        /\ t \in Seq(Values) /\ Len(t) = m - Cardinality(D)
        /\ \A i \in 1 .. Len(t) : \E j \in (1 .. m) \ D :
             j - Cardinality(UpTo(D, j)) = i /\ t[i] = s[j]
    BY DEF Remains
  <1>1. PICK kept : kept = Left(m, D)
    OBVIOUS
  <1>2. Cardinality(kept) = Len(t)
    <2>1. kept = UpTo(kept, m)
      BY <1>0, <1>1 DEF UpTo, Left
    <2>2. UpTo(D, m) = D
      <3>1. \A x \in D : x <= m
        BY <1>0
      <3>2. QED BY <3>1, Zenon DEF UpTo
    <2>3. m \in 0 .. m
      BY <1>0
    <2>4. Cardinality(UpTo(kept, m)) = m - Cardinality(UpTo(D, m))
      BY <1>0, <1>1, <2>3, KeptBefore
    <2>5. QED BY <1>0, <2>1, <2>2, <2>4
  <1>3. ASSUME NEW j \in kept
        PROVE  Cardinality(UpTo(kept, j)) = j - Cardinality(UpTo(D, j))
    <2>1. j \in 0 .. m
      BY <1>0, <1>1 DEF Left
    <2>2. QED BY <1>0, <1>1, <2>1, KeptBefore
  <1> DEFINE At(i) == CHOOSE j \in kept : Cardinality(UpTo(kept, j)) = i
  <1>4. ASSUME NEW i \in 1 .. Len(t)
        PROVE  s[At(i)] = t[i]
    <2>1. PICK j \in kept : j - Cardinality(UpTo(D, j)) = i /\ t[i] = s[j]
      BY <1>0, <1>1 DEF Left
    <2>2. Cardinality(UpTo(kept, j)) = i
      BY <1>3, <2>1
    <2>3. At(i) \in kept /\ Cardinality(UpTo(kept, At(i))) = i
      BY <2>2
    <2> HIDE DEF At
    <2>4. PICK a \in kept : a = At(i) /\ a - Cardinality(UpTo(D, a)) = i
      BY <1>3, <2>3
    <2>5. a = j
      BY <1>0, <1>1, <2>1, <2>4, RankTells
    <2>6. QED BY <2>1, <2>4, <2>5
  <1>5. DOMAIN s \ D = kept
    BY <1>0, <1>1 DEF Left
  <1>6. Lists!Without(s, D) = [i \in 1 .. Len(t) |-> s[At(i)]]
    <2> DEFINE C(i) == CHOOSE j \in DOMAIN s \ D :
                         Lists!Cardinality({h \in DOMAIN s \ D : h <= j}) = i
    <2>1. Lists!Without(s, D) = [i \in 1 .. Lists!Cardinality(DOMAIN s \ D) |-> s[C(i)]]
      BY Zenon DEF Lists!Without
    <2>2. ASSUME NEW j
          PROVE  Lists!Cardinality({h \in DOMAIN s \ D : h <= j}) = Cardinality(UpTo(kept, j))
      <3>1. {h \in DOMAIN s \ D : h <= j} = UpTo(kept, j)
        BY <1>5 DEF UpTo
      <3>2. QED BY <3>1, CountsListed, Zenon
    <2>3. \A i : C(i) = At(i)
      BY <1>5, <2>2
    <2>4. Lists!Cardinality(DOMAIN s \ D) = Len(t)
      BY <1>2, <1>5, CountsListed, Zenon
    <2> HIDE DEF C, At
    <2>5. QED BY <2>1, <2>3, <2>4, Zenon
  <1> HIDE DEF At
  <1>7. t = [i \in 1 .. Len(t) |-> t[i]]
    BY <1>0
  <1>8. QED BY <1>4, <1>6, <1>7, Zenon

\* Those of S before an index, and those behind it.
Ahead(S, i) == {j \in S : j < i}

After(S, i) == {j \in S : j > i}

\* As many places are before, up to or behind a node's place as nodes are before, up
\* to or behind it.
LEMMA PlacesKeepOrder ==
  ASSUME NEW S \in SUBSET Int, IsFiniteSet(S), NEW L \in Int, NEW i \in Int
  PROVE  /\ Cardinality(Ahead(PlacesOf(S, L), i - L)) = Cardinality(Ahead(S, i))
         /\ Cardinality(After(PlacesOf(S, L), i - L)) = Cardinality(After(S, i))
         /\ Cardinality(UpTo(PlacesOf(S, L), i - L)) = Cardinality(UpTo(S, i))
  <1>1. /\ Ahead(PlacesOf(S, L), i - L) = PlacesOf(Ahead(S, i), L)
        /\ After(PlacesOf(S, L), i - L) = PlacesOf(After(S, i), L)
        /\ UpTo(PlacesOf(S, L), i - L) = PlacesOf(UpTo(S, i), L)
    <2>1. \A x \in S : /\ x - L < i - L <=> x < i
                       /\ x - L > i - L <=> x > i
                       /\ x - L <= i - L <=> x <= i
      OBVIOUS
    <2>2. Ahead(PlacesOf(S, L), i - L) = PlacesOf(Ahead(S, i), L)
      BY <2>1 DEF Ahead, PlacesOf
    <2>3. After(PlacesOf(S, L), i - L) = PlacesOf(After(S, i), L)
      BY <2>1 DEF After, PlacesOf
    <2>4. UpTo(PlacesOf(S, L), i - L) = PlacesOf(UpTo(S, i), L)
      BY <2>1 DEF UpTo, PlacesOf
    <2>5. QED BY <2>2, <2>3, <2>4
  <1>2. ASSUME NEW A \in SUBSET S
        PROVE  Cardinality(PlacesOf(A, L)) = Cardinality(A)
    <2>1. A \in SUBSET Int /\ IsFiniteSet(A)
      BY FS_Subset
    <2>2. QED BY <2>1, AsManyPlaces
  <1>3. /\ Ahead(S, i) \in SUBSET S /\ After(S, i) \in SUBSET S /\ UpTo(S, i) \in SUBSET S
    BY DEF Ahead, After, UpTo
  <1>4. QED BY <1>1, <1>2, <1>3

\* LRem's targets are the nodes at the places that are to be removed.
LEMMA TargetsArePlaces ==
  ASSUME NEW k \in Keys, NEW L \in Nat, NEW R \in Nat, NEW s \in Seq(Values),
         First(k) = L + 1, Last(k) = R - 1, Len(s) = R - 1 - L,
         \A i \in 1 .. R - 1 - L : s[i] = Node(k, L + i),
         NEW count \in Indexes, NEW v
  PROVE  Lists!PlacesToRemove(s, count, v) = PlacesOf(Targets(k, count, v), L)
  <1>1. PICK O : O = Occurrences(k, v)
    OBVIOUS
  <1>2. O = {i \in L + 1 .. R - 1 : Node(k, i) = v}
    BY <1>1 DEF Occurrences
  <1>3. PICK P : P = {i \in DOMAIN s : s[i] = v}
    OBVIOUS
  <1>4. P = PlacesOf(O, L)
    <2>1. ASSUME NEW x \in P
          PROVE  x \in PlacesOf(O, L)
      <3>1. x \in 1 .. R - 1 - L /\ s[x] = v
        BY <1>3
      <3>2. L + x \in L + 1 .. R - 1 /\ (L + x) - L = x
        BY <3>1
      <3>3. L + x \in O
        BY <1>2, <3>1, <3>2
      <3>4. QED BY <3>2, <3>3 DEF PlacesOf
    <2>2. ASSUME NEW y \in O
          PROVE  y - L \in P
      <3>1. y \in L + 1 .. R - 1 /\ Node(k, y) = v
        BY <1>2
      <3>2. y - L \in 1 .. R - 1 - L /\ L + (y - L) = y
        BY <3>1
      <3>3. QED BY <1>3, <3>1, <3>2
    <2>3. QED BY <2>1, <2>2 DEF PlacesOf
  <1>5. O \in SUBSET Int /\ IsFiniteSet(O) /\ P \in SUBSET Int
    <2>1. O \in SUBSET (L + 1 .. R - 1) /\ IsFiniteSet(L + 1 .. R - 1)
      BY <1>2, FS_Interval
    <2>2. IsFiniteSet(O)
      BY <2>1, FS_Subset
    <2>3. P \in SUBSET Int
      <3>1. DOMAIN s \in SUBSET Int
        OBVIOUS
      <3>2. QED BY <1>3, <3>1
    <2>4. QED BY <2>1, <2>2, <2>3
  <1>6. \A i \in O : /\ Cardinality(Ahead(P, i - L)) = Cardinality(Ahead(O, i))
                     /\ Cardinality(After(P, i - L)) = Cardinality(After(O, i))
    BY <1>4, <1>5, PlacesKeepOrder
  <1>7. count \in Int
    BY ListsAssumption
  <1>8. CASE count = 0
    <2>1. Lists!PlacesToRemove(s, count, v) = P
      BY <1>3, <1>8 DEF Lists!PlacesToRemove
    <2>2. Targets(k, count, v) = O
      BY <1>1, <1>8 DEF Targets
    <2>3. QED BY <1>4, <2>1, <2>2
  <1>9. CASE count > 0
    <2>1. Lists!PlacesToRemove(s, count, v) =
            {i \in P : Lists!Cardinality({j \in P : j < i}) < count}
      BY <1>3, <1>7, <1>9 DEF Lists!PlacesToRemove
    <2>2. \A i : Lists!Cardinality({j \in P : j < i}) = Cardinality(Ahead(P, i))
      BY CountsListed, Zenon DEF Ahead
    <2>3. Lists!PlacesToRemove(s, count, v) = {i \in P : Cardinality(Ahead(P, i)) < count}
      BY <2>1, <2>2
    <2>4. Targets(k, count, v) = {i \in O : Cardinality(Ahead(O, i)) < count}
      BY <1>1, <1>7, <1>9 DEF Targets, Ahead
    <2>5. QED BY <1>4, <1>6, <2>3, <2>4 DEF PlacesOf
  <1>10. CASE count < 0
    <2>1. Lists!PlacesToRemove(s, count, v) =
            {i \in P : Lists!Cardinality({j \in P : j > i}) < -count}
      BY <1>3, <1>7, <1>10 DEF Lists!PlacesToRemove
    <2>2. \A i : Lists!Cardinality({j \in P : j > i}) = Cardinality(After(P, i))
      BY CountsListed, Zenon DEF After
    <2>3. Lists!PlacesToRemove(s, count, v) = {i \in P : Cardinality(After(P, i)) < -count}
      BY <2>1, <2>2
    <2>4. Targets(k, count, v) = {i \in O : Cardinality(After(O, i)) < -count}
      BY <1>1, <1>7, <1>10 DEF Targets, After
    <2>5. QED BY <1>4, <1>6, <2>3, <2>4 DEF PlacesOf
  <1>11. QED BY <1>7, <1>8, <1>9, <1>10

\* All of the targets lie before an index, up to it or behind it.
LEMMA BeyondAndUpTo ==
  ASSUME NEW T \in SUBSET Int, IsFiniteSet(T), NEW j \in Int, j \notin T
  PROVE  /\ Cardinality(T) \in Nat
         /\ Cardinality(Beyond(T, j)) \in Nat /\ Cardinality(UpTo(T, j)) \in Nat
         /\ Cardinality(Beyond(T, j)) + Cardinality(UpTo(T, j)) = Cardinality(T)
  <1>1. PICK A, B : A = Beyond(T, j) /\ B = UpTo(T, j)
    OBVIOUS
  <1>2. A \in SUBSET T /\ B \in SUBSET T /\ A \cup B = T /\ A \cap B = {}
    <2>1. \A t \in T : ~(t >= j /\ t <= j) /\ (t >= j \/ t <= j)
      OBVIOUS
    <2>2. \A t \in T : (t \in A <=> t >= j) /\ (t \in B <=> t <= j)
      BY <1>1 DEF Beyond, UpTo
    <2>3. A \in SUBSET T /\ B \in SUBSET T
      BY <1>1 DEF Beyond, UpTo
    <2>4. QED BY <2>1, <2>2, <2>3
  <1>3. /\ IsFiniteSet(A) /\ IsFiniteSet(B)
        /\ Cardinality(A) \in Nat /\ Cardinality(B) \in Nat /\ Cardinality(T) \in Nat
    BY <1>2, FS_Subset, FS_CardinalityType
  <1>4. Cardinality(A \cup B) = Cardinality(A) + Cardinality(B) - Cardinality(A \cap B)
    BY <1>3, FS_Union
  <1>5. Cardinality(A \cap B) = 0
    BY <1>2, FS_EmptySet
  <1>6. QED BY <1>1, <1>2, <1>3, <1>4, <1>5
\* t is what is left of the nodes when those of T go: each of its elements is one of
\* them, as far from the first as there are others before it.
Closed(k, L, R, T, t) ==
  /\ t \in Seq(Values) /\ Len(t) = R - 1 - L - Cardinality(T)
  /\ \A i \in 1 .. Len(t) : \E j \in (L + 1 .. R - 1) \ T :
       j - Cardinality(UpTo(T, j)) = L + i /\ t[i] = Node(k, j)

\* Closing ranks leaves a list like that.
LEMMA ClosesSeen ==
  ASSUME ListsInv, raced = {}, NEW k \in Keys, NEW L \in Nat, NEW R \in Nat,
         First(k) = L + 1, Last(k) = R - 1,
         \A i \in L + 1 .. R - 1 : Node(k, i) \in Values,
         NEW T \in SUBSET (L + 1 .. R - 1), Closes(k, L, R, T)
  PROVE  \E t : Closed(k, L, R, T, t) /\ BecomesList(k, t)
  <1>1. T \in SUBSET Int /\ IsFiniteSet(T)
    <2>1. PICK J : J = L + 1 .. R - 1 /\ IsFiniteSet(J)
      BY FS_Interval
    <2>2. T \in SUBSET J /\ T \in SUBSET Int
      BY <2>1
    <2>3. QED BY <2>1, <2>2, FS_Subset
  <1>2. PICK n \in Nat : n = Cardinality(T)
    BY <1>1, FS_CardinalityType
  <1>3. \A j \in Int \ T :
          /\ Cardinality(Beyond(T, j)) \in Nat /\ Cardinality(UpTo(T, j)) \in Nat
          /\ Cardinality(Beyond(T, j)) + Cardinality(UpTo(T, j)) = n
    BY <1>1, <1>2, BeyondAndUpTo
  <1>4. ASSUME NEW S, NEW f, NEW G, NEW h \in T, S = L + 1 + n .. h, \A t \in T : t <= h,
               \A i \in S : \E j \in (L + 1 .. h) \ T :
                 j + Cardinality(Beyond(T, j)) = i /\ f[i] = Node(k, j),
               Shifts(k, -n, L + n, R, S, f, G)
        PROVE  \E t : Closed(k, L, R, T, t) /\ BecomesList(k, t)
    <2>1. PICK t : t = Spliced(k, L + n, R, S, f)
      OBVIOUS
    <2>2. PICK m : m = R - 1 - (L + n)
      OBVIOUS
    <2>3. ASSUME NEW i \in 1 .. m
          PROVE  \E j \in (L + 1 .. R - 1) \ T :
                   j - Cardinality(UpTo(T, j)) = L + i /\ t[i] = Node(k, j)
      <3>1. t[i] = IF L + n + i \in S THEN f[L + n + i] ELSE Node(k, L + n + i)
        BY <2>1, <2>2 DEF Spliced
      <3>2. CASE L + n + i \in S
        <4>1. PICK j \in (L + 1 .. h) \ T :
                j + Cardinality(Beyond(T, j)) = L + n + i /\ f[L + n + i] = Node(k, j)
          BY <1>4, <3>2
        <4>2. h \in L + 1 .. R - 1
          OBVIOUS
        <4>3. j \in (L + 1 .. R - 1) \ T /\ j \in Int \ T
          BY <4>2
        <4>4. j - Cardinality(UpTo(T, j)) = L + i
          BY <1>3, <4>1, <4>3
        <4>5. QED BY <3>1, <3>2, <4>1, <4>3, <4>4
      <3>3. CASE L + n + i \notin S
        <4>1. PICK j \in Int : j = L + n + i
          OBVIOUS
        <4>2. j > h /\ j \in L + 1 .. R - 1
          BY <1>4, <2>2, <3>3, <4>1
        <4>3. j \notin T
          BY <1>4, <4>2
        <4>4. UpTo(T, j) = T
          <5>1. \A x \in T : x <= j
            BY <1>4, <4>2
          <5>2. QED BY <5>1, Zenon DEF UpTo
        <4>5. j - Cardinality(UpTo(T, j)) = L + i
          BY <1>2, <4>1, <4>4
        <4>6. QED BY <3>1, <3>3, <4>1, <4>2, <4>3, <4>5
      <3>4. QED BY <3>2, <3>3
    <2>4. \A i \in 1 .. m : t[i] \in Values
      BY <2>3
    <2>5. m \in Nat
      BY <1>4, <2>2 DEF Shifts
    <2>6. t \in Seq(Values) /\ Len(t) = m
      <3>1. t = [i \in 1 .. m |-> t[i]]
        BY <2>1, <2>2 DEF Spliced
      <3>2. QED BY <2>4, <2>5, <3>1
    <2>7. Closed(k, L, R, T, t)
      <3>1. Len(t) = R - 1 - L - n
        BY <2>2, <2>6
      <3>2. QED BY <1>2, <2>3, <2>6, <3>1 DEF Closed
    <2>8. Splices(k, L + n, R, S, f, t)
      <3>1. \A i \in 1 .. m :
              t[i] = IF L + n + i \in S THEN f[L + n + i] ELSE Node(k, L + n + i)
        BY <2>1, <2>2 DEF Spliced
      <3>2. QED BY <2>2, <2>6, <3>1 DEF Splices
    <2>9. BecomesList(k, t)
      BY <1>4, <2>8, UpdateListed
    <2>10. QED BY <2>7, <2>9
  <1>5. ASSUME NEW S, NEW f, NEW G, NEW l \in T, S = l .. R - 1 - n, \A t \in T : l <= t,
               \A i \in S : \E j \in (l .. R - 1) \ T :
                 j - Cardinality(UpTo(T, j)) = i /\ f[i] = Node(k, j),
               Shifts(k, -n, L, R - n, S, f, G)
        PROVE  \E t : Closed(k, L, R, T, t) /\ BecomesList(k, t)
    <2>0. PICK r : r = R - n
      OBVIOUS
    <2>1. PICK t : t = Spliced(k, L, r, S, f)
      OBVIOUS
    <2>2. PICK m : m = r - 1 - L
      OBVIOUS
    <2>3. ASSUME NEW i \in 1 .. m
          PROVE  \E j \in (L + 1 .. R - 1) \ T :
                   j - Cardinality(UpTo(T, j)) = L + i /\ t[i] = Node(k, j)
      <3>1. t[i] = IF L + i \in S THEN f[L + i] ELSE Node(k, L + i)
        BY <2>1, <2>2 DEF Spliced
      <3>2. CASE L + i \in S
        <4>1. PICK j \in (l .. R - 1) \ T :
                j - Cardinality(UpTo(T, j)) = L + i /\ f[L + i] = Node(k, j)
          BY <1>5, <3>2
        <4>2. l \in L + 1 .. R - 1
          OBVIOUS
        <4>3. j \in (L + 1 .. R - 1) \ T
          BY <4>2
        <4>4. QED BY <3>1, <3>2, <4>1, <4>3
      <3>3. CASE L + i \notin S
        <4>1. PICK j \in Int : j = L + i
          OBVIOUS
        <4>2. j < l /\ j \in L + 1 .. R - 1
          BY <1>5, <2>0, <2>2, <3>3, <4>1
        <4>3. j \notin T
          BY <1>5, <4>2
        <4>4. UpTo(T, j) = {}
          <5>1. \A x \in T : ~(x <= j)
            BY <1>5, <4>2
          <5>2. QED BY <5>1, Zenon DEF UpTo
        <4>5. j - Cardinality(UpTo(T, j)) = L + i
          BY <4>1, <4>4, FS_EmptySet
        <4>6. QED BY <3>1, <3>3, <4>1, <4>2, <4>3, <4>5
      <3>4. QED BY <3>2, <3>3
    <2>4. \A i \in 1 .. m : t[i] \in Values
      BY <2>3
    <2>5. m \in Nat
      BY <1>5, <2>0, <2>2 DEF Shifts
    <2>6. t \in Seq(Values) /\ Len(t) = m
      <3>1. t = [i \in 1 .. m |-> t[i]]
        BY <2>1, <2>2 DEF Spliced
      <3>2. QED BY <2>4, <2>5, <3>1
    <2>7. Closed(k, L, R, T, t)
      <3>1. Len(t) = R - 1 - L - n
        BY <2>0, <2>2, <2>6
      <3>2. QED BY <1>2, <2>3, <2>6, <3>1 DEF Closed
    <2>8. Splices(k, L, r, S, f, t)
      <3>1. \A i \in 1 .. m : t[i] = IF L + i \in S THEN f[L + i] ELSE Node(k, L + i)
        BY <2>1, <2>2 DEF Spliced
      <3>2. QED BY <2>2, <2>6, <3>1 DEF Splices
    <2>9. BecomesList(k, t)
      BY <1>5, <2>0, <2>8, UpdateListed
    <2>10. QED BY <2>7, <2>9
  <1>6. QED BY <1>2, <1>4, <1>5 DEF Closes

\* LRem leaves the other elements in their order.
LEMMA LRemListed ==
  ASSUME ListsInv, raced = {}, NEW k \in Keys, NEW count \in Indexes, NEW v,
         LRem(k, count, v)
  PROVE  Lists!Remove(k, count, v)
  <1>1. Live(k)
    BY DEF LRem
  <1>2. PICK L \in Nat, R \in Nat, s \in Seq(Values) :
          /\ window[k] = [left |-> L, right |-> R] /\ L + 1 < R
          /\ First(k) = L + 1 /\ Last(k) = R - 1
          /\ L \in Members /\ R \in Members /\ L + 1 .. R - 1 \subseteq Members
          /\ s = Elements(k) /\ s # <<>> /\ Len(s) = R - 1 - L
          /\ \A i \in 1 .. R - 1 - L : s[i] = Node(k, L + i) /\ s[i] \in Values
    BY <1>1, LiveElements
  <1>3. PICK T : /\ T = Targets(k, count, v) /\ T \in SUBSET (L + 1 .. R - 1)
                 /\ Closes(k, L, R, T)
    <2>0. PICK L2 \in Nat, R2 \in Nat :
            /\ window[k] = [left |-> L2, right |-> R2]
            /\ \E T : /\ T = Targets(k, count, v) /\ T \in SUBSET (L2 + 1 .. R2 - 1)
                     /\ Closes(k, L2, R2, T)
      BY LRemCloses
    <2>1. PICK T : /\ T = Targets(k, count, v) /\ T \in SUBSET (L2 + 1 .. R2 - 1)
                   /\ Closes(k, L2, R2, T)
      BY <2>0
    <2>2. window[k].left = L /\ window[k].right = R
      BY <1>2
    <2>3. L2 = L /\ R2 = R
      BY <2>0, <2>2
    <2>4. QED BY <2>1, <2>3
  <1>4. \A i \in L + 1 .. R - 1 : Node(k, i) \in Values
    <2>1. \A i \in L + 1 .. R - 1 : i - L \in 1 .. R - 1 - L /\ L + (i - L) = i
      OBVIOUS
    <2>2. \A i \in 1 .. R - 1 - L : s[i] = Node(k, L + i) /\ s[i] \in Values
      BY <1>2
    <2>3. QED BY <2>1, <2>2
  <1>5. PICK t : Closed(k, L, R, T, t) /\ BecomesList(k, t)
    <2>1. First(k) = L + 1 /\ Last(k) = R - 1
      BY <1>2
    <2>2. QED BY <1>3, <1>4, <2>1, ClosesSeen
  <1>6. PICK D : D = PlacesOf(T, L)
    OBVIOUS
  <1>7. T \in SUBSET Int /\ IsFiniteSet(T)
    <2>1. IsFiniteSet(L + 1 .. R - 1)
      BY FS_Interval
    <2>2. QED BY <1>3, <2>1, FS_Subset
  <1>8. Lists!PlacesToRemove(s, count, v) = D
    <2>1. /\ First(k) = L + 1 /\ Last(k) = R - 1 /\ Len(s) = R - 1 - L
          /\ \A i \in 1 .. R - 1 - L : s[i] = Node(k, L + i)
      BY <1>2
    <2>2. Lists!PlacesToRemove(s, count, v) = PlacesOf(Targets(k, count, v), L)
      BY <2>1, TargetsArePlaces
    <2>3. QED BY <1>3, <1>6, <2>2
  <1>9. PICK m \in Nat : m = Len(s) /\ m = R - 1 - L
    BY <1>2
  <1>10. D \in SUBSET (1 .. m)
    <2>1. \A x \in T : x - L \in 1 .. m
      BY <1>3, <1>9
    <2>2. QED BY <1>6, <2>1 DEF PlacesOf
  <1>11. Cardinality(D) = Cardinality(T)
    BY <1>6, <1>7, AsManyPlaces
  <1>12. t \in Seq(Values) /\ Len(t) = m - Cardinality(D)
    BY <1>5, <1>9, <1>11 DEF Closed
  <1>13. ASSUME NEW i \in 1 .. Len(t)
         PROVE  \E j \in (1 .. m) \ D : j - Cardinality(UpTo(D, j)) = i /\ t[i] = s[j]
    <2>1. PICK j \in (L + 1 .. R - 1) \ T :
            j - Cardinality(UpTo(T, j)) = L + i /\ t[i] = Node(k, j)
      BY <1>5 DEF Closed
    <2>2. PICK a \in Int : a = j - L /\ a \in 1 .. R - 1 - L /\ L + a = j
      OBVIOUS
    <2>3. a \notin D
      <3>1. \A x \in T : x - L # j - L
        BY <1>7, <2>1
      <3>2. QED BY <1>6, <2>2, <3>1 DEF PlacesOf
    <2>4. Cardinality(UpTo(D, a)) = Cardinality(UpTo(T, j))
      BY <1>6, <1>7, <2>2, PlacesKeepOrder
    <2>5. a - Cardinality(UpTo(D, a)) = i
      <3>1. Cardinality(UpTo(T, j)) \in Nat
        BY <1>7, BeyondAndUpTo
      <3>2. QED BY <2>1, <2>2, <2>4, <3>1
    <2>6. t[i] = s[a]
      BY <1>2, <2>1, <2>2
    <2>7. QED BY <1>9, <2>2, <2>3, <2>5, <2>6
  <1>14. Lists!Without(s, D) = t
    <2>1. Remains(s, m, D, t)
      BY <1>9, <1>10, <1>12, <1>13 DEF Remains
    <2>2. QED BY <2>1, WithoutIs
  <1>15. QED BY <1>2, <1>5, <1>8, <1>14
            DEF BecomesList, Row, Until, Lists!Remove, Lists!Become

\* A meta value whose count changes is one.
LEMMA ModifiedIs ==
  ASSUME NEW m \in MetaValue, NEW d \in Int
  PROVE  /\ ModifyCount(m, d) \in MetaValue
         /\ ModifyCount(m, d).version = m.version
         /\ ModifyCount(m, d).timestamp = m.timestamp
         /\ ModifyCount(m, d).count = m.count + d
  BY DEF ModifyCount, MetaValue

\* t is what is seen of k after a step.
SeenAs(k, l, r, t) ==
  /\ l \in Nat /\ r \in Nat /\ window'[k] = [left |-> l, right |-> r]
  /\ t \in Seq(Values) /\ Len(t) = r - 1 - l
  /\ \A i \in 1 .. r - 1 - l : Node(k, l + i)' = t[i]
  /\ Live(k)' \/ t = <<>>

\* So the list is t.
LEMMA SeenIs ==
  ASSUME NEW k, NEW l, NEW r, NEW t, SeenAs(k, l, r, t)
  PROVE  Elements(k)' = t
  <1>1. /\ l \in Nat /\ r \in Nat /\ window'[k] = [left |-> l, right |-> r]
        /\ t \in Seq(Values) /\ Len(t) = r - 1 - l
        /\ \A i \in 1 .. r - 1 - l : Node(k, l + i)' = t[i]
    BY DEF SeenAs
  <1>2. CASE Live(k)'
    <2>1. window'[k].left = l /\ Last(k)' = r - 1
      BY <1>1 DEF Last
    <2>2. Elements(k)' = [i \in 1 .. r - 1 - l |-> Node(k, l + i)']
      BY <1>2, <2>1 DEF Elements
    <2>3. t = [i \in 1 .. r - 1 - l |-> t[i]]
      BY <1>1
    <2>4. QED BY <1>1, <2>2, <2>3, Zenon
  <1>3. CASE ~Live(k)'
    BY <1>3 DEF SeenAs, Elements
  <1>4. QED BY <1>2, <1>3

\* A batch takes the last node of k's list, and nothing else of it.
TakesLast(k, ms, ws, P, dels) ==
  /\ Live(k)
  /\ ms[k] = ModifyCount(meta[k], -1)
  /\ ws[k] = [window[k] EXCEPT !.right = @ - 1]
  /\ \A rec \in P : rec[1] # k
  /\ \A rec : rec[1] = k => (rec \in dels <=> rec = <<k, meta[k].version, Last(k)>>)

\* A reader sees the last element go.
LEMMA TakesLastSeen ==
  ASSUME ListsInv, raced = {}, NEW K, NEW ms, NEW ws, NEW P, NEW puts, NEW dels,
         WritesTo(K, ms, ws, P, puts, dels), NEW k \in K, TakesLast(k, ms, ws, P, dels)
  PROVE  /\ Elements(k)' = SubSeq(Elements(k), 1, Len(Elements(k)) - 1)
         /\ meta'[k].timestamp = meta[k].timestamp
  <1>1. /\ k \in Keys /\ Live(k)
        /\ ms[k] = ModifyCount(meta[k], -1)
        /\ ws[k] = [window[k] EXCEPT !.right = @ - 1]
        /\ \A rec \in P : rec[1] # k
        /\ \A rec : rec[1] = k => (rec \in dels <=> rec = <<k, meta[k].version, Last(k)>>)
    BY DEF TakesLast, WritesTo
  <1>2. /\ meta'[k] = ms[k] /\ window'[k] = ws[k]
        /\ Live(k)' <=> IsLive(ms[k], now)
        /\ \A i : Node(k, i)' = NodeAfter(ms, P, puts, dels, k, i)
    BY WriteSeen
  <1>3. PICK L \in Nat, R \in Nat, s \in Seq(Values) :
          /\ window[k] = [left |-> L, right |-> R] /\ L + 1 < R
          /\ First(k) = L + 1 /\ Last(k) = R - 1
          /\ L \in Members /\ R \in Members /\ L + 1 .. R - 1 \subseteq Members
          /\ s = Elements(k) /\ s # <<>> /\ Len(s) = R - 1 - L
          /\ \A i \in 1 .. R - 1 - L : s[i] = Node(k, L + i) /\ s[i] \in Values
    <2>1. Live(k) /\ k \in Keys
      BY <1>1
    <2>2. QED BY <2>1, LiveElements
  <1>4. meta[k] \in MetaValue /\ meta[k] # NoMeta /\ ~IsStale(meta[k], now)
        /\ meta[k].count = R - 1 - L
    <2>1. Fresh(k) /\ meta[k] \in MetaValue /\ meta[k].count # 0
      BY <1>1, LiveFacts DEF ListsInv, StoreInv, Live, IsLive
    <2>2. Encloses(k, meta[k], window[k], data)
      BY <1>1, <2>1, FreshEncloses
    <2>3. QED BY <1>3, <2>1, <2>2 DEF Encloses, Fresh
  <1>5. /\ ms[k].version = meta[k].version /\ ms[k].timestamp = meta[k].timestamp
        /\ ms[k].count = R - 2 - L /\ ms[k] \in MetaValue
    <2>1. meta[k].count + -1 = R - 2 - L
      BY <1>3, <1>4
    <2>2. meta[k] \in MetaValue
      BY <1>4
    <2>3. QED BY <1>1, <2>1, <2>2, ModifiedIs
  <1>6. PICK n \in Nat : n = R - 2 - L
    BY <1>3
  <1>7. PICK t \in Seq(Values) :
          t = SubSeq(s, 1, n) /\ Len(t) = n /\ \A i \in 1 .. n : t[i] = s[i]
    <2>1. \A i \in 1 .. n : s[i] \in Values
      BY <1>3, <1>6
    <2>2. /\ SubSeq(s, 1, n) \in Seq(Values) /\ Len(SubSeq(s, 1, n)) = n
          /\ \A i \in 1 .. n : SubSeq(s, 1, n)[i] = s[i]
      BY <1>6, <2>1, SubSeqProperties
    <2>3. QED BY <2>2
  <1>8. ASSUME NEW i \in 1 .. n
        PROVE  Node(k, L + i)' = t[i]
    <2>1. PICK rec : rec = <<k, meta[k].version, L + i>>
      OBVIOUS
    <2>2. i \in 1 .. R - 1 - L /\ L + i # R - 1
      BY <1>6
    <2>3. rec[1] = k /\ rec # <<k, meta[k].version, Last(k)>>
      BY <1>3, <2>1, <2>2
    <2>4. rec \notin P /\ rec \notin dels
      BY <1>1, <2>3
    <2>5. NodeAfter(ms, P, puts, dels, k, L + i) = Node(k, L + i)
      BY <1>5, <2>1, <2>4 DEF NodeAfter, Node
    <2>6. QED BY <1>2, <1>3, <1>7, <2>2, <2>5
  <1>9. Live(k)' \/ t = <<>>
    <2>1. CASE n = 0
      BY <1>7, <2>1
    <2>2. CASE n # 0
      BY <1>2, <1>4, <1>5, <1>6, <2>2, NoMetaAssumption DEF IsLive, IsStale
    <2>3. QED BY <2>1, <2>2
  <1>10. window'[k] = [left |-> L, right |-> R - 1]
    BY <1>1, <1>2, <1>3
  <1>11. SeenAs(k, L, R - 1, t)
    <2>1. PICK r \in Nat : r = R - 1 /\ r - 1 - L = n
      BY <1>3, <1>6
    <2>2. SeenAs(k, L, r, t)
      BY <1>7, <1>8, <1>9, <1>10, <2>1 DEF SeenAs
    <2>3. QED BY <2>1, <2>2
  <1>12. n = Len(s) - 1
    BY <1>3, <1>6
  <1>13. QED BY <1>2, <1>3, <1>5, <1>7, <1>11, <1>12, SeenIs

\* A batch puts v in front of the first node of k's list, or makes it the only one,
\* and nothing else of it.
PutsFirst(k, v, ms, ws, P, puts, dels) ==
  /\ v \in Values
  /\ ms[k] = ModifyCount(PushMeta(k), 1)
  /\ ws[k] = [PushWindow(k) EXCEPT !.left = @ - 1]
  /\ ws[k].left \in Nat
  /\ \A rec : rec[1] = k =>
       /\ rec \notin dels
       /\ rec \in P <=> rec = <<k, ms[k].version, PushWindow(k).left>>
       /\ rec \in P => puts[rec] = v

\* A reader sees v come first.
LEMMA PutsFirstSeen ==
  ASSUME ListsInv, raced = {}, NEW K, NEW ms, NEW ws, NEW P, NEW puts, NEW dels,
         WritesTo(K, ms, ws, P, puts, dels),
         NEW k \in K, NEW v, PutsFirst(k, v, ms, ws, P, puts, dels)
  PROVE  /\ Elements(k)' = <<v>> \o Elements(k)
         /\ meta'[k].timestamp = IF Elements(k) = <<>> THEN 0 ELSE meta[k].timestamp
  <1>1. /\ k \in Keys /\ v \in Values
        /\ ms[k] = ModifyCount(PushMeta(k), 1)
        /\ ws[k] = [PushWindow(k) EXCEPT !.left = @ - 1]
        /\ ws[k].left \in Nat
        /\ \A rec : rec[1] = k =>
             /\ rec \notin dels
             /\ rec \in P <=> rec = <<k, ms[k].version, PushWindow(k).left>>
             /\ rec \in P => puts[rec] = v
    BY DEF PutsFirst, WritesTo
  <1>2. /\ meta'[k] = ms[k] /\ window'[k] = ws[k]
        /\ Live(k)' <=> IsLive(ms[k], now)
        /\ \A i : Node(k, i)' = NodeAfter(ms, P, puts, dels, k, i)
    BY WriteSeen
  <1>3. ASSUME NEW i, NEW a, PushWindow(k).left = a
        PROVE  /\ i = a => Node(k, i)' = v
               /\ i # a /\ ms[k].version = meta[k].version => Node(k, i)' = Node(k, i)
    <2>0. PICK rec : rec = <<k, ms[k].version, i>>
      OBVIOUS
    <2>1. rec = <<k, ms[k].version, i>> /\ rec[1] = k
      BY <2>0
    <2>2. rec \notin dels /\ (rec \in P <=> i = a) /\ (rec \in P => puts[rec] = v)
      BY <1>1, <1>3, <2>1
    <2>3. Node(k, i)' = IF i = a THEN v ELSE IF rec \in data THEN value[rec] ELSE NoValue
      BY <1>2, <2>1, <2>2 DEF NodeAfter
    <2>4. QED BY <2>1, <2>3 DEF Node
  <1>4. CASE Live(k)
    <2>1. PICK L \in Nat, R \in Nat, s \in Seq(Values) :
            /\ window[k] = [left |-> L, right |-> R] /\ L + 1 < R
            /\ First(k) = L + 1 /\ Last(k) = R - 1
            /\ L \in Members /\ R \in Members /\ L + 1 .. R - 1 \subseteq Members
            /\ s = Elements(k) /\ s # <<>> /\ Len(s) = R - 1 - L
            /\ \A i \in 1 .. R - 1 - L : s[i] = Node(k, L + i) /\ s[i] \in Values
      <3>1. Live(k) /\ k \in Keys
        BY <1>1, <1>4
      <3>2. QED BY <3>1, LiveElements
    <2>2. PushMeta(k) = meta[k] /\ PushWindow(k) = window[k]
      BY <1>4 DEF PushMeta, PushWindow
    <2>3. /\ meta[k] \in MetaValue /\ meta[k] # NoMeta /\ ~IsStale(meta[k], now)
          /\ meta[k].count = R - 1 - L
      <3>1. Fresh(k) /\ meta[k] \in MetaValue /\ meta[k].count # 0
        BY <1>1, <1>4, LiveFacts DEF ListsInv, StoreInv, Live, IsLive
      <3>2. Encloses(k, meta[k], window[k], data)
        BY <1>1, <3>1, FreshEncloses
      <3>3. QED BY <2>1, <3>1, <3>2 DEF Encloses, Fresh
    <2>4. /\ ms[k].version = meta[k].version /\ ms[k].timestamp = meta[k].timestamp
          /\ ms[k].count = R - L /\ ms[k] \in MetaValue
      <3>1. meta[k].count + 1 = R - L
        BY <2>1, <2>3
      <3>2. meta[k] \in MetaValue /\ ms[k] = ModifyCount(meta[k], 1)
        BY <1>1, <2>2, <2>3
      <3>3. QED BY <3>1, <3>2, ModifiedIs
    <2>5. Live(k)'
      BY <1>2, <2>1, <2>3, <2>4, NoMetaAssumption DEF IsLive, IsStale
    <2>6. PushWindow(k).left = L /\ window'[k] = [left |-> L - 1, right |-> R] /\ L - 1 \in Nat
      BY <1>1, <1>2, <2>1, <2>2
    <2>7. PICK o \in Seq(Values) : o = <<v>> /\ Len(o) = 1 /\ o[1] = v
      <3>1. <<v>> \in Seq(Values) /\ Len(<<v>>) = 1 /\ <<v>>[1] = v
        BY <1>1
      <3>2. QED BY <3>1
    <2>8. PICK t \in Seq(Values) :
            /\ t = o \o s /\ Len(t) = R - L
            /\ \A i \in 1 .. R - L : t[i] = IF i = 1 THEN v ELSE s[i - 1]
      <3>1. /\ o \o s \in Seq(Values) /\ Len(o \o s) = Len(o) + Len(s)
            /\ \A i \in 1 .. Len(o) + Len(s) :
                 (o \o s)[i] = IF i <= Len(o) THEN o[i] ELSE s[i - Len(o)]
        BY ConcatProperties
      <3>2. Len(o) + Len(s) = R - L
        BY <2>1, <2>7
      <3>3. \A i \in 1 .. R - L : i <= 1 <=> i = 1
        OBVIOUS
      <3>4. \A i \in 1 .. R - L : (o \o s)[i] = IF i = 1 THEN v ELSE s[i - 1]
        BY <2>7, <3>1, <3>2, <3>3
      <3>5. QED BY <3>1, <3>2, <3>4
    <2>9. ASSUME NEW i \in 1 .. R - L
          PROVE  Node(k, L - 1 + i)' = t[i]
      <3>1. CASE i = 1
        <4>1. L - 1 + i = L
          BY <3>1
        <4>2. QED BY <1>3, <2>6, <2>8, <3>1, <4>1
      <3>2. CASE i # 1
        <4>1. L - 1 + i # L /\ i - 1 \in 1 .. R - 1 - L /\ L + (i - 1) = L - 1 + i
          BY <3>2
        <4>2. Node(k, L - 1 + i)' = Node(k, L - 1 + i)
          BY <1>3, <2>4, <2>6, <4>1
        <4>3. QED BY <2>1, <2>8, <3>2, <4>1, <4>2
      <3>3. QED BY <3>1, <3>2
    <2>10. SeenAs(k, L - 1, R, t)
      <3>1. PICK l \in Nat : l = L - 1
        BY <2>6
      <3>2. R - 1 - l = R - L
        BY <3>1
      <3>3. \A i \in 1 .. R - L : Node(k, l + i)' = t[i]
        BY <2>9, <3>1
      <3>4. SeenAs(k, l, R, t)
        BY <2>5, <2>6, <2>8, <3>1, <3>2, <3>3 DEF SeenAs
      <3>5. QED BY <3>1, <3>4
    <2>11. QED BY <1>2, <2>1, <2>4, <2>7, <2>8, <2>10, SeenIs
  <1>5. CASE ~Live(k)
    <2>1. PushMeta(k) = Renewed(k) /\ PushWindow(k) = InitialWindow
      BY <1>5 DEF PushMeta, PushWindow
    <2>2. PICK L \in Nat : InitialWindow = [left |-> L, right |-> L + 1]
      <3>1. PICK L \in Nat : InitialWindow.left = L /\ InitialWindow.right = L + 1
        BY SomeIndices
      <3>2. QED BY <3>1 DEF InitialWindow
    <2>3. ms[k].timestamp = 0 /\ ms[k].count = 1 /\ ms[k] \in MetaValue
      BY <1>1, <2>1, RenewedMeta DEF ListsInv, StoreInv, ModifyCount, MetaValue
    <2>4. Live(k)'
      BY <1>2, <2>3, NoMetaAssumption DEF IsLive, IsStale
    <2>5. PushWindow(k).left = L /\ window'[k] = [left |-> L - 1, right |-> L + 1] /\ L - 1 \in Nat
      BY <1>1, <1>2, <2>1, <2>2
    <2>6. PICK t \in Seq(Values) : t = <<v>> /\ Len(t) = 1 /\ t[1] = v
      <3>1. <<v>> \in Seq(Values) /\ Len(<<v>>) = 1 /\ <<v>>[1] = v
        BY <1>1
      <3>2. QED BY <3>1
    <2>7. SeenAs(k, L - 1, L + 1, t)
      <3>1. PICK l \in Nat, r \in Nat : l = L - 1 /\ r = L + 1 /\ r - 1 - l = 1 /\ l + 1 = L
        BY <2>5
      <3>2. Node(k, l + 1)' = t[1]
        BY <1>3, <2>5, <2>6, <3>1
      <3>3. SeenAs(k, l, r, t)
        BY <2>4, <2>5, <2>6, <3>1, <3>2 DEF SeenAs
      <3>4. QED BY <3>1, <3>3
    <2>8. Elements(k) = <<>> /\ t \o <<>> = t
      BY <1>5, ConcatEmptySeq DEF Elements
    <2>9. QED BY <1>2, <2>3, <2>6, <2>7, <2>8, SeenIs
  <1>6. QED BY <1>4, <1>5
\* The last element of a list, put before what else it is made of.
LEMMA RotatedIs ==
  ASSUME NEW n \in Nat, NEW s \in Seq(Values), Len(s) = n + 1
  PROVE  \E t \in Seq(Values) :
           /\ t = <<s[Len(s)]>> \o SubSeq(s, 1, Len(s) - 1) /\ Len(t) = n + 1
           /\ \A i \in 1 .. n + 1 : t[i] = IF i = 1 THEN s[n + 1] ELSE s[i - 1]
  <1>1. Len(s) - 1 = n /\ s[n + 1] \in Values
    OBVIOUS
  <1>2. PICK o \in Seq(Values) : o = <<s[n + 1]>> /\ Len(o) = 1 /\ o[1] = s[n + 1]
    <2>1. PICK v \in Values : v = s[n + 1]
      BY <1>1
    <2>2. <<v>> \in Seq(Values) /\ Len(<<v>>) = 1 /\ <<v>>[1] = v
      OBVIOUS
    <2>3. QED BY <2>1, <2>2
  <1>3. PICK x \in Seq(Values) :
          x = SubSeq(s, 1, n) /\ Len(x) = n /\ \A i \in 1 .. n : x[i] = s[i]
    <2>1. \A i \in 1 .. n : s[i] \in Values
      OBVIOUS
    <2>2. /\ SubSeq(s, 1, n) \in Seq(Values) /\ Len(SubSeq(s, 1, n)) = n
          /\ \A i \in 1 .. n : SubSeq(s, 1, n)[i] = s[i]
      BY <2>1, SubSeqProperties
    <2>3. QED BY <2>2
  <1>4. /\ o \o x \in Seq(Values) /\ Len(o \o x) = Len(o) + Len(x)
        /\ \A i \in 1 .. Len(o) + Len(x) :
             (o \o x)[i] = IF i <= Len(o) THEN o[i] ELSE x[i - Len(o)]
    BY ConcatProperties
  <1>5. Len(o) + Len(x) = n + 1
    BY <1>2, <1>3
  <1>6. ASSUME NEW i \in 1 .. n + 1
        PROVE  (o \o x)[i] = IF i = 1 THEN s[n + 1] ELSE s[i - 1]
    <2>1. (o \o x)[i] = IF i <= 1 THEN o[i] ELSE x[i - 1]
      BY <1>2, <1>4, <1>5
    <2>2. (i <= 1 <=> i = 1) /\ (i # 1 => i - 1 \in 1 .. n)
      OBVIOUS
    <2>3. QED BY <1>2, <1>3, <2>1, <2>2
  <1>7. o \o x = <<s[Len(s)]>> \o SubSeq(s, 1, Len(s) - 1)
    BY <1>1, <1>2, <1>3
  <1>8. QED BY <1>4, <1>5, <1>6, <1>7

\* RPoplpush moves the last element of one list to the front of another, or of its
\* own.
LEMMA RPoplpushListed ==
  ASSUME ListsInv, raced = {}, NEW src \in Keys, NEW dst \in Keys, RPoplpush(src, dst)
  PROVE  Lists!Move(src, dst)
  <1>1. PICK v : v = Node(src, Last(src)) /\ v # NoValue
    BY DEF RPoplpush
  <1>2. Live(src)
    BY DEF RPoplpush
  <1>3. PICK L \in Nat, R \in Nat, s \in Seq(Values) :
          /\ window[src] = [left |-> L, right |-> R] /\ L + 1 < R
          /\ First(src) = L + 1 /\ Last(src) = R - 1
          /\ L \in Members /\ R \in Members /\ L + 1 .. R - 1 \subseteq Members
          /\ s = Elements(src) /\ s # <<>> /\ Len(s) = R - 1 - L
          /\ \A i \in 1 .. R - 1 - L : s[i] = Node(src, L + i) /\ s[i] \in Values
    BY <1>2, LiveElements
  <1>4. PICK n \in Nat : n = R - 2 - L /\ Len(s) = n + 1
    BY <1>3
  <1>5. v = s[n + 1] /\ v \in Values
    <2>1. n + 1 \in 1 .. R - 1 - L /\ L + (n + 1) = R - 1
      BY <1>4
    <2>2. QED BY <1>1, <1>3, <2>1
  <1>6. Row[src] = s /\ Row[dst] = Elements(dst)
    BY <1>3 DEF Row
  <1>7. CASE src = dst
    <2>1. Update(src, 0, L - 1, R - 1, Only(L, v), {R - 1})
      BY <1>1, <1>3, <1>7 DEF RPoplpush
    <2>2. Only(L, v) \in [{L} -> Values] /\ Only(L, v)[L] = v
      BY <1>5, OnlyIs
    <2>3. R - 1 \in Members /\ L < R - 1
      BY <1>3
    <2>4. (L + 1 .. R - 1 \cup {L}) \ {R - 1} = (L - 1) + 1 .. (R - 1) - 1
      BY <2>3
    <2>5. Shifts(src, 0, L - 1, R - 1, {L}, Only(L, v), {R - 1})
      <3>1. L - 1 < R - 1 /\ 0 = ((R - 1) - (L - 1)) - (R - L)
        BY <2>3
      <3>2. QED BY <1>2, <1>3, <2>1, <2>2, <2>3, <2>4, <3>1 DEF Shifts
    <2>6. PICK t \in Seq(Values) :
            /\ t = <<s[Len(s)]>> \o SubSeq(s, 1, Len(s) - 1) /\ Len(t) = n + 1
            /\ \A i \in 1 .. n + 1 : t[i] = IF i = 1 THEN s[n + 1] ELSE s[i - 1]
      BY <1>4, RotatedIs
    <2>7. Splices(src, L - 1, R - 1, {L}, Only(L, v), t)
      <3>1. PICK l, r : l = L - 1 /\ r = R - 1 /\ r - 1 - l = n + 1
        BY <1>4
      <3>2. ASSUME NEW i \in 1 .. n + 1
            PROVE  t[i] = IF l + i \in {L} THEN Only(L, v)[l + i] ELSE Node(src, l + i)
        <4>1. CASE i = 1
          <5>1. l + i = L
            BY <3>1, <4>1
          <5>2. QED BY <1>5, <2>2, <2>6, <4>1, <5>1
        <4>2. CASE i # 1
          <5>1. l + i \notin {L} /\ i - 1 \in 1 .. R - 1 - L /\ L + (i - 1) = l + i
            BY <1>4, <3>1, <4>2
          <5>2. QED BY <1>3, <2>6, <4>2, <5>1
        <4>3. QED BY <4>1, <4>2
      <3>3. r - 1 - l = n + 1
        BY <3>1
      <3>4. Splices(src, l, r, {L}, Only(L, v), t)
        BY <2>6, <3>2, <3>3 DEF Splices
      <3>5. QED BY <3>1, <3>4
    <2>8. BecomesList(src, t)
      BY <2>5, <2>7, UpdateListed
    <2>9. t # <<>>
      BY <2>6
    <2>10. /\ Row' = [Row EXCEPT ![src] = t]
           /\ Until' = [Until EXCEPT ![src] = @]
           /\ now' = now
      BY <2>8, <2>9 DEF BecomesList
    <2>11. QED BY <1>3, <1>7, <2>6, <2>10 DEF Row, Until, Lists!Move
  <1>8. CASE src # dst
    <2>1. PICK ms, ws, to, at :
            /\ to = ModifyCount(PushMeta(dst), 1) /\ at = PushWindow(dst).left
            /\ ms = [k \in {src, dst} |-> IF k = src THEN ModifyCount(meta[src], -1) ELSE to]
            /\ ws = [k \in {src, dst} |->
                       IF k = src THEN [window[src] EXCEPT !.right = @ - 1]
                                  ELSE [PushWindow(dst) EXCEPT !.left = @ - 1]]
      OBVIOUS
    <2>2. PICK P, puts, dels :
            /\ P = Records(dst, to.version, {at})
            /\ puts = Nodes(dst, to.version, Only(at, v))
            /\ dels = Records(src, meta[src].version, {Last(src)})
      OBVIOUS
    <2>3. Write(ms, ws, puts, dels)
      BY <1>1, <1>8, <2>1, <2>2 DEF RPoplpush
    <2>4. Only(at, v) \in [{at} -> Values] /\ Only(at, v)[at] = v
      BY <1>5, OnlyIs
    <2>5. WritesTo({src, dst}, ms, ws, P, puts, dels)
      <3>1. DOMAIN puts = P
        BY <2>2, <2>4 DEF Nodes
      <3>2. /\ \A rec \in P : rec[1] = dst
            /\ \A rec \in dels : rec[1] = src
        BY <2>2 DEF Records
      <3>3. QED BY <2>1, <2>3, <3>1, <3>2 DEF WritesTo
    <2>6. TakesLast(src, ms, ws, P, dels)
      <3>1. ms[src] = ModifyCount(meta[src], -1) /\ ws[src] = [window[src] EXCEPT !.right = @ - 1]
        BY <2>1
      <3>2. \A rec \in P : rec[1] # src
        BY <1>8, <2>2 DEF Records
      <3>3. \A rec : rec \in dels <=> rec = <<src, meta[src].version, Last(src)>>
        BY <2>2 DEF Records
      <3>4. QED BY <1>2, <3>1, <3>2, <3>3 DEF TakesLast
    <2>7. PutsFirst(dst, v, ms, ws, P, puts, dels)
      <3>1. ms[dst] = to /\ ws[dst] = [PushWindow(dst) EXCEPT !.left = @ - 1]
        BY <1>8, <2>1
      <3>2. ws[dst].left \in Nat
        <4>1. ws[dst] \in Window
          BY <2>1, <2>3 DEF Write
        <4>2. QED BY <4>1, SomeIndices
      <3>3. \A rec : rec[1] = dst => rec \notin dels
        BY <1>8, <2>2 DEF Records
      <3>4. \A rec : rec \in P <=> rec = <<dst, to.version, at>>
        BY <2>2 DEF Records
      <3>5. \A rec \in P : puts[rec] = v
        BY <2>2, <2>4 DEF Records, Nodes
      <3>6. QED BY <1>5, <2>1, <3>1, <3>2, <3>3, <3>4, <3>5 DEF PutsFirst
    <2>8. /\ Elements(src)' = SubSeq(s, 1, Len(s) - 1)
          /\ meta'[src].timestamp = meta[src].timestamp
      BY <1>3, <2>5, <2>6, TakesLastSeen
    <2>9. /\ Elements(dst)' = <<v>> \o Elements(dst)
          /\ meta'[dst].timestamp = IF Elements(dst) = <<>> THEN 0 ELSE meta[dst].timestamp
      BY <2>5, <2>7, PutsFirstSeen
    <2>10. /\ now' = now
           /\ \A k \in Keys \ {src, dst} : meta'[k] = meta[k] /\ Elements(k)' = Elements(k)
      BY <2>5, WriteSeen
    <2>11. Row' = [Row EXCEPT ![src] = SubSeq(s, 1, Len(s) - 1),
                              ![dst] = <<v>> \o Elements(dst)]
      BY <1>8, <2>8, <2>9, <2>10 DEF Row
    <2>12. SubSeq(s, 1, Len(s) - 1) = <<>> <=> Len(s) = 1
      <3>1. \A i \in 1 .. n : s[i] \in Values
        BY <1>4
      <3>2. SubSeq(s, 1, n) \in Seq(Values) /\ Len(SubSeq(s, 1, n)) = n
        BY <3>1, SubSeqProperties
      <3>3. n = Len(s) - 1
        BY <1>4
      <3>4. QED BY <1>4, <3>2, <3>3
    <2>13. <<v>> \o Elements(dst) # <<>>
      <3>1. Elements(dst) \in Seq(Values) /\ <<v>> \in Seq(Values) /\ Len(<<v>>) = 1
        BY <1>5, ElementsAre
      <3>2. Len(<<v>> \o Elements(dst)) = Len(<<v>>) + Len(Elements(dst))
        BY <3>1, ConcatProperties
      <3>3. QED BY <3>1, <3>2
    <2>14. Until' = [Until EXCEPT ![src] = IF Len(s) = 1 THEN 0 ELSE @]
      BY <1>3, <1>8, <2>8, <2>9, <2>10, <2>12, <2>13 DEF Until
    <2>15. s[Len(s)] = v
      BY <1>4, <1>5
    <2>16. QED BY <1>3, <1>8, <2>10, <2>11, <2>14, <2>15 DEF Row, Until, Lists!Move
  <1>9. QED BY <1>7, <1>8

\* LRange reads what its arguments name, and LIndex whatever its argument is.
LEMMA ListsRead ==
  ASSUME ListsInv, raced = {}
  PROVE  ReadsAsPromised
  <1>1. ASSUME NEW k \in Keys, NEW i \in Indexes, NEW j \in Indexes,
               Fits(k, i), Fits(k, j)
        PROVE  LRange(k, i, j) = Lists!Trimmed(Elements(k), i, j)
    <2>1. CASE ~Live(k)
      <3>1. Elements(k) = <<>> /\ LRange(k, i, j) = <<>>
        BY <2>1 DEF Elements, LRange
      <3>2. PICK p \in Int, q \in Int : p = Lists!Place(<<>>, i) /\ q = Lists!Place(<<>>, j)
        <4>1. i \in Int /\ j \in Int
          BY ListsAssumption
        <4>2. QED BY <4>1 DEF Lists!Place
      <3>3. PICK a \in Int, b \in Int : /\ a = IF p < 1 THEN 1 ELSE p
                                      /\ b = IF q > 0 THEN 0 ELSE q
        OBVIOUS
      <3>4. Lists!Trimmed(<<>>, i, j) = SubSeq(<<>>, a, b)
        BY <3>2, <3>3 DEF Lists!Trimmed
      <3>5. a > b
        BY <3>3
      <3>6. SubSeq(<<>>, a, b) = <<>>
        BY <3>5, SubSeqEmpty
      <3>7. QED BY <3>1, <3>4, <3>6
    <2>2. CASE Live(k)
      <3>1. PICK L \in Nat, R \in Nat, s \in Seq(Values) :
              /\ window[k] = [left |-> L, right |-> R] /\ L + 1 < R
              /\ First(k) = L + 1 /\ Last(k) = R - 1
              /\ L \in Members /\ R \in Members /\ L + 1 .. R - 1 \subseteq Members
              /\ s = Elements(k) /\ s # <<>> /\ Len(s) = R - 1 - L
              /\ \A x \in 1 .. R - 1 - L : s[x] = Node(k, L + x) /\ s[x] \in Values
        BY <2>2, LiveElements
      <3>2. PICK a, b : Ranges(k, i, j, L, R, s, a, b)
        <4>1. /\ L \in Members /\ R \in Members /\ L + 1 < R
              /\ window[k] = [left |-> L, right |-> R]
              /\ First(k) = L + 1 /\ Last(k) = R - 1 /\ Len(s) = R - 1 - L
          BY <3>1
        <4>2. QED BY <1>1, <4>1, RangeListed
      <3>3. a \in Int /\ b \in Int /\ 1 <= a /\ b <= R - 1 - L
        BY <3>2 DEF Ranges
      <3>4. PICK found : found = InRange(k, i, j) /\ found = L + a .. L + b
        BY <3>2 DEF Ranges
      <3>5. LRange(k, i, j) =
              [x \in 1 .. Cardinality(found) |-> Node(k, Least(found) + x - 1)]
        BY <2>2, <3>4 DEF LRange
      <3>6. LRange(k, i, j) = SubSeq(s, a, b)
        <4>1. CASE b < a
          <5>1. SubSeq(s, a, b) = <<>>
            BY <3>3, <4>1, SubSeqEmpty
          <5>2. found = {}
            BY <3>3, <3>4, <4>1
          <5>3. Cardinality(found) = 0
            BY <5>2, FS_EmptySet
          <5>4. LRange(k, i, j) = <<>>
            BY <3>5, <5>3
          <5>5. QED BY <5>1, <5>4
        <4>2. CASE a <= b
          <5>1. PICK n \in Nat : n = b - a + 1 /\ n > 0
            BY <3>3, <4>2
          <5>2. Cardinality(found) = n
            <6>1. PICK c \in Int, d \in Int : c = L + a /\ d = L + b /\ c <= d + 1 /\ d - c + 1 = n
              BY <3>3, <5>1
            <6>2. Cardinality(c .. d) = d - c + 1
              BY <6>1, WidthIs
            <6>3. QED BY <3>4, <6>1, <6>2
          <5>3. Least(found) = L + a
            <6>0. /\ L + a .. L + b \in SUBSET (0 .. R)
                  /\ L + a \in L + a .. L + b
              BY <3>3, <4>2
            <6>1. found \in SUBSET (0 .. R) /\ found # {} /\ L + a \in found
              BY <3>4, <6>0
            <6>2. Least(found) \in found /\ \A x \in found : Least(found) <= x
              BY <6>1, EndsAre
            <6>3. PICK e : e = Least(found)
              OBVIOUS
            <6>4. e \in L + a .. L + b /\ e <= L + a
              BY <3>4, <6>1, <6>2, <6>3
            <6>5. QED BY <3>3, <6>3, <6>4
          <5>4. PICK t \in Seq(Values) :
                  t = SubSeq(s, a, b) /\ Len(t) = n /\ \A x \in 1 .. n : t[x] = s[a + x - 1]
            <6>1. \A x \in a .. b : x \in 1 .. R - 1 - L
              BY <3>3
            <6>2. \A x \in a .. b : s[x] \in Values
              BY <3>1, <6>1
            <6>3. a \in Nat /\ b \in Nat
              BY <3>3, <4>2
            <6>4. /\ SubSeq(s, a, b) \in Seq(Values)
                  /\ Len(SubSeq(s, a, b)) = IF a <= b THEN b - a + 1 ELSE 0
                  /\ \A x \in 1 .. b - a + 1 : SubSeq(s, a, b)[x] = s[a + x - 1]
              BY <6>2, <6>3, SubSeqProperties
            <6>5. QED BY <4>2, <5>1, <6>4
          <5>5. ASSUME NEW x \in 1 .. n
                PROVE  Node(k, L + a + x - 1) = t[x]
            <6>1. a + x - 1 \in 1 .. R - 1 - L /\ L + (a + x - 1) = L + a + x - 1
              BY <3>3, <5>1
            <6>2. QED BY <3>1, <5>4, <6>1
          <5>6. LRange(k, i, j) = [x \in 1 .. n |-> Node(k, L + a + x - 1)]
            BY <3>5, <5>2, <5>3
          <5>7. t = [x \in 1 .. n |-> t[x]]
            <6>1. t \in Seq(Values) /\ Len(t) = n
              BY <5>4
            <6>2. QED BY <6>1
          <5>8. LRange(k, i, j) = t
            BY <5>5, <5>6, <5>7, Zenon
          <5>9. QED BY <5>4, <5>8
        <4>3. QED BY <3>3, <4>1, <4>2
      <3>7. QED BY <3>1, <3>2, <3>6 DEF Ranges
    <2>3. QED BY <2>1, <2>2
  <1>2. ASSUME NEW k \in Keys, NEW i \in Indexes, NEW s, s = Elements(k)
        PROVE  LIndex(k, i) = IF Lists!Place(s, i) \in DOMAIN s THEN s[Lists!Place(s, i)]
                                                                ELSE NoValue
    <2>1. CASE ~Live(k)
      <3>1. s = <<>> /\ LIndex(k, i) = NoValue
        BY <1>2, <2>1 DEF Elements, LIndex
      <3>2. QED BY <3>1
    <2>2. CASE Live(k)
      <3>1. PICK L \in Nat, R \in Nat, e \in Seq(Values) :
              /\ window[k] = [left |-> L, right |-> R] /\ L + 1 < R
              /\ First(k) = L + 1 /\ Last(k) = R - 1
              /\ L \in Members /\ R \in Members /\ L + 1 .. R - 1 \subseteq Members
              /\ e = Elements(k) /\ e # <<>> /\ Len(e) = R - 1 - L
              /\ \A x \in 1 .. R - 1 - L : e[x] = Node(k, L + x) /\ e[x] \in Values
        BY <2>2, LiveElements
      <3>2. s = e
        BY <1>2, <3>1
      <3>3. PICK p : p = Lists!Place(s, i)
        OBVIOUS
      <3>4. /\ Position(k, i) \in L + 1 .. R - 1 <=> p \in 1 .. R - 1 - L
            /\ Position(k, i) \in L + 1 .. R - 1 => Position(k, i) = L + p
        <4>1. /\ L \in Members /\ R \in Members /\ L < R
              /\ window[k] = [left |-> L, right |-> R] /\ Len(s) = R - 1 - L
          BY <3>1, <3>2
        <4>2. QED BY <3>3, <4>1, PositionIsPlace
      <3>5. DOMAIN s = 1 .. R - 1 - L
        BY <3>1, <3>2
      <3>6. LIndex(k, i) = IF Position(k, i) \in L + 1 .. R - 1 THEN Node(k, Position(k, i))
                                                                ELSE NoValue
        BY <2>2, <3>1 DEF LIndex
      <3>7. p \in 1 .. R - 1 - L => s[p] = Node(k, L + p)
        BY <3>1, <3>2
      <3>8. QED BY <3>3, <3>4, <3>5, <3>6, <3>7
    <2>3. QED BY <2>1, <2>2
  <1>3. QED BY <1>1, <1>2 DEF ReadsAsPromised

----------------------------------------------------------------------------
(* What the handlers and the reads promise.                                 *)

\* LRange and LIndex read what their arguments name in the sequence a list
\* holds, and LIndex whatever its argument is.
THEOREM ListsReadAsPromised == UnracedSpec => []ReadsAsPromised
  <1>1. ListsInv /\ raced = {} => ReadsAsPromised
    BY ListsRead
  <1>2. QED BY <1>1, ListsInvHolds, PTL

\* Every handler of lists does to the sequence what its command promises: pushes
\* and pops at the ends, LSet, LInsert and LRem whatever the index, pivot or count,
\* and RPoplpush over one list or two; LTrim when its arguments do not wrap.
THEOREM ListsDoAsPromised == UnracedSpec => HandlersDoAsPromised
  <1> DEFINE Does ==
       /\ \A k \in Keys :
            /\ \A vs \in PushArgs : LPush(k, vs) => Lists!PushLeft(k, vs)
            /\ \A v \in Values : /\ LPushx(k, v) => Lists!PushLeft(k, <<v>>)
                                 /\ RPushx(k, v) => Lists!PushRight(k, <<v>>)
            /\ LPop(k) => Lists!PopLeft(k)
            /\ RPop(k) => Lists!PopRight(k)
            /\ \A i \in Indexes, v \in Values : /\ LSet(k, i, v) => Lists!Set(k, i, v)
                                               /\ LRem(k, i, v) => Lists!Remove(k, i, v)
            /\ \A before \in BOOLEAN, pivot, v \in Values :
                 LInsert(k, before, pivot, v) => Lists!Insert(k, before, pivot, v)
            /\ \A start, stop \in Indexes :
                 Fits(k, start) /\ Fits(k, stop) /\ LTrim(k, start, stop)
                   => Lists!Trim(k, start, stop)
       /\ \A src, dst \in Keys : RPoplpush(src, dst) => Lists!Move(src, dst)
  <1>1. ListsInv /\ raced = {} => Does
    <2> SUFFICES ASSUME ListsInv, raced = {}
                 PROVE  Does
      OBVIOUS
    <2>1. ASSUME NEW k \in Keys, NEW vs \in PushArgs, LPush(k, vs)
          PROVE  Lists!PushLeft(k, vs)
      BY <2>1, LPushListed, ListsAssumption
    <2>2. ASSUME NEW k \in Keys, NEW v \in Values, LPushx(k, v)
          PROVE  Lists!PushLeft(k, <<v>>)
      <3>1. <<v>> \in Seq(Values) /\ <<v>> # <<>> /\ LPush(k, <<v>>)
        BY <2>2 DEF LPushx
      <3>2. QED BY <3>1, LPushListed
    <2>3. \A k \in Keys, v \in Values : RPushx(k, v) => Lists!PushRight(k, <<v>>)
      BY RPushxListed
    <2>4. \A k \in Keys : /\ LPop(k) => Lists!PopLeft(k)
                          /\ RPop(k) => Lists!PopRight(k)
      BY LPopListed, RPopListed
    <2>5. \A k \in Keys, i \in Indexes, v \in Values :
            /\ LSet(k, i, v) => Lists!Set(k, i, v)
            /\ LRem(k, i, v) => Lists!Remove(k, i, v)
      BY LSetListed, LRemListed
    <2>6. \A k \in Keys, before \in BOOLEAN, pivot, v \in Values :
            LInsert(k, before, pivot, v) => Lists!Insert(k, before, pivot, v)
      BY LInsertListed
    <2>7. \A k \in Keys, start, stop \in Indexes :
            Fits(k, start) /\ Fits(k, stop) /\ LTrim(k, start, stop)
              => Lists!Trim(k, start, stop)
      BY LTrimListed
    <2>8. \A src, dst \in Keys : RPoplpush(src, dst) => Lists!Move(src, dst)
      BY RPoplpushListed
    <2>9. QED BY <2>1, <2>2, <2>3, <2>4, <2>5, <2>6, <2>7, <2>8
  <1>2. ListsInv /\ raced = {} => [Does]_listsVars
    BY <1>1
  <1>3. QED BY <1>2, ListsInvHolds, PTL DEF HandlersDoAsPromised

----------------------------------------------------------------------------
(* Steps that put no node.                                                  *)

\* A list that is seen after such a step is the one that was seen before.
LEMMA FollowsSeen ==
  ASSUME ListsInv, raced = {}, WindowFollows, data' \subseteq data,
         NEW j \in Keys, FollowsOn(j)
  PROVE  IF Live(j)' THEN Live(j) /\ Elements(j)' = Elements(j) ELSE Elements(j)' = <<>>
  <1>1. CASE ~Live(j)'
    BY <1>1 DEF Elements
  <1>2. CASE Live(j)'
    <2>1. Fresh(j)' /\ meta'[j].count # 0 /\ meta'[j] # NoMeta
      BY <1>2 DEF Live, IsLive, Fresh
    <2>2. /\ Fresh(j) /\ meta[j] # NoMeta
          /\ meta'[j].version = meta[j].version /\ meta'[j].count = meta[j].count
          /\ StoredIn(data', j, meta[j].version) = StoredIn(data, j, meta[j].version)
      BY <2>1 DEF FollowsOn, Fresh
    <2>3. Live(j)
      BY <2>1, <2>2 DEF Live, IsLive, Fresh
    <2>4. /\ window'[j] = window[j]
          /\ value' = [rec \in data' |-> value[rec]]
      BY <2>1, <2>2 DEF WindowFollows
    <2>5. PICK L \in Nat, R \in Nat :
            /\ window[j] = [left |-> L, right |-> R] /\ L + 1 < R
            /\ First(j) = L + 1 /\ Last(j) = R - 1
            /\ L \in Members /\ R \in Members /\ L + 1 .. R - 1 \subseteq Members
            /\ Elements(j) = [i \in 1 .. R - 1 - L |-> Node(j, L + i)]
      BY <2>3, ElementsAre
    <2>6. ASSUME NEW i \in Members
          PROVE  Node(j, i)' = Node(j, i)
      <3>1. PICK rec : rec = <<j, meta[j].version, i>>
        OBVIOUS
      <3>2. rec \in data' <=> rec \in data
        BY <2>2, <2>6, <3>1 DEF StoredIn
      <3>3. rec \in data' => value'[rec] = value[rec]
        BY <2>4
      <3>4. QED BY <2>2, <3>1, <3>2, <3>3 DEF Node
    <2>7. \A i \in 1 .. R - 1 - L : L + i \in Members
      <3>1. \A i \in 1 .. R - 1 - L : L + i \in L + 1 .. R - 1
        OBVIOUS
      <3>2. QED BY <2>5, <3>1
    <2>8. window'[j].left = L /\ Last(j)' = R - 1
      BY <2>4, <2>5 DEF Last
    <2>9. Elements(j)' = [i \in 1 .. R - 1 - L |-> Node(j, L + i)']
      BY <1>2, <2>8 DEF Elements
    <2>10. \A i \in 1 .. R - 1 - L : Node(j, L + i)' = Node(j, L + i)
      BY <2>6, <2>7
    <2>11. Elements(j)' = Elements(j)
      BY <2>5, <2>9, <2>10
    <2>12. QED BY <1>2, <2>3, <2>11
  <1>3. QED BY <1>1, <1>2

\* A new timestamp moves the deadline of a list, or ends it if it is past.
LEMMA RescheduleListed ==
  ASSUME ListsInv, raced = {}, NEW k \in Keys, NEW ts \in Nat,
         Reschedule(k, SetTimestamp(meta[k], ts)),
         \A j \in Keys : IF Live(j)' THEN Live(j) /\ Elements(j)' = Elements(j)
                                     ELSE Elements(j)' = <<>>
  PROVE  Lists!SetDeadline(k) \/ Lists!Clear(k)
  <1>1. /\ meta[k] \in MetaValue /\ meta[k] # NoMeta /\ Live(k)
        /\ now' = now /\ now \in Nat
        /\ meta'[k] = SetTimestamp(meta[k], ts)
        /\ \A i \in Keys \ {k} : meta'[i] = meta[i]
    BY LiveFacts DEF Reschedule, ListsInv, StoreInv, StoreTypeOK
  <1>2. /\ meta'[k].timestamp = ts
        /\ meta'[k].count = meta[k].count /\ meta'[k] # NoMeta
    BY <1>1, NoMetaAssumption DEF SetTimestamp, MetaValue
  <1>3. \A j \in Keys : Live(j) <=> Elements(j) # <<>>
    BY ElementsAre
  <1>4. ASSUME NEW j \in Keys \ {k}
        PROVE  meta'[j] = meta[j] /\ Elements(j)' = Elements(j)
    <2>1. Live(j)' <=> Live(j)
      BY <1>1 DEF Live
    <2>2. QED BY <1>1, <1>3, <2>1
  <1>5. CASE ts = 0 \/ ts >= now
    <2>1. Live(k)'
      BY <1>1, <1>2, <1>5 DEF Live, IsLive, IsStale
    <2>2. Elements(k)' = Elements(k)
      BY <2>1
    <2>3. Row' = Row
      BY <1>4, <2>2 DEF Row
    <2>4. Until'[k] = ts /\ \A j \in Keys \ {k} : Until'[j] = Until[j]
      BY <1>1, <1>2, <1>3, <1>4, <2>2 DEF Until
    <2>5. Until' \in [Keys -> Nat]
      <3>1. \A j \in Keys \ {k} : Until[j] \in Nat
        <4>1. \A j \in Keys : Live(j) => meta[j].timestamp \in Nat
          BY LiveFacts DEF ListsInv, StoreInv, MetaValue
        <4>2. QED BY <1>3, <4>1 DEF Until
      <3>2. \A j \in Keys : Until'[j] \in Nat
        BY <2>4, <3>1
      <3>3. QED BY <3>2 DEF Until
    <2>6. Row[k] # <<>>
      BY <1>1, <1>3 DEF Row
    <2>7. Lists!SetDeadline(k)
      BY <1>1, <1>5, <2>3, <2>4, <2>5, <2>6 DEF Lists!SetDeadline, Row, Until
    <2>8. QED BY <2>7
  <1>6. CASE ~(ts = 0 \/ ts >= now)
    <2>1. ~Live(k)'
      BY <1>1, <1>2, <1>6 DEF Live, IsLive, IsStale
    <2>2. Elements(k)' = <<>>
      BY <2>1
    <2>3. BecomesList(k, <<>>)
      BY <1>1, <1>4, <2>2, BecomeListed
    <2>4. QED BY <2>3 DEF BecomesList, Row, Until, Lists!Clear, Lists!Become
  <1>7. QED BY <1>5, <1>6

\* Expire, Expireat, Persist and Del.
LEMMA KeyHandlerListed ==
  ASSUME ListsInv, raced = {}, NEW k \in Keys, KeyHandler(k), WindowFollows
  PROVE  Lists!SetDeadline(k) \/ Lists!Clear(k)
  <1>1. data' = data /\ \A j \in Keys : FollowsOn(j)
    BY ExpiryFollows DEF ListsInv, KeyHandler
  <1>2. \A j \in Keys : IF Live(j)' THEN Live(j) /\ Elements(j)' = Elements(j)
                                    ELSE Elements(j)' = <<>>
    BY <1>1, FollowsSeen
  <1>3. CASE Renew(k)
    <2>1. /\ now' = now
          /\ meta'[k] = Renewed(k) /\ \A i \in Keys \ {k} : meta'[i] = meta[i]
      BY <1>3 DEF Renew, ListsInv, StoreInv, StoreTypeOK
    <2>2. ~Live(k)'
      BY <2>1, RenewedMeta DEF Live, IsLive, ListsInv, StoreInv
    <2>3. ASSUME NEW j \in Keys \ {k}
          PROVE  meta'[j] = meta[j] /\ Elements(j)' = Elements(j)
      <3>1. Live(j)' <=> Live(j)
        BY <2>1 DEF Live
      <3>2. Live(j) <=> Elements(j) # <<>>
        BY ElementsAre
      <3>3. QED BY <1>2, <2>1, <3>1, <3>2
    <2>4. BecomesList(k, <<>>)
      BY <1>2, <2>1, <2>2, <2>3, BecomeListed
    <2>5. QED BY <2>4 DEF BecomesList, Row, Until, Lists!Clear, Lists!Become
  <1>4. \A ttl \in Ttls : ttl > 0 => /\ now + ttl \in Nat
                          /\ SetRelativeTimestamp(meta[k], ttl, now)
                               = SetTimestamp(meta[k], now + ttl)
    BY StoreAssumption DEF SetRelativeTimestamp, SetTimestamp, ListsInv, StoreInv, StoreTypeOK
  <1>5. ASSUME NEW ts \in Nat, Reschedule(k, SetTimestamp(meta[k], ts))
        PROVE  Lists!SetDeadline(k) \/ Lists!Clear(k)
    BY <1>2, <1>5, RescheduleListed
  <1>6. CASE \E ttl \in Ttls : Expire(k, ttl)
    <2>1. PICK ttl \in Ttls : Expire(k, ttl)
      BY <1>6
    <2>2. PICK ts : ts = now + ttl
      OBVIOUS
    <2>3. CASE ttl > 0 /\ Reschedule(k, SetRelativeTimestamp(meta[k], ttl, now))
      <3>1. ts \in Nat /\ Reschedule(k, SetTimestamp(meta[k], ts))
        BY <1>4, <2>2, <2>3
      <3>2. QED BY <1>5, <3>1
    <2>4. QED BY <1>3, <2>1, <2>3 DEF Expire
  <1>7. CASE \E ts \in Timestamps : Expireat(k, ts)
    <2>1. PICK ts \in Timestamps : Expireat(k, ts)
      BY <1>7
    <2>2. CASE ts > 0 /\ Reschedule(k, SetTimestamp(meta[k], ts))
      <3>1. ts \in Nat
        BY <2>2, StoreAssumption
      <3>2. QED BY <1>5, <2>2, <3>1
    <2>3. QED BY <1>3, <2>1, <2>2 DEF Expireat
  <1>8. CASE Persist(k)
    BY <1>5, <1>8 DEF Persist
  <1>9. QED BY <1>3, <1>6, <1>7, <1>8 DEF KeyHandler, Del

\* A second passes: a list that outlives its deadline is gone.
LEMMA TickListed ==
  ASSUME ListsInv, raced = {}, Tick,
         \A j \in Keys : IF Live(j)' THEN Live(j) /\ Elements(j)' = Elements(j)
                                     ELSE Elements(j)' = <<>>
  PROVE  Lists!Tick
  <1>1. /\ meta' = meta /\ now \in Nat /\ now' = now + 1
    BY DEF Tick, ListsInv, StoreInv, StoreTypeOK
  <1> DEFINE over(k) == Until[k] # 0 /\ Until[k] < now + 1
  <1>2. ASSUME NEW k \in Keys
        PROVE  /\ Elements(k)' = IF over(k) THEN <<>> ELSE Elements(k)
               /\ Until'[k] = IF over(k) THEN 0 ELSE Until[k]
    <2>1. Live(k) <=> Elements(k) # <<>>
      BY ElementsAre
    <2>2. CASE Live(k)
      <3>1. meta[k].timestamp \in Nat /\ Until[k] = meta[k].timestamp /\ meta[k] # NoMeta
        BY <2>1, <2>2, LiveFacts DEF Until, ListsInv, StoreInv, MetaValue
      <3>2. Live(k)' <=> ~over(k)
        BY <1>1, <2>2, <3>1 DEF Live, IsLive, IsStale
      <3>3. Elements(k)' = IF over(k) THEN <<>> ELSE Elements(k)
        BY <3>2
      <3>4. QED BY <1>1, <2>1, <2>2, <3>1, <3>3 DEF Until
    <2>3. CASE ~Live(k)
      <3>1. Elements(k) = <<>> /\ Until[k] = 0
        BY <2>1, <2>3 DEF Until
      <3>2. Elements(k)' = <<>>
        BY <2>3
      <3>3. QED BY <3>1, <3>2 DEF Until
    <2>4. QED BY <2>2, <2>3
  <1>3. Row' = [k \in Keys |-> IF over(k) THEN <<>> ELSE Row[k]]
    BY <1>2 DEF Row
  <1>4. Until' = [k \in Keys |-> IF over(k) THEN 0 ELSE Until[k]]
    <2>1. Until' = [k \in Keys |-> Until'[k]]
      BY DEF Until
    <2>2. QED BY <1>2, <2>1
  <1>5. QED BY <1>1, <1>3, <1>4 DEF Lists!Tick, Row, Until

\* Compaction is no step of ExpiringLists.
LEMMA MaintenanceListed ==
  ASSUME ListsInv, raced = {}, raced' = {}, Maintenance, WindowFollows
  PROVE  Lists!Tick \/ (Row' = Row /\ Until' = Until /\ now' = now)
  <1>1. data' \subseteq data /\ \A j \in Keys : FollowsOn(j)
    BY MaintenanceFollows DEF ListsInv
  <1>2. \A j \in Keys : IF Live(j)' THEN Live(j) /\ Elements(j)' = Elements(j)
                                    ELSE Elements(j)' = <<>>
    BY <1>1, FollowsSeen
  <1>3. CASE Tick
    BY <1>2, <1>3, TickListed
  <1>4. CASE ~Tick
    <2>1. now' = now /\ \A j \in Keys : Live(j) => meta'[j] = meta[j]
      <3>1. ASSUME NEW k \in Keys, MetaCompact(k)
            PROVE  now' = now /\ \A j \in Keys : Live(j) => meta'[j] = meta[j]
        <4>1. ~Live(k)
          BY <3>1 DEF MetaCompact, MetaFilterDrops, Live, IsLive
        <4>2. QED BY <3>1, <4>1 DEF MetaCompact, ListsInv, StoreInv, StoreTypeOK
      <3>2. QED BY <1>4, <3>1 DEF Maintenance, CompactionStart, FilterRecord, CompactionInstall
    <2>2. ASSUME NEW j \in Keys
          PROVE  /\ Elements(j)' = Elements(j)
                 /\ Elements(j) # <<>> => meta'[j] = meta[j]
      <3>1. Live(j) <=> Elements(j) # <<>>
        BY ElementsAre
      <3>2. Live(j) => Live(j)'
        BY <2>1 DEF Live
      <3>3. QED BY <1>2, <2>1, <3>1, <3>2
    <2>3. QED BY <2>1, <2>2 DEF Row, Until
  <1>5. QED BY <1>3, <1>4

\* Nor is a step that leaves the store alone.
LEMMA StoreKeptListed ==
  ASSUME UNCHANGED <<meta, data, now, window, value>>
  PROVE  Row' = Row /\ Until' = Until /\ now' = now
  <1>1. \A k \in Keys : Elements(k)' = Elements(k)
    BY DEF Elements, Live, First, Last, Node
  <1>2. QED BY <1>1 DEF Row, Until

\* RPush puts its values behind the last element, when it writes.
LEMMA AppendsListed ==
  ASSUME ListsInv, raced = {}, NEW k \in Keys, NEW vs \in Seq(Values), vs # <<>>,
         NEW L \in Nat, NEW R \in Nat, NEW S, NEW f, Appends(k, vs, L, R, S, f)
  PROVE  Lists!PushRight(k, vs)
  <1>1. PICK n \in Nat \ {0} : n = Len(vs)
    OBVIOUS
  <1>2. S = R - n .. R - 1 /\ f \in [S -> Values] /\ f = [i \in S |-> vs[i - (R - n) + 1]]
    BY <1>1 DEF Appends
  <1>3. CASE Live(k)
    <2>1. Shifts(k, n, L, R, S, f, {})
      BY <1>1, <1>3 DEF Appends
    <2>2. PICK l \in Nat, r \in Nat, s \in Seq(Values) :
            /\ window[k] = [left |-> l, right |-> r] /\ l + 1 < r
            /\ First(k) = l + 1 /\ Last(k) = r - 1
            /\ l \in Members /\ r \in Members /\ l + 1 .. r - 1 \subseteq Members
            /\ s = Elements(k) /\ s # <<>> /\ Len(s) = r - 1 - l
            /\ \A i \in 1 .. r - 1 - l : s[i] = Node(k, l + i) /\ s[i] \in Values
      BY <1>3, LiveElements
    <2>3. /\ n = (R - L) - (r - l) /\ (l + 1 .. r - 1 \cup S) \ {} = L + 1 .. R - 1
          /\ L < R
      BY <2>1, <2>2 DEF Shifts
    <2>4. l = L /\ r = R - n
      <3>1. l + 1 \in L + 1 .. R - 1
        <4>1. l + 1 \in l + 1 .. r - 1
          BY <2>2
        <4>2. QED BY <2>3, <4>1
      <3>2. L + 1 \in L + 1 .. R - 1
        BY <2>3, <3>1
      <3>3. L + 1 \in l + 1 .. r - 1 \cup (R - n .. R - 1)
        BY <1>2, <2>3, <3>2
      <3>4. n = (R - L) - (r - l)
        BY <2>3
      <3>5. R - n = L + (r - l)
        BY <3>4
      <3>6. L + 1 \notin R - n .. R - 1
        <4>1. l + 1 < r
          BY <2>2
        <4>2. R - n > L + 1
          BY <3>5, <4>1
        <4>3. QED BY <4>2
      <3>7. L <= l /\ l <= L
        BY <3>1, <3>3, <3>6
      <3>8. QED BY <3>5, <3>7
    <2>5. PICK t \in Seq(Values) :
            /\ t = s \o vs /\ Len(t) = (r - 1 - l) + n
            /\ \A i \in 1 .. (r - 1 - l) + n :
                 t[i] = IF i <= r - 1 - l THEN s[i] ELSE vs[i - (r - 1 - l)]
      <3>1. /\ s \o vs \in Seq(Values) /\ Len(s \o vs) = Len(s) + Len(vs)
            /\ \A i \in 1 .. Len(s) + Len(vs) :
                 (s \o vs)[i] = IF i <= Len(s) THEN s[i] ELSE vs[i - Len(s)]
        BY ConcatProperties
      <3>2. Len(vs) = n /\ Len(s) = r - 1 - l
        BY <1>1, <2>2
      <3>3. QED BY <3>1, <3>2
    <2>6. (r - 1 - l) + n = R - 1 - L
      BY <2>4
    <2>7. ASSUME NEW i \in 1 .. R - 1 - L
          PROVE  t[i] = IF L + i \in S THEN f[L + i] ELSE Node(k, L + i)
      <3>1. L + i \in S <=> i > r - 1 - l
        <4>1. S = r .. R - 1 /\ L = l /\ r \in Nat
          BY <1>2, <2>4
        <4>2. QED BY <4>1
      <3>2. CASE i > r - 1 - l
        <4>1. f[L + i] = vs[(L + i) - (R - n) + 1]
          BY <1>2, <3>1, <3>2
        <4>2. (L + i) - (R - n) + 1 = i - (r - 1 - l)
          BY <2>2, <2>4
        <4>3. t[i] = vs[i - (r - 1 - l)]
          <5>1. i \in 1 .. (r - 1 - l) + n /\ ~(i <= r - 1 - l)
            BY <2>6, <3>2
          <5>2. QED BY <2>5, <5>1
        <4>4. QED BY <3>1, <3>2, <4>1, <4>2, <4>3
      <3>3. CASE i <= r - 1 - l
        <4>1. t[i] = s[i] /\ s[i] = Node(k, l + i)
          BY <2>2, <2>5, <2>6, <3>3
        <4>2. QED BY <2>2, <2>4, <3>1, <3>3, <4>1
      <3>4. QED BY <2>2, <3>2, <3>3
    <2>8. Splices(k, L, R, S, f, t)
      BY <2>5, <2>6, <2>7 DEF Splices
    <2>9. BecomesList(k, t)
      BY <2>1, <2>8, UpdateListed
    <2>10. Row[k] \o vs = t
      BY <2>2, <2>5 DEF Row
    <2>11. QED BY <2>9, <2>10 DEF BecomesList, Row, Until, Lists!PushRight, Lists!Become
  <1>4. CASE ~Live(k)
    <2>1. PICK m, w : /\ m.timestamp = 0 /\ w = [left |-> L, right |-> R]
                      /\ StartsAnew(k, m, w, S, f, {})
                      /\ R = L + 1 + n
      BY <1>1, <1>4 DEF Appends
    <2>2. w.left = L /\ w.right = R /\ R - 1 - L = n /\ R - n = L + 1 /\ ~IsStale(m, now)
      BY <2>1 DEF IsStale
    <2>3. /\ now' = now /\ meta'[k] = m
          /\ Elements(k)' = [i \in 1 .. w.right - 1 - w.left |-> f[w.left + i]]
          /\ \A j \in Keys \ {k} : meta'[j] = meta[j] /\ Elements(j)' = Elements(j)
      <3>1. StartsAnew(k, m, w, S, f, {}) /\ ~IsStale(m, now)
        BY <2>1, <2>2
      <3>2. QED BY <3>1, AnewSeen
    <2>4. ASSUME NEW i \in 1 .. n
          PROVE  f[L + i] = vs[i]
      <3>1. L + i \in L + 1 .. R - 1 /\ (L + i) - (L + 1) + 1 = i
        BY <2>2
      <3>2. L + i \in S /\ (L + i) - (R - n) + 1 = i
        BY <1>2, <2>2, <3>1
      <3>3. QED BY <1>2, <3>2
    <2>5. Elements(k)' = [i \in 1 .. n |-> f[L + i]]
      BY <2>2, <2>3
    <2>6. vs = [i \in 1 .. n |-> vs[i]]
      BY <1>1
    <2>7. Elements(k)' = vs
      BY <2>4, <2>5, <2>6
    <2>8. Elements(k) = <<>>
      BY <1>4 DEF Elements
    <2>9. BecomesList(k, vs)
      BY <2>1, <2>3, <2>7, <2>8, BecomeListed
    <2>10. Row[k] \o vs = vs
      BY <2>8 DEF Row
    <2>11. QED BY <2>9, <2>10 DEF BecomesList, Row, Until, Lists!PushRight, Lists!Become
  <1>5. QED BY <1>3, <1>4

\* A push that comes too late is not seen.
LEMMA LapsesListed ==
  ASSUME NEW k \in Keys, NEW m, NEW w, NEW S, NEW f, Lapses(k, m, w, S, f)
  PROVE  Row' = Row /\ Until' = Until /\ now' = now
  <1>0. /\ ~Live(k) /\ IsStale(m, now) /\ f \in [S -> Values]
        /\ Write(Only(k, m), Only(k, w), Nodes(k, m.version, f), {})
    BY DEF Lapses
  <1>1. PICK ms, ws, puts, P : /\ ms = Only(k, m) /\ ws = Only(k, w)
                               /\ puts = Nodes(k, m.version, f)
                               /\ P = Records(k, m.version, S)
    OBVIOUS
  <1>2. WritesTo({k}, ms, ws, P, puts, {})
    <2>1. DOMAIN puts = P
      BY <1>0, <1>1 DEF Nodes
    <2>2. QED BY <1>0, <1>1, <2>1 DEF WritesTo, Only, Records
  <1>3. /\ now' = now
        /\ Live(k)' <=> IsLive(m, now)
        /\ \A j \in Keys \ {k} : meta'[j] = meta[j] /\ Elements(j)' = Elements(j)
    BY <1>1, <1>2, WriteSeen DEF Only
  <1>4. Elements(k) = <<>> /\ Elements(k)' = <<>>
    BY <1>0, <1>3 DEF Elements, IsLive
  <1>5. QED BY <1>3, <1>4 DEF Row, Until

----------------------------------------------------------------------------
(* Refinement.                                                              *)

\* A handler of one list is a step of the map of sequences.
LEMMA HandlerListed ==
  ASSUME ListsInv, raced = {}, NEW k \in Keys, Handler(k)
  PROVE  Lists!Next
  <1>1. ASSUME NEW vs \in PushArgs, LPush(k, vs)
        PROVE  Lists!Next
    <2>1. Lists!PushLeft(k, vs)
      BY <1>1, LPushListed, ListsAssumption
    <2>2. QED BY <2>1 DEF Lists!Next
  <1>2. ASSUME NEW v \in Values, LPushx(k, v) \/ RPushx(k, v)
        PROVE  Lists!Next
    <2>1. <<v>> \in Seq(Values) /\ <<v>> # <<>>
      OBVIOUS
    <2>2. Lists!PushLeft(k, <<v>>) \/ Lists!PushRight(k, <<v>>)
      BY <1>2, <2>1, LPushListed, RPushxListed DEF LPushx
    <2>3. <<v>> \in PushArgs \cup {<<x>> : x \in Values}
      OBVIOUS
    <2>4. QED BY <2>2, <2>3 DEF Lists!Next
  <1>3. CASE LPop(k) \/ RPop(k)
    BY <1>3, LPopListed, RPopListed DEF Lists!Next
  <1>4. ASSUME NEW i \in Indexes, NEW v \in Values, LSet(k, i, v) \/ LRem(k, i, v)
        PROVE  Lists!Next
    <2>1. Lists!Set(k, i, v) \/ Lists!Remove(k, i, v)
      BY <1>4, LSetListed, LRemListed
    <2>2. QED BY <2>1 DEF Lists!Next
  <1>5. ASSUME NEW before \in BOOLEAN, NEW pivot \in Values, NEW v \in Values,
               LInsert(k, before, pivot, v)
        PROVE  Lists!Next
    <2>1. Lists!Insert(k, before, pivot, v)
      BY <1>5, LInsertListed
    <2>2. QED BY <2>1 DEF Lists!Next
  <1>6. ASSUME NEW start \in Indexes, NEW stop \in Indexes, LTrim(k, start, stop)
        PROVE  Lists!Next
    <2>1. \/ Lists!Clear(k)
          \/ \E i, j \in DOMAIN Elements(k) : Lists!Trim(k, i - 1, j - 1)
      BY <1>6, LTrimRun
    <2>2. Row[k] = Elements(k)
      BY DEF Row
    <2>3. QED BY <2>1, <2>2 DEF Lists!Next, Row
  <1>7. CASE KeyHandler(k) /\ WindowFollows
    BY <1>7, KeyHandlerListed DEF Lists!Next
  <1>8. QED BY <1>1, <1>2, <1>3, <1>4, <1>5, <1>6, <1>7 DEF Handler

\* RPush is one, when it writes, if it finds its list.
LEMMA RPushWriteListed ==
  ASSUME ListsInv, raced = {}, RPushWrite
  PROVE  Lists!Next \/ (Row' = Row /\ Until' = Until /\ now' = now)
  <1>1. PICK k \in Keys, vs \in PushArgs :
           \/ \E L, R \in Nat : \E S, f : Appends(k, vs, L, R, S, f)
           \/ \E m, w, S, f : Lapses(k, m, w, S, f)
    BY RPushAppends
  <1>2. vs \in Seq(Values) /\ vs # <<>>
    BY ListsAssumption
  <1>3. ASSUME NEW L \in Nat, NEW R \in Nat, NEW S, NEW f, Appends(k, vs, L, R, S, f)
        PROVE  Lists!Next
    <2>1. Lists!PushRight(k, vs)
      BY <1>2, <1>3, AppendsListed
    <2>2. QED BY <2>1 DEF Lists!Next
  <1>4. ASSUME NEW m, NEW w, NEW S, NEW f, Lapses(k, m, w, S, f)
        PROVE  Row' = Row /\ Until' = Until /\ now' = now
    BY <1>4, LapsesListed
  <1>5. QED BY <1>1, <1>3, <1>4

\* A reader cannot tell RedisLists from a map of sequences that expire, so long as
\* pushes at the tail exclude the other handlers of their key between their two
\* steps and no TTL is lifted or prolonged while a filter remembers the old one.
THEOREM ListsKeepPromise == UnracedSpec => KeepsListPromise
  <1> DEFINE Inv == ListsInv /\ raced = {}
  <1> DEFINE Step == (Locked(Keys \ {pending.key}) \/ Others) /\ raced' = {}
  <1>1. ListsInit => Inv
    BY InitInv
  <1>2. Inv /\ [Step]_listsVars => Inv'
    BY NextInv, ListsStutterInv DEF listsVars
  <1>3. ListsInit => Lists!Init
    BY DEF ListsInit, StoreInit, Lists!Init, Elements, Live, IsLive
  <1>4. Inv /\ [Step]_listsVars => [Lists!Next]_Lists!lists
    <2> SUFFICES ASSUME Inv, [Step]_listsVars
                 PROVE  Lists!Next \/ UNCHANGED Lists!lists
      OBVIOUS
    <2>1. CASE Row' = Row /\ Until' = Until /\ now' = now
      BY <2>1 DEF Lists!lists, Row, Until
    <2>2. ASSUME NEW k \in Keys, Handler(k)
          PROVE  Lists!Next
      BY <2>2, HandlerListed
    <2>3. ASSUME NEW src \in Keys, NEW dst \in Keys, RPoplpush(src, dst)
          PROVE  Lists!Next
      <3>1. Lists!Move(src, dst)
        BY <2>3, RPoplpushListed
      <3>2. QED BY <3>1 DEF Lists!Next
    <2>4. CASE RPushWrite
      BY <2>1, <2>4, RPushWriteListed
    <2>5. CASE Maintenance /\ WindowFollows /\ raced' = {}
      <3>1. CASE Lists!Tick
        BY <3>1 DEF Lists!Next
      <3>2. QED BY <2>1, <2>5, <3>1, MaintenanceListed
    <2>6. CASE UNCHANGED <<meta, data, now, window, value>>
      BY <2>1, <2>6, StoreKeptListed
    <2>7. QED BY <2>2, <2>3, <2>4, <2>5, <2>6
              DEF Locked, Others, RPushRead, ListsReopen, listsVars, storeVars
  <1>5. QED BY <1>1, <1>2, <1>3, <1>4, PTL DEF UnracedSpec, KeepsListPromise, Lists!Spec
=============================================================================
