------------------------ MODULE CollectionStoreProofs ------------------------
(***************************************************************************)
(* StoreInv is kept by every step of CollectionStore: each write a handler  *)
(* of RedisHashes or RedisSets is made of, the clock, and compaction.  The  *)
(* modules that compose those handlers cite the lemmas of the last section. *)
(***************************************************************************)
EXTENDS CollectionStore, TLAPS, FiniteSetTheorems

----------------------------------------------------------------------------
(* The operators.                                                           *)

\* UpdateVersion moves past the old version and reaches the clock.
LEMMA NextVersionAhead ==
  ASSUME NEW version \in Nat, NEW t \in Nat \ {0}
  PROVE  /\ NextVersion(version, t) \in Nat
         /\ NextVersion(version, t) > version
         /\ NextVersion(version, t) >= t
  BY DEF NextVersion

\* InitialMetaValue and FreshMetaValue: an empty, unexpiring incarnation whose
\* version is past the old one and not behind the clock.
LEMMA RenewedMeta ==
  ASSUME StoreTypeOK, NEW k \in Keys
  PROVE  /\ Renewed(k) \in MetaValue
         /\ Renewed(k).count = 0
         /\ Renewed(k).timestamp = 0
         /\ Renewed(k).version >= now
         /\ meta[k] # NoMeta => Renewed(k).version > meta[k].version
  <1>1. CASE meta[k] = NoMeta
    <2>1. Renewed(k) = [count |-> 0, version |-> NextVersion(0, now), timestamp |-> 0]
      BY <1>1 DEF Renewed, FreshMetaValue, UpdateVersion
    <2>2. QED BY <1>1, <2>1, NextVersionAhead DEF StoreTypeOK, MetaValue
  <1>2. CASE meta[k] # NoMeta
    <2>1. meta[k] \in MetaValue
      BY <1>2 DEF StoreTypeOK
    <2>2. Renewed(k) = [count |-> 0, version |-> NextVersion(meta[k].version, now),
                        timestamp |-> 0]
      BY <1>2, <2>1 DEF Renewed, InitialMetaValue, UpdateVersion, MetaValue
    <2>3. QED BY <2>1, <2>2, NextVersionAhead DEF StoreTypeOK, MetaValue
  <1>3. QED BY <1>1, <1>2

\* The version a renewal picks is past every record of the key.
LEMMA RenewedUnused ==
  ASSUME StoreTypeOK, VersionsBehindMeta, NEW k \in Keys
  PROVE  /\ \A rec \in data : rec[1] = k => rec[2] < Renewed(k).version
         /\ Stored(k, Renewed(k).version) = {}
  <1>1. \A rec \in data : rec[1] = k => rec[2] < Renewed(k).version
    <2> SUFFICES ASSUME NEW rec \in data, rec[1] = k
                 PROVE  rec[2] < Renewed(k).version
      OBVIOUS
    <2>1. rec[2] \in Nat /\ now \in Nat
      BY DEF StoreTypeOK, DataKey
    <2>2. Renewed(k).version \in Nat
      BY RenewedMeta DEF MetaValue
    <2>3. CASE meta[k] = NoMeta
      BY <2>1, <2>2, <2>3, RenewedMeta DEF VersionsBehindMeta
    <2>4. CASE meta[k] # NoMeta
      <3>1. meta[k].version \in Nat
        BY <2>4 DEF StoreTypeOK, MetaValue
      <3>2. QED BY <2>1, <2>2, <2>4, <3>1, RenewedMeta DEF VersionsBehindMeta
    <2>5. QED BY <2>3, <2>4
  <1>2. Renewed(k).version \in Nat
    BY RenewedMeta DEF MetaValue
  <1>3. \A m \in Members : <<k, Renewed(k).version, m>> \notin data
    <2> SUFFICES ASSUME NEW m \in Members, <<k, Renewed(k).version, m>> \in data
                 PROVE  FALSE
      OBVIOUS
    <2>1. Renewed(k).version < Renewed(k).version
      BY <1>1
    <2>2. QED BY <1>2, <2>1
  <1>4. QED BY <1>1, <1>3 DEF Stored

\* What is stored under a key and a version is a finite set of members.
LEMMA StoredFinite ==
  ASSUME NEW k, NEW version
  PROVE  /\ Stored(k, version) \subseteq Members
         /\ IsFiniteSet(Stored(k, version))
  <1>1. Stored(k, version) \subseteq Members
    BY DEF Stored
  <1>2. QED BY <1>1, FS_Subset, StoreAssumption

\* Cardinality of a union, with the second set's new part counted alone.
LEMMA GrowsByNew ==
  ASSUME NEW A \in SUBSET Members, NEW S \in SUBSET Members
  PROVE  /\ Cardinality(A) \in Nat /\ Cardinality(S) \in Nat
         /\ Cardinality(S \ A) \in Nat
         /\ Cardinality(A \cup S) = Cardinality(A) + Cardinality(S \ A)
  <1>1. IsFiniteSet(A) /\ IsFiniteSet(S) /\ IsFiniteSet(S \ A)
    BY FS_Subset, StoreAssumption
  <1>2. A \cup S = A \cup (S \ A) /\ A \cap (S \ A) = {}
    OBVIOUS
  <1>3. Cardinality(A \cup (S \ A)) =
          Cardinality(A) + Cardinality(S \ A) - Cardinality(A \cap (S \ A))
    BY <1>1, FS_Union
  <1>4. Cardinality(A \cap (S \ A)) = 0
    BY <1>2, FS_EmptySet
  <1>5. Cardinality(A) \in Nat /\ Cardinality(S) \in Nat /\ Cardinality(S \ A) \in Nat
    BY <1>1, FS_CardinalityType
  <1>6. Cardinality(A \cup S) = Cardinality(A \cup (S \ A))
    BY <1>2
  <1>7. QED BY <1>3, <1>4, <1>5, <1>6

\* Cardinality of what is left when held members are taken away.
LEMMA ShrinksByHeld ==
  ASSUME NEW A \in SUBSET Members, NEW S \in SUBSET A
  PROVE  /\ Cardinality(A) \in Nat /\ Cardinality(S) \in Nat
         /\ Cardinality(A \ S) = Cardinality(A) - Cardinality(S)
  <1>1. IsFiniteSet(A) /\ IsFiniteSet(S) /\ IsFiniteSet(A \ S)
    BY FS_Subset, StoreAssumption
  <1>2. A = (A \ S) \cup S /\ (A \ S) \cap S = {}
    OBVIOUS
  <1>3. Cardinality((A \ S) \cup S) =
          Cardinality(A \ S) + Cardinality(S) - Cardinality((A \ S) \cap S)
    BY <1>1, FS_Union
  <1>4. Cardinality((A \ S) \cap S) = 0
    BY <1>2, FS_EmptySet
  <1>5. /\ Cardinality(A) \in Nat /\ Cardinality(S) \in Nat
        /\ Cardinality(A \ S) \in Nat
    BY <1>1, FS_CardinalityType
  <1>6. Cardinality(A) = Cardinality((A \ S) \cup S)
    BY <1>2
  <1>7. QED BY <1>3, <1>4, <1>5, <1>6

----------------------------------------------------------------------------
(* What a write does to what is stored.                                     *)

\* Stored, of any value of the data column family.
StoredIn(D, k, version) == {m \in Members : <<k, version, m>> \in D}

\* The records a write puts or deletes are well typed and of one version.
LEMMA RecordsType ==
  ASSUME NEW k \in Keys, NEW v \in Nat, NEW S \in SUBSET Members
  PROVE  /\ Records(k, v, S) \in SUBSET DataKey
         /\ \A rec \in Records(k, v, S) : rec[1] = k /\ rec[2] = v
  BY DEF Records, DataKey

\* A live key has a meta value that has not run out.
LEMMA LiveFacts ==
  ASSUME StoreTypeOK, NEW k \in Keys, Live(k)
  PROVE  /\ meta[k] \in MetaValue /\ meta[k] # NoMeta
         /\ Fresh(k)
         /\ meta[k].version \in Nat /\ meta[k].timestamp \in Nat
         /\ meta[k].count \in Int
  BY DEF StoreTypeOK, Live, IsLive, Fresh, MetaValue

----------------------------------------------------------------------------
(* The parts of StoreInv that speak of the filter, under the two ways a      *)
(* handler rewrites a meta value.                                           *)

\* The filter only lost records of its input and of those it dropped.
FilterOnlyShrinks ==
  /\ filter' \in Filter
  /\ filter'.todo \subseteq filter.todo
  /\ filter'.doomed \subseteq filter.doomed
  /\ filter'.key = filter.key
  /\ filter'.meta = filter.meta

\* A put or a delete takes its records out of the filter's hands.
LEMMA ShadowShrinks ==
  ASSUME StoreTypeOK, NEW recs, Shadow(recs)
  PROVE  /\ FilterOnlyShrinks
         /\ filter'.todo = filter.todo \ recs
         /\ filter'.doomed = filter.doomed \ recs
  BY DEF StoreTypeOK, Filter, Shadow, FilterOnlyShrinks

\* A step that leaves the filter alone loses nothing of it.
LEMMA UnchangedShrinks ==
  ASSUME StoreTypeOK, UNCHANGED filter
  PROVE  FilterOnlyShrinks
  BY DEF StoreTypeOK, FilterOnlyShrinks

\* No record of k, its meta value or a filter's memory of it has reached v.
Unreached(k, v) ==
  /\ \A rec \in data : rec[1] = k => rec[2] < v
  /\ meta[k] # NoMeta => meta[k].version < v
  /\ filter.key = k /\ filter.meta # NoMeta => filter.meta.version < v

\* A renewed meta value has such a version.
LEMMA RenewedUnreached ==
  ASSUME StoreInv, NEW k \in Keys
  PROVE  Unreached(k, Renewed(k).version)
  <1>1. \A rec \in data : rec[1] = k => rec[2] < Renewed(k).version
    BY RenewedUnused DEF StoreInv
  <1>2. meta[k] # NoMeta => /\ meta[k].version \in Nat
                            /\ meta[k].version < Renewed(k).version
    BY RenewedMeta DEF MetaValue, StoreInv, StoreTypeOK
  <1>3. /\ Renewed(k).version \in Nat /\ now \in Nat /\ Renewed(k).version >= now
        /\ filter.meta # NoMeta => filter.meta.version \in Nat
    BY RenewedMeta DEF MetaValue, StoreInv, StoreTypeOK, Filter
  <1>4. k # NoKey
    BY StoreAssumption
  <1>5. filter.key = k /\ filter.meta # NoMeta => filter.meta.version < Renewed(k).version
    BY <1>2, <1>3, <1>4 DEF StoreInv, MemoryStaysSafe
  <1>6. QED BY <1>1, <1>2, <1>5 DEF Unreached

\* A key keeps its incarnation and deadline.
Stays(j) ==
  /\ meta'[j] = NoMeta <=> meta[j] = NoMeta
  /\ meta[j] # NoMeta => /\ meta'[j].version = meta[j].version
                         /\ meta'[j].timestamp = meta[j].timestamp
  /\ j \in raced' <=> j \in raced

\* A key starts an incarnation of a version nothing has reached.
Begins(j) == meta'[j] # NoMeta /\ meta'[j].version \in Nat /\ Unreached(j, meta'[j].version)

\* What the filter remembers and has dropped stays true of keys that do either.
LEMMA StaysOrBegins ==
  ASSUME StoreInv, now' = now, FilterOnlyShrinks, \A j \in Keys : Stays(j) \/ Begins(j)
  PROVE  DoomedAreDead' /\ AbsenceStaysTrue' /\ MemoryStaysSafe'
  <1>1. \A rec \in filter.todo \cup filter.doomed :
          rec \in data /\ rec[1] \in Keys /\ rec[2] \in Nat
    BY DEF StoreInv, FilterWorksOnData, StoreTypeOK, Filter, DataKey
  <1>2. \A j \in Keys : Stays(j) => (Fresh(j)' <=> Fresh(j))
    BY DEF Stays, Fresh, IsStale
  <1>3. \A rec \in data : Begins(rec[1]) => rec[2] < meta'[rec[1]].version
    BY DEF Begins, Unreached
  <1>4. DoomedAreDead'
    <2> SUFFICES ASSUME NEW rec \in filter'.doomed, rec[1] \notin raced', Fresh(rec[1])'
                 PROVE  rec[2] # meta'[rec[1]].version
      BY DEF DoomedAreDead
    <2>1. rec \in filter.doomed /\ rec[1] \in Keys /\ rec[2] \in Nat /\ rec \in data
      BY <1>1 DEF FilterOnlyShrinks
    <2>2. CASE Stays(rec[1])
      <3>1. rec[1] \notin raced /\ Fresh(rec[1])
        BY <1>2, <2>1, <2>2 DEF Stays
      <3>2. meta'[rec[1]].version = meta[rec[1]].version
        BY <2>2, <3>1 DEF Stays, Fresh
      <3>3. QED BY <2>1, <3>1, <3>2 DEF StoreInv, DoomedAreDead
    <2>3. CASE Begins(rec[1])
      <3>1. rec[2] < meta'[rec[1]].version /\ meta'[rec[1]].version \in Nat
        BY <1>3, <2>1, <2>3 DEF Begins
      <3>2. QED BY <2>1, <3>1
    <2>4. QED BY <2>1, <2>2, <2>3
  <1>5. AbsenceStaysTrue'
    <2> SUFFICES ASSUME filter'.key # NoKey, filter'.meta = NoMeta,
                        NEW rec \in filter'.todo, rec[1] = filter'.key
                 PROVE  /\ rec[2] < now
                        /\ Fresh(rec[1])' => rec[2] < meta'[rec[1]].version
      BY DEF AbsenceStaysTrue
    <2>1. /\ rec[2] < now
          /\ Fresh(rec[1]) => rec[2] < meta[rec[1]].version
          /\ rec[1] \in Keys /\ rec \in data
      BY <1>1 DEF StoreInv, AbsenceStaysTrue, FilterOnlyShrinks
    <2>2. CASE Stays(rec[1])
      BY <1>2, <2>1, <2>2 DEF Stays, Fresh
    <2>3. CASE Begins(rec[1])
      BY <1>3, <2>1, <2>3
    <2>4. QED BY <2>1, <2>2, <2>3
  <1>6. MemoryStaysSafe'
    <2> SUFFICES ASSUME filter.key # NoKey, filter.meta # NoMeta
                 PROVE  MemoryStaysSafe'
      BY DEF MemoryStaysSafe, FilterOnlyShrinks
    <2>1. filter.key \in Keys /\ filter.meta.version \in Nat
      BY DEF StoreInv, StoreTypeOK, Filter, MetaValue
    <2>2. \A rec \in filter'.todo :
            rec[1] = filter'.key => rec[2] <= filter'.meta.version
      BY DEF StoreInv, MemoryStaysSafe, FilterOnlyShrinks
    <2>3. CASE Stays(filter.key)
      BY <2>2, <2>3 DEF StoreInv, MemoryStaysSafe, FilterOnlyShrinks, Stays
    <2>4. CASE Begins(filter.key)
      BY <2>1, <2>2, <2>4 DEF MemoryStaysSafe, FilterOnlyShrinks, Begins, Unreached
    <2>5. QED BY <2>1, <2>3, <2>4
  <1>7. QED BY <1>4, <1>5, <1>6

\* A meta value whose version and timestamp stay: only the count is rewritten.
LEMMA SameLife ==
  ASSUME StoreInv, NEW k \in Keys, meta[k] # NoMeta, NEW n \in Int,
         meta' = [meta EXCEPT ![k] = ModifyCount(meta[k], n)],
         now' = now, raced' = raced, FilterOnlyShrinks
  PROVE  /\ meta' \in [Keys -> MetaValue \cup {NoMeta}]
         /\ \A j \in Keys :
              /\ meta'[j] = NoMeta <=> meta[j] = NoMeta
              /\ meta[j] # NoMeta => /\ meta'[j].version = meta[j].version
                                     /\ meta'[j].timestamp = meta[j].timestamp
              /\ j # k => meta'[j] = meta[j]
         /\ meta'[k].count = meta[k].count + n
         /\ DoomedAreDead' /\ AbsenceStaysTrue' /\ MemoryStaysSafe'
  <1>1. meta[k] \in MetaValue /\ ModifyCount(meta[k], n) \in MetaValue
    BY DEF StoreInv, StoreTypeOK, MetaValue, ModifyCount
  <1>2. meta' \in [Keys -> MetaValue \cup {NoMeta}]
    BY <1>1 DEF StoreInv, StoreTypeOK
  <1>3. meta'[k] = ModifyCount(meta[k], n) /\ meta'[k] # NoMeta
    BY <1>1, NoMetaAssumption DEF StoreInv, StoreTypeOK
  <1>4. /\ meta'[k].version = meta[k].version
        /\ meta'[k].timestamp = meta[k].timestamp
        /\ meta'[k].count = meta[k].count + n
    BY <1>1, <1>3 DEF ModifyCount, MetaValue
  <1>5. \A j \in Keys : j # k => meta'[j] = meta[j]
    BY DEF StoreInv, StoreTypeOK
  <1>6. \A j \in Keys :
          /\ meta'[j] = NoMeta <=> meta[j] = NoMeta
          /\ meta[j] # NoMeta => /\ meta'[j].version = meta[j].version
                                 /\ meta'[j].timestamp = meta[j].timestamp
    BY <1>3, <1>4, <1>5
  <1>7. \A j \in Keys : Stays(j)
    BY <1>6 DEF Stays
  <1>8. DoomedAreDead' /\ AbsenceStaysTrue' /\ MemoryStaysSafe'
    BY <1>7, StaysOrBegins
  <1>9. QED BY <1>2, <1>4, <1>5, <1>6, <1>8

\* A meta value that starts a new incarnation, under a version nothing has reached.
LEMMA UnreachedLife ==
  ASSUME StoreInv, NEW k \in Keys, NEW m \in MetaValue, Unreached(k, m.version),
         meta' = [meta EXCEPT ![k] = m],
         now' = now, raced' = raced \ {k}, FilterOnlyShrinks
  PROVE  /\ meta' \in [Keys -> MetaValue \cup {NoMeta}]
         /\ meta'[k] = m
         /\ \A j \in Keys \ {k} : meta'[j] = meta[j]
         /\ DoomedAreDead' /\ AbsenceStaysTrue' /\ MemoryStaysSafe'
  <1>1. /\ meta' \in [Keys -> MetaValue \cup {NoMeta}]
        /\ meta'[k] = m /\ m # NoMeta
        /\ \A j \in Keys \ {k} : meta'[j] = meta[j]
    BY NoMetaAssumption DEF StoreInv, StoreTypeOK
  <1>2. \A j \in Keys \ {k} : Stays(j)
    BY <1>1 DEF Stays
  <1>3. Begins(k)
    BY <1>1 DEF Begins, MetaValue
  <1>4. DoomedAreDead' /\ AbsenceStaysTrue' /\ MemoryStaysSafe'
    BY <1>2, <1>3, StaysOrBegins
  <1>5. QED BY <1>1, <1>4

\* A meta value that starts a new incarnation as Renewed does.
LEMMA NewLife ==
  ASSUME StoreInv, NEW k \in Keys, NEW m \in MetaValue,
         m.version = Renewed(k).version,
         meta' = [meta EXCEPT ![k] = m],
         now' = now, raced' = raced \ {k}, FilterOnlyShrinks
  PROVE  /\ meta' \in [Keys -> MetaValue \cup {NoMeta}]
         /\ meta'[k] = m
         /\ \A j \in Keys \ {k} : meta'[j] = meta[j]
         /\ DoomedAreDead' /\ AbsenceStaysTrue' /\ MemoryStaysSafe'
  <1>1. Unreached(k, m.version)
    BY RenewedUnreached
  <1>2. QED BY <1>1, UnreachedLife, Zenon

----------------------------------------------------------------------------
(* Every action keeps StoreInv.                                             *)

\* The members added to a live collection.
LEMMA AddToLiveInv ==
  ASSUME StoreInv, NEW k \in Keys, NEW S \in SUBSET Members, Live(k),
         AddMembers(k, S)
  PROVE  StoreInv'
  <1>0. PICK v \in Nat : v = meta[k].version
    BY LiveFacts DEF StoreInv
  <1> DEFINE held == Stored(k, v)
             R    == Records(k, v, S)
  <1>1. /\ meta[k] \in MetaValue /\ meta[k] # NoMeta /\ Fresh(k)
        /\ held \in SUBSET Members
    BY LiveFacts, StoredFinite DEF StoreInv
  <1>2. PICK n \in Nat : /\ n = Cardinality(S \ held)
                         /\ Cardinality(held \cup S) = Cardinality(held) + n
    BY <1>1, GrowsByNew
  <1>3. ModifyCount(meta[k], n).version = v
    BY <1>0, <1>1 DEF ModifyCount, MetaValue
  <1>4. /\ meta' = [meta EXCEPT ![k] = ModifyCount(meta[k], n)]
        /\ data' = data \cup R
        /\ Shadow(R)
        /\ now' = now /\ raced' = raced
    BY <1>0, <1>2, <1>3 DEF AddMembers
  <1>5. /\ FilterOnlyShrinks
        /\ filter'.todo = filter.todo \ R /\ filter'.doomed = filter.doomed \ R
    BY <1>4, ShadowShrinks DEF StoreInv
  <1>6. /\ meta' \in [Keys -> MetaValue \cup {NoMeta}]
        /\ \A j \in Keys :
             /\ meta'[j] = NoMeta <=> meta[j] = NoMeta
             /\ meta[j] # NoMeta => /\ meta'[j].version = meta[j].version
                                    /\ meta'[j].timestamp = meta[j].timestamp
             /\ j # k => meta'[j] = meta[j]
        /\ meta'[k].count = meta[k].count + n
        /\ DoomedAreDead' /\ AbsenceStaysTrue' /\ MemoryStaysSafe'
    <2>1. n \in Int
      OBVIOUS
    <2>2. QED BY <1>1, <1>4, <1>5, <2>1, SameLife, Zenon
  <1>7. R \in SUBSET DataKey /\ \A rec \in R : rec[1] = k /\ rec[2] = v
    BY <1>1, RecordsType
  <1>8. StoreTypeOK'
    BY <1>4, <1>5, <1>6, <1>7 DEF StoreInv, StoreTypeOK, FilterOnlyShrinks
  <1>9. VersionsBehindMeta'
    <2> SUFFICES ASSUME NEW rec \in data'
                 PROVE  IF meta'[rec[1]] = NoMeta THEN rec[2] < now'
                                                  ELSE rec[2] <= meta'[rec[1]].version
      BY DEF VersionsBehindMeta
    <2>1. CASE rec \in R
      BY <1>0, <1>1, <1>6, <1>7, <2>1
    <2>2. CASE rec \in data
      <3>1. rec[1] \in Keys
        BY <2>2 DEF StoreInv, StoreTypeOK, DataKey
      <3>2. QED BY <1>4, <1>6, <2>2, <3>1 DEF StoreInv, VersionsBehindMeta
    <2>3. QED BY <1>4, <2>1, <2>2
  <1>10. CountsStored'
    <2> SUFFICES ASSUME NEW j \in Keys \ raced, Fresh(j)
                 PROVE  meta'[j].count = Cardinality(StoredIn(data', j, meta'[j].version))
      BY <1>4, <1>6 DEF CountsStored, Stored, StoredIn, Fresh, IsStale
    <2>1. meta[j].count = Cardinality(Stored(j, meta[j].version))
      BY DEF StoreInv, CountsStored
    <2>2. meta'[j].version = meta[j].version
      BY <1>6 DEF Fresh
    <2>3. CASE j = k
      <3>1. StoredIn(data', k, v) = held \cup S
        BY <1>4 DEF Stored, StoredIn, Records
      <3>2. QED BY <1>0, <1>2, <1>6, <2>1, <2>2, <2>3, <3>1
    <2>4. CASE j # k
      <3>1. StoredIn(data', j, meta[j].version) = Stored(j, meta[j].version)
        BY <1>4, <2>4 DEF Stored, StoredIn, Records
      <3>2. QED BY <1>6, <2>1, <2>2, <2>4, <3>1
    <2>5. QED BY <2>3, <2>4
  <1>11. FilterWorksOnData'
    BY <1>4, <1>5 DEF StoreInv, FilterWorksOnData
  <1>12. QED BY <1>6, <1>8, <1>9, <1>10, <1>11 DEF StoreInv

\* A key's collection of the members S, under a version nothing has reached.
LEMMA StartAnewInv ==
  ASSUME StoreInv, NEW k \in Keys, NEW S \in SUBSET Members,
         NEW m \in MetaValue, m.count = Cardinality(S), Unreached(k, m.version),
         meta' = [meta EXCEPT ![k] = m],
         data' = data \cup Records(k, m.version, S), Shadow(Records(k, m.version, S)),
         now' = now, raced' = raced \ {k}
  PROVE  StoreInv'
  <1>1. m.version \in Nat
    BY DEF MetaValue
  <1> DEFINE R == Records(k, m.version, S)
  <1>3. /\ FilterOnlyShrinks
        /\ filter'.todo = filter.todo \ R /\ filter'.doomed = filter.doomed \ R
    BY ShadowShrinks DEF StoreInv
  <1>4. /\ meta' \in [Keys -> MetaValue \cup {NoMeta}]
        /\ meta'[k] = m
        /\ \A j \in Keys \ {k} : meta'[j] = meta[j]
        /\ DoomedAreDead' /\ AbsenceStaysTrue' /\ MemoryStaysSafe'
    BY <1>3, UnreachedLife, Zenon
  <1>5. R \in SUBSET DataKey /\ \A rec \in R : rec[1] = k /\ rec[2] = m.version
    BY <1>1, RecordsType
  <1>6. StoreTypeOK'
    BY <1>3, <1>4, <1>5 DEF StoreInv, StoreTypeOK, FilterOnlyShrinks
  <1>7. VersionsBehindMeta'
    <2> SUFFICES ASSUME NEW rec \in data'
                 PROVE  IF meta'[rec[1]] = NoMeta THEN rec[2] < now'
                                                  ELSE rec[2] <= meta'[rec[1]].version
      BY DEF VersionsBehindMeta
    <2>1. rec[1] \in Keys /\ rec[2] \in Nat
      BY <1>6 DEF StoreTypeOK, DataKey
    <2>2. CASE rec[1] = k
      <3>1. rec \in data => rec[2] < m.version
        BY <2>2 DEF Unreached
      <3>2. rec \in R => rec[2] = m.version
        BY <1>5
      <3>3. QED BY <1>1, <1>4, <2>1, <2>2, <3>1, <3>2, NoMetaAssumption
    <2>3. CASE rec[1] # k
      <3>1. rec \in data
        BY <1>5, <2>3
      <3>2. QED BY <1>4, <2>1, <2>3, <3>1 DEF StoreInv, VersionsBehindMeta
    <2>4. QED BY <2>2, <2>3
  <1>8. CountsStored'
    <2> SUFFICES ASSUME NEW j \in Keys \ raced', Fresh(j)'
                 PROVE  meta'[j].count = Cardinality(StoredIn(data', j, meta'[j].version))
      BY DEF CountsStored, Stored, StoredIn
    <2>1. CASE j = k
      <3>1. Stored(k, m.version) = {}
        BY <1>1 DEF Unreached, Stored
      <3>2. StoredIn(data', k, m.version) = S
        BY <3>1 DEF Stored, StoredIn, Records
      <3>3. QED BY <1>1, <1>4, <2>1, <3>2
    <2>2. CASE j # k
      <3>1. meta'[j] = meta[j] /\ Fresh(j) /\ j \notin raced
        BY <1>4, <2>2 DEF Fresh, IsStale
      <3>2. StoredIn(data', j, meta[j].version) = Stored(j, meta[j].version)
        BY <2>2 DEF Stored, StoredIn, Records
      <3>3. QED BY <3>1, <3>2 DEF StoreInv, CountsStored
    <2>3. QED BY <2>1, <2>2
  <1>9. FilterWorksOnData'
    BY <1>3 DEF StoreInv, FilterWorksOnData
  <1>10. QED BY <1>4, <1>6, <1>7, <1>8, <1>9 DEF StoreInv

\* The members that start a collection anew.
LEMMA AddToVoidInv ==
  ASSUME StoreInv, NEW k \in Keys, NEW S \in SUBSET Members, ~Live(k),
         AddMembers(k, S)
  PROVE  StoreInv'
  <1>1. PICK m \in MetaValue : m = SetCount(Renewed(k), Cardinality(S))
    <2>1. Cardinality(S) \in Int
      BY FS_Subset, FS_CardinalityType, StoreAssumption
    <2>2. SetCount(Renewed(k), Cardinality(S)) \in MetaValue
      BY <2>1, RenewedMeta DEF SetCount, MetaValue, StoreInv
    <2>3. QED BY <2>2
  <1>2. m.version = Renewed(k).version /\ m.count = Cardinality(S)
    BY <1>1, RenewedMeta DEF SetCount, MetaValue, StoreInv
  <1>3. Unreached(k, m.version)
    BY <1>2, RenewedUnreached
  <1>4. /\ meta' = [meta EXCEPT ![k] = m]
        /\ data' = data \cup Records(k, m.version, S)
        /\ Shadow(Records(k, m.version, S))
        /\ now' = now /\ raced' = raced \ {k}
    BY <1>1 DEF AddMembers
  <1>5. QED BY <1>2, <1>3, <1>4, StartAnewInv, Zenon

\* HMSet, HSet, HSetnx, HIncrby, HIncrbyfloat, SAdd.
LEMMA AddMembersInv ==
  ASSUME StoreInv, NEW k \in Keys, NEW S \in SUBSET Members, AddMembers(k, S)
  PROVE  StoreInv'
  <1>1. CASE Live(k)
    BY <1>1, AddToLiveInv
  <1>2. CASE ~Live(k)
    BY <1>2, AddToVoidInv
  <1>3. QED BY <1>1, <1>2

\* HDel, SPop.
LEMMA RemoveMembersInv ==
  ASSUME StoreInv, NEW k \in Keys, NEW S \in SUBSET Members, RemoveMembers(k, S)
  PROVE  StoreInv'
  <1>0. PICK v \in Nat : v = meta[k].version
    BY LiveFacts DEF StoreInv, RemoveMembers
  <1> DEFINE stored == Stored(k, v)
             held   == S \cap stored
             R      == Records(k, v, held)
  <1>1. /\ meta[k] \in MetaValue /\ meta[k] # NoMeta /\ Fresh(k)
        /\ stored \in SUBSET Members /\ held \in SUBSET Members
    BY LiveFacts, StoredFinite DEF StoreInv, RemoveMembers
  <1>2. PICK n \in Int : /\ n = -Cardinality(held)
                         /\ Cardinality(stored \ held) = Cardinality(stored) + n
    BY <1>1, ShrinksByHeld
  <1>4. /\ meta' = [meta EXCEPT ![k] = ModifyCount(meta[k], n)]
        /\ data' = data \ R
        /\ Shadow(R)
        /\ now' = now /\ raced' = raced
    BY <1>0, <1>2 DEF RemoveMembers
  <1>5. /\ FilterOnlyShrinks
        /\ filter'.todo = filter.todo \ R /\ filter'.doomed = filter.doomed \ R
    BY <1>4, ShadowShrinks DEF StoreInv
  <1>6. /\ meta' \in [Keys -> MetaValue \cup {NoMeta}]
        /\ \A j \in Keys :
             /\ meta'[j] = NoMeta <=> meta[j] = NoMeta
             /\ meta[j] # NoMeta => /\ meta'[j].version = meta[j].version
                                    /\ meta'[j].timestamp = meta[j].timestamp
             /\ j # k => meta'[j] = meta[j]
        /\ meta'[k].count = meta[k].count + n
        /\ DoomedAreDead' /\ AbsenceStaysTrue' /\ MemoryStaysSafe'
    BY <1>1, <1>4, <1>5, SameLife, Zenon
  <1>7. StoreTypeOK'
    BY <1>4, <1>5, <1>6 DEF StoreInv, StoreTypeOK, FilterOnlyShrinks
  <1>8. VersionsBehindMeta'
    <2> SUFFICES ASSUME NEW rec \in data'
                 PROVE  IF meta'[rec[1]] = NoMeta THEN rec[2] < now'
                                                  ELSE rec[2] <= meta'[rec[1]].version
      BY DEF VersionsBehindMeta
    <2>1. rec \in data /\ rec[1] \in Keys
      BY <1>4 DEF StoreInv, StoreTypeOK, DataKey
    <2>2. QED BY <1>4, <1>6, <2>1 DEF StoreInv, VersionsBehindMeta
  <1>9. CountsStored'
    <2> SUFFICES ASSUME NEW j \in Keys \ raced, Fresh(j)
                 PROVE  meta'[j].count = Cardinality(StoredIn(data', j, meta'[j].version))
      BY <1>4, <1>6 DEF CountsStored, Stored, StoredIn, Fresh, IsStale
    <2>1. meta[j].count = Cardinality(Stored(j, meta[j].version))
      BY DEF StoreInv, CountsStored
    <2>2. meta'[j].version = meta[j].version
      BY <1>6 DEF Fresh
    <2>3. CASE j = k
      <3>1. StoredIn(data', k, v) = stored \ held
        BY <1>4 DEF Stored, StoredIn, Records
      <3>2. QED BY <1>0, <1>2, <1>6, <2>1, <2>2, <2>3, <3>1
    <2>4. CASE j # k
      <3>1. StoredIn(data', j, meta[j].version) = Stored(j, meta[j].version)
        BY <1>4, <2>4 DEF Stored, StoredIn, Records
      <3>2. QED BY <1>6, <2>1, <2>2, <2>4, <3>1
    <2>5. QED BY <2>3, <2>4
  <1>10. FilterWorksOnData'
    BY <1>4, <1>5 DEF StoreInv, FilterWorksOnData
  <1>11. QED BY <1>6, <1>7, <1>8, <1>9, <1>10 DEF StoreInv

\* A batch on the records of one key, which keeps its incarnation and deadline or
\* begins one that nothing has reached, and counts what it leaves under it.
Batch(k, m, gone, put) ==
  /\ m \in MetaValue
  /\ put \in SUBSET DataKey
  /\ \A rec \in put : rec[1] = k /\ rec[2] = m.version
  /\ \A rec \in gone : rec[1] = k
  /\ meta' = [meta EXCEPT ![k] = m]
  /\ data' = (data \ gone) \cup put
  /\ Shadow(gone \cup put)
  /\ now' = now
  /\ \/ /\ meta[k] # NoMeta
        /\ m.version = meta[k].version /\ m.timestamp = meta[k].timestamp
        /\ raced' = raced
     \/ Unreached(k, m.version) /\ raced' = raced \ {k}
  /\ m.count = Cardinality(StoredIn(data', k, m.version))

\* Such a batch keeps StoreInv.
LEMMA BatchInv ==
  ASSUME StoreInv, NEW k \in Keys, NEW m, NEW gone, NEW put, Batch(k, m, gone, put)
  PROVE  StoreInv'
  <1>1. /\ m \in MetaValue /\ m # NoMeta /\ m.version \in Nat
        /\ put \in SUBSET DataKey
        /\ \A rec \in put : rec[1] = k /\ rec[2] = m.version
        /\ \A rec \in gone : rec[1] = k
        /\ data' = (data \ gone) \cup put /\ now' = now
        /\ raced' \in {raced, raced \ {k}}
        /\ m.count = Cardinality(StoredIn(data', k, m.version))
    BY NoMetaAssumption DEF Batch, MetaValue
  <1>2. /\ meta \in [Keys -> MetaValue \cup {NoMeta}] /\ data \in SUBSET DataKey
        /\ now \in Nat \ {0} /\ raced \in SUBSET Keys
        /\ \A rec \in data : rec[1] \in Keys /\ rec[2] \in Nat
    BY DEF StoreInv, StoreTypeOK, DataKey
  <1>3. /\ FilterOnlyShrinks
        /\ filter'.todo = filter.todo \ (gone \cup put)
        /\ filter'.doomed = filter.doomed \ (gone \cup put)
    BY ShadowShrinks DEF StoreInv, Batch
  <1>4. /\ meta' \in [Keys -> MetaValue \cup {NoMeta}]
        /\ meta'[k] = m
        /\ \A j \in Keys \ {k} : meta'[j] = meta[j] /\ (j \in raced' <=> j \in raced)
    BY <1>1, <1>2 DEF Batch
  <1>5. Stays(k) \/ Begins(k)
    BY <1>1, <1>4 DEF Batch, Stays, Begins
  <1>6. \A j \in Keys : Stays(j) \/ Begins(j)
    BY <1>4, <1>5 DEF Stays
  <1>7. DoomedAreDead' /\ AbsenceStaysTrue' /\ MemoryStaysSafe'
    BY <1>1, <1>3, <1>6, StaysOrBegins
  <1>8. StoreTypeOK'
    BY <1>1, <1>2, <1>3, <1>4 DEF StoreTypeOK, FilterOnlyShrinks
  <1>9. VersionsBehindMeta'
    <2> SUFFICES ASSUME NEW rec \in data'
                 PROVE  IF meta'[rec[1]] = NoMeta THEN rec[2] < now'
                                                  ELSE rec[2] <= meta'[rec[1]].version
      BY DEF VersionsBehindMeta
    <2>1. CASE rec \in put
      BY <1>1, <1>4, <2>1
    <2>2. CASE rec \in data /\ rec[1] = k
      <3>1. rec[2] <= m.version
        BY <1>1, <1>2, <2>2 DEF Batch, Unreached, StoreInv, VersionsBehindMeta
      <3>2. QED BY <1>1, <1>4, <2>2, <3>1
    <2>3. CASE rec \in data /\ rec[1] # k
      BY <1>1, <1>2, <1>4, <2>3 DEF StoreInv, VersionsBehindMeta
    <2>4. QED BY <1>1, <2>1, <2>2, <2>3
  <1>10. CountsStored'
    <2> SUFFICES ASSUME NEW j \in Keys \ raced', Fresh(j)'
                 PROVE  meta'[j].count = Cardinality(StoredIn(data', j, meta'[j].version))
      BY DEF CountsStored, Stored, StoredIn
    <2>1. CASE j = k
      BY <1>1, <1>4, <2>1
    <2>2. CASE j # k
      <3>1. meta'[j] = meta[j] /\ Fresh(j) /\ j \notin raced
        BY <1>1, <1>4, <2>2 DEF Fresh, IsStale
      <3>2. StoredIn(data', j, meta[j].version) = Stored(j, meta[j].version)
        BY <1>1, <2>2 DEF Stored, StoredIn
      <3>3. QED BY <3>1, <3>2 DEF StoreInv, CountsStored
    <2>3. QED BY <2>1, <2>2
  <1>11. FilterWorksOnData'
    BY <1>1, <1>3 DEF StoreInv, FilterWorksOnData
  <1>12. QED BY <1>7, <1>8, <1>9, <1>10, <1>11 DEF StoreInv

\* Del, and Expire and Expireat with an argument that is not positive.
LEMMA RenewInv ==
  ASSUME StoreInv, NEW k \in Keys, Renew(k)
  PROVE  StoreInv'
  <1>0. PICK m \in MetaValue : m = Renewed(k)
    BY RenewedMeta DEF StoreInv
  <1>1. /\ m.version = Renewed(k).version /\ m.timestamp = 0
        /\ m.count = 0 /\ m.version \in Nat /\ m.version >= now
    BY <1>0, RenewedMeta DEF MetaValue, StoreInv
  <1>2. /\ meta' = [meta EXCEPT ![k] = m]
        /\ data' = data /\ filter' = filter
        /\ now' = now /\ raced' = raced \ {k}
    BY <1>0 DEF Renew
  <1>3. FilterOnlyShrinks
    BY <1>2, UnchangedShrinks DEF StoreInv
  <1>4. /\ meta' \in [Keys -> MetaValue \cup {NoMeta}]
        /\ meta'[k] = m
        /\ \A j \in Keys \ {k} : meta'[j] = meta[j]
        /\ DoomedAreDead' /\ AbsenceStaysTrue' /\ MemoryStaysSafe'
    BY <1>1, <1>2, <1>3, NewLife, Zenon
  <1>5. StoreTypeOK'
    BY <1>2, <1>4 DEF StoreInv, StoreTypeOK
  <1>6. VersionsBehindMeta'
    <2> SUFFICES ASSUME NEW rec \in data
                 PROVE  IF meta'[rec[1]] = NoMeta THEN rec[2] < now
                                                  ELSE rec[2] <= meta'[rec[1]].version
      BY <1>2 DEF VersionsBehindMeta
    <2>1. rec[1] \in Keys /\ rec[2] \in Nat
      BY DEF StoreInv, StoreTypeOK, DataKey
    <2>2. CASE rec[1] = k
      <3>1. rec[2] < m.version
        BY <1>1, <2>2, RenewedUnused DEF StoreInv
      <3>2. QED BY <1>1, <1>4, <2>1, <2>2, <3>1, NoMetaAssumption
    <2>3. CASE rec[1] # k
      BY <1>4, <2>1, <2>3 DEF StoreInv, VersionsBehindMeta
    <2>4. QED BY <2>2, <2>3
  <1>7. CountsStored'
    <2> SUFFICES ASSUME NEW j \in Keys \ raced', Fresh(j)'
                 PROVE  meta'[j].count = Cardinality(StoredIn(data, j, meta'[j].version))
      BY <1>2 DEF CountsStored, Stored, StoredIn
    <2>1. CASE j = k
      <3>1. Stored(k, m.version) = {}
        BY <1>1, RenewedUnused DEF StoreInv
      <3>2. QED BY <1>1, <1>4, <2>1, <3>1, FS_EmptySet DEF Stored, StoredIn
    <2>2. CASE j # k
      <3>1. meta'[j] = meta[j] /\ Fresh(j) /\ j \notin raced
        BY <1>2, <1>4, <2>2 DEF Fresh, IsStale
      <3>2. QED BY <3>1 DEF StoreInv, CountsStored, Stored, StoredIn
    <2>3. QED BY <2>1, <2>2
  <1>8. FilterWorksOnData'
    BY <1>2 DEF StoreInv, FilterWorksOnData
  <1>9. QED BY <1>4, <1>5, <1>6, <1>7, <1>8 DEF StoreInv

\* Expire and Expireat with a positive argument, and Persist: only the
\* timestamp changes.  A filter that remembers the old one either has a TTL
\* that runs out no earlier, or the key joins raced.
LEMMA RescheduleInv ==
  ASSUME StoreInv, NEW k \in Keys, NEW ts \in Nat, Reschedule(k, SetTimestamp(meta[k], ts))
  PROVE  StoreInv'
  <1>0. PICK m \in MetaValue : m = SetTimestamp(meta[k], ts)
    BY LiveFacts DEF StoreInv, SetTimestamp, MetaValue, Reschedule
  <1>1. /\ meta[k] \in MetaValue /\ meta[k] # NoMeta /\ Fresh(k)
        /\ m.version = meta[k].version /\ m.count = meta[k].count
        /\ m.timestamp = ts /\ m # NoMeta
    BY <1>0, LiveFacts, NoMetaAssumption DEF StoreInv, SetTimestamp, MetaValue, Reschedule
  <1>2. /\ meta' = [meta EXCEPT ![k] = m]
        /\ data' = data /\ filter' = filter /\ now' = now
        /\ raced' = IF Outlives(k, ts) THEN raced \cup {k} ELSE raced
    BY <1>0, <1>1 DEF Reschedule
  <1>3. /\ meta' \in [Keys -> MetaValue \cup {NoMeta}]
        /\ meta'[k] = m
        /\ \A j \in Keys : j # k => meta'[j] = meta[j]
    BY <1>2 DEF StoreInv, StoreTypeOK
  <1>4. \A j \in Keys : /\ meta'[j] = NoMeta <=> meta[j] = NoMeta
                        /\ meta[j] # NoMeta => /\ meta'[j].version = meta[j].version
                                               /\ meta'[j].count = meta[j].count
                        /\ Fresh(j)' => Fresh(j)
                        /\ j \notin raced' => j \notin raced
    BY <1>1, <1>2, <1>3 DEF Fresh, IsStale
  <1>5. StoreTypeOK'
    BY <1>2, <1>3 DEF StoreInv, StoreTypeOK
  <1>6. \A rec \in data : rec[1] \in Keys
    BY DEF StoreInv, StoreTypeOK, DataKey
  <1>7. VersionsBehindMeta'
    BY <1>2, <1>4, <1>6 DEF StoreInv, VersionsBehindMeta
  <1>8. CountsStored'
    <2> SUFFICES ASSUME NEW j \in Keys \ raced', Fresh(j)'
                 PROVE  meta'[j].count = Cardinality(StoredIn(data, j, meta'[j].version))
      BY <1>2 DEF CountsStored, Stored, StoredIn
    <2>1. Fresh(j) /\ j \notin raced /\ meta[j] # NoMeta
      BY <1>4 DEF Fresh
    <2>2. meta[j].count = Cardinality(StoredIn(data, j, meta[j].version))
      BY <2>1 DEF StoreInv, CountsStored, Stored, StoredIn
    <2>3. QED BY <1>4, <2>1, <2>2
  <1>9. FilterWorksOnData'
    BY <1>2 DEF StoreInv, FilterWorksOnData
  <1>10. DoomedAreDead'
    <2> SUFFICES ASSUME NEW rec \in filter.doomed, rec[1] \notin raced', Fresh(rec[1])'
                 PROVE  rec[2] # meta'[rec[1]].version
      BY <1>2 DEF DoomedAreDead
    <2>1. rec[1] \in Keys
      BY <1>6 DEF StoreInv, FilterWorksOnData
    <2>2. Fresh(rec[1]) /\ rec[1] \notin raced /\ meta[rec[1]] # NoMeta
      BY <1>4, <2>1 DEF Fresh
    <2>3. QED BY <1>4, <2>1, <2>2 DEF StoreInv, DoomedAreDead
  <1>11. filter.key # NoKey => filter.key \in Keys
    BY DEF StoreInv, StoreTypeOK, Filter
  <1>12. AbsenceStaysTrue'
    BY <1>2, <1>4, <1>11 DEF StoreInv, AbsenceStaysTrue
  <1>13. MemoryStaysSafe'
    <2> SUFFICES ASSUME filter.key # NoKey, filter.meta # NoMeta
                 PROVE  MemoryStaysSafe'
      BY <1>2 DEF MemoryStaysSafe
    <2>1. filter.key \in Keys /\ filter.meta.timestamp \in Nat
      BY <1>11 DEF StoreInv, StoreTypeOK, Filter, MetaValue
    <2>2. CASE filter.key = k
      <3>1. /\ filter.key \notin raced' /\ filter.meta.version = m.version
            /\ filter.meta.timestamp # 0
            => m.timestamp # 0 /\ m.timestamp <= filter.meta.timestamp
        BY <1>1, <1>2, <2>1, <2>2 DEF Outlives
      <3>2. QED BY <1>1, <1>2, <1>3, <2>2, <3>1 DEF StoreInv, MemoryStaysSafe
    <2>3. CASE filter.key # k
      <3>1. meta'[filter.key] = meta[filter.key]
            /\ (filter.key \notin raced' => filter.key \notin raced)
        BY <1>3, <1>4, <2>1, <2>3
      <3>2. QED BY <1>2, <3>1 DEF StoreInv, MemoryStaysSafe
    <2>4. QED BY <2>2, <2>3
  <1>14. QED BY <1>5, <1>7, <1>8, <1>9, <1>10, <1>12, <1>13 DEF StoreInv

\* Expire, Expireat, Persist and Del.
LEMMA ExpiryInv ==
  ASSUME StoreInv, NEW k \in Keys,
         \/ \E ttl \in Ttls : Expire(k, ttl)
         \/ \E ts \in Timestamps : Expireat(k, ts)
         \/ Persist(k)
         \/ Del(k)
  PROVE  StoreInv'
  <1>1. CASE Renew(k)
    BY <1>1, RenewInv
  <1>2. ASSUME NEW ttl \in Ttls, ttl > 0,
               Reschedule(k, SetRelativeTimestamp(meta[k], ttl, now))
        PROVE  StoreInv'
    <2>1. now + ttl \in Nat
      BY <1>2, StoreAssumption DEF StoreInv, StoreTypeOK
    <2>2. PICK ts \in Nat : ts = now + ttl
      BY <2>1
    <2>3. Reschedule(k, SetTimestamp(meta[k], ts))
      BY <1>2, <2>2 DEF SetRelativeTimestamp, SetTimestamp
    <2>4. QED BY <2>3, RescheduleInv
  <1>3. ASSUME NEW ts \in Timestamps, ts > 0, Reschedule(k, SetTimestamp(meta[k], ts))
        PROVE  StoreInv'
    <2>1. ts \in Nat
      BY <1>3, StoreAssumption
    <2>2. QED BY <1>3, <2>1, RescheduleInv
  <1>4. CASE Persist(k)
    BY <1>4, RescheduleInv DEF Persist
  <1>5. QED BY <1>1, <1>2, <1>3, <1>4 DEF Expire, Expireat, Del

\* The clock moves: what has run out stays out, and nothing else changes.
LEMMA TickInv ==
  ASSUME StoreInv, Tick
  PROVE  StoreInv'
  <1>1. /\ now \in Nat /\ now' = now + 1
        /\ meta' = meta /\ data' = data /\ filter' = filter /\ raced' = raced
    BY DEF Tick, StoreInv, StoreTypeOK
  <1>2. /\ \A rec \in data : rec[1] \in Keys /\ rec[2] \in Nat
        /\ filter.todo \subseteq data /\ filter.doomed \subseteq data
        /\ filter.key # NoKey => filter.key \in Keys
        /\ filter.meta # NoMeta => filter.meta.version \in Nat
    BY DEF StoreInv, StoreTypeOK, DataKey, FilterWorksOnData, Filter, MetaValue
  <1>3. \A k \in Keys : Fresh(k)' => Fresh(k)
    <2> SUFFICES ASSUME NEW k \in Keys, Fresh(k)'
                 PROVE  Fresh(k)
      OBVIOUS
    <2>1. meta[k] \in MetaValue
      BY <1>1 DEF StoreInv, StoreTypeOK, Fresh
    <2>2. QED BY <1>1, <2>1 DEF Fresh, IsStale, MetaValue
  <1>4. StoreTypeOK'
    BY <1>1 DEF StoreInv, StoreTypeOK
  <1>5. VersionsBehindMeta'
    BY <1>1, <1>2 DEF StoreInv, VersionsBehindMeta
  <1>6. CountsStored'
    <2> SUFFICES ASSUME NEW k \in Keys \ raced, Fresh(k)
                 PROVE  meta[k].count = Cardinality(StoredIn(data, k, meta[k].version))
      BY <1>1, <1>3 DEF CountsStored, Stored, StoredIn
    <2>1. QED BY DEF StoreInv, CountsStored, Stored, StoredIn
  <1>7. FilterWorksOnData'
    BY <1>1 DEF StoreInv, FilterWorksOnData
  <1>8. DoomedAreDead'
    BY <1>1, <1>2, <1>3 DEF StoreInv, DoomedAreDead
  <1>9. AbsenceStaysTrue'
    BY <1>1, <1>2, <1>3 DEF StoreInv, AbsenceStaysTrue
  <1>10. MemoryStaysSafe'
    BY <1>1, <1>2 DEF StoreInv, MemoryStaysSafe
  <1>11. QED BY <1>4, <1>5, <1>6, <1>7, <1>8, <1>9, <1>10 DEF StoreInv

\* The meta filter drops a record: its version is behind the clock, so the
\* records left without a meta value are too.
LEMMA MetaCompactInv ==
  ASSUME StoreInv, NEW k \in Keys, MetaCompact(k)
  PROVE  StoreInv'
  <1>1. /\ meta[k] \in MetaValue /\ meta[k] # NoMeta /\ meta[k].version < now
        /\ meta' = [meta EXCEPT ![k] = NoMeta]
        /\ data' = data /\ filter' = filter /\ now' = now
        /\ raced' = raced \ {k}
    BY DEF MetaCompact, MetaFilterDrops, StoreInv, StoreTypeOK
  <1>2. /\ meta' \in [Keys -> MetaValue \cup {NoMeta}]
        /\ meta'[k] = NoMeta
        /\ \A j \in Keys : j # k => meta'[j] = meta[j]
    BY <1>1 DEF StoreInv, StoreTypeOK
  <1>3. /\ \A rec \in data : rec[1] \in Keys /\ rec[2] \in Nat
        /\ filter.todo \subseteq data /\ filter.doomed \subseteq data
        /\ filter.key # NoKey => filter.key \in Keys
        /\ filter.meta # NoMeta => filter.meta.version \in Nat
        /\ meta[k].version \in Nat /\ now \in Nat
    BY <1>1 DEF StoreInv, StoreTypeOK, DataKey, FilterWorksOnData, Filter, MetaValue
  <1>4. \A j \in Keys : Fresh(j)' => Fresh(j) /\ j # k
    BY <1>1, <1>2 DEF Fresh, IsStale
  <1>5. StoreTypeOK'
    BY <1>1, <1>2 DEF StoreInv, StoreTypeOK
  <1>6. VersionsBehindMeta'
    <2> SUFFICES ASSUME NEW rec \in data
                 PROVE  IF meta'[rec[1]] = NoMeta THEN rec[2] < now
                                                  ELSE rec[2] <= meta'[rec[1]].version
      BY <1>1 DEF VersionsBehindMeta
    <2>1. CASE rec[1] = k
      <3>1. rec[2] <= meta[k].version
        BY <1>1, <2>1 DEF StoreInv, VersionsBehindMeta
      <3>2. QED BY <1>1, <1>2, <1>3, <2>1, <3>1
    <2>2. CASE rec[1] # k
      BY <1>2, <1>3, <2>2 DEF StoreInv, VersionsBehindMeta
    <2>3. QED BY <2>1, <2>2
  <1>7. CountsStored'
    <2> SUFFICES ASSUME NEW j \in Keys \ raced', Fresh(j)'
                 PROVE  meta'[j].count = Cardinality(StoredIn(data, j, meta'[j].version))
      BY <1>1 DEF CountsStored, Stored, StoredIn
    <2>1. Fresh(j) /\ j # k /\ j \notin raced /\ meta'[j] = meta[j]
      BY <1>1, <1>2, <1>4
    <2>2. QED BY <2>1 DEF StoreInv, CountsStored, Stored, StoredIn
  <1>8. FilterWorksOnData'
    BY <1>1 DEF StoreInv, FilterWorksOnData
  <1>9. DoomedAreDead'
    BY <1>1, <1>2, <1>3, <1>4 DEF StoreInv, DoomedAreDead
  <1>10. AbsenceStaysTrue'
    BY <1>1, <1>2, <1>3, <1>4 DEF StoreInv, AbsenceStaysTrue
  <1>11. MemoryStaysSafe'
    <2> SUFFICES ASSUME filter.key # NoKey, filter.meta # NoMeta
                 PROVE  MemoryStaysSafe'
      BY <1>1 DEF MemoryStaysSafe
    <2>1. CASE filter.key = k
      <3>1. filter.meta.version <= meta[k].version
        BY <1>1, <2>1 DEF StoreInv, MemoryStaysSafe
      <3>2. QED BY <1>1, <1>2, <1>3, <2>1, <3>1 DEF StoreInv, MemoryStaysSafe
    <2>2. CASE filter.key # k
      BY <1>1, <1>2, <1>3, <2>2 DEF StoreInv, MemoryStaysSafe
    <2>3. QED BY <2>1, <2>2
  <1>12. QED BY <1>5, <1>6, <1>7, <1>8, <1>9, <1>10, <1>11 DEF StoreInv

\* RocksDB picking the input of a compaction.
LEMMA CompactionStartInv ==
  ASSUME StoreInv, CompactionStart
  PROVE  StoreInv'
  <1>1. PICK recs \in SUBSET data : filter' = [NoCompaction EXCEPT !.todo = recs]
    BY DEF CompactionStart
  <1>2. filter' = [todo |-> recs, doomed |-> {}, key |-> NoKey, meta |-> NoMeta]
    BY <1>1 DEF NoCompaction
  <1>3. meta' = meta /\ data' = data /\ now' = now /\ raced' = raced
    BY DEF CompactionStart
  <1>4. filter' \in Filter
    BY <1>2 DEF Filter, StoreInv, StoreTypeOK
  <1>5. StoreTypeOK'
    BY <1>3, <1>4 DEF StoreInv, StoreTypeOK
  <1>6. VersionsBehindMeta' /\ CountsStored'
    BY <1>3 DEF StoreInv, VersionsBehindMeta, CountsStored, Fresh, IsStale, Stored
  <1>7. FilterWorksOnData' /\ DoomedAreDead'
    BY <1>2, <1>3 DEF FilterWorksOnData, DoomedAreDead
  <1>8. AbsenceStaysTrue' /\ MemoryStaysSafe'
    BY <1>2 DEF AbsenceStaysTrue, MemoryStaysSafe
  <1>9. QED BY <1>5, <1>6, <1>7, <1>8 DEF StoreInv

\* The compaction is gone, and the data column family has lost records of
\* filter.doomed or none.
LEMMA CompactionEndInv ==
  ASSUME StoreInv, filter' = NoCompaction, data' \in {data, data \ filter.doomed},
         UNCHANGED <<meta, now, raced>>
  PROVE  StoreInv'
  <1>1. filter' = [todo |-> {}, doomed |-> {}, key |-> NoKey, meta |-> NoMeta]
    BY DEF NoCompaction
  <1>2. StoreTypeOK'
    BY <1>1 DEF StoreInv, StoreTypeOK, Filter
  <1>3. VersionsBehindMeta'
    BY DEF StoreInv, VersionsBehindMeta
  <1>4. CountsStored'
    <2> SUFFICES ASSUME NEW k \in Keys \ raced, Fresh(k)
                 PROVE  meta[k].count = Cardinality(StoredIn(data', k, meta[k].version))
      BY DEF CountsStored, Stored, StoredIn, Fresh, IsStale
    <2>1. \A m \in Members : <<k, meta[k].version, m>> \notin filter.doomed
      BY DEF StoreInv, DoomedAreDead
    <2>2. StoredIn(data', k, meta[k].version) = Stored(k, meta[k].version)
      BY <2>1 DEF Stored, StoredIn
    <2>3. QED BY <2>2 DEF StoreInv, CountsStored
  <1>5. FilterWorksOnData' /\ DoomedAreDead' /\ AbsenceStaysTrue' /\ MemoryStaysSafe'
    BY <1>1 DEF FilterWorksOnData, DoomedAreDead, AbsenceStaysTrue, MemoryStaysSafe
  <1>6. QED BY <1>2, <1>3, <1>4, <1>5 DEF StoreInv

\* The filter judges a record.  What it remembers of the key, just read or
\* read earlier, condemns no record of a fresh incarnation.
LEMMA FilterRecordInv ==
  ASSUME StoreInv, NEW rec \in filter.todo, FilterRecord(rec)
  PROVE  StoreInv'
  <1>1. /\ rec \in data /\ rec \in DataKey
        /\ filter.todo \in SUBSET data /\ filter.doomed \in SUBSET data
        /\ \A r \in data : r \in DataKey /\ r[1] \in Keys /\ r[2] \in Nat
        /\ now \in Nat
    BY DEF StoreInv, StoreTypeOK, FilterWorksOnData, DataKey
  <1>2. PICK k \in Keys : k = rec[1]
    BY <1>1
  <1>3. PICK cached \in MetaValue \cup {NoMeta} :
          cached = IF k = filter.key THEN filter.meta ELSE meta[k]
    BY DEF StoreInv, StoreTypeOK, Filter
  <1>4. PICK doomed \in SUBSET data :
          /\ doomed \subseteq filter.doomed \cup {rec}
          /\ rec \in doomed => rec \in filter.doomed \/ DataFilterDrops(cached, rec[2], now)
          /\ filter' = [todo |-> filter.todo \ {rec}, doomed |-> doomed,
                        key |-> k, meta |-> cached]
    <2>1. filter' = [todo |-> filter.todo \ {rec},
                     doomed |-> IF DataFilterDrops(cached, rec[2], now)
                                THEN filter.doomed \cup {rec} ELSE filter.doomed,
                     key |-> k, meta |-> cached]
      BY <1>2, <1>3 DEF FilterRecord
    <2>2. CASE DataFilterDrops(cached, rec[2], now)
      <3>1. filter.doomed \cup {rec} \in SUBSET data
        BY <1>1
      <3>2. QED BY <2>1, <2>2, <3>1
    <2>3. CASE ~DataFilterDrops(cached, rec[2], now)
      BY <1>1, <2>1, <2>3
    <2>4. QED BY <2>2, <2>3
  <1>5. meta' = meta /\ data' = data /\ now' = now /\ raced' = raced
    BY DEF FilterRecord
  <1>6. k # NoKey
    BY StoreAssumption
  <1>7. ASSUME cached = NoMeta, NEW r \in filter.todo, r[1] = k
        PROVE  r[2] < now /\ (Fresh(k) => r[2] < meta[k].version)
    <2>1. CASE k = filter.key
      BY <1>3, <1>6, <1>7, <2>1 DEF StoreInv, AbsenceStaysTrue
    <2>2. CASE k # filter.key
      BY <1>1, <1>3, <1>7, <2>2 DEF StoreInv, VersionsBehindMeta, Fresh
    <2>3. QED BY <2>1, <2>2
  <1>8. ASSUME cached # NoMeta
        PROVE  /\ cached.version \in Nat /\ cached.timestamp \in Nat
               /\ \A r \in filter.todo : r[1] = k => r[2] <= cached.version
               /\ IF meta[k] = NoMeta THEN cached.version < now
                                      ELSE cached.version <= meta[k].version
               /\ ( /\ meta[k] # NoMeta
                    /\ k \notin raced
                    /\ cached.version = meta[k].version
                    /\ cached.timestamp # 0 )
                  => meta[k].timestamp # 0 /\ meta[k].timestamp <= cached.timestamp
    <2>1. cached.version \in Nat /\ cached.timestamp \in Nat
      BY <1>8 DEF MetaValue
    <2>2. CASE k = filter.key
      BY <1>3, <1>6, <1>8, <2>1, <2>2 DEF StoreInv, MemoryStaysSafe
    <2>3. CASE k # filter.key
      <3>1. meta[k] = cached
        BY <1>3, <2>3
      <3>2. \A r \in filter.todo : r[1] = k => r[2] <= cached.version
        BY <1>1, <1>8, <3>1 DEF StoreInv, VersionsBehindMeta
      <3>3. QED BY <1>8, <2>1, <3>1, <3>2
    <2>4. QED BY <2>2, <2>3
  <1>9. StoreTypeOK'
    <2>1. filter' \in Filter
      BY <1>1, <1>4 DEF Filter, StoreInv, StoreTypeOK
    <2>2. QED BY <1>5, <2>1 DEF StoreInv, StoreTypeOK
  <1>10. VersionsBehindMeta' /\ CountsStored'
    BY <1>5 DEF StoreInv, VersionsBehindMeta, CountsStored, Fresh, IsStale, Stored
  <1>11. FilterWorksOnData'
    BY <1>1, <1>4, <1>5 DEF FilterWorksOnData
  <1>12. DoomedAreDead'
    <2> SUFFICES ASSUME NEW r \in doomed, r[1] \notin raced, Fresh(r[1]),
                        r[2] = meta[r[1]].version
                 PROVE  FALSE
      BY <1>4, <1>5 DEF DoomedAreDead, Fresh, IsStale
    <2>1. CASE r \in filter.doomed
      BY <2>1 DEF StoreInv, DoomedAreDead
    <2>2. CASE r = rec /\ DataFilterDrops(cached, rec[2], now)
      <3>1. k \notin raced /\ meta[k] # NoMeta /\ ~IsStale(meta[k], now)
            /\ rec[2] = meta[k].version /\ rec[2] \in Nat
        BY <1>1, <1>2, <2>2 DEF Fresh
      <3>2. meta[k].timestamp \in Nat
        BY <3>1 DEF StoreInv, StoreTypeOK, MetaValue
      <3>3. cached # NoMeta
        BY <1>2, <1>7, <3>1 DEF Fresh
      <3>4. CASE IsStale(cached, now)
        <4>1. cached.version = meta[k].version
          BY <1>2, <1>8, <3>1, <3>3
        <4>2. meta[k].timestamp # 0 /\ meta[k].timestamp <= cached.timestamp
          BY <1>8, <3>1, <3>3, <3>4, <4>1 DEF IsStale
        <4>3. QED BY <1>1, <1>8, <3>1, <3>2, <3>3, <3>4, <4>2 DEF IsStale
      <3>5. CASE cached.version > rec[2]
        BY <1>8, <3>1, <3>3, <3>5
      <3>6. QED BY <2>2, <3>3, <3>4, <3>5 DEF DataFilterDrops
    <2>3. QED BY <1>4, <2>1, <2>2
  <1>13. AbsenceStaysTrue'
    BY <1>4, <1>5, <1>7 DEF AbsenceStaysTrue, Fresh, IsStale
  <1>14. MemoryStaysSafe'
    BY <1>4, <1>5, <1>8 DEF MemoryStaysSafe
  <1>15. QED BY <1>9, <1>10, <1>11, <1>12, <1>13, <1>14 DEF StoreInv

\* Time, compaction and restart.
LEMMA BackgroundInv ==
  ASSUME StoreInv, Background
  PROVE  StoreInv'
  <1>1. CASE CompactionInstall
    BY <1>1, CompactionEndInv DEF CompactionInstall
  <1>2. CASE Reopen
    BY <1>2, CompactionEndInv DEF Reopen
  <1>3. QED BY <1>1, <1>2, TickInv, MetaCompactInv, CompactionStartInv, FilterRecordInv
            DEF Background, Maintenance

\* A step that changes nothing.
LEMMA StutterInv ==
  ASSUME StoreInv, UNCHANGED storeVars
  PROVE  StoreInv'
  BY DEF storeVars, StoreInv, StoreTypeOK, VersionsBehindMeta, CountsStored,
         FilterWorksOnData, DoomedAreDead, AbsenceStaysTrue, MemoryStaysSafe,
         Stored, Fresh, IsStale

\* The empty database.
LEMMA StoreInitInv == StoreInit => StoreInv
  <1> SUFFICES ASSUME StoreInit PROVE StoreInv
    OBVIOUS
  <1>1. StoreTypeOK
    BY DEF StoreInit, StoreTypeOK, NoCompaction, Filter
  <1>2. QED BY <1>1 DEF StoreInit, StoreInv, VersionsBehindMeta, CountsStored,
            FilterWorksOnData, DoomedAreDead, AbsenceStaysTrue, MemoryStaysSafe,
            NoCompaction, Fresh

----------------------------------------------------------------------------
(* What becomes visible in a step.                                          *)

\* A member of j that this step makes visible is not one it found in data.
Uncovers(j) ==
  \A m \in Visible(j)' \ Visible(j) : <<j, meta'[j].version, m>> \notin data

\* A step that deletes records and ends or prolongs the lives of collections
\* shows no member that was not visible.
LEMMA ShrinkUncovers ==
  ASSUME NEW j \in Keys, data' \subseteq data,
         Live(j)' => Live(j) /\ meta'[j].version = meta[j].version
  PROVE  Uncovers(j)
  BY DEF Uncovers, Visible, Stored

\* A collection whose meta value, records and clock stay is seen as before.
LEMMA SameSeen ==
  ASSUME NEW j \in Keys, meta'[j] = meta[j], now' = now,
         \A m \in Members : \A v : <<j, v, m>> \in data' <=> <<j, v, m>> \in data
  PROVE  Visible(j)' = Visible(j) /\ Length(j)' = Length(j)
  <1>1. Live(j)' <=> Live(j)
    BY DEF Live, IsLive, IsStale
  <1>2. QED BY <1>1 DEF Visible, Length, Stored

\* AddMembers writes one well-typed meta value.
LEMMA AddMembersMeta ==
  ASSUME StoreInv, NEW k \in Keys, NEW S \in SUBSET Members, AddMembers(k, S)
  PROVE  \E m \in MetaValue :
          /\ m = IF Live(k)
                 THEN ModifyCount(meta[k], Cardinality(S \ Stored(k, meta[k].version)))
                 ELSE SetCount(Renewed(k), Cardinality(S))
          /\ meta' = [meta EXCEPT ![k] = m]
          /\ data' = data \cup Records(k, m.version, S)
          /\ now' = now
  <1>1. IsFiniteSet(S) /\ Cardinality(S) \in Int
    BY FS_Subset, FS_CardinalityType, StoreAssumption
  <1>2. Cardinality(S \ Stored(k, meta[k].version)) \in Int
    BY <1>1, FS_Subset, FS_CardinalityType
  <1> DEFINE m == IF Live(k)
               THEN ModifyCount(meta[k], Cardinality(S \ Stored(k, meta[k].version)))
               ELSE SetCount(Renewed(k), Cardinality(S))
  <1>3. m \in MetaValue
    BY <1>1, <1>2, LiveFacts, RenewedMeta DEF ModifyCount, SetCount, MetaValue, StoreInv
  <1>4. /\ meta' = [meta EXCEPT ![k] = m]
        /\ data' = data \cup Records(k, m.version, S)
        /\ now' = now
    BY DEF AddMembers
  <1>5. QED BY <1>3, <1>4

\* AddMembers shows only what it writes.
LEMMA AddMembersUncovers ==
  ASSUME StoreInv, NEW k \in Keys, NEW S \in SUBSET Members, AddMembers(k, S),
         NEW j \in Keys
  PROVE  Uncovers(j)
  <1>1. PICK m \in MetaValue :
          /\ m = IF Live(k)
                 THEN ModifyCount(meta[k], Cardinality(S \ Stored(k, meta[k].version)))
                 ELSE SetCount(Renewed(k), Cardinality(S))
          /\ meta' = [meta EXCEPT ![k] = m]
          /\ data' = data \cup Records(k, m.version, S)
          /\ now' = now
    BY AddMembersMeta
  <1>2. meta'[k] = m /\ \A i \in Keys \ {k} : meta'[i] = meta[i]
    BY <1>1 DEF StoreInv, StoreTypeOK
  <1>3. CASE j # k
    <2>1. \A i \in Members : \A v : <<j, v, i>> \in data' <=> <<j, v, i>> \in data
      BY <1>1, <1>3 DEF Records
    <2>2. QED BY <1>1, <1>2, <1>3, <2>1, SameSeen DEF Uncovers
  <1>4. CASE j = k /\ Live(k)
    <2>1. m.version = meta[k].version
      BY <1>1, <1>4, LiveFacts DEF ModifyCount, MetaValue, StoreInv
    <2>2. QED BY <1>2, <1>4, <2>1 DEF Uncovers, Visible, Stored
  <1>5. CASE j = k /\ ~Live(k)
    <2>1. m.version = Renewed(k).version
      BY <1>1, <1>5, RenewedMeta DEF SetCount, MetaValue, StoreInv
    <2>2. Stored(k, m.version) = {}
      BY <2>1, RenewedUnused DEF StoreInv
    <2>3. Visible(k)' \subseteq Members
      BY DEF Visible, Stored
    <2>4. QED BY <1>2, <1>5, <2>2, <2>3 DEF Uncovers, Stored
  <1>6. QED BY <1>3, <1>4, <1>5

\* RemoveMembers shows nothing new.
LEMMA RemoveMembersUncovers ==
  ASSUME StoreInv, NEW k \in Keys, NEW S \in SUBSET Members, RemoveMembers(k, S),
         NEW j \in Keys
  PROVE  Uncovers(j)
  <1>1. PICK n : /\ meta' = [meta EXCEPT ![k] = ModifyCount(meta[k], n)]
                 /\ data' \subseteq data /\ now' = now
    BY DEF RemoveMembers
  <1>2. meta'[k] = ModifyCount(meta[k], n) /\ \A i \in Keys \ {k} : meta'[i] = meta[i]
    BY <1>1 DEF StoreInv, StoreTypeOK
  <1>3. meta[k] \in MetaValue /\ Live(k)
    BY LiveFacts DEF RemoveMembers, StoreInv
  <1>4. Live(j)' => Live(j) /\ meta'[j].version = meta[j].version
    BY <1>1, <1>2, <1>3 DEF Live, IsLive, IsStale, ModifyCount, MetaValue
  <1>5. QED BY <1>1, <1>4, ShrinkUncovers

\* Neither a renewal nor a new TTL shows anything.
LEMMA ExpiryUncovers ==
  ASSUME StoreInv, NEW k \in Keys, NEW j \in Keys,
         \/ \E ttl \in Ttls : Expire(k, ttl)
         \/ \E ts \in Timestamps : Expireat(k, ts)
         \/ Persist(k)
         \/ Del(k)
  PROVE  Uncovers(j)
  <1>1. Live(k) /\ data' = data /\ now' = now /\ meta[k] \in MetaValue
    BY LiveFacts DEF Expire, Expireat, Persist, Del, Renew, Reschedule, StoreInv
  <1>2. CASE Renew(k)
    <2>1. meta'[k] = Renewed(k) /\ \A i \in Keys \ {k} : meta'[i] = meta[i]
      BY <1>2 DEF Renew, StoreInv, StoreTypeOK
    <2>2. ~Live(k)'
      BY <2>1, RenewedMeta DEF Live, IsLive, StoreInv
    <2>3. j # k => (Live(j)' => Live(j)) /\ meta'[j] = meta[j]
      BY <1>1, <2>1 DEF Live, IsLive, IsStale
    <2>4. QED BY <1>1, <2>2, <2>3, ShrinkUncovers
  <1>3. ASSUME NEW ts \in Int, Reschedule(k, SetTimestamp(meta[k], ts))
        PROVE  Uncovers(j)
    <2>1. /\ meta'[k] = SetTimestamp(meta[k], ts)
          /\ \A i \in Keys \ {k} : meta'[i] = meta[i]
      BY <1>3 DEF Reschedule, StoreInv, StoreTypeOK
    <2>2. meta'[k].version = meta[k].version
      BY <1>1, <2>1 DEF SetTimestamp, MetaValue
    <2>3. j # k => (Live(j)' => Live(j)) /\ meta'[j] = meta[j]
      BY <1>1, <2>1 DEF Live, IsLive, IsStale
    <2>4. QED BY <1>1, <2>2, <2>3, ShrinkUncovers
  <1>4. \A ttl \in Ttls : /\ now + ttl \in Int
                          /\ SetRelativeTimestamp(meta[k], ttl, now)
                               = SetTimestamp(meta[k], now + ttl)
    BY StoreAssumption DEF SetRelativeTimestamp, SetTimestamp, StoreInv, StoreTypeOK
  <1>5. CASE \E ttl \in Ttls : Expire(k, ttl)
    BY <1>2, <1>3, <1>4, <1>5 DEF Expire
  <1>6. CASE \E ts \in Timestamps : Expireat(k, ts)
    BY <1>2, <1>3, <1>6, StoreAssumption DEF Expireat
  <1>7. CASE Persist(k)
    BY <1>3, <1>7 DEF Persist
  <1>8. QED BY <1>2, <1>5, <1>6, <1>7 DEF Del

\* Compaction leaves what is seen of every key that was not raced.
LEMMA BackgroundUnseen ==
  ASSUME StoreInv, Background, now' = now, NEW j \in Keys \ raced
  PROVE  Visible(j)' = Visible(j) /\ Length(j)' = Length(j)
  <1>1. ASSUME NEW k \in Keys, MetaCompact(k)
        PROVE  Visible(j)' = Visible(j) /\ Length(j)' = Length(j)
    <2>1. /\ meta' = [meta EXCEPT ![k] = NoMeta] /\ data' = data
          /\ meta'[k] = NoMeta /\ \A i \in Keys \ {k} : meta'[i] = meta[i]
      BY <1>1 DEF MetaCompact, StoreInv, StoreTypeOK
    <2>2. ~Live(k) /\ ~Live(k)'
      BY <1>1, <2>1 DEF MetaCompact, MetaFilterDrops, Live, IsLive
    <2>3. CASE j = k
      BY <2>2, <2>3 DEF Visible, Length
    <2>4. CASE j # k
      BY <2>1, <2>4, SameSeen
    <2>5. QED BY <2>3, <2>4
  <1>2. CASE CompactionInstall
    <2>1. meta' = meta /\ data' = data \ filter.doomed
      BY <1>2 DEF CompactionInstall
    <2>2. Live(j)' <=> Live(j)
      BY <2>1 DEF Live, IsLive, IsStale
    <2>3. CASE Live(j)
      <3>1. \A rec \in filter.doomed : rec[1] = j => rec[2] # meta[j].version
        BY <2>3, LiveFacts DEF StoreInv, DoomedAreDead
      <3>2. \A m \in Members :
              <<j, meta[j].version, m>> \in data' <=> <<j, meta[j].version, m>> \in data
        BY <2>1, <3>1
      <3>3. QED BY <2>1, <2>2, <2>3, <3>2 DEF Visible, Length, Stored
    <2>4. CASE ~Live(j)
      BY <2>2, <2>4 DEF Visible, Length
    <2>5. QED BY <2>3, <2>4
  <1>3. CASE meta' = meta /\ data' = data
    BY <1>3, SameSeen
  <1>4. ~Tick
    BY DEF Tick, StoreInv, StoreTypeOK
  <1>5. QED BY <1>1, <1>2, <1>3, <1>4
           DEF Background, Maintenance, CompactionStart, FilterRecord, Reopen

\* Neither the clock nor compaction shows a member that was not visible.
LEMMA BackgroundUncovers ==
  ASSUME StoreInv, Background, NEW j \in Keys
  PROVE  Uncovers(j)
  <1>1. ASSUME NEW k \in Keys, MetaCompact(k)
        PROVE  Uncovers(j)
    <2>1. /\ data' = data /\ now' = now
          /\ meta'[k] = NoMeta /\ \A i \in Keys \ {k} : meta'[i] = meta[i]
      BY <1>1 DEF MetaCompact, StoreInv, StoreTypeOK
    <2>2. Live(j)' => Live(j) /\ meta'[j].version = meta[j].version
      BY <2>1 DEF Live, IsLive, IsStale
    <2>3. QED BY <2>1, <2>2, ShrinkUncovers
  <1>2. CASE Tick
    <2>1. meta' = meta /\ data' = data /\ now \in Nat /\ now' = now + 1
      BY <1>2 DEF Tick, StoreInv, StoreTypeOK
    <2>2. meta[j] # NoMeta => meta[j].timestamp \in Nat
      BY DEF StoreInv, StoreTypeOK, MetaValue
    <2>3. Live(j)' => Live(j)
      BY <2>1, <2>2 DEF Live, IsLive, IsStale
    <2>4. QED BY <2>1, <2>3, ShrinkUncovers
  <1>3. CASE meta' = meta /\ data' \subseteq data /\ now' = now
    <2>1. Live(j)' => Live(j)
      BY <1>3 DEF Live, IsLive, IsStale
    <2>2. QED BY <1>3, <2>1, ShrinkUncovers
  <1>4. QED BY <1>1, <1>2, <1>3
           DEF Background, Maintenance, CompactionStart, FilterRecord, CompactionInstall, Reopen

----------------------------------------------------------------------------
(* What becomes of a collection that no batch writes.                       *)

\* What becomes of a key's collection when its meta value is neither written nor its
\* records put: it stays, or begins anew with no records.
FollowsOn(k) ==
  Fresh(k)' =>
    \/ /\ Fresh(k) /\ meta'[k].version = meta[k].version
       /\ meta'[k].count = meta[k].count
       /\ StoredIn(data', k, meta[k].version) = StoredIn(data, k, meta[k].version)
    \/ /\ meta[k] # NoMeta => meta'[k].version # meta[k].version
       /\ meta'[k].count = 0
       /\ StoredIn(data', k, meta'[k].version) = {}

\* What the handlers of expiry do to a meta value.
LEMMA ExpiryMeta ==
  ASSUME StoreTypeOK, NEW k \in Keys,
         \/ \E ttl \in Ttls : Expire(k, ttl)
         \/ \E ts \in Timestamps : Expireat(k, ts)
         \/ Persist(k)
         \/ Del(k)
  PROVE  /\ Live(k) /\ data' = data /\ now' = now /\ filter' = filter
         /\ \E m : /\ meta' = [meta EXCEPT ![k] = m]
                   /\ \/ m = Renewed(k)
                      \/ m.version = meta[k].version /\ m.count = meta[k].count
  <1>1. CASE Renew(k)
    BY <1>1 DEF Renew
  <1>2. ASSUME NEW ts, Reschedule(k, SetTimestamp(meta[k], ts))
        PROVE  /\ Live(k) /\ data' = data /\ now' = now /\ filter' = filter
               /\ \E m : /\ meta' = [meta EXCEPT ![k] = m]
                         /\ m.version = meta[k].version /\ m.count = meta[k].count
    <2>1. Live(k) /\ meta' = [meta EXCEPT ![k] = SetTimestamp(meta[k], ts)]
      BY <1>2 DEF Reschedule
    <2>2. meta[k] \in MetaValue
      BY <2>1, LiveFacts
    <2>3. /\ SetTimestamp(meta[k], ts).version = meta[k].version
          /\ SetTimestamp(meta[k], ts).count = meta[k].count
      BY <2>2 DEF SetTimestamp, MetaValue
    <2>4. QED BY <1>2, <2>1, <2>3 DEF Reschedule
  <1>3. ASSUME NEW ttl, Reschedule(k, SetRelativeTimestamp(meta[k], ttl, now))
        PROVE  Reschedule(k, SetTimestamp(meta[k], now + ttl))
    BY <1>3 DEF SetRelativeTimestamp, SetTimestamp
  <1>4. QED BY <1>1, <1>2, <1>3 DEF Expire, Expireat, Persist, Del

\* The handlers of expiry keep a collection or begin one anew.
LEMMA ExpiryFollows ==
  ASSUME StoreInv, NEW k \in Keys,
         \/ \E ttl \in Ttls : Expire(k, ttl)
         \/ \E ts \in Timestamps : Expireat(k, ts)
         \/ Persist(k)
         \/ Del(k)
  PROVE  data' = data /\ \A j \in Keys : FollowsOn(j)
  <1>1. /\ Live(k) /\ data' = data /\ now' = now
        /\ \E m : /\ meta' = [meta EXCEPT ![k] = m]
                  /\ \/ m = Renewed(k)
                     \/ m.version = meta[k].version /\ m.count = meta[k].count
    BY ExpiryMeta DEF StoreInv
  <1>2. PICK m : /\ meta' = [meta EXCEPT ![k] = m]
                 /\ \/ m = Renewed(k)
                    \/ m.version = meta[k].version /\ m.count = meta[k].count
    BY <1>1
  <1>3. \A j \in Keys : meta'[j] = IF j = k THEN m ELSE meta[j]
    BY <1>2 DEF StoreInv, StoreTypeOK
  <1>4. Fresh(k) /\ meta[k] \in MetaValue /\ meta[k].version \in Nat
    BY <1>1, LiveFacts DEF StoreInv
  <1>5. ASSUME m = Renewed(k)
        PROVE  m.count = 0 /\ m.version # meta[k].version /\ StoredIn(data, k, m.version) = {}
    <2>1. m.count = 0 /\ m.version \in Nat /\ Unreached(k, m.version)
      BY <1>5, RenewedMeta, RenewedUnreached DEF StoreInv, MetaValue
    <2>2. \A rec \in data : rec[1] = k => rec[2] # m.version
      BY <2>1 DEF Unreached, StoreInv, StoreTypeOK, DataKey
    <2>3. StoredIn(data, k, m.version) = {}
      BY <2>2 DEF StoredIn
    <2>4. QED BY <1>4, <2>1, <2>3 DEF Unreached, Fresh
  <1>6. ASSUME NEW j \in Keys
        PROVE  FollowsOn(j)
    <2>1. CASE j = k
      BY <1>1, <1>2, <1>3, <1>4, <1>5, <2>1 DEF FollowsOn
    <2>2. CASE j # k
      BY <1>1, <1>3, <2>2 DEF FollowsOn, Fresh, IsStale
    <2>3. QED BY <2>1, <2>2
  <1>7. QED BY <1>1, <1>6

\* Time, compaction and restart end lives and drop what is dead.
LEMMA MaintenanceFollows ==
  ASSUME StoreInv, raced = {}, raced' = {}, Maintenance
  PROVE  data' \subseteq data /\ \A k \in Keys : FollowsOn(k)
  <1>1. ASSUME NEW k \in Keys, meta'[k] = meta[k], now' = now, data' = data
        PROVE  FollowsOn(k)
    BY <1>1 DEF FollowsOn, Fresh, IsStale
  <1>2. CASE Tick
    <2>1. now \in Nat /\ now' = now + 1 /\ meta' = meta /\ data' = data
      BY <1>2 DEF Tick, StoreInv, StoreTypeOK
    <2>2. \A k \in Keys : Fresh(k)' => Fresh(k)
      <3> SUFFICES ASSUME NEW k \in Keys, Fresh(k)'
                   PROVE  Fresh(k)
        OBVIOUS
      <3>1. meta[k] \in MetaValue
        BY <2>1 DEF StoreInv, StoreTypeOK, Fresh
      <3>2. QED BY <2>1, <3>1 DEF Fresh, IsStale, MetaValue
    <2>3. QED BY <2>1, <2>2 DEF FollowsOn
  <1>3. ASSUME NEW j \in Keys, MetaCompact(j)
        PROVE  data' \subseteq data /\ \A k \in Keys : FollowsOn(k)
    <2>1. data' = data /\ now' = now /\ meta' = [meta EXCEPT ![j] = NoMeta]
      BY <1>3 DEF MetaCompact
    <2>2. \A k \in Keys : meta'[k] = IF k = j THEN NoMeta ELSE meta[k]
      BY <2>1 DEF StoreInv, StoreTypeOK
    <2>3. QED BY <1>1, <2>1, <2>2 DEF FollowsOn, Fresh
  <1>4. CASE CompactionStart
    BY <1>1, <1>4 DEF CompactionStart
  <1>5. ASSUME NEW rec \in filter.todo, FilterRecord(rec)
        PROVE  data' \subseteq data /\ \A k \in Keys : FollowsOn(k)
    BY <1>1, <1>5 DEF FilterRecord
  <1>6. CASE CompactionInstall
    <2>1. data' = data \ filter.doomed /\ meta' = meta /\ now' = now
      BY <1>6 DEF CompactionInstall
    <2>2. ASSUME NEW k \in Keys, Fresh(k)
          PROVE  StoredIn(data', k, meta[k].version) = StoredIn(data, k, meta[k].version)
      <3>1. \A m \in Members : <<k, meta[k].version, m>> \notin filter.doomed
        BY <2>2 DEF StoreInv, DoomedAreDead
      <3>2. QED BY <2>1, <3>1 DEF StoredIn
    <2>3. QED BY <2>1, <2>2 DEF FollowsOn, Fresh, IsStale
  <1>7. QED BY <1>2, <1>3, <1>4, <1>5, <1>6 DEF Maintenance

\* The keys of D begin anew at once, and their records stay behind.
RenewsAll(D) ==
  /\ meta' = [j \in Keys |-> IF j \in D THEN Renewed(j) ELSE meta[j]]
  /\ raced' = raced \ D
  /\ UNCHANGED <<data, now, filter>>

\* So the records of each are of versions behind its meta value.
LEMMA RenewsAllInv ==
  ASSUME StoreInv, NEW D \in SUBSET Keys, RenewsAll(D)
  PROVE  StoreInv' /\ \A j \in Keys : FollowsOn(j)
  <1>1. /\ data' = data /\ now' = now /\ filter' = filter /\ raced' = raced \ D
        /\ data \in SUBSET DataKey /\ raced \in SUBSET Keys
        /\ meta \in [Keys -> MetaValue \cup {NoMeta}]
    BY DEF RenewsAll, StoreInv, StoreTypeOK
  <1>2. ASSUME NEW j \in D
        PROVE  /\ meta'[j] \in MetaValue /\ meta'[j] # NoMeta /\ meta'[j].count = 0
               /\ meta'[j].version \in Nat /\ Unreached(j, meta'[j].version)
               /\ StoredIn(data, j, meta'[j].version) = {}
    <2>1. meta'[j] = Renewed(j)
      BY DEF RenewsAll
    <2>2. /\ Renewed(j) \in MetaValue /\ Renewed(j).count = 0
          /\ Unreached(j, Renewed(j).version) /\ Stored(j, Renewed(j).version) = {}
      BY RenewedMeta, RenewedUnreached, RenewedUnused DEF StoreInv
    <2>3. QED BY <2>1, <2>2, NoMetaAssumption DEF MetaValue, Stored, StoredIn
  <1>3. \A j \in Keys \ D : meta'[j] = meta[j] /\ (j \in raced' <=> j \in raced)
    BY <1>1 DEF RenewsAll
  <1>4. \A j \in Keys \ D : (Fresh(j)' <=> Fresh(j))
    BY <1>1, <1>3 DEF Fresh, IsStale
  <1>5. DoomedAreDead' /\ AbsenceStaysTrue' /\ MemoryStaysSafe'
    <2>1. \A j \in D : Begins(j)
      BY <1>2 DEF Begins
    <2>2. \A j \in Keys \ D : Stays(j)
      BY <1>3 DEF Stays
    <2>3. FilterOnlyShrinks
      BY <1>1, UnchangedShrinks DEF StoreInv
    <2>4. QED BY <1>1, <2>1, <2>2, <2>3, StaysOrBegins
  <1>6. StoreTypeOK'
    <2>1. meta' = [j \in Keys |-> IF j \in D THEN Renewed(j) ELSE meta[j]]
      BY DEF RenewsAll
    <2>2. \A j \in D : Renewed(j) \in MetaValue
      BY RenewedMeta DEF StoreInv
    <2>3. meta' \in [Keys -> MetaValue \cup {NoMeta}]
      BY <1>1, <2>1, <2>2
    <2>4. QED BY <1>1, <2>3 DEF StoreInv, StoreTypeOK
  <1>7. VersionsBehindMeta'
    <2> SUFFICES ASSUME NEW rec \in data
                 PROVE  IF meta'[rec[1]] = NoMeta THEN rec[2] < now
                                                  ELSE rec[2] <= meta'[rec[1]].version
      BY <1>1 DEF VersionsBehindMeta
    <2>1. rec[1] \in Keys /\ rec[2] \in Nat
      BY <1>1 DEF DataKey
    <2>2. CASE rec[1] \in D
      <3>1. rec[2] < meta'[rec[1]].version /\ meta'[rec[1]].version \in Nat
            /\ meta'[rec[1]] # NoMeta
        BY <1>2, <2>2 DEF Unreached
      <3>2. QED BY <2>1, <3>1
    <2>3. CASE rec[1] \notin D
      BY <1>3, <2>1, <2>3 DEF StoreInv, VersionsBehindMeta
    <2>4. QED BY <2>2, <2>3
  <1>8. CountsStored'
    <2> SUFFICES ASSUME NEW j \in Keys \ raced', Fresh(j)'
                 PROVE  meta'[j].count = Cardinality(StoredIn(data, j, meta'[j].version))
      BY <1>1 DEF CountsStored, Stored, StoredIn
    <2>1. CASE j \in D
      <3>1. meta'[j].count = 0 /\ StoredIn(data, j, meta'[j].version) = {}
        BY <1>2, <2>1
      <3>2. QED BY <3>1, FS_EmptySet
    <2>2. CASE j \notin D
      BY <1>3, <1>4, <2>2 DEF StoreInv, CountsStored, Stored, StoredIn
    <2>3. QED BY <2>1, <2>2
  <1>9. FilterWorksOnData'
    BY <1>1 DEF StoreInv, FilterWorksOnData
  <1>10. ASSUME NEW j \in Keys
         PROVE  FollowsOn(j)
    <2>1. CASE j \in D
      <3>1. /\ meta[j] # NoMeta => meta'[j].version # meta[j].version
            /\ meta'[j].count = 0 /\ StoredIn(data', j, meta'[j].version) = {}
        <4>1. meta[j] # NoMeta => meta[j].version \in Nat
          BY <1>1 DEF MetaValue
        <4>2. QED BY <1>1, <1>2, <2>1, <4>1 DEF Unreached
      <3>2. QED BY <3>1 DEF FollowsOn
    <2>2. CASE j \notin D
      BY <1>1, <1>3, <1>4, <2>2 DEF FollowsOn
    <2>3. QED BY <2>1, <2>2
  <1>11. QED BY <1>5, <1>6, <1>7, <1>8, <1>9, <1>10 DEF StoreInv

----------------------------------------------------------------------------
(* Steps of the store are steps of ExpiringCollections, or invisible to it. *)

\* What is visible of a key that was not raced tells whether it is live.
LEMMA VisibleIffLive ==
  StoreInv => \A k \in Keys \ raced : Visible(k) = {} <=> ~Live(k)
  <1> SUFFICES ASSUME StoreInv, NEW k \in Keys \ raced
               PROVE  Visible(k) = {} <=> ~Live(k)
    OBVIOUS
  <1>1. CASE Live(k)
    <2>1. meta[k].count = Cardinality(Stored(k, meta[k].version))
      BY <1>1, LiveFacts DEF StoreInv, CountsStored
    <2>2. Stored(k, meta[k].version) # {}
      BY <1>1, <2>1, FS_EmptySet DEF Live, IsLive
    <2>3. QED BY <1>1, <2>2 DEF Visible
  <1>2. QED BY <1>1 DEF Visible

\* The same of the state a step leads to.
LEMMA VisibleIffLiveNext ==
  StoreInv' => (\A k \in Keys \ raced : Visible(k) = {} <=> ~Live(k))'
  BY VisibleIffLive, PTL

\* What ExpiringCollections calls contents and deadline.
Seen == [k \in Keys |-> Visible(k)]

Due == [k \in Keys |-> IF Visible(k) = {} THEN 0 ELSE meta[k].timestamp]

\* k comes to hold S until ts, and the other keys are left alone.
Becomes(k, S, ts) ==
  /\ Seen' = [Seen EXCEPT ![k] = S]
  /\ Due' = [Due EXCEPT ![k] = IF S = {} THEN 0 ELSE ts]
  /\ now' = now

\* A step that rewrites one key's collection, and leaves the others alone.
LEMMA BecomePromised ==
  ASSUME NEW k \in Keys, NEW S, NEW ts, now' = now,
         Visible(k)' = S, S # {} => meta'[k].timestamp = ts,
         \A j \in Keys \ {k} : Visible(j)' = Visible(j) /\ meta'[j] = meta[j]
  PROVE  Becomes(k, S, ts)
  BY DEF Becomes, Seen, Due

\* The other keys of a step that rewrites the meta value and records of k.
LEMMA OthersSeen ==
  ASSUME NEW k \in Keys, now' = now,
         \A j \in Keys \ {k} : meta'[j] = meta[j],
         \A rec : rec[1] # k => (rec \in data' <=> rec \in data)
  PROVE  \A j \in Keys \ {k} : Visible(j)' = Visible(j) /\ meta'[j] = meta[j]
  <1> SUFFICES ASSUME NEW j \in Keys \ {k}
               PROVE  Visible(j)' = Visible(j)
    OBVIOUS
  <1>1. \A m \in Members : \A v : <<j, v, m>> \in data' <=> <<j, v, m>> \in data
    OBVIOUS
  <1>2. QED BY <1>1, SameSeen

\* The members of a key a step stores, all under one version.
LEMMA AddMembersPromised ==
  ASSUME StoreInv, StoreInv', raced = {}, raced' = {},
         NEW k \in Keys, NEW S \in SUBSET Members, AddMembers(k, S)
  PROVE  Promise!Put(k, S)
  <1>1. PICK m \in MetaValue :
          /\ m = IF Live(k)
                 THEN ModifyCount(meta[k], Cardinality(S \ Stored(k, meta[k].version)))
                 ELSE SetCount(Renewed(k), Cardinality(S))
          /\ meta' = [meta EXCEPT ![k] = m]
          /\ data' = data \cup Records(k, m.version, S)
          /\ now' = now
    BY AddMembersMeta
  <1>2. meta'[k] = m /\ \A i \in Keys \ {k} : meta'[i] = meta[i]
    BY <1>1 DEF StoreInv, StoreTypeOK
  <1>3. \A j \in Keys \ {k} : Visible(j)' = Visible(j) /\ meta'[j] = meta[j]
    <2>1. \A rec : rec[1] # k => (rec \in data' <=> rec \in data)
      BY <1>1 DEF Records
    <2>2. QED BY <1>1, <1>2, <2>1, OthersSeen
  <1>4. (Visible(k)' = {} <=> ~Live(k)') /\ (Visible(k) = {} <=> ~Live(k))
    <2>1. Visible(k) = {} <=> ~Live(k)
      BY VisibleIffLive
    <2>2. Visible(k)' = {} <=> ~Live(k)'
      BY VisibleIffLiveNext
    <2>3. QED BY <2>1, <2>2
  <1>5. Stored(k, m.version)' = Stored(k, m.version) \cup S
    BY <1>1 DEF Stored, Records
  <1>6. CASE Live(k)
    <2>1. m.version = meta[k].version /\ m.timestamp = meta[k].timestamp
      BY <1>1, <1>6, LiveFacts DEF ModifyCount, MetaValue, StoreInv
    <2>2. Visible(k) = Stored(k, m.version) /\ Visible(k) # {}
      BY <1>4, <1>6, <2>1 DEF Visible
    <2>3. Live(k)'
      <3>1. PICK A \in SUBSET Members : A = Stored(k, m.version)
        BY StoredFinite
      <3>2. meta[k].count = Cardinality(A)
        BY <1>6, <2>1, <3>1, LiveFacts DEF StoreInv, CountsStored
      <3>3. /\ Cardinality(A) \in Nat /\ Cardinality(A) # 0
            /\ Cardinality(S \ A) \in Nat
        <4>1. Cardinality(A) \in Nat /\ Cardinality(S \ A) \in Nat
          BY GrowsByNew
        <4>2. IsFiniteSet(A) /\ A # {}
          BY <2>2, <3>1, StoredFinite
        <4>3. QED BY <4>1, <4>2, FS_EmptySet
      <3>4. m.count = Cardinality(A) + Cardinality(S \ A)
        BY <1>1, <1>6, <2>1, <3>1, <3>2, LiveFacts DEF ModifyCount, MetaValue, StoreInv
      <3>5. m.count # 0
        BY <3>3, <3>4
      <3>6. m # NoMeta
        BY NoMetaAssumption
      <3>7. QED BY <1>1, <1>2, <1>6, <2>1, <3>5, <3>6 DEF Live, IsLive, IsStale
    <2>4. Visible(k)' = Visible(k) \cup S
      BY <1>2, <1>5, <2>2, <2>3 DEF Visible, Stored
    <2>5. PICK T, ts : T = Visible(k) \cup S /\ ts = meta[k].timestamp
      OBVIOUS
    <2>6. Becomes(k, T, ts)
      BY <1>1, <1>2, <1>3, <2>1, <2>4, <2>5, BecomePromised
    <2>7. Seen[k] \cup S = T /\ Due[k] = ts
      BY <2>2, <2>5 DEF Seen, Due
    <2>8. QED BY <2>6, <2>7 DEF Becomes, Seen, Due, Promise!Put, Promise!Become
  <1>7. CASE ~Live(k)
    <2>1. /\ m.version = Renewed(k).version /\ m.timestamp = 0
          /\ m.count = Cardinality(S)
      BY <1>1, <1>7, RenewedMeta DEF SetCount, MetaValue, StoreInv
    <2>2. Stored(k, m.version) = {} /\ Visible(k) = {}
      BY <1>4, <1>7, <2>1, RenewedUnused DEF StoreInv
    <2>3. Visible(k)' = S
      <3>1. CASE S = {}
        BY <1>2, <2>1, <3>1, FS_EmptySet DEF Visible, Live, IsLive
      <3>2. CASE S # {}
        <4>1. IsFiniteSet(S)
          BY FS_Subset, StoreAssumption
        <4>2. m.count # 0
          BY <2>1, <3>2, <4>1, FS_EmptySet
        <4>3. Live(k)'
          BY <1>2, <2>1, <4>2, NoMetaAssumption DEF Live, IsLive, IsStale
        <4>4. QED BY <1>2, <1>5, <2>2, <4>3 DEF Visible, Stored
      <3>3. QED BY <3>1, <3>2
    <2>4. Becomes(k, S, 0)
      BY <1>1, <1>2, <1>3, <2>1, <2>3, BecomePromised
    <2>5. Seen[k] \cup S = S /\ Due[k] = 0
      BY <2>2 DEF Seen, Due
    <2>6. QED BY <2>4, <2>5 DEF Becomes, Seen, Due, Promise!Put, Promise!Become
  <1>8. QED BY <1>6, <1>7

\* HDel takes members away, and the collection with the last of them.
LEMMA RemoveMembersPromised ==
  ASSUME StoreInv, StoreInv', raced = {}, raced' = {},
         NEW k \in Keys, NEW S \in SUBSET Members, RemoveMembers(k, S)
  PROVE  Promise!Remove(k, S)
  <1>0. PICK v, ts, n : /\ v = meta[k].version /\ ts = meta[k].timestamp
                        /\ n = -Cardinality(S \cap Stored(k, v))
    OBVIOUS
  <1>1. /\ meta[k] \in MetaValue /\ meta[k] # NoMeta /\ Live(k)
        /\ meta' = [meta EXCEPT ![k] = ModifyCount(meta[k], n)]
        /\ data' = data \ Records(k, v, S \cap Stored(k, v))
        /\ now' = now
    BY <1>0, LiveFacts DEF RemoveMembers, StoreInv
  <1>2. /\ meta'[k] = ModifyCount(meta[k], n)
        /\ \A i \in Keys \ {k} : meta'[i] = meta[i]
    BY <1>1 DEF StoreInv, StoreTypeOK
  <1>3. meta'[k].version = v /\ meta'[k].timestamp = ts
    BY <1>0, <1>1, <1>2 DEF ModifyCount, MetaValue
  <1>4. \A j \in Keys \ {k} : Visible(j)' = Visible(j) /\ meta'[j] = meta[j]
    <2>1. \A rec : rec[1] # k => (rec \in data' <=> rec \in data)
      BY <1>1 DEF Records
    <2>2. QED BY <1>1, <1>2, <2>1, OthersSeen
  <1>5. /\ Visible(k) = Stored(k, v) /\ Visible(k) # {}
        /\ Visible(k)' = {} <=> ~Live(k)'
    <2>1. Visible(k) # {}
      BY <1>1, VisibleIffLive
    <2>2. Visible(k)' = {} <=> ~Live(k)'
      BY VisibleIffLiveNext
    <2>3. Visible(k) = Stored(k, v)
      BY <1>0, <1>1 DEF Visible
    <2>4. QED BY <2>1, <2>2, <2>3
  <1>6. Stored(k, v)' = Stored(k, v) \ S
    BY <1>1 DEF Stored, Records
  <1>7. PICK T : T = Visible(k) \ S
    OBVIOUS
  <1>8. Visible(k)' = T
    <2>1. CASE Live(k)'
      <3>1. Visible(k)' = Stored(k, v)'
        BY <1>3, <2>1 DEF Visible, Stored
      <3>2. QED BY <1>5, <1>6, <1>7, <3>1
    <2>2. CASE ~Live(k)'
      <3>1. meta[k] \in MetaValue /\ meta'[k] \in MetaValue /\ meta'[k] # NoMeta
        <4>1. IsFiniteSet(S \cap Stored(k, v))
          BY FS_Subset, StoreAssumption
        <4>2. n \in Int
          BY <1>0, <4>1, FS_CardinalityType
        <4>3. ModifyCount(meta[k], n) \in MetaValue
          BY <1>1, <4>2 DEF ModifyCount, MetaValue
        <4>4. QED BY <1>1, <1>2, <4>3, NoMetaAssumption
      <3>2. meta'[k].count = 0
        BY <1>0, <1>1, <1>3, <2>2, <3>1 DEF Live, IsLive, IsStale
      <3>3. Fresh(k)'
        BY <1>0, <1>1, <1>3, <3>1 DEF Fresh, Live, IsLive, IsStale
      <3>4. Cardinality(Stored(k, v)') = 0
        BY <1>3, <3>2, <3>3 DEF StoreInv, CountsStored, Stored
      <3>5. IsFiniteSet(Stored(k, v)')
        <4>1. Stored(k, v)' \subseteq Members
          BY DEF Stored
        <4>2. QED BY <4>1, FS_Subset, StoreAssumption
      <3>6. Stored(k, v)' = {}
        BY <3>4, <3>5, FS_EmptySet
      <3>7. QED BY <1>5, <1>6, <1>7, <2>2, <3>6
    <2>3. QED BY <2>1, <2>2
  <1>9. Becomes(k, T, ts)
    BY <1>1, <1>3, <1>4, <1>8, BecomePromised
  <1>10. Seen[k] \ S = T /\ Due[k] = ts
    BY <1>0, <1>5, <1>7 DEF Seen, Due
  <1>11. QED BY <1>9, <1>10 DEF Becomes, Seen, Due, Promise!Remove, Promise!Become

\* A renewed collection is empty.
LEMMA RenewPromised ==
  ASSUME StoreInv, NEW k \in Keys, Renew(k)
  PROVE  Promise!Replace(k, {})
  <1>1. /\ data' = data /\ now' = now
        /\ meta'[k] = Renewed(k) /\ \A i \in Keys \ {k} : meta'[i] = meta[i]
    BY DEF Renew, StoreInv, StoreTypeOK
  <1>2. Visible(k)' = {}
    BY <1>1, RenewedMeta DEF Visible, Live, IsLive, StoreInv
  <1>3. \A j \in Keys \ {k} : Visible(j)' = Visible(j) /\ meta'[j] = meta[j]
    BY <1>1, OthersSeen
  <1>4. Becomes(k, {}, 0)
    BY <1>1, <1>2, <1>3, BecomePromised
  <1>5. QED BY <1>4 DEF Becomes, Seen, Due, Promise!Replace, Promise!Become

\* A new timestamp moves the deadline, or ends the collection if it is past.
LEMMA ReschedulePromised ==
  ASSUME StoreInv, StoreInv', raced = {}, NEW k \in Keys, NEW ts \in Nat,
         Reschedule(k, SetTimestamp(meta[k], ts))
  PROVE  Promise!SetDeadline(k) \/ Promise!Replace(k, {})
  <1>1. /\ meta[k] \in MetaValue /\ meta[k] # NoMeta /\ Live(k)
        /\ data' = data /\ now' = now /\ now \in Nat
        /\ meta'[k] = SetTimestamp(meta[k], ts)
        /\ \A i \in Keys \ {k} : meta'[i] = meta[i]
    BY LiveFacts DEF Reschedule, StoreInv, StoreTypeOK
  <1>2. /\ meta'[k].version = meta[k].version /\ meta'[k].timestamp = ts
        /\ meta'[k].count = meta[k].count /\ meta'[k] # NoMeta
    BY <1>1, NoMetaAssumption DEF SetTimestamp, MetaValue
  <1>3. \A j \in Keys \ {k} : Visible(j)' = Visible(j) /\ meta'[j] = meta[j]
    BY <1>1, OthersSeen
  <1>4. Visible(k) # {}
    BY <1>1, VisibleIffLive
  <1>5. CASE ts = 0 \/ ts >= now
    <2>1. Live(k)'
      BY <1>1, <1>2, <1>5 DEF Live, IsLive, IsStale
    <2>2. Visible(k)' = Visible(k)
      BY <1>1, <1>2, <2>1 DEF Visible, Stored
    <2>3. Seen' = Seen
      BY <1>3, <2>2 DEF Seen
    <2>4. Due'[k] = ts /\ \A j \in Keys \ {k} : Due'[j] = Due[j]
      BY <1>2, <1>3, <1>4, <2>2 DEF Due
    <2>5. Due' \in [Keys -> Nat]
      <3>1. \A j \in Keys : Due'[j] \in Nat
        <4>1. \A j \in Keys \ {k} : Due[j] \in Nat
          BY DEF Due, Visible, Live, IsLive, StoreInv, StoreTypeOK, MetaValue
        <4>2. QED BY <2>4, <4>1
      <3>2. QED BY <3>1 DEF Due
    <2>6. Promise!SetDeadline(k)
      BY <1>1, <1>4, <1>5, <2>3, <2>4, <2>5 DEF Promise!SetDeadline, Seen, Due
    <2>7. QED BY <2>6
  <1>6. CASE ~(ts = 0 \/ ts >= now)
    <2>1. ~Live(k)'
      BY <1>1, <1>2, <1>6 DEF Live, IsLive, IsStale
    <2>2. Visible(k)' = {}
      BY <2>1 DEF Visible
    <2>3. Becomes(k, {}, 0)
      BY <1>1, <1>3, <2>2, BecomePromised
    <2>4. QED BY <2>3 DEF Becomes, Seen, Due, Promise!Replace, Promise!Become
  <1>7. QED BY <1>5, <1>6

\* Expire, Expireat, Persist and Del.
LEMMA ExpiryPromised ==
  ASSUME StoreInv, StoreInv', raced = {}, NEW k \in Keys,
         \/ \E ttl \in Ttls : Expire(k, ttl)
         \/ \E ts \in Timestamps : Expireat(k, ts)
         \/ Persist(k)
         \/ Del(k)
  PROVE  Promise!SetDeadline(k) \/ Promise!Replace(k, {})
  <1>1. CASE Renew(k)
    BY <1>1, RenewPromised
  <1>2. \A ttl \in Ttls : ttl > 0 => /\ now + ttl \in Nat
                          /\ SetRelativeTimestamp(meta[k], ttl, now)
                               = SetTimestamp(meta[k], now + ttl)
    BY StoreAssumption DEF SetRelativeTimestamp, SetTimestamp, StoreInv, StoreTypeOK
  <1>3. CASE \E ttl \in Ttls : Expire(k, ttl)
    <2>1. PICK ttl \in Ttls : Expire(k, ttl)
      BY <1>3
    <2>2. PICK ts : ts = now + ttl
      OBVIOUS
    <2>3. CASE ttl > 0 /\ Reschedule(k, SetRelativeTimestamp(meta[k], ttl, now))
      <3>1. ts \in Nat /\ Reschedule(k, SetTimestamp(meta[k], ts))
        BY <1>2, <2>2, <2>3
      <3>2. QED BY <3>1, ReschedulePromised
    <2>4. QED BY <1>1, <2>1, <2>3 DEF Expire
  <1>4. CASE \E ts \in Timestamps : Expireat(k, ts)
    <2>1. PICK ts \in Timestamps : Expireat(k, ts)
      BY <1>4
    <2>2. CASE ts > 0 /\ Reschedule(k, SetTimestamp(meta[k], ts))
      <3>1. ts \in Nat
        BY <2>2, StoreAssumption
      <3>2. QED BY <2>2, <3>1, ReschedulePromised
    <2>3. QED BY <1>1, <2>1, <2>2 DEF Expireat
  <1>5. CASE Persist(k)
    BY <1>5, ReschedulePromised DEF Persist
  <1>6. QED BY <1>1, <1>3, <1>4, <1>5 DEF Del

\* A second passes: what outlives its deadline is gone.
LEMMA TickPromised ==
  ASSUME StoreInv, StoreInv', raced = {}, raced' = {}, Tick
  PROVE  Promise!Tick
  <1>1. /\ meta' = meta /\ data' = data /\ now \in Nat /\ now' = now + 1
    BY DEF Tick, StoreInv, StoreTypeOK
  <1> DEFINE over(k) == Due[k] # 0 /\ Due[k] < now + 1
  <1>2. ASSUME NEW k \in Keys
        PROVE  /\ Visible(k)' = IF over(k) THEN {} ELSE Visible(k)
               /\ Due'[k] = IF over(k) THEN 0 ELSE Due[k]
    <2>1. meta[k] # NoMeta => meta[k] \in MetaValue /\ meta[k].timestamp \in Nat
      BY DEF StoreInv, StoreTypeOK, MetaValue
    <2>2. CASE Live(k)
      <3>1. Visible(k) # {} /\ Due[k] = meta[k].timestamp /\ meta[k] # NoMeta
        BY <2>2, VisibleIffLive DEF Due, Live, IsLive
      <3>2. Live(k)' <=> ~over(k)
        BY <1>1, <2>1, <2>2, <3>1 DEF Live, IsLive, IsStale
      <3>3. Visible(k)' = IF over(k) THEN {} ELSE Visible(k)
        BY <1>1, <2>2, <3>2 DEF Visible, Stored
      <3>4. QED BY <1>1, <3>1, <3>3 DEF Due
    <2>3. CASE ~Live(k)
      <3>1. Visible(k) = {} /\ Due[k] = 0
        BY <2>3 DEF Visible, Due
      <3>2. ~Live(k)'
        BY <1>1, <2>1, <2>3 DEF Live, IsLive, IsStale
      <3>3. Visible(k)' = {}
        BY <3>2 DEF Visible
      <3>4. QED BY <3>1, <3>3 DEF Due
    <2>4. QED BY <2>2, <2>3
  <1>3. /\ Seen' = [k \in Keys |-> IF over(k) THEN {} ELSE Seen[k]]
        /\ Due' = [k \in Keys |-> IF over(k) THEN 0 ELSE Due[k]]
    <2>1. Seen' = [k \in Keys |-> IF over(k) THEN {} ELSE Seen[k]]
      BY <1>2 DEF Seen
    <2>2. Due' = [k \in Keys |-> Due'[k]]
      BY DEF Due
    <2>3. QED BY <1>2, <2>1, <2>2
  <1>4. QED BY <1>1, <1>3 DEF Promise!Tick, Seen, Due

\* Compaction and restart are no step of ExpiringCollections.
LEMMA BackgroundPromised ==
  ASSUME StoreInv, StoreInv', raced = {}, raced' = {}, Background
  PROVE  Promise!Tick \/ (Seen' = Seen /\ Due' = Due /\ now' = now)
  <1>1. CASE Tick
    BY <1>1, TickPromised
  <1>2. CASE now' = now
    <2>1. \A k \in Keys : Visible(k)' = Visible(k)
      BY <1>2, BackgroundUnseen
    <2>2. ASSUME NEW k \in Keys, Visible(k) # {}
          PROVE  meta'[k] = meta[k]
      <3>1. Live(k)
        BY <2>2 DEF Visible
      <3>2. ASSUME NEW j \in Keys, MetaCompact(j)
            PROVE  meta'[k] = meta[k]
        <4>1. ~Live(j)
          BY <3>2 DEF MetaCompact, MetaFilterDrops, Live, IsLive
        <4>2. QED BY <3>1, <3>2, <4>1 DEF MetaCompact, StoreInv, StoreTypeOK
      <3>3. QED BY <1>2, <3>2 DEF Background, Maintenance, CompactionStart,
                   FilterRecord, CompactionInstall, Reopen, Tick
    <2>3. QED BY <1>2, <2>1, <2>2 DEF Seen, Due
  <1>3. QED BY <1>1, <1>2 DEF Background, Maintenance, MetaCompact, CompactionStart,
               FilterRecord, CompactionInstall, Reopen

\* The empty database is the empty map.
LEMMA InitPromised ==
  StoreInit => Promise!Init
  BY DEF StoreInit, Promise!Init, Visible, Live, IsLive
=============================================================================
