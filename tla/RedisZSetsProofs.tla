--------------------------- MODULE RedisZSetsProofs ---------------------------
(***************************************************************************)
(* What TLAPS proves of sorted sets: ZSetsInv is inductive as long as a     *)
(* snapshot stays current and no key's life is extended behind a filter's   *)
(* back; what reads return and what commands do is then what ExpiringZSets  *)
(* promises, and every step is a step of it or none.  The scores are a      *)
(* second store, so what CollectionStoreProofs says of a store is cited     *)
(* twice: as it stands for the members, and as OfScores for the scores.     *)
(***************************************************************************)
EXTENDS RedisZSets, CollectionStoreProofs, NaturalsInduction, WellFoundedInduction

OfScores == INSTANCE CollectionStoreProofs WITH
  data <- scores, filter <- scoreFilter, raced <- scoreRaced,
  Members <- ScoredMembers

\* The scores' store has finitely many members too.
LEMMA ScoresAreFinite == IsFiniteSet(ScoredMembers)
  <1>1. IsFiniteSet(LowestScore .. TopScore - 1) /\ Scores \subseteq LowestScore .. TopScore - 1
    BY ZSetsAssumption, FS_Interval
  <1>2. IsFiniteSet(Scores) /\ IsFiniteSet(Members)
    BY <1>1, FS_Subset, StoreAssumption
  <1>3. QED BY <1>2, FS_Product DEF ScoredMembers

\* What the lemmas of OfScores assume of its constants.
LEMMA ScoresAssumption ==
  /\ OfScores!IsFiniteSet(ScoredMembers) /\ NoMeta \notin OfScores!MetaValue
  /\ NoKey \notin Keys /\ Ttls \subseteq Int /\ Timestamps \subseteq Int
  /\ MaxTime \in Nat /\ MaxVersion \in Nat
  <1>1. OfScores!IsFiniteSet(ScoredMembers)
    BY ScoresAreFinite DEF IsFiniteSet, OfScores!IsFiniteSet
  <1>2. QED BY <1>1, StoreAssumption, NoMetaAssumption DEF MetaValue, OfScores!MetaValue

\* The instances count as everyone does.
LEMMA SameCardinality ==
  \A T : S!Cardinality(T) = Cardinality(T) /\ OfScores!Cardinality(T) = Cardinality(T)
  BY Zenon DEF S!Cardinality, OfScores!Cardinality, Cardinality

\* The invariant of the scores' store, by either name.
LEMMA SameStore == S!StoreInv <=> OfScores!StoreInv
  <1>1. S!StoreTypeOK <=> OfScores!StoreTypeOK
    BY DEF S!StoreTypeOK, OfScores!StoreTypeOK, S!DataKey, OfScores!DataKey,
           S!Filter, OfScores!Filter, S!MetaValue, OfScores!MetaValue
  <1>2. \A k \in Keys : S!Fresh(k) <=> OfScores!Fresh(k)
    BY DEF S!Fresh, OfScores!Fresh, S!IsStale, OfScores!IsStale
  <1>3. S!CountsStored <=> OfScores!CountsStored
    BY <1>2, SameCardinality DEF S!CountsStored, OfScores!CountsStored, S!Stored, OfScores!Stored
  <1>4. S!VersionsBehindMeta <=> OfScores!VersionsBehindMeta
    BY DEF S!VersionsBehindMeta, OfScores!VersionsBehindMeta
  <1>5. S!FilterWorksOnData <=> OfScores!FilterWorksOnData
    BY DEF S!FilterWorksOnData, OfScores!FilterWorksOnData
  <1>6. S!DoomedAreDead <=> OfScores!DoomedAreDead
    BY DEF S!DoomedAreDead, OfScores!DoomedAreDead, S!Fresh, OfScores!Fresh,
           S!IsStale, OfScores!IsStale
  <1>7. S!AbsenceStaysTrue <=> OfScores!AbsenceStaysTrue
    BY DEF S!AbsenceStaysTrue, OfScores!AbsenceStaysTrue, S!Fresh, OfScores!Fresh,
           S!IsStale, OfScores!IsStale
  <1>8. S!MemoryStaysSafe <=> OfScores!MemoryStaysSafe
    BY DEF S!MemoryStaysSafe, OfScores!MemoryStaysSafe
  <1>9. QED BY <1>1, <1>3, <1>4, <1>5, <1>6, <1>7, <1>8 DEF S!StoreInv, OfScores!StoreInv
----------------------------------------------------------------------------
(* Counting.                                                                *)

\* As many as there are images under a function that takes no value twice.
LEMMA SameSize ==
  ASSUME NEW A, NEW B, IsFiniteSet(A), NEW g \in [A -> B],
         \A a, b \in A : g[a] = g[b] => a = b,
         \A y \in B : \E a \in A : g[a] = y
  PROVE  IsFiniteSet(B) /\ Cardinality(B) = Cardinality(A)
  <1>1. g \in Bijection(A, B)
    BY DEF Bijection, Injection, Surjection, IsInjective
  <1>2. QED BY <1>1, FS_Bijection DEF ExistsBijection

\* Every member has one score.
LEMMA ScoredCount ==
  ASSUME NEW X \in SUBSET Members, NEW f
  PROVE  /\ IsFiniteSet(X)
         /\ Cardinality({<<f[x], x>> : x \in X}) = Cardinality(X)
  <1>1. IsFiniteSet(X)
    BY StoreAssumption, FS_Subset
  <1> DEFINE g == [x \in X |-> <<f[x], x>>]
  <1>2. /\ g \in [X -> {<<f[x], x>> : x \in X}]
        /\ \A a, b \in X : g[a] = g[b] => a = b
        /\ \A y \in {<<f[x], x>> : x \in X} : \E a \in X : g[a] = y
    OBVIOUS
  <1>3. QED BY <1>1, <1>2, SameSize
----------------------------------------------------------------------------
(* Batches.                                                                 *)

\* What ZSetsInv says of the column families, of the next state.
Kept ==
  /\ StoreInv' /\ S!StoreInv' /\ ScoresAgree'
  /\ score' \in [data' -> Scores] /\ IsFiniteSet(data') /\ IsFiniteSet(scores')

\* The score records of the members X of k, under a version and the scores f.
Scored(k, version, X, f) == {<<k, version, <<f[x], x>>>> : x \in X}

\* What a batch leaves in the members column family.
LEMMA WriteRows ==
  ASSUME NEW k, NEW m, NEW gone, NEW goneScores, NEW X, NEW f,
         Write(k, m, gone, goneScores, Scored(k, m.version, X, f))
  PROVE  /\ meta' = [meta EXCEPT ![k] = m] /\ now' = now
         /\ data' = (data \ gone) \cup Records(k, m.version, X)
         /\ scores' = (scores \ goneScores) \cup Scored(k, m.version, X, f)
         /\ score' = [row \in data' |-> score'[row]]
         /\ \A x \in X : score'[<<k, m.version, x>>] = f[x]
         /\ \A row \in data' \ Records(k, m.version, X) : score'[row] = score[row]
         /\ Shadow(gone \cup Records(k, m.version, X))
         /\ S!Shadow(goneScores \cup Scored(k, m.version, X, f))
  <1> DEFINE put       == Scored(k, m.version, X, f)
             member(r) == <<r[1], r[2], r[3][2]>>
             rows      == {member(r) : r \in put}
             valueOf(row) == (CHOOSE r \in put : member(r) = row)[3][1]
  <1>1. rows = Records(k, m.version, X)
    <2>1. rows \subseteq Records(k, m.version, X)
      BY DEF Scored, Records
    <2>2. ASSUME NEW x \in X
          PROVE  <<k, m.version, x>> \in rows
      <3>1. <<k, m.version, <<f[x], x>>>> \in put
        BY DEF Scored
      <3>2. member(<<k, m.version, <<f[x], x>>>>) = <<k, m.version, x>>
        OBVIOUS
      <3> HIDE DEF put, member
      <3>3. QED BY <3>1, <3>2
    <2>3. QED BY <2>1, <2>2 DEF Records
  <1>2. \A x \in X : valueOf(<<k, m.version, x>>) = f[x]
    <2> SUFFICES ASSUME NEW x \in X
                 PROVE  valueOf(<<k, m.version, x>>) = f[x]
      OBVIOUS
    <2>1. \E r \in put : member(r) = <<k, m.version, x>>
      <3>1. <<k, m.version, <<f[x], x>>>> \in put
        BY DEF Scored
      <3>2. QED BY <3>1
    <2>2. \A r \in put : member(r) = <<k, m.version, x>> => r[3][1] = f[x]
      BY DEF Scored
    <2> HIDE DEF put, member
    <2>3. QED BY <2>1, <2>2
  <1>3. /\ meta' = [meta EXCEPT ![k] = m] /\ now' = now
        /\ data' = (data \ gone) \cup rows
        /\ score' = [row \in data' |-> IF row \in rows THEN valueOf(row) ELSE score[row]]
        /\ scores' = (scores \ goneScores) \cup put
        /\ Shadow(gone \cup rows)
        /\ S!Shadow(goneScores \cup put)
    BY DEF Write
  <1> HIDE DEF put, rows, valueOf
  <1>4. \A x \in X : <<k, m.version, x>> \in rows
    BY <1>1 DEF Records
  <1>5. QED BY <1>1, <1>2, <1>3, <1>4 DEF put

\* BatchInv of the scores' store.
LEMMA ScoreBatchInv ==
  ASSUME OfScores!StoreInv, NEW k \in Keys, NEW m, NEW gone, NEW put,
         OfScores!Batch(k, m, gone, put)
  PROVE  OfScores!StoreInv'
  BY OfScores!BatchInv, ScoresAssumption

\* A batch that takes the members G of k away and gives the members X the scores
\* f, in k's present incarnation or one that nothing has reached, and that counts
\* the members it leaves.
Rescores(k, m, G, X, f) ==
  LET v == m.version
      held == Stored(k, v)
  IN  /\ m \in MetaValue
      /\ G \subseteq held /\ G \cap X = {}
      /\ X \subseteq Members /\ f \in [X -> Scores]
      /\ Write(k, m, Records(k, v, G),
               {ScoreRecord(k, v, x) : x \in G \cup (X \cap held)}, Scored(k, v, X, f))
      /\ m.count = Cardinality((held \ G) \cup X)
      /\ \/ Fresh(k) /\ v = meta[k].version /\ m.timestamp = meta[k].timestamp
         \/ Unreached(k, v) /\ OfScores!Unreached(k, v)

\* Such a batch keeps the column families at one and each store's invariant.
LEMMA RescoresInv ==
  ASSUME ZSetsInv, raced = {}, scoreRaced = {}, raced' = {}, scoreRaced' = {},
         NEW k \in Keys, NEW m, NEW G, NEW X, NEW f, Rescores(k, m, G, X, f)
  PROVE  Kept
  <1>1. PICK v \in Nat : v = m.version
    BY DEF Rescores, MetaValue
  <1> DEFINE held  == Stored(k, v)
             left  == (held \ G) \cup X
             gone  == {ScoreRecord(k, v, x) : x \in G \cup (X \cap held)}
             old(x) == <<score[<<k, v, x>>], x>>
             new(x) == <<score'[<<k, v, x>>], x>>
  <1>2. /\ meta' = [meta EXCEPT ![k] = m] /\ now' = now
        /\ data' = (data \ Records(k, v, G)) \cup Records(k, v, X)
        /\ scores' = (scores \ gone) \cup Scored(k, v, X, f)
        /\ score' = [row \in data' |-> score'[row]]
        /\ \A x \in X : score'[<<k, v, x>>] = f[x]
        /\ \A row \in data' \ Records(k, v, X) : score'[row] = score[row]
        /\ Shadow(Records(k, v, G) \cup Records(k, v, X))
        /\ S!Shadow(gone \cup Scored(k, v, X, f))
    <2>1. /\ Write(k, m, Records(k, v, G), gone, Scored(k, m.version, X, f))
          /\ Records(k, v, X) = Records(k, m.version, X)
          /\ Scored(k, v, X, f) = Scored(k, m.version, X, f)
          /\ \A x : <<k, v, x>> = <<k, m.version, x>>
      BY <1>1, Zenon DEF Rescores
    <2> HIDE DEF gone
    <2>2. /\ meta' = [meta EXCEPT ![k] = m] /\ now' = now
          /\ data' = (data \ Records(k, v, G)) \cup Records(k, m.version, X)
          /\ scores' = (scores \ gone) \cup Scored(k, m.version, X, f)
          /\ score' = [row \in data' |-> score'[row]]
          /\ \A x \in X : score'[<<k, m.version, x>>] = f[x]
          /\ \A row \in data' \ Records(k, m.version, X) : score'[row] = score[row]
          /\ Shadow(Records(k, v, G) \cup Records(k, m.version, X))
          /\ S!Shadow(gone \cup Scored(k, m.version, X, f))
      BY <2>1, WriteRows
    <2>3. QED BY <1>1, <2>2, Zenon
  <1>3. /\ m \in MetaValue /\ G \subseteq held /\ G \cap X = {}
        /\ X \in SUBSET Members /\ f \in [X -> Scores]
        /\ m.count = Cardinality(left)
        /\ \/ Fresh(k) /\ v = meta[k].version /\ m.timestamp = meta[k].timestamp
           \/ Unreached(k, v) /\ OfScores!Unreached(k, v)
    BY <1>1 DEF Rescores
  <1>4. /\ StoreInv /\ OfScores!StoreInv /\ ScoresAgree
        /\ score \in [data -> Scores] /\ data \in SUBSET DataKey
        /\ scores \in SUBSET S!DataKey
        /\ IsFiniteSet(data) /\ IsFiniteSet(scores)
    BY SameStore DEF ZSetsInv, ZSetsTypeOK, StoreTypeOK, S!StoreTypeOK
  <1>5. held \subseteq Members /\ left \in SUBSET Members
    BY <1>3 DEF Stored
  <1>6. StoredIn(data', k, v) = left
    BY <1>2, <1>3, <1>5 DEF StoredIn, Stored, Records
  <1>7. \A x \in left \ X : score'[<<k, v, x>>] = score[<<k, v, x>>] /\ x \in held
    BY <1>2, <1>3, <1>6 DEF Records, StoredIn
  <1>8. \A x \in left : <<k, v, x>> \in data'
    BY <1>6 DEF StoredIn
  <1>9. score' \in [data' -> Scores]
    <2>1. ASSUME NEW row \in data'
          PROVE  score'[row] \in Scores
      <3>1. CASE row \in Records(k, v, X)
        BY <1>2, <1>3, <3>1 DEF Records
      <3>2. CASE row \notin Records(k, v, X)
        BY <1>2, <1>4, <3>2
      <3>3. QED BY <3>1, <3>2
    <2>2. QED BY <1>2, <2>1
  <1>10. S!Stored(k, v) = {old(x) : x \in held}
    <2>1. CASE Fresh(k) /\ v = meta[k].version
      <3>1. S!Stored(k, meta[k].version) =
              {<<score[<<k, meta[k].version, x>>], x>> : x \in Stored(k, meta[k].version)}
        BY <1>4, <2>1 DEF ScoresAgree
      <3>2. QED BY <2>1, <3>1, Zenon
    <2>2. CASE Unreached(k, v) /\ OfScores!Unreached(k, v)
      <3>1. held = {} /\ S!Stored(k, v) = {}
        BY <1>1, <2>2 DEF Stored, S!Stored, Unreached, OfScores!Unreached
      <3>2. QED BY <3>1
    <2>3. QED BY <1>3, <2>1, <2>2
  <1>11. OfScores!StoredIn(scores', k, v) = {new(x) : x \in left}
    <2> SUFFICES ASSUME NEW p
                 PROVE  p \in OfScores!StoredIn(scores', k, v) <=> \E x \in left : p = new(x)
      OBVIOUS
    <2>1. ASSUME p \in OfScores!StoredIn(scores', k, v)
          PROVE  \E x \in left : p = new(x)
      <3>1. p \in ScoredMembers /\ <<k, v, p>> \in scores'
        BY <2>1 DEF OfScores!StoredIn
      <3>2. CASE <<k, v, p>> \in Scored(k, v, X, f)
        <4>1. PICK x \in X : p = <<f[x], x>>
          BY <3>2 DEF Scored
        <4>2. QED BY <1>2, <4>1
      <3>3. CASE <<k, v, p>> \in scores /\ <<k, v, p>> \notin gone
        <4>1. PICK x \in held : p = old(x)
          BY <1>10, <3>1, <3>3 DEF S!Stored
        <4>2. x \notin G \cup X
          BY <3>3, <4>1 DEF ScoreRecord
        <4>3. x \in left /\ p = new(x)
          BY <1>7, <4>1, <4>2
        <4>4. QED BY <4>3
      <3>4. QED BY <1>2, <3>1, <3>2, <3>3
    <2>2. ASSUME NEW x \in left, p = new(x)
          PROVE  p \in OfScores!StoredIn(scores', k, v)
      <3>1. p \in ScoredMembers
        <4>1. score'[<<k, v, x>>] \in Scores /\ x \in Members
          BY <1>5, <1>8, <1>9
        <4>2. QED BY <2>2, <4>1 DEF ScoredMembers
      <3>2. CASE x \in X
        BY <1>2, <2>2, <3>1, <3>2 DEF OfScores!StoredIn, Scored
      <3>3. CASE x \notin X
        <4>1. x \in held /\ x \notin G /\ p = old(x)
          BY <1>7, <2>2, <3>3
        <4>2. <<k, v, p>> \in scores
          BY <1>10, <4>1 DEF S!Stored
        <4>3. <<k, v, p>> \notin gone
          BY <3>3, <4>1 DEF ScoreRecord
        <4>4. QED BY <1>2, <3>1, <4>2, <4>3 DEF OfScores!StoredIn
      <3>4. QED BY <3>2, <3>3
    <2>3. QED BY <2>1, <2>2
  <1>12. StoreInv'
    <2>1. Batch(k, m, Records(k, v, G), Records(k, v, X))
      <3>1. /\ Records(k, v, X) \in SUBSET DataKey
            /\ \A rec \in Records(k, v, X) : rec[1] = k /\ rec[2] = m.version
            /\ \A rec \in Records(k, v, G) : rec[1] = k
        BY <1>1, <1>3, RecordsType DEF Records
      <3>2. \/ /\ meta[k] # NoMeta
               /\ m.version = meta[k].version /\ m.timestamp = meta[k].timestamp
               /\ raced' = raced
            \/ Unreached(k, m.version) /\ raced' = raced \ {k}
        BY <1>1, <1>3 DEF Fresh
      <3>3. QED BY <1>1, <1>2, <1>3, <1>6, <3>1, <3>2 DEF Batch
    <2>2. QED BY <1>4, <2>1, BatchInv
  <1>13. OfScores!StoreInv'
    <2>1. OfScores!Batch(k, m, gone, Scored(k, v, X, f))
      <3>1. /\ Scored(k, v, X, f) \in SUBSET OfScores!DataKey
            /\ \A rec \in Scored(k, v, X, f) : rec[1] = k /\ rec[2] = m.version
            /\ \A rec \in gone : rec[1] = k
        <4>1. \A x \in X : <<f[x], x>> \in ScoredMembers
          BY <1>3 DEF ScoredMembers
        <4>2. Scored(k, v, X, f) \in SUBSET OfScores!DataKey
          BY <4>1 DEF Scored, OfScores!DataKey
        <4>3. \A rec \in Scored(k, v, X, f) : rec[1] = k /\ rec[2] = v
          BY DEF Scored
        <4>4. \A rec \in gone : rec[1] = k
          <5>1. \A rec \in gone : \E x : rec = ScoreRecord(k, v, x)
            BY Zenon
          <5>2. \A x : ScoreRecord(k, v, x)[1] = k
            BY DEF ScoreRecord
          <5> HIDE DEF gone
          <5>3. QED BY <5>1, <5>2
        <4> HIDE DEF gone
        <4>5. QED BY <1>1, <4>2, <4>3, <4>4
      <3>2. \/ /\ meta[k] # NoMeta
               /\ m.version = meta[k].version /\ m.timestamp = meta[k].timestamp
               /\ scoreRaced' = scoreRaced
            \/ OfScores!Unreached(k, m.version) /\ scoreRaced' = scoreRaced \ {k}
        BY <1>1, <1>3 DEF Fresh
      <3>3. m.count = OfScores!Cardinality(OfScores!StoredIn(scores', k, m.version))
        <4>1. PICK g : g = [x \in left |-> score'[<<k, v, x>>]]
          OBVIOUS
        <4>2. {new(x) : x \in left} = {<<g[x], x>> : x \in left}
          BY <4>1
        <4>3. Cardinality({<<g[x], x>> : x \in left}) = Cardinality(left)
          BY <1>5, ScoredCount
        <4>4. QED BY <1>1, <1>3, <1>11, <4>2, <4>3, SameCardinality
      <3>4. m \in OfScores!MetaValue /\ OfScores!Shadow(gone \cup Scored(k, v, X, f))
        BY <1>2, <1>3 DEF MetaValue, OfScores!MetaValue, S!Shadow, OfScores!Shadow
      <3> HIDE DEF gone
      <3>5. QED BY <1>2, <3>1, <3>2, <3>3, <3>4, Zenon DEF OfScores!Batch
    <2> HIDE DEF gone
    <2>2. QED BY <1>4, <2>1, ScoreBatchInv
  <1>14. ScoresAgree'
    <2> SUFFICES ASSUME NEW j \in Keys, Fresh(j)'
                 PROVE  S!Stored(j, meta[j].version)' =
                          {<<score'[<<j, meta'[j].version, x>>], x>> :
                             x \in StoredIn(data', j, meta'[j].version)}
      BY DEF ScoresAgree, Stored, StoredIn
    <2>1. CASE j = k
      <3> DEFINE agreed(w) == {<<score'[<<k, w, x>>], x>> : x \in StoredIn(data', k, w)}
      <3>1. meta'[k] = m
        BY <1>4, <1>2 DEF StoreInv, StoreTypeOK
      <3>2. S!Stored(k, meta[k].version)' = OfScores!StoredIn(scores', k, v)
        BY <1>1, <3>1 DEF S!Stored, OfScores!StoredIn
      <3>3. OfScores!StoredIn(scores', k, v) = agreed(v)
        BY <1>6, <1>11, Zenon
      <3>4. meta'[k].version = v
        BY <1>1, <3>1
      <3> HIDE DEF agreed
      <3>5. S!Stored(k, meta[k].version)' = agreed(meta'[k].version)
        BY <3>2, <3>3, <3>4
      <3>6. QED BY <2>1, <3>5, Zenon DEF agreed
    <2>2. CASE j # k
      <3>1. meta'[j] = meta[j] /\ Fresh(j) /\ meta[j].version \in Nat
        BY <1>2, <1>4, <2>2 DEF Fresh, IsStale, StoreInv, StoreTypeOK, MetaValue
      <3> DEFINE w == meta[j].version
      <3>2. \A y : <<j, w, y>> \in data' <=> <<j, w, y>> \in data
        BY <1>2, <2>2 DEF Records
      <3>3. \A y : <<j, w, y>> \in scores' <=> <<j, w, y>> \in scores
        BY <1>2, <2>2 DEF Scored, ScoreRecord
      <3>4. StoredIn(data', j, w) = Stored(j, w) /\ S!Stored(j, w)' = S!Stored(j, w)
        BY <3>2, <3>3, <3>1 DEF StoredIn, Stored, S!Stored
      <3>5. \A x \in Stored(j, w) : score'[<<j, w, x>>] = score[<<j, w, x>>]
        BY <1>2, <2>2, <3>2 DEF Records, Stored
      <3>6. S!Stored(j, w) = {<<score[<<j, w, x>>], x>> : x \in Stored(j, w)}
        BY <1>4, <3>1 DEF ScoresAgree
      <3>7. {<<score[<<j, w, x>>], x>> : x \in Stored(j, w)}
              = {<<score'[<<j, w, x>>], x>> : x \in Stored(j, w)}
        BY <3>5
      <3>8. S!Stored(j, w)' = {<<score'[<<j, w, x>>], x>> : x \in StoredIn(data', j, w)}
        BY <3>4, <3>6, <3>7, Zenon
      <3>9. S!Stored(j, meta[j].version)' = S!Stored(j, w)'
        BY <3>1 DEF S!Stored
      <3>10. QED BY <3>1, <3>8, <3>9, Zenon
    <2>3. QED BY <2>1, <2>2
  <1>15. IsFiniteSet(data') /\ IsFiniteSet(scores')
    <2>1. IsFiniteSet(Records(k, v, X)) /\ IsFiniteSet(Scored(k, v, X, f))
      <3>1. IsFiniteSet(X)
        BY <1>3, FS_Subset, StoreAssumption
      <3>2. PICK g, h : /\ g = [x \in X |-> <<k, v, x>>]
                        /\ h = [x \in X |-> <<k, v, <<f[x], x>>>>]
        OBVIOUS
      <3>3. /\ g \in [X -> Records(k, v, X)]
            /\ \A a, b \in X : g[a] = g[b] => a = b
            /\ \A y \in Records(k, v, X) : \E a \in X : g[a] = y
        BY <3>2 DEF Records
      <3>4. /\ h \in [X -> Scored(k, v, X, f)]
            /\ \A a, b \in X : h[a] = h[b] => a = b
            /\ \A y \in Scored(k, v, X, f) : \E a \in X : h[a] = y
        BY <3>2 DEF Scored
      <3>5. IsFiniteSet(Records(k, v, X))
        BY <3>1, <3>3, SameSize
      <3>6. IsFiniteSet(Scored(k, v, X, f))
        BY <3>1, <3>4, SameSize
      <3>7. QED BY <3>5, <3>6
    <2>2. IsFiniteSet(data \ Records(k, v, G)) /\ IsFiniteSet(scores \ gone)
      BY <1>4, FS_Subset
    <2>3. QED BY <1>2, <2>1, <2>2, FS_Union
  <1>16. S!StoreInv'
    BY <1>13, SameStore, PTL
  <1>17. QED BY <1>9, <1>12, <1>14, <1>15, <1>16 DEF Kept

\* What ExpiringZSets calls contents.  (What it calls deadline is Due.)
Row == [k \in Keys |-> Contents(k)]

\* k comes to hold the scoring c until ts, and the other keys are left alone.
BecomesZSet(k, c, ts) ==
  /\ Row' = [Row EXCEPT ![k] = c]
  /\ Due' = [Due EXCEPT ![k] = IF DOMAIN c = {} THEN 0 ELSE ts]
  /\ now' = now

\* A scoring is a function.
IsScoring(c) == c = [x \in DOMAIN c |-> c[x]]

\* Which is what the promise says.
LEMMA BecomesAsPromised ==
  ASSUME NEW k \in Keys, NEW c, IsScoring(c), NEW ts, BecomesZSet(k, c, ts)
  PROVE  ZSets!Become(k, c, ts)
  <1>1. c = ZSets!Nothing <=> DOMAIN c = {}
    BY DEF ZSets!Nothing, IsScoring
  <1>2. (IF DOMAIN c = {} THEN 0 ELSE ts) = (IF c = ZSets!Nothing THEN 0 ELSE ts)
    BY <1>1
  <1>3. QED BY <1>2, Zenon DEF BecomesZSet, Row, Due, ZSets!Become

\* A batch shows what it leaves, unless its meta value is stale.
LEMMA RescoresSeen ==
  ASSUME ZSetsInv, NEW k \in Keys, NEW m, NEW G, NEW X, NEW f, Rescores(k, m, G, X, f),
         ~IsStale(m, now), NEW v, v = m.version
  PROVE  BecomesZSet(k, [x \in (Stored(k, v) \ G) \cup X |->
                           IF x \in X THEN f[x] ELSE score[<<k, v, x>>]], m.timestamp)
  <1> DEFINE held == Stored(k, v)
             left == (held \ G) \cup X
             c    == [x \in left |-> IF x \in X THEN f[x] ELSE score[<<k, v, x>>]]
  <1>1. PICK gone : gone = {ScoreRecord(k, v, x) : x \in G \cup (X \cap held)}
    OBVIOUS
  <1>2. /\ Write(k, m, Records(k, v, G), gone, Scored(k, m.version, X, f))
        /\ m \in MetaValue /\ m # NoMeta
        /\ G \subseteq held /\ X \subseteq Members /\ m.count = Cardinality(left)
    <2>1. Write(k, m, Records(k, v, G), gone, Scored(k, m.version, X, f))
      BY <1>1, Zenon DEF Rescores
    <2>2. QED BY <2>1, NoMetaAssumption DEF Rescores
  <1>3. /\ meta' = [meta EXCEPT ![k] = m] /\ now' = now
        /\ data' = (data \ Records(k, v, G)) \cup Records(k, v, X)
        /\ \A x \in X : score'[<<k, v, x>>] = f[x]
        /\ \A row \in data' \ Records(k, v, X) : score'[row] = score[row]
    <2>1. Write(k, m, Records(k, v, G), gone, Scored(k, m.version, X, f))
      BY <1>2
    <2>2. /\ meta' = [meta EXCEPT ![k] = m] /\ now' = now
          /\ data' = (data \ Records(k, v, G)) \cup Records(k, m.version, X)
          /\ scores' = (scores \ gone) \cup Scored(k, m.version, X, f)
          /\ score' = [row \in data' |-> score'[row]]
          /\ \A x \in X : score'[<<k, m.version, x>>] = f[x]
          /\ \A row \in data' \ Records(k, m.version, X) : score'[row] = score[row]
          /\ Shadow(Records(k, v, G) \cup Records(k, m.version, X))
          /\ S!Shadow(gone \cup Scored(k, m.version, X, f))
      BY <2>1, WriteRows
    <2>3. QED BY <2>2, Zenon
  <1>4. meta'[k] = m /\ \A j \in Keys \ {k} : meta'[j] = meta[j]
    BY <1>3 DEF ZSetsInv, ZSetsTypeOK, StoreTypeOK
  <1>5. \A x \in Members : <<k, v, x>> \in data' <=> x \in left
    BY <1>3 DEF Records, Stored
  <1>6. left \in SUBSET Members
    BY <1>2 DEF Stored
  <1>7. Visible(k)' = left
    <2>1. Live(k)' <=> m.count # 0
      BY <1>2, <1>3, <1>4 DEF Live, IsLive
    <2>2. left # {} => m.count # 0
      <3>1. IsFiniteSet(left)
        BY <1>6, FS_Subset, StoreAssumption
      <3>2. QED BY <1>2, <3>1, FS_EmptySet
    <2>3. Stored(k, meta[k].version)' = left
      BY <1>4, <1>5, <1>6 DEF Stored
    <2>4. left = {} => m.count = 0
      BY <1>2, FS_EmptySet
    <2>5. QED BY <2>1, <2>2, <2>3, <2>4 DEF Visible
  <1>8. Contents(k)' = c
    <2>1. \A x \in left : score'[<<k, v, x>>] = IF x \in X THEN f[x] ELSE score[<<k, v, x>>]
      <3> SUFFICES ASSUME NEW x \in left, x \notin X
                   PROVE  score'[<<k, v, x>>] = score[<<k, v, x>>]
        BY <1>3
      <3>1. <<k, v, x>> \in data' /\ <<k, v, x>> \notin Records(k, v, X)
        BY <1>5, <1>6 DEF Records
      <3>2. QED BY <1>3, <3>1
    <2>2. Contents(k)' = [x \in left |-> score'[<<k, v, x>>]]
      BY <1>4, <1>7 DEF Contents
    <2> HIDE DEF left
    <2>3. QED BY <2>1, <2>2
  <1>9. \A j \in Keys \ {k} : Visible(j)' = Visible(j) /\ meta'[j] = meta[j]
    <2>1. \A rec : rec[1] # k => (rec \in data' <=> rec \in data)
      <3>1. \A rec \in Records(k, v, G) \cup Records(k, v, X) : rec[1] = k
        BY DEF Records
      <3>2. QED BY <1>3, <3>1
    <2>2. QED BY <1>3, <1>4, <2>1, OthersSeen
  <1>10. ASSUME NEW j \in Keys \ {k}
         PROVE  Contents(j)' = Contents(j)
    <2>1. ASSUME NEW x \in Visible(j)
          PROVE  score'[<<j, meta[j].version, x>>] = score[<<j, meta[j].version, x>>]
      <3>1. x \in Visible(j)' /\ meta'[j] = meta[j]
        BY <1>9, <2>1
      <3>2. <<j, meta[j].version, x>> \in data'
        BY <3>1 DEF Visible, Stored
      <3>3. <<j, meta[j].version, x>> \notin Records(k, v, X)
        BY DEF Records
      <3>4. QED BY <1>3, <3>2, <3>3
    <2>2. QED BY <1>9, <2>1 DEF Contents
  <1> HIDE DEF left
  <1>11. Row' = [Row EXCEPT ![k] = c]
    <2> HIDE DEF c
    <2>1. QED BY <1>8, <1>10 DEF Row
  <1>12. Due' = [Due EXCEPT ![k] = IF left = {} THEN 0 ELSE m.timestamp]
    BY <1>4, <1>7, <1>9 DEF Due
  <1>13. DOMAIN c = left
    OBVIOUS
  <1> HIDE DEF c
  <1>14. BecomesZSet(k, c, m.timestamp)
    BY <1>3, <1>11, <1>12, <1>13 DEF BecomesZSet
  <1>15. QED BY <1>14 DEF c, left

\* A batch on a sorted set that is alive, which keeps its version and TTL.
Alters(k, G, X, f) ==
  LET v    == meta[k].version
      held == Stored(k, v)
  IN  /\ Live(k)
      /\ G \subseteq held /\ G \cap X = {}
      /\ X \subseteq Members /\ f \in [X -> Scores]
      /\ Write(k, ModifyCount(meta[k], Cardinality(X \ held) - Cardinality(G)),
               Records(k, v, G), {ScoreRecord(k, v, x) : x \in G \cup (X \cap held)},
               Scored(k, v, X, f))

\* A sorted set that is alive counts its members.
LEMMA LiveCount ==
  ASSUME ZSetsInv, raced = {}, NEW k \in Keys, Live(k)
  PROVE  /\ meta[k] \in MetaValue /\ meta[k] # NoMeta /\ Fresh(k)
         /\ meta[k].version \in Nat /\ meta[k].count \in Nat
         /\ meta[k].count = Cardinality(Stored(k, meta[k].version))
         /\ Stored(k, meta[k].version) \in SUBSET Members
         /\ IsFiniteSet(Stored(k, meta[k].version))
  <1>1. /\ meta[k] \in MetaValue /\ meta[k] # NoMeta /\ Fresh(k)
        /\ meta[k].version \in Nat
    BY LiveFacts DEF ZSetsInv, StoreInv
  <1>2. meta[k].count = Cardinality(Stored(k, meta[k].version))
    BY <1>1 DEF ZSetsInv, StoreInv, CountsStored
  <1>3. /\ Stored(k, meta[k].version) \in SUBSET Members
        /\ IsFiniteSet(Stored(k, meta[k].version))
    BY StoredFinite
  <1>4. Cardinality(Stored(k, meta[k].version)) \in Nat
    BY <1>3, FS_CardinalityType
  <1>5. QED BY <1>1, <1>2, <1>3, <1>4

\* And holds some.
LEMMA LiveSeen ==
  ASSUME ZSetsInv, raced = {}, NEW k \in Keys, Live(k)
  PROVE  /\ Visible(k) = Stored(k, meta[k].version)
         /\ Due[k] = meta[k].timestamp
         /\ Row[k] = Contents(k) /\ DOMAIN Row[k] = Visible(k)
         /\ \A x \in Visible(k) : Row[k][x] = score[<<k, meta[k].version, x>>]
  <1>1. Visible(k) = Stored(k, meta[k].version)
    BY DEF Visible
  <1>2. Visible(k) # {}
    BY VisibleIffLive DEF ZSetsInv
  <1>3. QED BY <1>1, <1>2 DEF Due, Row, Contents

\* One that is not holds none.
LEMMA DeadSeen ==
  ASSUME NEW k \in Keys, ~Live(k)
  PROVE  Visible(k) = {} /\ Due[k] = 0 /\ DOMAIN Row[k] = {}
  BY DEF Visible, Due, Row, Contents

\* k's scoring without the members G and with the scores f of the members X.
Altered(k, G, X, f) ==
  [x \in (DOMAIN Row[k] \ G) \cup X |-> IF x \in X THEN f[x] ELSE Row[k][x]]

\* The same where the deadline stays.
LEMMA AltersAsPromised ==
  ASSUME NEW k \in Keys, NEW c, IsScoring(c), BecomesZSet(k, c, Due[k])
  PROVE  ZSets!Become(k, c, Due[k])
  <1>1. PICK ts : ts = Due[k]
    OBVIOUS
  <1>2. BecomesZSet(k, c, ts)
    BY <1>1, Zenon DEF BecomesZSet
  <1>3. ZSets!Become(k, c, ts)
    BY <1>2, BecomesAsPromised
  <1>4. QED BY <1>1, <1>3, Zenon DEF ZSets!Become

\* Giving k the scores f, as the promise puts it.
LEMMA AddAsPromised ==
  ASSUME NEW k \in Keys, NEW f, NEW c,
         c = [x \in DOMAIN f \cup DOMAIN Row[k] |->
                IF x \in DOMAIN f THEN f[x] ELSE Row[k][x]],
         BecomesZSet(k, c, Due[k])
  PROVE  ZSets!Add(k, f)
  <1>1. IsScoring(c)
    BY DEF IsScoring
  <1>2. ZSets!Become(k, c, Due[k])
    BY <1>1, AltersAsPromised
  <1>3. QED BY <1>2, Zenon DEF ZSets!Add, Row, Due

\* Taking the members G away, as the promise puts it.
LEMMA RemoveAsPromised ==
  ASSUME NEW k \in Keys, NEW G, NEW c, c = [x \in DOMAIN Row[k] \ G |-> Row[k][x]],
         BecomesZSet(k, c, Due[k])
  PROVE  ZSets!Remove(k, G)
  <1>1. IsScoring(c)
    BY DEF IsScoring
  <1>2. ZSets!Become(k, c, Due[k])
    BY <1>1, AltersAsPromised
  <1>3. QED BY <1>2, Zenon DEF ZSets!Remove, Row, Due

\* Members that are not there may be named as well.
LEMMA RemovesHeld ==
  ASSUME NEW k \in Keys, NEW G, NEW X, DOMAIN Row[k] \cap X = DOMAIN Row[k] \cap G,
         ZSets!Remove(k, G)
  PROVE  ZSets!Remove(k, X)
  <1>1. DOMAIN Row[k] \ G = DOMAIN Row[k] \ X
    OBVIOUS
  <1>2. DOMAIN [j \in Keys |-> Contents(j)][k] \ G = DOMAIN [j \in Keys |-> Contents(j)][k] \ X
    BY <1>1, Zenon DEF Row
  <1>3. QED BY <1>2, Zenon DEF ZSets!Remove

\* Such a batch counts right, and shows what it leaves.
LEMMA AltersInv ==
  ASSUME ZSetsInv, raced = {}, scoreRaced = {}, raced' = {}, scoreRaced' = {},
         NEW k \in Keys, NEW G, NEW X, NEW f, Alters(k, G, X, f)
  PROVE  Kept /\ BecomesZSet(k, Altered(k, G, X, f), Due[k])
  <1>1. PICK v \in Nat : v = meta[k].version
    BY LiveCount DEF Alters
  <1> DEFINE held == Stored(k, v)
  <1>2. /\ meta[k] \in MetaValue /\ Fresh(k)
        /\ meta[k].count = Cardinality(held) /\ held \in SUBSET Members
    BY <1>1, LiveCount DEF Alters
  <1>3. G \in SUBSET held /\ G \cap X = {} /\ X \in SUBSET Members /\ f \in [X -> Scores]
    BY <1>1 DEF Alters
  <1>4. PICK n \in Int : /\ n = Cardinality(X \ held) - Cardinality(G)
                         /\ Cardinality((held \ G) \cup X) = Cardinality(held) + n
    <2>1. /\ Cardinality(held) \in Nat /\ Cardinality(G) \in Nat
          /\ Cardinality(held \ G) = Cardinality(held) - Cardinality(G)
      BY <1>2, <1>3, ShrinksByHeld
    <2>2. /\ Cardinality(X \ (held \ G)) \in Nat
          /\ Cardinality((held \ G) \cup X) =
               Cardinality(held \ G) + Cardinality(X \ (held \ G))
      <3>1. held \ G \in SUBSET Members
        BY <1>2
      <3>2. QED BY <1>3, <3>1, GrowsByNew
    <2>3. X \ (held \ G) = X \ held
      BY <1>3
    <2>4. QED BY <2>1, <2>2, <2>3
  <1>5. PICK m : m = ModifyCount(meta[k], n)
    OBVIOUS
  <1>6. /\ m \in MetaValue /\ m.version = v /\ m.timestamp = meta[k].timestamp
        /\ m.count = Cardinality((held \ G) \cup X)
    BY <1>1, <1>2, <1>4, <1>5 DEF ModifyCount, MetaValue
  <1>7. Write(k, m, Records(k, v, G),
              {ScoreRecord(k, v, x) : x \in G \cup (X \cap held)}, Scored(k, v, X, f))
    BY <1>1, <1>4, <1>5, Zenon DEF Alters
  <1>8. Rescores(k, m, G, X, f)
    <2>1. /\ G \subseteq Stored(k, v) /\ X \subseteq Members
          /\ Fresh(k) /\ v = meta[k].version
      BY <1>1, <1>2, <1>3
    <2>2. QED BY <1>3, <1>6, <1>7, <2>1, Zenon DEF Rescores
  <1>9. Kept
    BY <1>8, RescoresInv
  <1> DEFINE c == [x \in (Stored(k, v) \ G) \cup X |->
                     IF x \in X THEN f[x] ELSE score[<<k, v, x>>]]
  <1>10. BecomesZSet(k, c, m.timestamp)
    <2>1. ~IsStale(m, now)
      BY <1>2, <1>6 DEF Fresh, IsStale
    <2>2. QED BY <1>6, <1>8, <2>1, RescoresSeen
  <1>11. /\ Due[k] = m.timestamp /\ DOMAIN Row[k] = Stored(k, v)
         /\ \A x \in Stored(k, v) : Row[k][x] = score[<<k, v, x>>]
    BY <1>1, <1>6, LiveSeen DEF Alters
  <1>12. Altered(k, G, X, f) = c
    BY <1>11 DEF Altered
  <1> HIDE DEF c
  <1>13. QED BY <1>9, <1>10, <1>11, <1>12

\* What a sorted set that is not alive begins anew as.
LEMMA RenewedForBoth ==
  ASSUME ZSetsInv, NEW k \in Keys
  PROVE  /\ Renewed(k) \in MetaValue /\ Renewed(k).count = 0 /\ Renewed(k).timestamp = 0
         /\ Renewed(k).version \in Nat
         /\ Stored(k, Renewed(k).version) = {}
         /\ Unreached(k, Renewed(k).version) /\ OfScores!Unreached(k, Renewed(k).version)
  <1>1. /\ Renewed(k) \in MetaValue /\ Renewed(k).count = 0 /\ Renewed(k).timestamp = 0
        /\ Stored(k, Renewed(k).version) = {} /\ Unreached(k, Renewed(k).version)
    BY RenewedMeta, RenewedUnused, RenewedUnreached DEF ZSetsInv, StoreInv
  <1>2. OfScores!Renewed(k) = Renewed(k)
    BY DEF OfScores!Renewed, Renewed, OfScores!FreshMetaValue, FreshMetaValue,
           OfScores!InitialMetaValue, InitialMetaValue, OfScores!UpdateVersion,
           UpdateVersion, OfScores!NextVersion, NextVersion
  <1>3. OfScores!Unreached(k, OfScores!Renewed(k).version)
    <2>1. OfScores!StoreInv
      BY SameStore DEF ZSetsInv
    <2>2. QED BY <2>1, OfScores!RenewedUnreached, ScoresAssumption
  <1>4. QED BY <1>1, <1>2, <1>3 DEF MetaValue

\* A batch that begins a sorted set anew with the members X.
LEMMA BeginsInv ==
  ASSUME ZSetsInv, raced = {}, scoreRaced = {}, raced' = {}, scoreRaced' = {},
         NEW k \in Keys, NEW X \in SUBSET Members, NEW f \in [X -> Scores],
         NEW n, n = Cardinality(X), NEW v, v = Renewed(k).version,
         Write(k, SetCount(Renewed(k), n), {}, {}, Scored(k, v, X, f))
  PROVE  Kept /\ BecomesZSet(k, f, 0)
  <1>1. PICK m : m = SetCount(Renewed(k), n)
    OBVIOUS
  <1>2. n \in Int
    BY FS_Subset, FS_CardinalityType, StoreAssumption
  <1>3. m \in MetaValue /\ m.version = v /\ m.count = n /\ m.timestamp = 0
    BY <1>1, <1>2, RenewedForBoth DEF SetCount, MetaValue
  <1>4. Stored(k, v) = {} /\ Unreached(k, v) /\ OfScores!Unreached(k, v)
    BY RenewedForBoth
  <1>5. Write(k, m, Records(k, v, {}),
              {ScoreRecord(k, v, x) : x \in {} \cup (X \cap Stored(k, v))},
              Scored(k, v, X, f))
    <2>1. /\ Records(k, v, {}) = {}
          /\ {ScoreRecord(k, v, x) : x \in {} \cup (X \cap Stored(k, v))} = {}
      BY <1>4 DEF Records
    <2>2. QED BY <1>1, <2>1, Zenon
  <1>6. Rescores(k, m, {}, X, f)
    <2>1. m.count = Cardinality((Stored(k, v) \ {}) \cup X)
      <3>1. (Stored(k, v) \ {}) \cup X = X
        BY <1>4
      <3>2. QED BY <1>3, <3>1
    <2>2. {} \subseteq Stored(k, v) /\ {} \cap X = {} /\ X \subseteq Members
      OBVIOUS
    <2>3. QED BY <1>3, <1>4, <1>5, <2>1, <2>2, Zenon DEF Rescores
  <1>7. Kept
    BY <1>6, RescoresInv
  <1> DEFINE c == [x \in (Stored(k, v) \ {}) \cup X |->
                     IF x \in X THEN f[x] ELSE score[<<k, v, x>>]]
  <1>8. BecomesZSet(k, c, m.timestamp)
    <2>1. ~IsStale(m, now)
      BY <1>3 DEF IsStale
    <2>2. QED BY <1>3, <1>6, <2>1, RescoresSeen
  <1>9. c = f
    BY <1>4
  <1> HIDE DEF c
  <1>10. QED BY <1>3, <1>7, <1>8, <1>9
----------------------------------------------------------------------------
(* The handlers that name the members they write.                           *)

\* ZAdd leaves alone the members that have their score.
LEMMA ZAddInv ==
  ASSUME ZSetsInv, raced = {}, scoreRaced = {}, raced' = {}, scoreRaced' = {},
         NEW k \in Keys, NEW f \in Scorings, ZAdd(k, f)
  PROVE  Kept /\ ZSets!Add(k, f)
  <1>1. PICK Y \in SUBSET Members : f \in [Y -> Scores] /\ DOMAIN f = Y
    BY DEF Scorings
  <1>2. CASE Live(k)
    <2>1. PICK v \in Nat : v = meta[k].version
      BY <1>2, LiveCount
    <2> DEFINE held == {x \in Y : Live(k) /\ x \in Stored(k, v)}
               same == {x \in held : score[<<k, v, x>>] = f[x]}
               X    == Y \ same
    <2>2. PICK g : g = [x \in X |-> f[x]]
      OBVIOUS
    <2>3. g \in [X -> Scores] /\ X \in SUBSET Members
      BY <1>1, <2>2
    <2>4. Write(k, ModifyCount(meta[k], Cardinality(Y \ held)), {},
                {ScoreRecord(k, v, x) : x \in held \ same},
                {<<k, v, <<f[x], x>>>> : x \in X})
      BY <1>1, <1>2, <2>1, Zenon DEF ZAdd, Incarnation
    <2>5. {ScoreRecord(k, v, x) : x \in held \ same}
            = {ScoreRecord(k, v, x) : x \in {} \cup (X \cap Stored(k, v))}
      <3>1. held \ same = {} \cup (X \cap Stored(k, v))
        BY <1>2
      <3>2. QED BY <3>1, Zenon
    <2>6. {<<k, v, <<f[x], x>>>> : x \in X} = Scored(k, v, X, g)
      BY <2>2 DEF Scored
    <2>7. Records(k, v, {}) = {}
      BY DEF Records
    <2>8. Cardinality(Y \ held) = Cardinality(X \ Stored(k, v)) - Cardinality({})
      <3>1. Y \ held = X \ Stored(k, v)
        BY <1>2
      <3>2. Cardinality({}) = 0
        BY FS_EmptySet
      <3>3. Cardinality(Y \ held) \in Nat
        BY <1>1, FS_Subset, FS_CardinalityType, StoreAssumption
      <3>4. PICK c \in Nat : c = Cardinality(Y \ held)
        BY <3>3
      <3>5. Cardinality(X \ Stored(k, v)) = c
        BY <3>1, <3>4, Zenon
      <3>6. c - Cardinality({}) = c
        BY <3>2
      <3>7. QED BY <3>4, <3>5, <3>6, Zenon
    <2>9. Write(k, ModifyCount(meta[k], Cardinality(X \ Stored(k, v)) - Cardinality({})),
                Records(k, v, {}),
                {ScoreRecord(k, v, x) : x \in {} \cup (X \cap Stored(k, v))},
                Scored(k, v, X, g))
      <3> HIDE DEF held, X, same
      <3>1. QED BY <2>4, <2>5, <2>6, <2>7, <2>8, Zenon
    <2>10. Alters(k, {}, X, g)
      <3>1. {} \subseteq Stored(k, v) /\ {} \cap X = {} /\ X \subseteq Members
        BY <2>3
      <3> HIDE DEF X
      <3>2. QED BY <1>2, <2>1, <2>3, <2>9, <3>1, Zenon DEF Alters
    <2>11. Kept /\ BecomesZSet(k, Altered(k, {}, X, g), Due[k])
      <3> HIDE DEF X
      <3>1. QED BY <2>10, AltersInv
    <2>12. Altered(k, {}, X, g) = [x \in DOMAIN f \cup DOMAIN Row[k] |->
                                    IF x \in DOMAIN f THEN f[x] ELSE Row[k][x]]
      <3>1. /\ DOMAIN Row[k] = Stored(k, v)
            /\ \A x \in Stored(k, v) : Row[k][x] = score[<<k, v, x>>]
        BY <1>2, <2>1, LiveSeen
      <3>2. (DOMAIN Row[k] \ {}) \cup X = DOMAIN f \cup DOMAIN Row[k]
        BY <1>1, <3>1
      <3>3. \A x \in DOMAIN f \cup DOMAIN Row[k] :
              (IF x \in X THEN g[x] ELSE Row[k][x])
                = IF x \in DOMAIN f THEN f[x] ELSE Row[k][x]
        BY <1>1, <2>2, <3>1
      <3> HIDE DEF X
      <3>4. QED BY <3>2, <3>3 DEF Altered
    <2>13. QED BY <2>11, <2>12, AddAsPromised
  <1>3. CASE ~Live(k)
    <2>1. PICK v \in Nat : v = Renewed(k).version
      BY RenewedForBoth
    <2>2. PICK n \in Int : n = Cardinality(Y)
      BY FS_Subset, FS_CardinalityType, StoreAssumption
    <2>3. Write(k, ModifyCount(Renewed(k), n), {}, {}, Scored(k, v, Y, f))
      <3> DEFINE held == {x \in Y : Live(k) /\ x \in Stored(k, v)}
                 same == {x \in held : score[<<k, v, x>>] = f[x]}
      <3>1. Write(k, ModifyCount(Renewed(k), Cardinality(Y \ held)), {},
                  {ScoreRecord(k, v, x) : x \in held \ same},
                  {<<k, v, <<f[x], x>>>> : x \in Y \ same})
        BY <1>1, <1>3, <2>1, Zenon DEF ZAdd, Incarnation
      <3>2. Y \ held = Y /\ Y \ same = Y /\ held \ same = {}
        BY <1>3
      <3> HIDE DEF held, same
      <3>3. {ScoreRecord(k, v, x) : x \in held \ same} = {}
        BY <3>2
      <3>4. {<<k, v, <<f[x], x>>>> : x \in Y \ same} = Scored(k, v, Y, f)
        BY <3>2, Zenon DEF Scored
      <3>5. QED BY <2>2, <3>1, <3>2, <3>3, <3>4, Zenon
    <2>4. ModifyCount(Renewed(k), n) = SetCount(Renewed(k), n)
      BY <2>2, RenewedForBoth DEF ModifyCount, SetCount
    <2>5. Write(k, SetCount(Renewed(k), n), {}, {}, Scored(k, v, Y, f))
      BY <2>3, <2>4, Zenon
    <2>6. Kept /\ BecomesZSet(k, f, 0)
      BY <1>1, <2>1, <2>2, <2>5, BeginsInv
    <2>7. /\ Due[k] = 0
          /\ f = [x \in DOMAIN f \cup DOMAIN Row[k] |->
                   IF x \in DOMAIN f THEN f[x] ELSE Row[k][x]]
      BY <1>1, <1>3, DeadSeen
    <2>8. QED BY <2>6, <2>7, AddAsPromised
  <1>4. QED BY <1>2, <1>3

\* ZIncrby finds the member only in a sorted set that is alive.
LEMMA ZIncrbyInv ==
  ASSUME ZSetsInv, raced = {}, scoreRaced = {}, raced' = {}, scoreRaced' = {},
         NEW k \in Keys, NEW y \in Members, NEW by, ZIncrby(k, y, by)
  PROVE  Kept /\ ZSets!Incrby(k, y, by)
  <1> DEFINE v     == Incarnation(k).version
             found == meta[k] # NoMeta /\ y \in Stored(k, v)
             new   == IF found THEN score[<<k, v, y>>] + by ELSE by
             f     == [x \in {y} |-> new]
  <1>1. /\ new \in Scores
        /\ Write(k, IF found THEN meta[k] ELSE ModifyCount(Incarnation(k), 1), {},
                 IF found THEN {ScoreRecord(k, v, y)} ELSE {}, {<<k, v, <<new, y>>>>})
    BY Zenon DEF ZIncrby
  <1> HIDE DEF new
  <1>2. f \in [{y} -> Scores] /\ Scored(k, v, {y}, f) = {<<k, v, <<new, y>>>>}
    BY <1>1 DEF Scored
  <1>3. Cardinality({y}) = 1 /\ Cardinality({}) = 0
    BY FS_Singleton, FS_EmptySet
  <1>4. /\ DOMAIN f = {y} /\ f[y] = new
        /\ Altered(k, {}, {y}, f) = [z \in DOMAIN f \cup DOMAIN Row[k] |->
                 IF z \in DOMAIN f THEN f[z] ELSE Row[k][z]]
    <2>1. (DOMAIN Row[k] \ {}) \cup {y} = DOMAIN f \cup DOMAIN Row[k] /\ DOMAIN f = {y}
      OBVIOUS
    <2> HIDE DEF f
    <2>2. QED BY <2>1 DEF Altered, f
  <1>5. ASSUME new = IF y \in DOMAIN Row[k] THEN Row[k][y] + by ELSE by, ZSets!Add(k, f)
        PROVE  ZSets!Incrby(k, y, by)
    <2>1. f = [x \in {y} |-> IF y \in DOMAIN Row[k] THEN Row[k][y] + by ELSE by]
      BY <1>5
    <2> HIDE DEF f
    <2>2. QED BY <1>5, <2>1, Zenon DEF ZSets!Incrby, Row
  <1> HIDE DEF f
  <1>6. CASE Live(k)
    <2>1. Incarnation(k) = meta[k] /\ meta[k] \in MetaValue /\ meta[k] # NoMeta
      BY <1>6, LiveCount DEF Incarnation
    <2>2. PICK n \in Int : n = Cardinality({y} \ Stored(k, v)) - Cardinality({})
                           /\ n = IF found THEN 0 ELSE 1
      <3>1. CASE found
        <4>1. {y} \ Stored(k, v) = {}
          BY <3>1
        <4>2. QED BY <1>3, <3>1, <4>1
      <3>2. CASE ~found
        <4>1. {y} \ Stored(k, v) = {y}
          BY <2>1, <3>2
        <4>2. QED BY <1>3, <3>2, <4>1
      <3>3. QED BY <3>1, <3>2
    <2>3. (IF found THEN meta[k] ELSE ModifyCount(Incarnation(k), 1))
            = ModifyCount(meta[k], n)
      BY <2>1, <2>2 DEF ModifyCount, MetaValue
    <2>4. (IF found THEN {ScoreRecord(k, v, y)} ELSE {})
            = {ScoreRecord(k, v, x) : x \in {} \cup ({y} \cap Stored(k, v))}
      <3>1. {} \cup ({y} \cap Stored(k, v)) = IF found THEN {y} ELSE {}
        BY <2>1
      <3> HIDE DEF found
      <3>2. QED BY <3>1
    <2>5. Records(k, v, {}) = {}
      BY DEF Records
    <2>6. Write(k, ModifyCount(meta[k], n), Records(k, v, {}),
                {ScoreRecord(k, v, x) : x \in {} \cup ({y} \cap Stored(k, v))},
                Scored(k, v, {y}, f))
      <3> HIDE DEF found
      <3>1. QED BY <1>1, <1>2, <2>3, <2>4, <2>5, Zenon
    <2>7. Alters(k, {}, {y}, f)
      <3>1. /\ {} \subseteq Stored(k, v) /\ {} \cap {y} = {} /\ {y} \subseteq Members
            /\ v = meta[k].version
        BY <2>1
      <3> HIDE DEF v
      <3>2. QED BY <1>2, <1>6, <2>2, <2>6, <3>1, Zenon DEF Alters
    <2>8. Kept /\ BecomesZSet(k, Altered(k, {}, {y}, f), Due[k])
      BY <2>7, AltersInv
    <2>9. ZSets!Add(k, f)
      BY <1>4, <2>8, AddAsPromised
    <2>10. new = IF y \in DOMAIN Row[k] THEN Row[k][y] + by ELSE by
      BY <1>6, <2>1, LiveSeen DEF new
    <2>11. QED BY <1>5, <2>8, <2>9, <2>10
  <1>7. CASE ~Live(k)
    <2>1. Incarnation(k) = Renewed(k)
      <3>1. CASE meta[k] = NoMeta
        BY <3>1, <1>7 DEF Incarnation
      <3>2. QED BY <1>7, <3>1 DEF Incarnation
    <2>2. ~found
      BY <2>1, RenewedForBoth
    <2>3. Write(k, ModifyCount(Renewed(k), 1), {}, {}, Scored(k, v, {y}, f))
      BY <1>1, <1>2, <2>1, <2>2
    <2>4. ModifyCount(Renewed(k), 1) = SetCount(Renewed(k), 1)
      BY RenewedForBoth DEF ModifyCount, SetCount
    <2>5. Write(k, SetCount(Renewed(k), 1), {}, {}, Scored(k, v, {y}, f))
      BY <2>3, <2>4, Zenon
    <2>6. v = Renewed(k).version /\ 1 = Cardinality({y})
      BY <1>3, <2>1
    <2> HIDE DEF v
    <2>7. Kept /\ BecomesZSet(k, f, 0)
      BY <1>2, <2>5, <2>6, BeginsInv
    <2>8. /\ Due[k] = 0 /\ DOMAIN Row[k] = {}
          /\ f = [x \in DOMAIN f \cup DOMAIN Row[k] |->
                   IF x \in DOMAIN f THEN f[x] ELSE Row[k][x]]
      BY <1>2, <1>7, DeadSeen
    <2>9. ZSets!Add(k, f)
      BY <2>7, <2>8, AddAsPromised
    <2>10. new = IF y \in DOMAIN Row[k] THEN Row[k][y] + by ELSE by
      BY <2>2, <2>8 DEF new
    <2>11. QED BY <1>5, <2>7, <2>9, <2>10
  <1>8. QED BY <1>6, <1>7

\* A batch that only takes members away.
LEMMA TakesInv ==
  ASSUME ZSetsInv, raced = {}, scoreRaced = {}, raced' = {}, scoreRaced' = {},
         NEW k \in Keys, Live(k), NEW v \in Nat, v = meta[k].version,
         NEW G \in SUBSET Stored(k, v), NEW n \in Int, n = -Cardinality(G),
         Write(k, ModifyCount(meta[k], n), Records(k, v, G),
               {ScoreRecord(k, v, x) : x \in G}, {})
  PROVE  Kept /\ ZSets!Remove(k, G)
  <1>1. PICK f \in [{} -> Scores] : f = [x \in {} |-> 0]
    OBVIOUS
  <1>2. /\ G \cup ({} \cap Stored(k, v)) = G /\ {} \ Stored(k, v) = {}
        /\ Scored(k, v, {}, f) = {}
    BY DEF Scored
  <1>3. Cardinality({}) - Cardinality(G) = n
    <2>1. Cardinality({}) = 0
      BY FS_EmptySet
    <2>2. Cardinality(G) \in Nat
      <3>1. IsFiniteSet(Stored(k, v))
        BY StoredFinite
      <3>2. QED BY <3>1, FS_Subset, FS_CardinalityType
    <2>3. QED BY <2>1, <2>2
  <1>4. Write(k, ModifyCount(meta[k], Cardinality({} \ Stored(k, v)) - Cardinality(G)),
              Records(k, v, G),
              {ScoreRecord(k, v, x) : x \in G \cup ({} \cap Stored(k, v))},
              Scored(k, v, {}, f))
    BY <1>2, <1>3, Zenon
  <1>5. Alters(k, G, {}, f)
    <2>1. G \subseteq Stored(k, v) /\ G \cap {} = {} /\ {} \subseteq Members
      OBVIOUS
    <2>2. QED BY <1>1, <1>4, <2>1, Zenon DEF Alters
  <1>6. Kept /\ BecomesZSet(k, Altered(k, G, {}, f), Due[k])
    BY <1>5, AltersInv
  <1>7. Altered(k, G, {}, f) = [x \in DOMAIN Row[k] \ G |-> Row[k][x]]
    BY DEF Altered
  <1>8. QED BY <1>6, <1>7, RemoveAsPromised

\* ZRem.
LEMMA ZRemInv ==
  ASSUME ZSetsInv, raced = {}, scoreRaced = {}, raced' = {}, scoreRaced' = {},
         NEW k \in Keys, NEW X, ZRem(k, X)
  PROVE  Kept /\ ZSets!Remove(k, X)
  <1>1. PICK v \in Nat : v = meta[k].version /\ Live(k)
    BY LiveCount DEF ZRem
  <1>2. PICK G \in SUBSET Stored(k, v) : G = X \cap Stored(k, v)
    OBVIOUS
  <1>3. PICK n \in Int : n = -Cardinality(G)
    <2>1. IsFiniteSet(Stored(k, v))
      BY StoredFinite
    <2>2. Cardinality(G) \in Nat
      BY <2>1, FS_Subset, FS_CardinalityType
    <2>3. QED BY <2>2
  <1>4. Write(k, ModifyCount(meta[k], n), Records(k, v, G),
              {ScoreRecord(k, v, x) : x \in G}, {})
    BY <1>1, <1>2, <1>3, Zenon DEF ZRem
  <1>5. Kept /\ ZSets!Remove(k, G)
    BY <1>1, <1>3, <1>4, TakesInv
  <1>6. DOMAIN Row[k] \cap X = DOMAIN Row[k] \cap G
    BY <1>1, <1>2, LiveSeen
  <1>7. QED BY <1>5, <1>6, RemovesHeld
----------------------------------------------------------------------------
(* Walks.                                                                   *)

\* The records of k under a version.
OfSet(R, k, version) == {r \in R : r[1] = k /\ r[2] = version}

\* As many as there are members of theirs.
LEMMA OfSetCount ==
  ASSUME NEW R, IsFiniteSet(R), NEW k, NEW v, NEW B,
         \A r \in R : r = <<r[1], r[2], r[3]>>,
         \A x : x \in B <=> <<k, v, x>> \in R
  PROVE  /\ IsFiniteSet(OfSet(R, k, v))
         /\ Cardinality(OfSet(R, k, v)) = Cardinality(B)
  <1> DEFINE T == OfSet(R, k, v)
  <1>1. IsFiniteSet(T)
    <2>1. T \subseteq R
      BY DEF OfSet
    <2>2. QED BY <2>1, FS_Subset
  <1>2. PICK g : g = [r \in T |-> r[3]]
    OBVIOUS
  <1>3. \A r \in T : r = <<k, v, r[3]>> /\ r[3] \in B
    BY DEF OfSet
  <1>4. \A x \in B : <<k, v, x>> \in T /\ <<k, v, x>>[3] = x
    BY DEF OfSet
  <1> HIDE DEF T
  <1>5. g \in [T -> B] /\ (\A r \in T : g[r] = r[3])
    BY <1>2, <1>3
  <1>6. \A q, r \in T : g[q] = g[r] => q = r
    BY <1>3, <1>5
  <1>7. \A x \in B : \E r \in T : g[r] = x
    BY <1>4, <1>5
  <1>8. Cardinality(B) = Cardinality(T)
    BY <1>1, <1>5, <1>6, <1>7, SameSize
  <1>9. QED BY <1>1, <1>8 DEF T

\* A record that a walk meets after all of a set's is not among its first n.
LEMMA AfterAll ==
  ASSUME NEW met, IsFiniteSet(met), NEW T \in SUBSET met, NEW n \in Nat,
         n <= Cardinality(T), NEW before, T \subseteq before, before \subseteq met
  PROVE  ~(Cardinality(before) < n)
  <1>1. IsFiniteSet(before) /\ IsFiniteSet(T)
    BY FS_Subset
  <1>2. Cardinality(T) <= Cardinality(before)
    BY <1>1, FS_Subset
  <1>3. Cardinality(T) \in Nat /\ Cardinality(before) \in Nat
    BY <1>1, FS_CardinalityType
  <1>4. QED BY <1>2, <1>3

\* Score records are ordered by numbers, and none is of the least score's start
\* or of the greatest score.
LEMMA ScoreRecordParts ==
  ASSUME NEW r \in S!DataKey
  PROVE  /\ r[1] \in Nat /\ r[2] \in Nat /\ r[3][1] \in Int /\ r[3][2] \in Nat
         /\ LowestScore <= r[3][1] /\ r[3][1] < TopScore /\ NoMember < r[3][2]
  <1>1. r[1] \in Keys /\ r[2] \in Nat /\ r[3] \in Scores \X Members
    BY DEF S!DataKey, ScoredMembers
  <1>2. r[3][1] \in LowestScore .. TopScore - 1 /\ r[3][2] \in Members
    BY <1>1, ZSetsAssumption
  <1>3. r[1] \in Nat /\ r[3][2] \in Nat /\ NoMember < r[3][2]
    BY <1>1, <1>2, ZSetsAssumption
  <1>4. \A s \in LowestScore .. TopScore - 1 : s \in Int /\ LowestScore <= s /\ s < TopScore
    BY ZSetsAssumption
  <1>5. QED BY <1>1, <1>2, <1>3, <1>4

\* The first records from the start of a set on, no more than it has, are its own.
LEMMA ForwardStays ==
  ASSUME NEW R \in SUBSET S!DataKey, IsFiniteSet(R), NEW k \in Keys, NEW m,
         m.version \in Nat, NEW n \in Nat, n <= Cardinality(OfSet(R, k, m.version))
  PROVE  Forward(R, k, m, n) \subseteq OfSet(R, k, m.version)
  <1> DEFINE v     == m.version
             start == <<k, v, <<LowestScore, NoMember>>>>
             from  == {r \in R : ~ScoreBefore(r, start)}
             T     == OfSet(R, k, v)
  <1>1. k \in Nat /\ v \in Nat /\ LowestScore \in Int /\ NoMember \in Int
    BY ZSetsAssumption
  <1>2. T \subseteq from
    <2> SUFFICES ASSUME NEW r \in T
                 PROVE  r \in R /\ ~ScoreBefore(r, start)
      OBVIOUS
    <2>1. r \in R /\ r[1] = k /\ r[2] = v
      BY DEF OfSet
    <2>2. QED BY <1>1, <2>1, ScoreRecordParts DEF ScoreBefore
  <1>3. IsFiniteSet(from)
    <2>1. from \subseteq R
      OBVIOUS
    <2>2. QED BY <2>1, FS_Subset
  <1>4. ASSUME NEW r \in from, r \notin T
        PROVE  ~(Ahead(from, r) < n)
    <2>1. r \in R /\ (r[1] > k \/ (r[1] = k /\ r[2] > v))
      <3>1. r \in R /\ ~ScoreBefore(r, start) /\ ~(r[1] = k /\ r[2] = v)
        BY <1>4 DEF OfSet
      <3>2. QED BY <1>1, <3>1, ScoreRecordParts DEF ScoreBefore
    <2>2. \A q \in T : ScoreBefore(q, r)
      <3> SUFFICES ASSUME NEW q \in T
                   PROVE  ScoreBefore(q, r)
        OBVIOUS
      <3>1. q \in R /\ q[1] = k /\ q[2] = v
        BY DEF OfSet
      <3>2. QED BY <1>1, <2>1, <3>1, ScoreRecordParts DEF ScoreBefore
    <2>3. PICK before : before = {q \in from : ScoreBefore(q, r)}
      OBVIOUS
    <2>4. T \subseteq before /\ before \subseteq from
      BY <1>2, <2>2, <2>3
    <2> HIDE DEF from, T
    <2>5. ~(Cardinality(before) < n)
      BY <1>2, <1>3, <2>4, AfterAll DEF T
    <2>6. QED BY <2>3, <2>5 DEF Ahead
  <1>5. \A r \in Forward(R, k, m, n) : r \in from /\ Ahead(from, r) < n
    BY DEF Forward
  <1> HIDE DEF from, T
  <1>6. QED BY <1>4, <1>5 DEF T

\* So are the first back from its end.
LEMMA BackwardStays ==
  ASSUME NEW R \in SUBSET S!DataKey, IsFiniteSet(R), NEW k \in Keys, NEW m,
         m.version \in Nat, NEW n \in Nat, n <= Cardinality(OfSet(R, k, m.version))
  PROVE  Backward(R, k, m, n) \subseteq OfSet(R, k, m.version)
  <1> DEFINE v     == m.version
             start == <<k, v, <<TopScore, NoMember>>>>
             upto  == {r \in R : ~ScoreBefore(start, r)}
             T     == OfSet(R, k, v)
  <1>1. k \in Nat /\ v \in Nat /\ TopScore \in Int /\ NoMember \in Int
    BY ZSetsAssumption
  <1>2. T \subseteq upto
    <2> SUFFICES ASSUME NEW r \in T
                 PROVE  r \in R /\ ~ScoreBefore(start, r)
      OBVIOUS
    <2>1. r \in R /\ r[1] = k /\ r[2] = v
      BY DEF OfSet
    <2>2. QED BY <1>1, <2>1, ScoreRecordParts DEF ScoreBefore
  <1>3. IsFiniteSet(upto)
    <2>1. upto \subseteq R
      OBVIOUS
    <2>2. QED BY <2>1, FS_Subset
  <1>4. ASSUME NEW r \in upto, r \notin T
        PROVE  ~(Behind(upto, r) < n)
    <2>1. r \in R /\ (r[1] < k \/ (r[1] = k /\ r[2] < v))
      <3>1. r \in R /\ ~ScoreBefore(start, r) /\ ~(r[1] = k /\ r[2] = v)
        BY <1>4 DEF OfSet
      <3>2. QED BY <1>1, <3>1, ScoreRecordParts DEF ScoreBefore
    <2>2. \A q \in T : ScoreBefore(r, q)
      <3> SUFFICES ASSUME NEW q \in T
                   PROVE  ScoreBefore(r, q)
        OBVIOUS
      <3>1. q \in R /\ q[1] = k /\ q[2] = v
        BY DEF OfSet
      <3>2. QED BY <1>1, <2>1, <3>1, ScoreRecordParts DEF ScoreBefore
    <2>3. PICK before : before = {q \in upto : ScoreBefore(r, q)}
      OBVIOUS
    <2>4. T \subseteq before /\ before \subseteq upto
      BY <1>2, <2>2, <2>3
    <2> HIDE DEF upto, T
    <2>5. ~(Cardinality(before) < n)
      BY <1>2, <1>3, <2>4, AfterAll DEF T
    <2>6. QED BY <2>3, <2>5 DEF Behind
  <1>5. \A r \in Backward(R, k, m, n) : r \in upto /\ Behind(upto, r) < n
    BY DEF Backward
  <1> HIDE DEF upto, T
  <1>6. QED BY <1>4, <1>5 DEF T

\* And so are the first in the order of members.
LEMMA ForwardByMemberStays ==
  ASSUME NEW R \in SUBSET DataKey, IsFiniteSet(R), NEW k \in Keys, NEW m,
         m.version \in Nat, NEW n \in Nat, n <= Cardinality(OfSet(R, k, m.version))
  PROVE  ForwardByMember(R, k, m, n) \subseteq OfSet(R, k, m.version)
  <1> DEFINE v     == m.version
             start == <<k, v, NoMember>>
             from  == {r \in R : ~MemberBefore(r, start)}
             T     == OfSet(R, k, v)
  <1>1. k \in Nat /\ v \in Nat /\ NoMember \in Int
    BY ZSetsAssumption
  <1>2. \A r \in R : r[1] \in Nat /\ r[2] \in Nat /\ r[3] \in Nat /\ NoMember < r[3]
    BY ZSetsAssumption DEF DataKey
  <1>3. T \subseteq from
    <2> SUFFICES ASSUME NEW r \in T
                 PROVE  r \in R /\ ~MemberBefore(r, start)
      OBVIOUS
    <2>1. r \in R /\ r[1] = k /\ r[2] = v
      BY DEF OfSet
    <2>2. QED BY <1>1, <1>2, <2>1 DEF MemberBefore
  <1>4. IsFiniteSet(from)
    <2>1. from \subseteq R
      OBVIOUS
    <2>2. QED BY <2>1, FS_Subset
  <1>5. ASSUME NEW r \in from, r \notin T
        PROVE  ~(Cardinality({q \in from : MemberBefore(q, r)}) < n)
    <2>1. r \in R /\ (r[1] > k \/ (r[1] = k /\ r[2] > v))
      <3>1. r \in R /\ ~MemberBefore(r, start) /\ ~(r[1] = k /\ r[2] = v)
        BY <1>5 DEF OfSet
      <3>2. QED BY <1>1, <1>2, <3>1 DEF MemberBefore
    <2>2. \A q \in T : MemberBefore(q, r)
      BY <1>1, <1>2, <2>1 DEF MemberBefore, OfSet
    <2>3. PICK before : before = {q \in from : MemberBefore(q, r)}
      OBVIOUS
    <2>4. T \subseteq before /\ before \subseteq from
      BY <1>3, <2>2, <2>3
    <2> HIDE DEF from, T
    <2>5. ~(Cardinality(before) < n)
      BY <1>3, <1>4, <2>4, AfterAll DEF T
    <2>6. QED BY <2>3, <2>5
  <1>6. \A r \in ForwardByMember(R, k, m, n) :
          r \in from /\ Cardinality({q \in from : MemberBefore(q, r)}) < n
    BY DEF ForwardByMember
  <1> HIDE DEF from, T
  <1>7. QED BY <1>5, <1>6 DEF T
----------------------------------------------------------------------------
(* The handlers that take away what they walk over.                         *)

\* Of a sorted set that is alive, as many score records as there are members, each
\* of a member's own score.
LEMMA LiveRecords ==
  ASSUME ZSetsInv, raced = {}, scoreRaced = {}, NEW k \in Keys, Live(k)
  PROVE  LET v == meta[k].version IN
         /\ IsFiniteSet(OfSet(scores, k, v))
         /\ Cardinality(OfSet(scores, k, v)) = meta[k].count
         /\ Cardinality(OfSet(data, k, v)) = meta[k].count
         /\ \A r \in OfSet(scores, k, v) :
              r[3][2] \in Stored(k, v) /\ r = ScoreRecord(k, v, r[3][2])
         /\ \A r \in OfSet(data, k, v) : r[3] \in Stored(k, v) /\ r = <<k, v, r[3]>>
  <1>1. PICK v \in Nat : v = meta[k].version
    BY LiveCount
  <1>2. /\ data \subseteq Keys \X Nat \X Members /\ IsFiniteSet(data)
        /\ scores \subseteq Keys \X Nat \X ScoredMembers /\ IsFiniteSet(scores)
    BY DEF ZSetsInv, ZSetsTypeOK, StoreTypeOK, S!StoreTypeOK, DataKey, S!DataKey
  <1>3. Fresh(k) /\ S!Fresh(k)
    BY LiveCount DEF Fresh, S!Fresh, IsStale, S!IsStale
  <1>4. S!Stored(k, v) = {<<score[<<k, v, x>>], x>> : x \in Stored(k, v)}
    <2>1. S!Stored(k, meta[k].version) =
            {<<score[<<k, meta[k].version, x>>], x>> : x \in Stored(k, meta[k].version)}
      BY <1>3 DEF ZSetsInv, ScoresAgree
    <2>2. QED BY <1>1, <2>1, Zenon
  <1>5. meta[k].count = Cardinality(S!Stored(k, v))
    BY <1>1, <1>3, SameCardinality DEF ZSetsInv, S!StoreInv, S!CountsStored
  <1>6. meta[k].count = Cardinality(Stored(k, v))
    BY <1>1, LiveCount
  <1>7. /\ IsFiniteSet(OfSet(scores, k, v))
        /\ Cardinality(OfSet(scores, k, v)) = Cardinality(S!Stored(k, v))
    <2>1. \A r \in scores : r = <<r[1], r[2], r[3]>>
      BY <1>2
    <2>2. \A x : x \in S!Stored(k, v) <=> <<k, v, x>> \in scores
      BY <1>2 DEF S!Stored
    <2>3. QED BY <1>2, <2>1, <2>2, OfSetCount
  <1>8. Cardinality(OfSet(data, k, v)) = Cardinality(Stored(k, v))
    <2>1. \A r \in data : r = <<r[1], r[2], r[3]>>
      BY <1>2
    <2>2. \A x : x \in Stored(k, v) <=> <<k, v, x>> \in data
      BY <1>2 DEF Stored
    <2>3. QED BY <1>2, <2>1, <2>2, OfSetCount
  <1>9. Cardinality(OfSet(scores, k, v)) = meta[k].count
    BY <1>5, <1>7
  <1>10. Cardinality(OfSet(data, k, v)) = meta[k].count
    BY <1>6, <1>8
  <1>11. ASSUME NEW r \in OfSet(scores, k, v)
         PROVE  r[3][2] \in Stored(k, v) /\ r = ScoreRecord(k, v, r[3][2])
    <2>1. r \in scores /\ r = <<k, v, r[3]>> /\ r[3] \in ScoredMembers
      BY <1>2, <1>11 DEF OfSet
    <2>2. r[3] \in S!Stored(k, v)
      BY <2>1 DEF S!Stored
    <2>3. PICK x \in Stored(k, v) : r[3] = <<score[<<k, v, x>>], x>>
      BY <1>4, <2>2
    <2>4. r[3][2] = x
      BY <2>3
    <2>5. QED BY <2>1, <2>3, <2>4 DEF ScoreRecord
  <1>12. \A r \in OfSet(data, k, v) : r[3] \in Stored(k, v) /\ r = <<k, v, r[3]>>
    BY <1>2 DEF OfSet, Stored
  <1>13. QED BY <1>1, <1>7, <1>9, <1>10, <1>11, <1>12

\* A batch that takes away the score records of W and their members.
LEMMA RemoveWalkedInv ==
  ASSUME ZSetsInv, raced = {}, scoreRaced = {}, raced' = {}, scoreRaced' = {},
         NEW k \in Keys, Live(k), NEW W, W \subseteq OfSet(scores, k, meta[k].version),
         RemoveWalked(k, W)
  PROVE  Kept /\ ZSets!Remove(k, {r[3][2] : r \in W})
  <1>1. PICK v \in Nat : v = meta[k].version
    BY LiveCount
  <1> DEFINE G == {r[3][2] : r \in W}
  <1>2. \A r \in W : r[3][2] \in Stored(k, v) /\ r = ScoreRecord(k, v, r[3][2])
    BY <1>1, LiveRecords
  <1>3. IsFiniteSet(W)
    <2>1. IsFiniteSet(OfSet(scores, k, meta[k].version))
      BY LiveRecords
    <2>2. QED BY <2>1, FS_Subset
  <1>4. G \in SUBSET Stored(k, v)
    BY <1>2
  <1>5. /\ \A r \in W : r[3][2] \in G
        /\ \A x \in G : \E r \in W : x = r[3][2]
    OBVIOUS
  <1>6. Write(k, ModifyCount(meta[k], -Cardinality(W)), Records(k, v, G), W, {})
    BY <1>1, Zenon DEF RemoveWalked
  <1> HIDE DEF G
  <1>7. Cardinality(G) = Cardinality(W)
    <2>1. PICK g : g = [r \in W |-> r[3][2]]
      OBVIOUS
    <2>2. g \in [W -> G] /\ (\A r \in W : g[r] = r[3][2])
      BY <1>5, <2>1
    <2>3. \A q, r \in W : g[q] = g[r] => q = r
      <3> SUFFICES ASSUME NEW q \in W, NEW r \in W, g[q] = g[r]
                   PROVE  q = r
        OBVIOUS
      <3>1. q[3][2] = r[3][2]
        BY <2>2
      <3>2. q = ScoreRecord(k, v, q[3][2]) /\ r = ScoreRecord(k, v, r[3][2])
        BY <1>2
      <3>3. QED BY <3>1, <3>2, Zenon
    <2>4. \A x \in G : \E r \in W : g[r] = x
      BY <1>5, <2>2
    <2>5. QED BY <1>3, <2>2, <2>3, <2>4, SameSize
  <1>8. W = {ScoreRecord(k, v, x) : x \in G}
    <2>1. \A r \in W : \E x \in G : r = ScoreRecord(k, v, x)
      BY <1>2, <1>5
    <2>2. \A x \in G : ScoreRecord(k, v, x) \in W
      <3> SUFFICES ASSUME NEW x \in G
                   PROVE  ScoreRecord(k, v, x) \in W
        OBVIOUS
      <3>1. PICK r \in W : x = r[3][2]
        BY <1>5
      <3>2. QED BY <1>2, <3>1, Zenon
    <2>3. QED BY <2>1, <2>2
  <1>9. PICK n \in Int : n = -Cardinality(G)
    <2>1. Cardinality(W) \in Nat
      BY <1>3, FS_CardinalityType
    <2>2. QED BY <1>7, <2>1
  <1>10. Write(k, ModifyCount(meta[k], n), Records(k, v, G),
               {ScoreRecord(k, v, x) : x \in G}, {})
    BY <1>6, <1>7, <1>8, <1>9, Zenon
  <1>11. Kept /\ ZSets!Remove(k, G)
    BY <1>1, <1>4, <1>9, <1>10, TakesInv
  <1>12. QED BY <1>11 DEF G

\* Walks from either end stay inside a sorted set that is alive.
LEMMA WalksStay ==
  ASSUME ZSetsInv, raced = {}, scoreRaced = {}, NEW k \in Keys, Live(k),
         NEW n \in Nat, n <= meta[k].count
  PROVE  /\ Forward(scores, k, meta[k], n) \subseteq OfSet(scores, k, meta[k].version)
         /\ Backward(scores, k, meta[k], n) \subseteq OfSet(scores, k, meta[k].version)
  <1>1. meta[k].version \in Nat
    BY LiveCount
  <1>2. Cardinality(OfSet(scores, k, meta[k].version)) = meta[k].count
    BY LiveRecords
  <1>3. scores \in SUBSET S!DataKey /\ IsFiniteSet(scores)
    BY DEF ZSetsInv, ZSetsTypeOK, S!StoreTypeOK
  <1>4. QED BY <1>1, <1>2, <1>3, ForwardStays, BackwardStays

\* ZPopMax, ZPopMin, ZRemrangebyrank and ZRemrangebyscore.
LEMMA WalkersInv ==
  ASSUME ZSetsInv, raced = {}, scoreRaced = {}, raced' = {}, scoreRaced' = {},
         NEW k \in Keys,
         \/ \E n \in Nat : ZPopMax(k, n) \/ ZPopMin(k, n)
         \/ \E start, stop \in Indexes : ZRemrangebyrank(k, start, stop)
         \/ \E interval \in Intervals : ZRemrangebyscore(k, interval)
  PROVE  Kept
  <1>1. Live(k)
    BY DEF ZPopMax, ZPopMin, ZRemrangebyrank, ZRemrangebyscore, RemoveWalked
  <1>2. PICK c \in Nat : c = meta[k].count
    BY <1>1, LiveCount
  <1>3. Walk(k) \subseteq OfSet(scores, k, meta[k].version)
    <2>1. Forward(scores, k, meta[k], c) \subseteq OfSet(scores, k, meta[k].version)
      BY <1>1, <1>2, WalksStay
    <2>2. QED BY <1>1, <1>2, <2>1 DEF Walk
  <1>4. ASSUME NEW n \in Nat
        PROVE  AtMost(meta[k].count, n) \in Nat /\ AtMost(meta[k].count, n) <= meta[k].count
    BY <1>2 DEF AtMost
  <1>5. ASSUME NEW W, W \subseteq OfSet(scores, k, meta[k].version), RemoveWalked(k, W)
        PROVE  Kept
    BY <1>1, <1>5, RemoveWalkedInv
  <1>6. ASSUME NEW n \in Nat, ZPopMax(k, n)
        PROVE  Kept
    BY <1>1, <1>4, <1>5, <1>6, WalksStay DEF ZPopMax
  <1>7. ASSUME NEW n \in Nat, ZPopMin(k, n)
        PROVE  Kept
    BY <1>1, <1>4, <1>5, <1>7, WalksStay DEF ZPopMin
  <1>8. ASSUME NEW start, NEW stop, ZRemrangebyrank(k, start, stop)
        PROVE  Kept
    <2>1. Between(Walk(k), Length(k), start, stop) \subseteq Walk(k)
      BY DEF Between
    <2>2. QED BY <1>3, <1>5, <1>8, <2>1 DEF ZRemrangebyrank
  <1>9. ASSUME NEW interval, ZRemrangebyscore(k, interval)
        PROVE  Kept
    <2>1. Within(Walk(k), interval) \subseteq Walk(k)
      BY DEF Within
    <2>2. QED BY <1>3, <1>5, <1>9, <2>1 DEF ZRemrangebyscore
  <1>10. QED BY <1>6, <1>7, <1>8, <1>9
----------------------------------------------------------------------------
(* Expiry, time and compaction.                                             *)

\* Where the records of a fresh key stay or are of nothing, the column families
\* still agree.
LEMMA AgreementFollows ==
  ASSUME ZSetsInv, raced = {}, scoreRaced = {}, raced' = {}, scoreRaced' = {},
         \A k \in Keys : FollowsOn(k) /\ OfScores!FollowsOn(k),
         \A rec \in data' : score'[rec] = score[rec]
  PROVE  ScoresAgree'
  <1> SUFFICES ASSUME NEW k \in Keys, Fresh(k)'
               PROVE  S!Stored(k, meta[k].version)' =
                        {<<score'[<<k, meta'[k].version, x>>], x>> :
                           x \in StoredIn(data', k, meta'[k].version)}
    BY DEF ScoresAgree, Stored, StoredIn
  <1>1. PICK v : v = meta'[k].version
    OBVIOUS
  <1>2. S!Stored(k, meta[k].version)' = OfScores!StoredIn(scores', k, v)
    BY <1>1 DEF S!Stored, OfScores!StoredIn
  <1>3. OfScores!Fresh(k)' /\ (OfScores!Fresh(k) <=> Fresh(k))
    BY DEF Fresh, OfScores!Fresh, IsStale, OfScores!IsStale
  <1>4. CASE Fresh(k) /\ v = meta[k].version
    <2>1. /\ StoredIn(data', k, v) = StoredIn(data, k, v)
          /\ OfScores!StoredIn(scores', k, v) = OfScores!StoredIn(scores, k, v)
      BY <1>1, <1>3, <1>4 DEF FollowsOn, OfScores!FollowsOn, Fresh
    <2>2. OfScores!StoredIn(scores, k, v)
            = {<<score[<<k, v, x>>], x>> : x \in StoredIn(data, k, v)}
      <3>1. S!Stored(k, meta[k].version) =
              {<<score[<<k, meta[k].version, x>>], x>> : x \in Stored(k, meta[k].version)}
        BY <1>4 DEF ZSetsInv, ScoresAgree
      <3>2. S!Stored(k, v) = OfScores!StoredIn(scores, k, v)
            /\ Stored(k, v) = StoredIn(data, k, v)
        BY DEF S!Stored, OfScores!StoredIn, Stored, StoredIn
      <3>3. QED BY <1>4, <3>1, <3>2, Zenon
    <2>3. \A x \in StoredIn(data, k, v) : score'[<<k, v, x>>] = score[<<k, v, x>>]
      BY <2>1 DEF StoredIn
    <2>4. {<<score[<<k, v, x>>], x>> : x \in StoredIn(data, k, v)}
            = {<<score'[<<k, v, x>>], x>> : x \in StoredIn(data, k, v)}
      BY <2>3
    <2>5. QED BY <1>1, <1>2, <2>1, <2>2, <2>4, Zenon
  <1>5. CASE ~(Fresh(k) /\ v = meta[k].version)
    <2>1. StoredIn(data', k, v) = {} /\ OfScores!StoredIn(scores', k, v) = {}
      BY <1>1, <1>3, <1>5 DEF FollowsOn, OfScores!FollowsOn
    <2>2. {<<score'[<<k, v, x>>], x>> : x \in StoredIn(data', k, v)} = {}
      BY <2>1
    <2>3. QED BY <1>1, <1>2, <2>1, <2>2, Zenon
  <1>6. QED BY <1>4, <1>5

\* A step that writes no record, and keeps the collections or begins them anew.
Upkeep ==
  /\ data' \subseteq data /\ scores' \subseteq scores
  /\ score' = [rec \in data' |-> score[rec]]
  /\ \A k \in Keys : FollowsOn(k) /\ OfScores!FollowsOn(k)

\* It keeps what ZSetsInv says of the column families if each store's own
\* invariant is kept.
LEMMA UpkeepKept ==
  ASSUME ZSetsInv, raced = {}, scoreRaced = {}, raced' = {}, scoreRaced' = {},
         StoreInv', OfScores!StoreInv', Upkeep
  PROVE  Kept
  <1>1. /\ data' \subseteq data /\ scores' \subseteq scores
        /\ score' = [rec \in data' |-> score[rec]]
        /\ \A k \in Keys : FollowsOn(k) /\ OfScores!FollowsOn(k)
    BY DEF Upkeep
  <1>2. \A rec \in data' : score'[rec] = score[rec]
    BY <1>1
  <1>3. ScoresAgree'
    BY <1>1, <1>2, AgreementFollows
  <1>4. IsFiniteSet(data') /\ IsFiniteSet(scores')
    BY <1>1, FS_Subset DEF ZSetsInv, ZSetsTypeOK
  <1>5. score' \in [data' -> Scores]
    BY <1>1 DEF ZSetsInv, ZSetsTypeOK
  <1>6. S!StoreInv'
    BY SameStore, PTL
  <1>7. QED BY <1>3, <1>4, <1>5, <1>6 DEF Kept

\* What both stores do of themselves to a meta value is the same.
LEMMA SameExpiry ==
  ASSUME NEW k
  PROVE  /\ \A ttl : S!Expire(k, ttl) => OfScores!Expire(k, ttl)
         /\ \A ts : S!Expireat(k, ts) => OfScores!Expireat(k, ts)
         /\ S!Persist(k) => OfScores!Persist(k)
         /\ S!Del(k) => OfScores!Del(k)
  <1>1. S!Live(k) <=> OfScores!Live(k)
    BY DEF S!Live, OfScores!Live, S!IsLive, OfScores!IsLive, S!IsStale, OfScores!IsStale
  <1>2. S!Renewed(k) = OfScores!Renewed(k)
    BY DEF S!Renewed, OfScores!Renewed, S!FreshMetaValue, OfScores!FreshMetaValue,
           S!InitialMetaValue, OfScores!InitialMetaValue, S!UpdateVersion,
           OfScores!UpdateVersion, S!NextVersion, OfScores!NextVersion
  <1>3. S!Renew(k) => OfScores!Renew(k)
    BY <1>1, <1>2 DEF S!Renew, OfScores!Renew
  <1>4. \A m : S!Reschedule(k, m) => OfScores!Reschedule(k, m)
    BY <1>1 DEF S!Reschedule, OfScores!Reschedule, S!Outlives, OfScores!Outlives
  <1>5. \A ttl : S!Expire(k, ttl) => OfScores!Expire(k, ttl)
    BY <1>3, <1>4 DEF S!Expire, OfScores!Expire, S!SetRelativeTimestamp,
                      OfScores!SetRelativeTimestamp
  <1>6. \A ts : S!Expireat(k, ts) => OfScores!Expireat(k, ts)
    BY <1>3, <1>4 DEF S!Expireat, OfScores!Expireat, S!SetTimestamp, OfScores!SetTimestamp
  <1>7. S!Persist(k) => OfScores!Persist(k)
    BY <1>1, <1>4 DEF S!Persist, OfScores!Persist, S!SetTimestamp, OfScores!SetTimestamp
  <1>8. S!Del(k) => OfScores!Del(k)
    BY <1>3 DEF S!Del, OfScores!Del
  <1>9. QED BY <1>5, <1>6, <1>7, <1>8

\* ZExpire, ZExpireat, ZPersist and ZDel.
LEMMA ZExpiryInv ==
  ASSUME ZSetsInv, raced = {}, scoreRaced = {}, raced' = {}, scoreRaced' = {},
         NEW k \in Keys,
         \/ \E ttl \in Ttls : ZExpire(k, ttl)
         \/ \E ts \in Timestamps : ZExpireat(k, ts)
         \/ ZPersist(k)
         \/ ZDel(k)
  PROVE  Kept /\ Upkeep
  <1>1. /\ \/ \E ttl \in Ttls : Expire(k, ttl)
           \/ \E ts \in Timestamps : Expireat(k, ts)
           \/ Persist(k)
           \/ Del(k)
        /\ score' = score
    BY DEF ZExpire, ZExpireat, ZPersist, ZDel
  <1>2. \/ \E ttl \in Ttls : OfScores!Expire(k, ttl)
        \/ \E ts \in Timestamps : OfScores!Expireat(k, ts)
        \/ OfScores!Persist(k)
        \/ OfScores!Del(k)
    BY SameExpiry DEF ZExpire, ZExpireat, ZPersist, ZDel
  <1>3. StoreInv /\ OfScores!StoreInv /\ score \in [data -> Scores]
    BY SameStore DEF ZSetsInv, ZSetsTypeOK
  <1>4. StoreInv' /\ data' = data /\ \A j \in Keys : FollowsOn(j)
    BY <1>1, <1>3, ExpiryInv, ExpiryFollows
  <1>5. OfScores!StoreInv'
    BY <1>2, <1>3, OfScores!ExpiryInv, ScoresAssumption
  <1>6. scores' = scores /\ \A j \in Keys : OfScores!FollowsOn(j)
    BY <1>2, <1>3, OfScores!ExpiryFollows, ScoresAssumption
  <1>7. Upkeep
    BY <1>1, <1>3, <1>4, <1>6 DEF Upkeep
  <1>8. QED BY <1>4, <1>5, <1>7, UpkeepKept

\* What the scores' store does of itself, by either name.
LEMMA SameMaintenance ==
  /\ S!Tick => OfScores!Maintenance
  /\ \A k \in Keys : S!MetaCompact(k) => OfScores!Maintenance
  /\ S!CompactionStart => OfScores!Maintenance
  /\ \A rec \in scoreFilter.todo : S!FilterRecord(rec) => OfScores!Maintenance
  /\ S!CompactionInstall => OfScores!Maintenance
  <1>1. S!Tick => OfScores!Tick
    BY DEF S!Tick, OfScores!Tick
  <1>2. \A k : S!MetaCompact(k) => OfScores!MetaCompact(k)
    BY DEF S!MetaCompact, OfScores!MetaCompact, S!MetaFilterDrops, OfScores!MetaFilterDrops,
           S!IsStale, OfScores!IsStale
  <1>3. S!NoCompaction = OfScores!NoCompaction
    BY DEF S!NoCompaction, OfScores!NoCompaction
  <1>4. S!CompactionStart => OfScores!CompactionStart
    BY <1>3 DEF S!CompactionStart, OfScores!CompactionStart
  <1>5. \A rec : S!FilterRecord(rec) => OfScores!FilterRecord(rec)
    BY DEF S!FilterRecord, OfScores!FilterRecord, S!DataFilterDrops,
           OfScores!DataFilterDrops, S!IsStale, OfScores!IsStale
  <1>6. S!CompactionInstall => OfScores!CompactionInstall
    BY <1>3 DEF S!CompactionInstall, OfScores!CompactionInstall
  <1>7. QED BY <1>1, <1>2, <1>4, <1>5, <1>6 DEF OfScores!Maintenance

\* What time and compaction do to a meta value.
Wears ==
  /\ now' \in {now, now + 1}
  /\ \A k \in Keys : \/ meta'[k] = meta[k]
                     \/ meta'[k] = NoMeta /\ MetaFilterDrops(meta[k], now)

\* Time and the two compactions.
LEMMA ZMaintenanceInv ==
  ASSUME ZSetsInv, raced = {}, scoreRaced = {}, raced' = {}, scoreRaced' = {},
         ZMaintenance
  PROVE  Kept /\ Upkeep /\ Wears
  <1>1. /\ StoreInv /\ OfScores!StoreInv /\ score \in [data -> Scores]
        /\ meta \in [Keys -> MetaValue \cup {NoMeta}]
    BY SameStore DEF ZSetsInv, ZSetsTypeOK, StoreInv, StoreTypeOK
  <1>2. ASSUME Maintenance
        PROVE  StoreInv' /\ data' \subseteq data /\ \A j \in Keys : FollowsOn(j)
    BY <1>1, <1>2, BackgroundInv, MaintenanceFollows DEF Background
  <1>3. ASSUME OfScores!Maintenance
        PROVE  OfScores!StoreInv'
    <2>1. OfScores!Background
      BY <1>3 DEF OfScores!Background
    <2>2. QED BY <1>1, <2>1, OfScores!BackgroundInv, ScoresAssumption
  <1>4. ASSUME OfScores!Maintenance
        PROVE  scores' \subseteq scores /\ \A j \in Keys : OfScores!FollowsOn(j)
    BY <1>1, <1>4, OfScores!MaintenanceFollows, ScoresAssumption
  <1>5. ASSUME meta' = meta, now' = now
        PROVE  Wears
    BY <1>5 DEF Wears
  <1>6. CASE Tick /\ S!Tick /\ UNCHANGED score
    <2>1. Maintenance /\ OfScores!Maintenance
      BY <1>6, SameMaintenance DEF Maintenance
    <2>2. data' = data /\ meta' = meta /\ now' = now + 1
      BY <1>6 DEF Tick
    <2>3. Upkeep
      BY <1>1, <1>2, <1>4, <1>6, <2>1, <2>2 DEF Upkeep
    <2>4. Wears
      BY <2>2 DEF Wears
    <2>5. QED BY <1>2, <1>3, <2>1, <2>3, <2>4, UpkeepKept
  <1>7. ASSUME NEW k \in Keys, MetaCompact(k), S!MetaCompact(k), UNCHANGED score
        PROVE  Kept /\ Upkeep /\ Wears
    <2>1. Maintenance /\ OfScores!Maintenance
      BY <1>7, SameMaintenance DEF Maintenance
    <2>2. /\ data' = data /\ meta' = [meta EXCEPT ![k] = NoMeta] /\ now' = now
          /\ MetaFilterDrops(meta[k], now)
      BY <1>7 DEF MetaCompact
    <2>3. Upkeep
      BY <1>1, <1>2, <1>4, <1>7, <2>1, <2>2 DEF Upkeep
    <2>4. Wears
      BY <1>1, <2>2 DEF Wears
    <2>5. QED BY <1>2, <1>3, <2>1, <2>3, <2>4, UpkeepKept
  <1>8. CASE MemberCompaction
    <2>1. /\ Maintenance
          /\ meta' = meta /\ now' = now /\ score' = [r \in data' |-> score[r]]
          /\ scores' = scores /\ scoreFilter' = scoreFilter /\ scoreRaced' = scoreRaced
      BY <1>8 DEF MemberCompaction, Maintenance, CompactionStart, FilterRecord,
                  CompactionInstall
    <2>2. OfScores!StoreInv'
      <3>1. UNCHANGED OfScores!storeVars
        BY <2>1 DEF OfScores!storeVars
      <3>2. QED BY <1>1, <3>1, OfScores!StutterInv, ScoresAssumption
    <2>3. \A j \in Keys : OfScores!FollowsOn(j)
      BY <2>1 DEF OfScores!FollowsOn, OfScores!Fresh, OfScores!IsStale
    <2>4. Upkeep
      BY <1>2, <2>1, <2>3 DEF Upkeep
    <2>5. QED BY <1>2, <1>5, <2>1, <2>2, <2>4, UpkeepKept
  <1>9. CASE ScoreCompaction
    <2>1. /\ OfScores!Maintenance
          /\ data' = data /\ filter' = filter /\ raced' = raced /\ score' = score
      BY <1>9, SameMaintenance DEF ScoreCompaction
    <2>2. meta' = meta /\ now' = now
      BY <1>9 DEF ScoreCompaction, S!CompactionStart, S!FilterRecord, S!CompactionInstall
    <2>3. StoreInv'
      BY <1>1, <2>1, <2>2, StutterInv DEF storeVars
    <2>4. \A j \in Keys : FollowsOn(j)
      BY <2>1, <2>2 DEF FollowsOn, Fresh, IsStale
    <2>5. Upkeep
      BY <1>1, <1>4, <2>1, <2>4 DEF Upkeep
    <2>6. QED BY <1>3, <1>5, <2>1, <2>2, <2>3, <2>5, UpkeepKept
  <1>10. QED BY <1>6, <1>7, <1>8, <1>9 DEF ZMaintenance

\* Nothing, or a restart in the midst of compactions.
LEMMA IdleInv ==
  ASSUME ZSetsInv, raced = {}, scoreRaced = {}, raced' = {}, scoreRaced' = {},
         UNCHANGED <<meta, data, now, score, scores>>,
         filter' \in {filter, NoCompaction}, scoreFilter' \in {scoreFilter, NoCompaction}
  PROVE  Kept
  <1>1. /\ StoreInv /\ OfScores!StoreInv /\ score \in [data -> Scores]
        /\ raced' = raced /\ scoreRaced' = scoreRaced
        /\ meta' = meta /\ data' = data /\ now' = now /\ score' = score /\ scores' = scores
    BY SameStore DEF ZSetsInv, ZSetsTypeOK
  <1>2. StoreInv'
    <2>1. CASE filter' = filter
      BY <1>1, <2>1, StutterInv DEF storeVars
    <2>2. CASE filter' = NoCompaction
      BY <1>1, <2>2, CompactionEndInv
    <2>3. QED BY <2>1, <2>2
  <1>3. OfScores!StoreInv'
    <2>1. CASE scoreFilter' = scoreFilter
      <3>1. UNCHANGED OfScores!storeVars
        BY <1>1, <2>1 DEF OfScores!storeVars
      <3>2. QED BY <1>1, <3>1, OfScores!StutterInv, ScoresAssumption
    <2>2. CASE scoreFilter' = NoCompaction
      <3>1. scoreFilter' = OfScores!NoCompaction
        BY <2>2 DEF NoCompaction, OfScores!NoCompaction
      <3>2. scores' \in {scores, scores \ scoreFilter.doomed} /\ UNCHANGED <<meta, now, scoreRaced>>
        BY <1>1
      <3>3. QED BY <1>1, <3>1, <3>2, OfScores!CompactionEndInv, ScoresAssumption
    <2>3. QED BY <2>1, <2>2
  <1>4. \A k \in Keys : FollowsOn(k) /\ OfScores!FollowsOn(k)
    BY <1>1 DEF FollowsOn, Fresh, IsStale, OfScores!FollowsOn, OfScores!Fresh, OfScores!IsStale
  <1>5. Upkeep
    BY <1>1, <1>4 DEF Upkeep
  <1>6. QED BY <1>2, <1>3, <1>5, UpkeepKept
----------------------------------------------------------------------------
(* Calls that read from a snapshot.                                         *)

\* What SnapshotHolds says of one key.
LEMMA InHand ==
  ASSUME ZSetsInv, snapshot # NoSnapshot, NEW k \in Keys
  PROVE  LET m == snapshot.meta[k] IN
         /\ m \in MetaValue \cup {NoMeta}
         /\ snapshot.data \in SUBSET DataKey /\ IsFiniteSet(snapshot.data)
         /\ snapshot.scores \in SUBSET S!DataKey /\ IsFiniteSet(snapshot.scores)
         /\ m # meta[k] => \/ m # NoMeta /\ meta[k] = NoMeta /\ m.version < now
                           \/ m = NoMeta /\ snapshot.dst = NoKey /\ ~Live(k)
         /\ SnapshotLive(k) =>
              /\ m = meta[k] /\ Live(k)
              /\ OfSet(snapshot.data, k, m.version) = OfSet(data, k, m.version)
              /\ OfSet(snapshot.scores, k, m.version) = OfSet(scores, k, m.version)
              /\ \A r \in OfSet(data, k, m.version) : snapshot.score[r] = score[r]
  <1>1. /\ snapshot.meta[k] \in MetaValue \cup {NoMeta}
        /\ snapshot.data \in SUBSET DataKey /\ IsFiniteSet(snapshot.data)
        /\ snapshot.scores \in SUBSET S!DataKey /\ IsFiniteSet(snapshot.scores)
    BY DEF ZSetsInv, ZSetsTypeOK
  <1>2. SnapshotHolds
    BY DEF ZSetsInv
  <1>3. SnapshotLive(k) => (snapshot.meta[k] = meta[k] => Live(k))
    BY DEF SnapshotLive, Live
  <1>4. QED BY <1>1, <1>2, <1>3 DEF SnapshotHolds, OfSet

\* A step of FollowsOn keeps all records of what stays fresh.
LEMMA RecordsFollow ==
  ASSUME ZSetsInv, Upkeep, NEW k \in Keys, meta'[k] = meta[k], Fresh(k)'
  PROVE  /\ OfSet(data', k, meta[k].version) = OfSet(data, k, meta[k].version)
         /\ OfSet(scores', k, meta[k].version) = OfSet(scores, k, meta[k].version)
  <1>1. /\ data' \subseteq data /\ scores' \subseteq scores
        /\ data \subseteq DataKey /\ scores \subseteq S!DataKey
        /\ FollowsOn(k) /\ OfScores!FollowsOn(k) /\ OfScores!Fresh(k)'
        /\ meta[k] # NoMeta
    BY DEF Upkeep, ZSetsInv, ZSetsTypeOK, StoreTypeOK, S!StoreTypeOK, Fresh,
           OfScores!Fresh, IsStale, OfScores!IsStale
  <1>2. PICK v : v = meta[k].version
    OBVIOUS
  <1>3. StoredIn(data', k, v) = StoredIn(data, k, v)
    BY <1>1, <1>2 DEF FollowsOn
  <1>4. OfScores!StoredIn(scores', k, v) = OfScores!StoredIn(scores, k, v)
    BY <1>1, <1>2 DEF OfScores!FollowsOn
  <1>5. OfSet(data', k, v) = OfSet(data, k, v)
    <2>1. \A r \in OfSet(data, k, v) : r = <<k, v, r[3]>> /\ r[3] \in StoredIn(data, k, v)
      BY <1>1 DEF OfSet, StoredIn, DataKey
    <2>2. \A x \in StoredIn(data', k, v) : <<k, v, x>> \in data'
      BY DEF StoredIn
    <2>3. \A r \in OfSet(data, k, v) : r \in data'
      BY <1>3, <2>1, <2>2
    <2>4. QED BY <1>1, <2>3 DEF OfSet
  <1>6. OfSet(scores', k, v) = OfSet(scores, k, v)
    <2>1. \A r \in OfSet(scores, k, v) :
            r = <<k, v, r[3]>> /\ r[3] \in OfScores!StoredIn(scores, k, v)
      BY <1>1 DEF OfSet, OfScores!StoredIn, S!DataKey
    <2>2. \A x \in OfScores!StoredIn(scores', k, v) : <<k, v, x>> \in scores'
      BY DEF OfScores!StoredIn
    <2>3. \A r \in OfSet(scores, k, v) : r \in scores'
      BY <1>4, <2>1, <2>2
    <2>4. QED BY <1>1, <2>3 DEF OfSet
  <1>7. QED BY <1>2, <1>5, <1>6

\* Time and compaction leave a snapshot current.
LEMMA SnapshotStaysCurrent ==
  ASSUME ZSetsInv, snapshot # NoSnapshot, snapshot' = snapshot, Upkeep, Wears
  PROVE  SnapshotHolds'
  <1>1. now \in Nat /\ now' \in {now, now + 1} /\ data' \subseteq data
    BY DEF ZSetsInv, ZSetsTypeOK, StoreTypeOK, Wears, Upkeep
  <1> SUFFICES ASSUME NEW k \in Keys
               PROVE  LET m == snapshot.meta[k] IN
                 /\ m # meta'[k] =>
                      \/ m # NoMeta /\ meta'[k] = NoMeta /\ m.version < now'
                      \/ m = NoMeta /\ snapshot.dst = NoKey /\ ~IsLive(meta'[k], now')
                 /\ IsLive(m, now') =>
                      /\ m = meta'[k]
                      /\ OfSet(snapshot.data, k, m.version) = OfSet(data', k, m.version)
                      /\ OfSet(snapshot.scores, k, m.version) = OfSet(scores', k, m.version)
                      /\ \A r \in OfSet(data', k, m.version) : snapshot.score[r] = score'[r]
    BY DEF SnapshotHolds, SnapshotLive, OfSet, Live
  <1>2. PICK m \in MetaValue \cup {NoMeta} : m = snapshot.meta[k]
    BY InHand
  <1>3. /\ m # meta[k] => \/ m # NoMeta /\ meta[k] = NoMeta /\ m.version < now
                          \/ m = NoMeta /\ snapshot.dst = NoKey /\ ~IsLive(meta[k], now)
        /\ IsLive(m, now) =>
             /\ m = meta[k] /\ Live(k)
             /\ OfSet(snapshot.data, k, m.version) = OfSet(data, k, m.version)
             /\ OfSet(snapshot.scores, k, m.version) = OfSet(scores, k, m.version)
             /\ \A r \in OfSet(data, k, m.version) : snapshot.score[r] = score[r]
    BY <1>2, InHand DEF SnapshotLive, Live
  <1>4. \/ meta'[k] = meta[k]
        \/ meta'[k] = NoMeta /\ MetaFilterDrops(meta[k], now)
    BY DEF Wears
  <1>5. m \in MetaValue => m.version \in Nat /\ m.timestamp \in Nat
    BY DEF MetaValue
  <1>6. ASSUME m # meta'[k]
        PROVE  \/ m # NoMeta /\ meta'[k] = NoMeta /\ m.version < now'
               \/ m = NoMeta /\ snapshot.dst = NoKey /\ ~IsLive(meta'[k], now')
    <2>1. CASE m # NoMeta
      <3>1. m \in MetaValue
        BY <2>1
      <3>2. m.version < now
        BY <1>3, <1>4, <1>6, <2>1 DEF MetaFilterDrops
      <3>3. meta'[k] = NoMeta
        BY <1>3, <1>4, <1>6, <2>1
      <3>4. QED BY <1>1, <1>5, <2>1, <3>1, <3>2, <3>3
    <2>2. CASE m = NoMeta
      <3>1. meta'[k] = meta[k] /\ meta[k] # NoMeta
        BY <1>4, <1>6, <2>2
      <3>2. snapshot.dst = NoKey /\ ~IsLive(meta[k], now)
        BY <1>3, <2>2, <3>1
      <3>3. meta[k] \in MetaValue
        BY <3>1 DEF ZSetsInv, ZSetsTypeOK, StoreTypeOK
      <3>4. meta[k].timestamp \in Nat
        BY <3>3 DEF MetaValue
      <3>5. ~IsLive(meta[k], now')
        BY <1>1, <3>1, <3>2, <3>4 DEF IsLive, IsStale
      <3>6. QED BY <2>2, <3>1, <3>2, <3>5
    <2>3. QED BY <2>1, <2>2
  <1>7. ASSUME IsLive(m, now')
        PROVE  /\ m = meta'[k]
               /\ OfSet(snapshot.data, k, m.version) = OfSet(data', k, m.version)
               /\ OfSet(snapshot.scores, k, m.version) = OfSet(scores', k, m.version)
               /\ \A r \in OfSet(data', k, m.version) : snapshot.score[r] = score'[r]
    <2>1. m \in MetaValue /\ m # NoMeta /\ m.count # 0 /\ ~IsStale(m, now')
      BY <1>7 DEF IsLive
    <2>2. ~IsStale(m, now)
      BY <1>1, <1>5, <2>1 DEF IsStale
    <2>3. IsLive(m, now)
      BY <2>1, <2>2 DEF IsLive
    <2>4. m = meta[k] /\ meta'[k] = meta[k]
      BY <1>3, <1>4, <2>1, <2>2, <2>3 DEF MetaFilterDrops
    <2>5. Fresh(k)'
      BY <2>1, <2>4 DEF Fresh
    <2>6. /\ OfSet(data', k, m.version) = OfSet(data, k, m.version)
          /\ OfSet(scores', k, m.version) = OfSet(scores, k, m.version)
      BY <2>4, <2>5, RecordsFollow
    <2>7. \A r \in OfSet(data', k, m.version) : score'[r] = score[r]
      BY DEF OfSet, Upkeep
    <2>8. QED BY <1>3, <2>3, <2>4, <2>6, <2>7
  <1>8. QED BY <1>2, <1>6, <1>7

\* What InitialMetaValue leaves of a meta value.
LEMMA InitialMetaIs ==
  ASSUME NEW m \in MetaValue, NEW t
  PROVE  InitialMetaValue(m, t) =
           [count |-> 0, version |-> NextVersion(m.version, t), timestamp |-> 0]
  <1>1. PICK u : u = UpdateVersion(m, t)
    OBVIOUS
  <1>2. u = [count |-> m.count, version |-> NextVersion(m.version, t),
             timestamp |-> m.timestamp]
    BY <1>1 DEF UpdateVersion, MetaValue
  <1>3. PICK w : w = InitialMetaValue(m, t)
    OBVIOUS
  <1>4. w = [u EXCEPT !.count = 0, !.timestamp = 0]
    BY <1>1, <1>3 DEF InitialMetaValue
  <1>5. w = [count |-> 0, version |-> NextVersion(m.version, t), timestamp |-> 0]
    BY <1>2, <1>4
  <1>6. QED BY <1>3, <1>5

\* The destination begins anew as if it were read now: a meta value that
\* compaction has dropped since was behind the clock.
LEMMA OverwrittenIsRenewed ==
  ASSUME ZSetsInv, snapshot # NoSnapshot, snapshot.dst # NoKey, NEW k \in Keys
  PROVE  Overwritten(k) = Renewed(k)
  <1>1. PICK m \in MetaValue \cup {NoMeta} :
          m = snapshot.meta[k] /\ (m # meta[k] => meta[k] = NoMeta /\ m.version < now)
    BY InHand
  <1>2. CASE m = meta[k]
    BY <1>1, <1>2 DEF Overwritten, Renewed
  <1>3. CASE m # meta[k]
    <2>1. m \in MetaValue /\ meta[k] = NoMeta /\ m.version \in Nat /\ m.version < now
          /\ now \in Nat \ {0}
      BY <1>1, <1>3 DEF MetaValue, ZSetsInv, ZSetsTypeOK, StoreTypeOK
    <2>2. Overwritten(k) = [count |-> 0, version |-> now, timestamp |-> 0]
      <3>1. Overwritten(k) = InitialMetaValue(m, now)
        BY <1>1, <1>3, <2>1 DEF Overwritten
      <3>2. NextVersion(m.version, now) = now
        BY <2>1 DEF NextVersion
      <3>3. InitialMetaValue(m, now) =
              [count |-> 0, version |-> NextVersion(m.version, now), timestamp |-> 0]
        BY <2>1, InitialMetaIs
      <3>4. QED BY <3>1, <3>2, <3>3
    <2>3. Renewed(k) = [count |-> 0, version |-> now, timestamp |-> 0]
      BY <2>1 DEF Renewed, FreshMetaValue, UpdateVersion, NextVersion
    <2>4. QED BY <2>2, <2>3
  <1>4. QED BY <1>2, <1>3

\* A source's walk stays inside it, and is of one record a member.
LEMMA SnapshotWalkStays ==
  ASSUME ZSetsInv, raced = {}, scoreRaced = {}, snapshot # NoSnapshot,
         NEW k \in Keys, SnapshotLive(k)
  PROVE  /\ SnapshotWalk(k) \subseteq OfSet(scores, k, meta[k].version)
         /\ meta[k] = snapshot.meta[k] /\ Live(k)
  <1>1. PICK m \in MetaValue \cup {NoMeta} :
          /\ m = snapshot.meta[k] /\ m = meta[k] /\ Live(k)
          /\ OfSet(snapshot.scores, k, m.version) = OfSet(scores, k, m.version)
          /\ snapshot.scores \in SUBSET S!DataKey /\ IsFiniteSet(snapshot.scores)
    BY InHand
  <1>2. m.version \in Nat /\ m.count \in Nat
    BY <1>1, LiveCount
  <1>3. Cardinality(OfSet(scores, k, m.version)) = m.count
    BY <1>1, LiveRecords
  <1>4. Forward(snapshot.scores, k, m, m.count) \subseteq OfSet(snapshot.scores, k, m.version)
    <2>1. m.count <= Cardinality(OfSet(snapshot.scores, k, m.version))
      BY <1>1, <1>2, <1>3
    <2>2. QED BY <1>1, <1>2, <2>1, ForwardStays
  <1>5. QED BY <1>1, <1>4 DEF SnapshotWalk

\* What is alive in the snapshot is alive still, and nothing else has come alive.
LEMMA SnapshotIsCurrent ==
  ASSUME ZSetsInv, snapshot # NoSnapshot, NEW k \in Keys
  PROVE  SnapshotLive(k) <=> Live(k)
  <1>1. snapshot.meta[k] # meta[k] => ~Live(k)
    BY InHand DEF Live, IsLive
  <1>2. SnapshotLive(k) => Live(k)
    BY InHand
  <1>3. QED BY <1>1, <1>2 DEF Live, SnapshotLive

\* A result that gives the members X a score each becomes the destination's.
LEMMA StoreResultInv ==
  ASSUME ZSetsInv, raced = {}, scoreRaced = {}, raced' = {}, scoreRaced' = {},
         snapshot # NoSnapshot, snapshot.dst \in Keys,
         NEW X \in SUBSET Members, NEW f, DOMAIN f = X, f = [x \in X |-> f[x]],
         NEW result, result = {<<f[x], x>> : x \in X},
         NEW count, count = Cardinality(X), StoreResult(result, count)
  PROVE  Kept /\ ZSets!Become(snapshot.dst, f, 0)
  <1>1. PICK k \in Keys : k = snapshot.dst
    OBVIOUS
  <1>2. Overwritten(k) = Renewed(k)
    <2>1. snapshot.dst # NoKey
      BY StoreAssumption
    <2>2. QED BY <2>1, OverwrittenIsRenewed
  <1>3. PICK v \in Nat : v = Renewed(k).version
    BY RenewedForBoth
  <1>4. SetCount(Renewed(k), count).version = v
    BY <1>3, RenewedForBoth DEF SetCount, MetaValue
  <1>5. /\ {pair[1] : pair \in result} \subseteq Scores
        /\ Write(k, SetCount(Renewed(k), count), {}, {}, {<<k, v, pair>> : pair \in result})
    BY <1>1, <1>2, <1>4, Zenon DEF StoreResult
  <1>6. f \in [X -> Scores]
    <2>1. ASSUME NEW x \in X
          PROVE  f[x] \in Scores
      <3>1. <<f[x], x>> \in result
        OBVIOUS
      <3>2. <<f[x], x>>[1] \in {pair[1] : pair \in result}
        BY <3>1
      <3>3. QED BY <1>5, <3>2
    <2>2. QED BY <2>1
  <1>7. {<<k, v, pair>> : pair \in result} = Scored(k, v, X, f)
    <2>1. \A r \in {<<k, v, pair>> : pair \in result} : r \in Scored(k, v, X, f)
      BY DEF Scored
    <2>2. \A x \in X : <<f[x], x>> \in result
      OBVIOUS
    <2>3. \A r \in Scored(k, v, X, f) : r \in {<<k, v, pair>> : pair \in result}
      BY <2>2 DEF Scored
    <2>4. QED BY <2>1, <2>3
  <1>8. Write(k, SetCount(Renewed(k), count), {}, {}, Scored(k, v, X, f))
    BY <1>5, <1>7, Zenon
  <1>9. Kept /\ BecomesZSet(k, f, 0)
    BY <1>3, <1>6, <1>8, BeginsInv
  <1>10. IsScoring(f)
    BY DEF IsScoring
  <1>11. ZSets!Become(k, f, 0)
    BY <1>9, <1>10, BecomesAsPromised
  <1>12. QED BY <1>1, <1>9, <1>11

\* What ZUnionstore reads, and what it computes of x; what ZInterstore reads, and
\* what it computes of a record.
UnionRead(args) ==
  UNION {{<<i, r>> : r \in SnapshotWalk(args.keys[i])} :
           i \in {i \in DOMAIN args.keys : SnapshotLive(args.keys[i])}}

UnionValue(args, x) ==
  [e \in {e \in UnionRead(args) : e[2][3][2] = x} |-> Weight(args, e[1]) * e[2][3][1]]

SnapshotRow(args, i, x) == <<args.keys[i], snapshot.meta[args.keys[i]].version, x>>

InterRead(args) ==
  IF \A i \in DOMAIN args.keys : SnapshotLive(args.keys[i])
  THEN {r \in SnapshotWalk(args.keys[1]) :
          \A i \in DOMAIN args.keys \ {1} : SnapshotRow(args, i, r[3][2]) \in snapshot.data}
  ELSE {}

InterValue(args, r) ==
  [i \in DOMAIN args.keys |->
     Weight(args, i) * (IF i = 1 THEN r[3][1]
                        ELSE snapshot.score[SnapshotRow(args, i, r[3][2])])]

\* f has what ZInterstore computes of every record that it reads.
Intersects(args, f) ==
  /\ IsScoring(f)
  /\ DOMAIN f = {r[3][2] : r \in InterRead(args)}
  /\ \A r \in InterRead(args) : f[r[3][2]] = Aggregate(args.agg, InterValue(args, r))

\* ZUnionstore: a member has the one score that the sources give it together.
LEMMA ZUnionstoreInv ==
  ASSUME ZSetsInv, raced = {}, scoreRaced = {}, raced' = {}, scoreRaced' = {},
         snapshot # NoSnapshot, snapshot.dst \in Keys,
         NEW args \in StoreArgs, ZUnionstore(args)
  PROVE  /\ Kept
         /\ \E f : /\ f = [x \in {e[2][3][2] : e \in UnionRead(args)} |->
                             Aggregate(args.agg, UnionValue(args, x))]
                  /\ ZSets!Become(snapshot.dst, f, 0)
  <1> DEFINE read == UnionRead(args)
             value(x) == UnionValue(args, x)
             X      == {e[2][3][2] : e \in read}
             result == {<<Aggregate(args.agg, value(x)), x>> : x \in X}
  <1>1. X \in SUBSET Members
    <2> SUFFICES ASSUME NEW e \in read
                 PROVE  e[2][3][2] \in Members
      OBVIOUS
    <2>1. PICK i \in DOMAIN args.keys : /\ SnapshotLive(args.keys[i])
                                        /\ \E r \in SnapshotWalk(args.keys[i]) : e = <<i, r>>
      BY DEF UnionRead
    <2>2. args.keys[i] \in Keys
      BY ZSetsAssumption
    <2>3. PICK k \in Keys : k = args.keys[i]
      BY <2>2
    <2>4. e[2] \in OfSet(scores, k, meta[k].version)
      BY <2>1, <2>3, SnapshotWalkStays
    <2>5. e[2] \in S!DataKey
      BY <2>4 DEF OfSet, ZSetsInv, ZSetsTypeOK, S!StoreTypeOK
    <2>6. QED BY <2>5 DEF S!DataKey, ScoredMembers
  <1>2. StoreResult(result, Cardinality(result))
    BY Zenon DEF ZUnionstore, UnionRead, UnionValue
  <1> HIDE DEF X, value
  <1>3. PICK f : f = [x \in X |-> Aggregate(args.agg, value(x))]
    OBVIOUS
  <1>4. result = {<<f[x], x>> : x \in X} /\ DOMAIN f = X /\ f = [x \in X |-> f[x]]
    BY <1>3
  <1>5. Cardinality(result) = Cardinality(X)
    BY <1>1, <1>4, ScoredCount
  <1> HIDE DEF result
  <1>6. Kept /\ ZSets!Become(snapshot.dst, f, 0)
    BY <1>1, <1>2, <1>4, <1>5, StoreResultInv
  <1>7. QED BY <1>3, <1>6 DEF X, value

\* ZInterstore: the first source's records are of one member each.
LEMMA ZInterstoreInv ==
  ASSUME ZSetsInv, raced = {}, scoreRaced = {}, raced' = {}, scoreRaced' = {},
         snapshot # NoSnapshot, snapshot.dst \in Keys,
         NEW args \in StoreArgs, ZInterstore(args)
  PROVE  /\ Kept
         /\ \E f : Intersects(args, f) /\ ZSets!Become(snapshot.dst, f, 0)
  <1> DEFINE valid == \A i \in DOMAIN args.keys : SnapshotLive(args.keys[i])
             read   == InterRead(args)
             value(r) == InterValue(args, r)
             result == {<<Aggregate(args.agg, value(r)), r[3][2]>> : r \in read}
  <1>1. PICK k \in Keys : k = args.keys[1] /\ 1 \in DOMAIN args.keys
    BY ZSetsAssumption
  <1>2. PICK v : v = meta[k].version
    OBVIOUS
  <1>3. read \subseteq OfSet(scores, k, v) /\ (read = {} \/ Live(k))
    <2>1. CASE valid
      <3>1. SnapshotLive(k)
        BY <1>1, <2>1
      <3>2. SnapshotWalk(k) \subseteq OfSet(scores, k, v) /\ Live(k)
        BY <1>2, <3>1, SnapshotWalkStays
      <3>3. QED BY <1>1, <2>1, <3>2 DEF InterRead
    <2>2. CASE ~valid
      BY <2>2 DEF InterRead
    <2>3. QED BY <2>1, <2>2
  <1>4. \A r \in read : r[3][2] \in Stored(k, v) /\ r = ScoreRecord(k, v, r[3][2])
    <2>1. CASE Live(k)
      BY <1>2, <1>3, <2>1, LiveRecords
    <2>2. CASE read = {}
      BY <2>2
    <2>3. QED BY <1>3, <2>1, <2>2
  <1>5. StoreResult(result, Cardinality(read))
    BY Zenon DEF ZInterstore, InterRead, InterValue, SnapshotRow
  <1>6. IsFiniteSet(read)
    <2>1. OfSet(scores, k, v) \subseteq scores
      BY DEF OfSet
    <2>2. QED BY <1>3, <2>1, FS_Subset DEF ZSetsInv, ZSetsTypeOK
  <1> HIDE DEF read, value
  <1> DEFINE X == {r[3][2] : r \in read}
  <1>7. X \in SUBSET Members
    BY <1>4 DEF Stored
  <1>8. (\A r \in read : r[3][2] \in X) /\ \A x \in X : \E r \in read : x = r[3][2]
    OBVIOUS
  <1> HIDE DEF X
  <1>9. Cardinality(X) = Cardinality(read)
    <2>1. PICK g : g = [r \in read |-> r[3][2]]
      OBVIOUS
    <2>2. g \in [read -> X] /\ (\A r \in read : g[r] = r[3][2])
      BY <1>8, <2>1
    <2>3. \A q, r \in read : g[q] = g[r] => q = r
      <3> SUFFICES ASSUME NEW q \in read, NEW r \in read, g[q] = g[r]
                   PROVE  q = r
        OBVIOUS
      <3>1. q[3][2] = r[3][2]
        BY <2>2
      <3>2. q = ScoreRecord(k, v, q[3][2]) /\ r = ScoreRecord(k, v, r[3][2])
        BY <1>4
      <3>3. QED BY <3>1, <3>2, Zenon
    <2>4. \A x \in X : \E r \in read : g[r] = x
      BY <1>8, <2>2
    <2>5. QED BY <1>6, <2>2, <2>3, <2>4, SameSize
  <1>10. PICK f : f = [x \in X |-> Aggregate(args.agg, value(ScoreRecord(k, v, x)))]
    OBVIOUS
  <1>11. \A r \in read : f[r[3][2]] = Aggregate(args.agg, value(r))
    <2> SUFFICES ASSUME NEW r \in read
                 PROVE  f[r[3][2]] = Aggregate(args.agg, value(r))
      OBVIOUS
    <2>1. f[r[3][2]] = Aggregate(args.agg, value(ScoreRecord(k, v, r[3][2])))
      BY <1>8, <1>10
    <2>2. r = ScoreRecord(k, v, r[3][2])
      BY <1>4
    <2>3. QED BY <2>1, <2>2, Zenon
  <1>12. result = {<<f[x], x>> : x \in X}
    <2>1. \A p \in result : \E x \in X : p = <<f[x], x>>
      BY <1>8, <1>11
    <2>2. ASSUME NEW x \in X
          PROVE  <<f[x], x>> \in result
      <3>1. PICK r \in read : x = r[3][2]
        BY <1>8
      <3>2. <<f[x], x>> = <<Aggregate(args.agg, value(r)), r[3][2]>>
        BY <1>11, <3>1
      <3>3. QED BY <3>2
    <2>3. QED BY <2>1, <2>2
  <1>13. DOMAIN f = X /\ f = [x \in X |-> f[x]]
    BY <1>10
  <1> HIDE DEF result
  <1>14. Kept /\ ZSets!Become(snapshot.dst, f, 0)
    BY <1>5, <1>7, <1>9, <1>12, <1>13, StoreResultInv
  <1>15. X = {r[3][2] : r \in read}
    BY DEF X
  <1>16. Intersects(args, f)
    BY <1>11, <1>13, <1>15 DEF read, value, Intersects, IsScoring
  <1>17. QED BY <1>14, <1>16

\* ZRemrangebylex: what it walked over in the snapshot is there still.
LEMMA ZRemrangebylexInv ==
  ASSUME ZSetsInv, raced = {}, scoreRaced = {}, raced' = {}, scoreRaced' = {},
         snapshot # NoSnapshot, NEW k \in Keys, k = snapshot.dst,
         NEW interval, ZRemrangebylex(interval)
  PROVE  /\ Kept
         /\ LET m    == snapshot.meta[k]
                gone == WithinLex(ForwardByMember(snapshot.data, k, m, m.count), interval)
            IN  IF SnapshotLive(k) /\ gone # {}
                THEN ZSets!Remove(k, {r[3] : r \in gone})
                ELSE UNCHANGED <<storeVars, scoreVars>>
  <1>1. k = snapshot.dst
    OBVIOUS
  <1>2. PICK m \in MetaValue \cup {NoMeta} : m = snapshot.meta[k]
    BY InHand
  <1> DEFINE gone == WithinLex(ForwardByMember(snapshot.data, k, m, m.count), interval)
  <1>3. CASE SnapshotLive(k) /\ gone # {}
    <2>1. /\ m = meta[k] /\ Live(k)
          /\ OfSet(snapshot.data, k, m.version) = OfSet(data, k, m.version)
          /\ \A r \in OfSet(data, k, m.version) : snapshot.score[r] = score[r]
          /\ snapshot.data \in SUBSET DataKey /\ IsFiniteSet(snapshot.data)
      BY <1>2, <1>3, InHand
    <2>2. PICK v \in Nat : v = m.version /\ m.count \in Nat
      BY <2>1, LiveCount
    <2>3. Write(k, ModifyCount(m, -Cardinality(gone)), gone,
                {<<k, v, <<snapshot.score[r], r[3]>>>> : r \in gone}, {})
      BY <1>1, <1>2, <1>3, <2>2, Zenon DEF ZRemrangebylex
    <2>4. gone \subseteq OfSet(data, k, v)
      <3>1. m.count <= Cardinality(OfSet(snapshot.data, k, m.version))
        BY <2>1, <2>2, LiveRecords
      <3>2. ForwardByMember(snapshot.data, k, m, m.count)
              \subseteq OfSet(snapshot.data, k, m.version)
        BY <2>1, <2>2, <3>1, ForwardByMemberStays
      <3>3. gone \subseteq ForwardByMember(snapshot.data, k, m, m.count)
        BY DEF WithinLex
      <3>4. QED BY <2>1, <2>2, <3>2, <3>3
    <2> HIDE DEF gone
    <2>5. /\ \A r \in gone : r[3] \in Stored(k, v) /\ r = <<k, v, r[3]>>
          /\ \A r \in gone : snapshot.score[r] = score[r]
          /\ IsFiniteSet(gone)
      <3>1. OfSet(data, k, v) \subseteq data
        BY DEF OfSet
      <3>2. IsFiniteSet(gone)
        BY <2>4, <3>1, FS_Subset DEF ZSetsInv, ZSetsTypeOK
      <3>3. QED BY <2>1, <2>2, <2>4, <3>2, LiveRecords
    <2> DEFINE G == {r[3] : r \in gone}
    <2>6. G \in SUBSET Stored(k, v)
      BY <2>5
    <2>7. (\A r \in gone : r[3] \in G) /\ \A x \in G : \E r \in gone : x = r[3]
      OBVIOUS
    <2> HIDE DEF G
    <2>8. Cardinality(G) = Cardinality(gone)
      <3>1. PICK g : g = [r \in gone |-> r[3]]
        OBVIOUS
      <3>2. g \in [gone -> G] /\ (\A r \in gone : g[r] = r[3])
        BY <2>7, <3>1
      <3>3. \A q, r \in gone : g[q] = g[r] => q = r
        BY <2>5, <3>2
      <3>4. \A x \in G : \E r \in gone : g[r] = x
        BY <2>7, <3>2
      <3>5. QED BY <2>5, <3>2, <3>3, <3>4, SameSize
    <2>9. \A x \in G : <<k, v, x>> \in gone
      BY <2>5, <2>7
    <2>10. gone = Records(k, v, G)
      <3>1. \A r \in gone : \E x \in G : r = <<k, v, x>>
        BY <2>5, <2>7
      <3>2. QED BY <2>9, <3>1 DEF Records
    <2>11. {<<k, v, <<snapshot.score[r], r[3]>>>> : r \in gone}
             = {ScoreRecord(k, v, x) : x \in G}
      <3>1. ASSUME NEW r \in gone
            PROVE  <<k, v, <<snapshot.score[r], r[3]>>>> = ScoreRecord(k, v, r[3])
        <4>1. snapshot.score[r] = score[<<k, v, r[3]>>]
          BY <2>5
        <4>2. QED BY <4>1 DEF ScoreRecord
      <3>2. ASSUME NEW x \in G
            PROVE  \E r \in gone : ScoreRecord(k, v, x) = <<k, v, <<snapshot.score[r], r[3]>>>>
        <4>1. PICK r \in gone : x = r[3]
          BY <2>7
        <4>2. QED BY <3>1, <4>1, Zenon
      <3>3. QED BY <2>7, <3>1, <3>2
    <2>12. PICK n \in Int : n = -Cardinality(G)
      <3>1. Cardinality(gone) \in Nat
        BY <2>5, FS_CardinalityType
      <3>2. QED BY <2>8, <3>1
    <2>13. Write(k, ModifyCount(meta[k], n), Records(k, v, G),
                 {ScoreRecord(k, v, x) : x \in G}, {})
      BY <2>1, <2>3, <2>8, <2>10, <2>11, <2>12, Zenon
    <2>14. Kept /\ ZSets!Remove(k, G)
      BY <2>1, <2>2, <2>6, <2>12, <2>13, TakesInv
    <2>15. Kept /\ ZSets!Remove(k, {r[3] : r \in gone})
      BY <2>14, Zenon DEF G
    <2>16. LET b == snapshot.meta[k]
               g == WithinLex(ForwardByMember(snapshot.data, k, b, b.count), interval)
           IN  SnapshotLive(k) /\ g # {} /\ ZSets!Remove(k, {r[3] : r \in g})
      BY <1>2, <1>3, <2>15, Zenon DEF gone
    <2>17. QED BY <2>15, <2>16, Zenon
  <1>4. CASE ~(SnapshotLive(k) /\ gone # {})
    <2>1. UNCHANGED <<storeVars, scoreVars>>
      BY <1>1, <1>2, <1>4, Zenon DEF ZRemrangebylex
    <2>2. Kept
      BY <2>1, IdleInv DEF storeVars, scoreVars
    <2>3. QED BY <1>2, <1>4, <2>1, <2>2, Zenon
  <1>5. QED BY <1>3, <1>4

\* PKPatternMatchDel: the keys that are alive in the snapshot are alive still.
LEMMA PKPatternMatchDelInv ==
  ASSUME ZSetsInv, raced = {}, scoreRaced = {}, raced' = {}, scoreRaced' = {},
         snapshot # NoSnapshot, NEW K \in SUBSET Keys, PKPatternMatchDel(K)
  PROVE  Kept /\ ZSets!Delete(K)
  <1> DEFINE dead == {k \in K : SnapshotLive(k)}
  <1>1. /\ meta' = [k \in Keys |-> IF k \in dead THEN InitialMetaValue(snapshot.meta[k], now)
                                                 ELSE meta[k]]
        /\ raced' = raced \ dead /\ scoreRaced' = scoreRaced \ dead
        /\ data' = data /\ now' = now /\ filter' = filter
        /\ score' = score /\ scores' = scores /\ scoreFilter' = scoreFilter
    BY Zenon DEF PKPatternMatchDel
  <1>2. ASSUME NEW k \in dead
        PROVE  /\ InitialMetaValue(snapshot.meta[k], now) = Renewed(k)
               /\ Renewed(k) = OfScores!Renewed(k)
    <2>1. k \in Keys /\ SnapshotLive(k)
      OBVIOUS
    <2>2. snapshot.meta[k] = meta[k] /\ meta[k] # NoMeta
      BY <2>1, SnapshotWalkStays, LiveCount
    <2>3. Renewed(k) = OfScores!Renewed(k)
      BY DEF OfScores!Renewed, Renewed, OfScores!FreshMetaValue, FreshMetaValue,
             OfScores!InitialMetaValue, InitialMetaValue, OfScores!UpdateVersion,
             UpdateVersion, OfScores!NextVersion, NextVersion
    <2>4. QED BY <2>2, <2>3 DEF Renewed
  <1>3. dead \in SUBSET Keys
    OBVIOUS
  <1>4. StoreInv /\ OfScores!StoreInv /\ score \in [data -> Scores]
    BY SameStore DEF ZSetsInv, ZSetsTypeOK
  <1> HIDE DEF dead
  <1>5. /\ meta' = [k \in Keys |-> IF k \in dead THEN Renewed(k) ELSE meta[k]]
        /\ meta' = [k \in Keys |-> IF k \in dead THEN OfScores!Renewed(k) ELSE meta[k]]
    BY <1>1, <1>2
  <1>6. StoreInv' /\ \A j \in Keys : FollowsOn(j)
    <2>1. RenewsAll(dead)
      BY <1>1, <1>5 DEF RenewsAll
    <2>2. QED BY <1>3, <1>4, <2>1, RenewsAllInv
  <1>7. OfScores!StoreInv' /\ \A j \in Keys : OfScores!FollowsOn(j)
    <2>1. OfScores!RenewsAll(dead)
      BY <1>1, <1>5 DEF OfScores!RenewsAll
    <2>2. QED BY <1>3, <1>4, <2>1, OfScores!RenewsAllInv, ScoresAssumption
  <1>8. Upkeep
    BY <1>1, <1>4, <1>6, <1>7 DEF Upkeep
  <1>9. Kept
    BY <1>6, <1>7, <1>8, UpkeepKept
  <1>10. \A k \in K : k \in Keys /\ (k \in dead <=> Live(k))
    <2>1. \A k \in K : SnapshotLive(k) <=> Live(k)
      BY SnapshotIsCurrent
    <2>2. QED BY <2>1 DEF dead
  <1>11. ASSUME NEW k \in Keys
         PROVE  /\ Contents(k)' = IF k \in K THEN ZSets!Nothing ELSE Contents(k)
                /\ Due'[k] = IF k \in K THEN 0 ELSE Due[k]
    <2>1. CASE k \in dead
      <3>1. meta'[k] = Renewed(k) /\ Renewed(k).count = 0
        BY <1>5, <2>1, RenewedForBoth
      <3>2. ~Live(k)'
        BY <3>1 DEF Live, IsLive
      <3>3. k \in K
        BY <2>1 DEF dead
      <3>4. QED BY <3>2, <3>3 DEF Contents, Visible, Due, ZSets!Nothing
    <2>2. CASE k \notin dead
      <3>1. meta'[k] = meta[k]
        BY <1>5, <2>2
      <3>2. Visible(k)' = Visible(k) /\ Contents(k)' = Contents(k) /\ Due'[k] = Due[k]
        BY <1>1, <3>1 DEF Visible, Live, Stored, Contents, Due
      <3>3. k \in K => Visible(k) = {}
        BY <1>10, <2>2 DEF Visible
      <3>4. QED BY <3>2, <3>3 DEF Contents, Due, ZSets!Nothing
    <2>3. QED BY <2>1, <2>2
  <1>12. /\ Row' = [k \in Keys |-> IF k \in K THEN ZSets!Nothing ELSE Row[k]]
         /\ Due' = [k \in Keys |-> IF k \in K THEN 0 ELSE Due[k]]
    <2>1. Row' = [k \in Keys |-> IF k \in K THEN ZSets!Nothing ELSE Row[k]]
      BY <1>11 DEF Row
    <2>2. Due' = [k \in Keys |-> Due'[k]]
      BY DEF Due
    <2>3. QED BY <1>11, <2>1, <2>2
  <1>13. ZSets!Delete(K)
    BY <1>1, <1>12, Zenon DEF ZSets!Delete, Row, Due
  <1>14. QED BY <1>9, <1>13
----------------------------------------------------------------------------
(* Every step.                                                              *)

\* Every handler of one key keeps the column families as ZSetsInv says.
LEMMA HandlerKept ==
  ASSUME ZSetsInv, raced = {}, scoreRaced = {}, raced' = {}, scoreRaced' = {},
         NEW k \in Keys, Handler(k)
  PROVE  Kept
  <1>1. ASSUME NEW f \in Scorings, ZAdd(k, f)
        PROVE  Kept
    BY <1>1, ZAddInv
  <1>2. ASSUME NEW x \in Members, NEW by \in Increments, ZIncrby(k, x, by)
        PROVE  Kept
    BY <1>2, ZIncrbyInv
  <1>3. ASSUME NEW X \in (SUBSET Members) \ {{}}, ZRem(k, X)
        PROVE  Kept
    BY <1>3, ZRemInv
  <1>4. ASSUME NEW n \in 1 .. Cardinality(Members), ZPopMax(k, n) \/ ZPopMin(k, n)
        PROVE  Kept
    <2>1. n \in Nat
      <3>1. Cardinality(Members) \in Nat
        BY StoreAssumption, FS_CardinalityType
      <3>2. QED BY <3>1
    <2>2. QED BY <1>4, <2>1, WalkersInv
  <1>5. ASSUME NEW start \in Indexes, NEW stop \in Indexes, ZRemrangebyrank(k, start, stop)
        PROVE  Kept
    BY <1>5, WalkersInv
  <1>6. ASSUME NEW interval \in Intervals, ZRemrangebyscore(k, interval)
        PROVE  Kept
    BY <1>6, WalkersInv
  <1>7. CASE \/ \E ttl \in Ttls : ZExpire(k, ttl)
             \/ \E ts \in Timestamps : ZExpireat(k, ts)
             \/ ZPersist(k)
             \/ ZDel(k)
    BY <1>7, ZExpiryInv
  <1>8. QED BY <1>1, <1>2, <1>3, <1>4, <1>5, <1>6, <1>7 DEF Handler

\* So does a call that writes from its snapshot.
LEMMA FromSnapshotKept ==
  ASSUME ZSetsInv, raced = {}, scoreRaced = {}, raced' = {}, scoreRaced' = {},
         FromSnapshot
  PROVE  Kept
  <1>1. snapshot # NoSnapshot /\ snapshot.dst \in Keys \cup {NoKey}
    BY DEF FromSnapshot, ZSetsInv, ZSetsTypeOK
  <1>2. CASE snapshot.dst = NoKey
    <2>1. PICK K \in SUBSET Keys : PKPatternMatchDel(K)
      BY <1>2 DEF FromSnapshot
    <2>2. QED BY <1>1, <2>1, PKPatternMatchDelInv
  <1>3. CASE snapshot.dst # NoKey
    <2>1. snapshot.dst \in Keys
      BY <1>1, <1>3
    <2>2. \/ \E args \in StoreArgs : ZUnionstore(args) \/ ZInterstore(args)
          \/ \E interval \in LexIntervals : ZRemrangebylex(interval)
      BY <1>3 DEF FromSnapshot
    <2>3. QED BY <1>1, <2>1, <2>2, ZUnionstoreInv, ZInterstoreInv, ZRemrangebylexInv
  <1>4. QED BY <1>2, <1>3

\* ZSetsInv of the next state, but for a snapshot in hand.
LEMMA KeptIsEnough ==
  ASSUME Kept, snapshot' = NoSnapshot
  PROVE  ZSetsInv'
  BY DEF Kept, ZSetsInv, ZSetsTypeOK, StoreInv, S!StoreInv

\* PKPatternMatchDel keeps ZSetsInv as it writes a batch.
LEMMA DeleteBatchInv ==
  ASSUME ZSetsInv, raced = {}, scoreRaced = {}, raced' = {}, scoreRaced' = {},
         NEW K \in SUBSET Keys, DeleteBatch(K)
  PROVE  ZSetsInv' /\ ZSets!Delete(K)
  <1>1. /\ snapshot # NoSnapshot /\ snapshot.dst = NoKey
        /\ \A k \in K : SnapshotLive(k)
        /\ PKPatternMatchDel(K)
        /\ snapshot' = [snapshot EXCEPT !.meta =
                          [k \in Keys |-> IF k \in K THEN NoMeta ELSE snapshot.meta[k]]]
    BY DEF DeleteBatch
  <1>2. Kept /\ ZSets!Delete(K)
    BY <1>1, PKPatternMatchDelInv
  <1>3. /\ meta' = [k \in Keys |-> IF k \in K THEN InitialMetaValue(snapshot.meta[k], now)
                                              ELSE meta[k]]
        /\ data' = data /\ scores' = scores /\ score' = score /\ now' = now
    BY <1>1 DEF PKPatternMatchDel
  <1>4. SnapshotHolds /\ ZSetsTypeOK
    BY <1>1 DEF ZSetsInv
  <1>5. /\ snapshot'.dst = NoKey
        /\ snapshot'.meta \in [Keys -> MetaValue \cup {NoMeta}]
        /\ snapshot'.data \in SUBSET DataKey /\ IsFiniteSet(snapshot'.data)
        /\ snapshot'.scores \in SUBSET S!DataKey /\ IsFiniteSet(snapshot'.scores)
    BY <1>1, <1>4 DEF ZSetsTypeOK
  <1>6. SnapshotHolds'
    <2> SUFFICES ASSUME NEW k \in Keys
                 PROVE  LET m == snapshot'.meta[k] IN
                   /\ m # meta'[k] =>
                        \/ m # NoMeta /\ meta'[k] = NoMeta /\ m.version < now
                        \/ m = NoMeta /\ snapshot'.dst = NoKey /\ ~IsLive(meta'[k], now)
                   /\ IsLive(m, now) =>
                        /\ m = meta'[k]
                        /\ OfSet(snapshot'.data, k, m.version) = OfSet(data, k, m.version)
                        /\ OfSet(snapshot'.scores, k, m.version) = OfSet(scores, k, m.version)
                        /\ \A r \in OfSet(data, k, m.version) : snapshot'.score[r] = score[r]
      BY <1>3 DEF SnapshotHolds, SnapshotLive, OfSet, Live
    <2>1. /\ snapshot'.data = snapshot.data /\ snapshot'.scores = snapshot.scores
          /\ snapshot'.score = snapshot.score
      BY <1>1
    <2>2. snapshot'.meta[k] = IF k \in K THEN NoMeta ELSE snapshot.meta[k]
      BY <1>1, <1>4 DEF ZSetsTypeOK
    <2>3. CASE k \in K
      <3>1. snapshot.meta[k] = meta[k] /\ meta[k] # NoMeta
        BY <1>1, <2>3, SnapshotWalkStays, LiveCount
      <3>2. snapshot.meta[k] \in MetaValue
        BY <3>1 DEF ZSetsInv, ZSetsTypeOK, StoreTypeOK
      <3>3. meta'[k].count = 0
        BY <1>3, <2>3, <3>2, InitialMetaIs
      <3>4. snapshot'.meta[k] = NoMeta /\ ~IsLive(meta'[k], now) /\ ~IsLive(NoMeta, now)
        BY <2>2, <2>3, <3>3 DEF IsLive
      <3>5. QED BY <1>5, <3>4
    <2>4. CASE k \notin K
      <3>1. snapshot'.meta[k] = snapshot.meta[k] /\ meta'[k] = meta[k]
        BY <1>3, <2>2, <2>4
      <3>2. QED BY <1>1, <1>5, <2>1, <3>1, InHand DEF SnapshotLive, Live
    <2>5. QED BY <2>3, <2>4
  <1>7. ZSetsTypeOK'
    BY <1>2, <1>5 DEF Kept, ZSetsTypeOK, StoreInv, StoreTypeOK, S!StoreInv, S!StoreTypeOK
  <1>8. QED BY <1>2, <1>6, <1>7 DEF Kept, ZSetsInv

\* Every step of UnracedSpec keeps ZSetsInv.
LEMMA ZSetsStep ==
  ASSUME ZSetsInv, raced = {}, scoreRaced = {},
         ((snapshot = NoSnapshot /\ Handlers) \/ Others) /\ Unraced
  PROVE  ZSetsInv' /\ raced' = {} /\ scoreRaced' = {}
  <1>1. raced' = {} /\ scoreRaced' = {}
    BY DEF Unraced
  <1>2. CASE snapshot = NoSnapshot /\ Handlers
    <2>1. Kept
      BY <1>1, <1>2, HandlerKept DEF Handlers
    <2>2. snapshot' = NoSnapshot
      BY <1>2 DEF Handlers
    <2>3. QED BY <1>1, <2>1, <2>2, KeptIsEnough
  <1>3. CASE FromSnapshot
    <2>1. snapshot' = NoSnapshot
      BY <1>3 DEF FromSnapshot
    <2>2. QED BY <1>1, <1>3, <2>1, FromSnapshotKept, KeptIsEnough
  <1>4. CASE ZSetsReopen
    <2>1. Kept
      BY <1>1, <1>4, IdleInv DEF ZSetsReopen
    <2>2. snapshot' = NoSnapshot
      BY <1>4 DEF ZSetsReopen
    <2>3. QED BY <1>1, <2>1, <2>2, KeptIsEnough
  <1>5. CASE ZMaintenance /\ UNCHANGED snapshot
    <2>1. Kept /\ Upkeep /\ Wears
      BY <1>1, <1>5, ZMaintenanceInv
    <2>2. snapshot # NoSnapshot => SnapshotHolds'
      BY <1>5, <2>1, SnapshotStaysCurrent
    <2>3. ZSetsInv'
      BY <1>5, <2>1, <2>2 DEF Kept, ZSetsInv, ZSetsTypeOK, StoreInv, S!StoreInv
    <2>4. QED BY <1>1, <2>3
  <1>6. ASSUME NEW dst \in Keys \cup {NoKey}, TakeSnapshot(dst)
        PROVE  ZSetsInv'
    <2>1. /\ meta' = meta /\ data' = data /\ now' = now /\ filter' = filter
          /\ score' = score /\ scores' = scores /\ scoreFilter' = scoreFilter
          /\ snapshot' = [dst |-> dst, meta |-> meta, data |-> data, score |-> score,
                          scores |-> scores]
      BY <1>6 DEF TakeSnapshot, storeVars, scoreVars
    <2>2. Kept
      BY <1>1, <2>1, IdleInv
    <2>3. SnapshotHolds'
      BY <2>1 DEF SnapshotHolds
    <2>4. /\ snapshot'.dst = dst /\ snapshot'.meta = meta' /\ snapshot'.data = data'
          /\ snapshot'.scores = scores'
      BY <2>1
    <2>5. ZSetsTypeOK'
      BY <2>2, <2>4 DEF Kept, ZSetsTypeOK, StoreInv, StoreTypeOK, S!StoreInv, S!StoreTypeOK
    <2>6. QED BY <2>2, <2>3, <2>5 DEF Kept, ZSetsInv
  <1>7. ASSUME NEW K \in SUBSET Keys, DeleteBatch(K)
        PROVE  ZSetsInv'
    BY <1>1, <1>7, DeleteBatchInv
  <1>8. QED BY <1>1, <1>2, <1>3, <1>4, <1>5, <1>6, <1>7 DEF Others

\* The empty database.
LEMMA ZSetsInitInv == ZSetsInit => ZSetsInv /\ raced = {} /\ scoreRaced = {}
  <1> SUFFICES ASSUME ZSetsInit
               PROVE  ZSetsInv /\ raced = {} /\ scoreRaced = {}
    OBVIOUS
  <1>1. StoreInv
    BY StoreInitInv DEF ZSetsInit
  <1>2. S!StoreInv
    <2>1. OfScores!StoreInit
      BY DEF ZSetsInit, S!StoreInit, OfScores!StoreInit, S!NoCompaction,
             OfScores!NoCompaction
    <2>2. QED BY <2>1, OfScores!StoreInitInv, ScoresAssumption, SameStore
  <1>3. /\ \A k \in Keys : meta[k] = NoMeta
        /\ data = {} /\ scores = {} /\ raced = {} /\ scoreRaced = {}
        /\ score = [r \in {} |-> 0] /\ snapshot = NoSnapshot
    BY DEF ZSetsInit, StoreInit, S!StoreInit
  <1>4. ScoresAgree
    BY <1>3 DEF ScoresAgree, Fresh
  <1>5. IsFiniteSet({}) /\ score \in [data -> Scores]
    BY <1>3, FS_EmptySet
  <1>6. ZSetsTypeOK
    BY <1>1, <1>2, <1>3, <1>5 DEF ZSetsTypeOK, StoreInv, S!StoreInv
  <1>7. QED BY <1>1, <1>2, <1>3, <1>4, <1>6 DEF ZSetsInv

\* A step that changes nothing.
LEMMA ZSetsStutter ==
  ASSUME ZSetsInv, raced = {}, scoreRaced = {}, UNCHANGED zsetsVars
  PROVE  ZSetsInv' /\ raced' = {} /\ scoreRaced' = {}
  <1>1. /\ meta' = meta /\ data' = data /\ now' = now /\ filter' = filter
        /\ score' = score /\ scores' = scores /\ scoreFilter' = scoreFilter
        /\ raced' = {} /\ scoreRaced' = {} /\ snapshot' = snapshot
    BY DEF zsetsVars, scoreVars
  <1>2. Kept
    BY <1>1, IdleInv
  <1>3. SnapshotHolds => SnapshotHolds'
    BY <1>1 DEF SnapshotHolds, SnapshotLive, Live
  <1>4. QED BY <1>1, <1>2, <1>3 DEF Kept, ZSetsInv, ZSetsTypeOK, StoreInv, S!StoreInv

\* The column families of sorted sets stay at one with each other: the members
\* and the scores of a set that has not expired say the same, each store's
\* records and counts stay right under compactions that run beside each other,
\* and what ZUnionstore, ZInterstore, ZRemrangebylex and PKPatternMatchDel read
\* from their snapshot is what they find when they write.
THEOREM ZSetsInvHolds == UnracedSpec => [](ZSetsInv /\ raced = {} /\ scoreRaced = {})
  <1> DEFINE I == ZSetsInv /\ raced = {} /\ scoreRaced = {}
  <1>1. ZSetsInit => I
    BY ZSetsInitInv
  <1>2. I /\ [((snapshot = NoSnapshot /\ Handlers) \/ Others) /\ Unraced]_zsetsVars => I'
    BY ZSetsStep, ZSetsStutter
  <1>3. QED BY <1>1, <1>2, PTL DEF UnracedSpec
----------------------------------------------------------------------------
(* What a walk finds.                                                       *)

\* The elements of A that come before r in the order lt, a set of pairs.
Met(A, lt, r) == {q \in A : <<q, r>> \in lt}

\* The first n elements of from in that order.
First(from, lt, n) == {r \in from : Cardinality(Met(from, lt, r)) < n}

\* T is the beginning of from in the order lt.
Heads(T, from, lt) ==
  /\ \A q, r, s \in from : <<q, r>> \in lt /\ <<r, s>> \in lt => <<q, s>> \in lt
  /\ \A r \in from : <<r, r>> \notin lt
  /\ \A r \in T, q \in from \ T : <<r, q>> \in lt /\ <<q, r>> \notin lt

\* The first n elements of from, where T is the beginning of from: as many of T
\* as there are, in the order T has of itself, and then others.
LEMMA FirstOnes ==
  ASSUME NEW from, IsFiniteSet(from), NEW T \in SUBSET from, NEW lt,
         Heads(T, from, lt), NEW n \in Int, NEW walk, walk = First(from, lt, n)
  PROVE  /\ \A r \in T : Cardinality(Met(T, lt, r)) \in 0 .. Cardinality(T) - 1
         /\ \A r \in T : r \in walk <=> Cardinality(Met(T, lt, r)) < n
         /\ \A r \in T : r \in walk => Met(walk, lt, r) = Met(T, lt, r)
         /\ n <= Cardinality(T) => walk \subseteq T
         /\ n >= Cardinality(T) =>
              T \subseteq walk /\ \A r \in walk \ T : T \subseteq Met(walk, lt, r)
  <1> USE DEF Heads, First
  <1>1. IsFiniteSet(T) /\ Cardinality(T) \in Nat
    BY FS_Subset, FS_CardinalityType
  <1>2. ASSUME NEW A \in SUBSET from, NEW r
        PROVE  IsFiniteSet(Met(A, lt, r)) /\ Cardinality(Met(A, lt, r)) \in Nat
    <2>1. Met(A, lt, r) \in SUBSET from
      BY DEF Met
    <2>2. QED BY <2>1, FS_Subset, FS_CardinalityType
  <1>3. \A r \in T : Met(from, lt, r) = Met(T, lt, r)
    BY DEF Met
  <1>4. ASSUME NEW r \in T
        PROVE  Cardinality(Met(T, lt, r)) < Cardinality(T)
    <2>1. Met(T, lt, r) \in SUBSET T /\ r \notin Met(T, lt, r)
      BY DEF Met
    <2>2. /\ Cardinality(Met(T, lt, r)) <= Cardinality(T)
          /\ Cardinality(T) = Cardinality(Met(T, lt, r)) => T = Met(T, lt, r)
      BY <1>1, <2>1, FS_Subset
    <2>3. QED BY <1>1, <1>2, <2>1, <2>2
  <1>5. \A r \in T : r \in walk <=> Cardinality(Met(T, lt, r)) < n
    BY <1>3
  <1>6. ASSUME NEW r \in T, r \in walk
        PROVE  Met(walk, lt, r) = Met(T, lt, r)
    <2>1. ASSUME NEW q \in Met(T, lt, r)
          PROVE  q \in walk
      <3>1. q \in T /\ Met(T, lt, q) \in SUBSET Met(T, lt, r)
        BY <2>1 DEF Met
      <3>2. Cardinality(Met(T, lt, q)) <= Cardinality(Met(T, lt, r))
        BY <1>2, <3>1, FS_Subset
      <3>3. Cardinality(Met(T, lt, r)) < n
        BY <1>5, <1>6
      <3>4. Cardinality(Met(T, lt, q)) < n
        BY <1>2, <3>2, <3>3
      <3>5. QED BY <1>5, <3>1, <3>4
    <2>2. Met(walk, lt, r) \subseteq Met(from, lt, r)
      BY DEF Met
    <2>3. QED BY <1>3, <2>1, <2>2 DEF Met
  <1>7. ASSUME NEW r \in from \ T
        PROVE  T \subseteq Met(from, lt, r) /\ Cardinality(T) <= Cardinality(Met(from, lt, r))
    <2>1. T \in SUBSET Met(from, lt, r)
      BY DEF Met
    <2>2. QED BY <1>2, <2>1, FS_Subset
  <1>8. n <= Cardinality(T) => walk \subseteq T
    BY <1>1, <1>2, <1>7
  <1>9. ASSUME n >= Cardinality(T)
        PROVE  T \subseteq walk /\ \A r \in walk \ T : T \subseteq Met(walk, lt, r)
    <2>1. T \subseteq walk
      BY <1>1, <1>2, <1>4, <1>5, <1>9
    <2>2. QED BY <2>1 DEF Met
  <1>10. \A r \in T : Cardinality(Met(T, lt, r)) \in 0 .. Cardinality(T) - 1
    BY <1>1, <1>2, <1>4
  <1>11. QED BY <1>5, <1>6, <1>8, <1>9, <1>10

\* Score records are in one order.
LEMMA ScoreOrder ==
  ASSUME NEW q \in S!DataKey, NEW r \in S!DataKey
  PROVE  /\ ~ScoreBefore(r, r)
         /\ ScoreBefore(q, r) \/ q = r \/ ScoreBefore(r, q)
         /\ ~(ScoreBefore(q, r) /\ ScoreBefore(r, q))
         /\ \A s \in S!DataKey : ScoreBefore(q, r) /\ ScoreBefore(r, s) => ScoreBefore(q, s)
  <1>1. /\ q = <<q[1], q[2], <<q[3][1], q[3][2]>>>>
        /\ r = <<r[1], r[2], <<r[3][1], r[3][2]>>>>
    BY DEF S!DataKey, ScoredMembers
  <1>2. \A s \in S!DataKey : s[1] \in Nat /\ s[2] \in Nat /\ s[3][1] \in Int /\ s[3][2] \in Nat
    BY ScoreRecordParts
  <1>3. ~ScoreBefore(r, r) /\ ~(ScoreBefore(q, r) /\ ScoreBefore(r, q))
    BY <1>2 DEF ScoreBefore
  <1>4. ScoreBefore(q, r) \/ q = r \/ ScoreBefore(r, q)
    <2>1. SUFFICES ASSUME ~ScoreBefore(q, r), ~ScoreBefore(r, q)
                   PROVE  q = r
      OBVIOUS
    <2>2. q[1] = r[1] /\ q[2] = r[2] /\ q[3][1] = r[3][1] /\ q[3][2] = r[3][2]
      BY <1>2, <2>1 DEF ScoreBefore
    <2>3. QED BY <1>1, <2>2
  <1>5. ASSUME NEW s \in S!DataKey, ScoreBefore(q, r), ScoreBefore(r, s)
        PROVE  ScoreBefore(q, s)
    BY <1>2, <1>5 DEF ScoreBefore
  <1>6. QED BY <1>3, <1>4, <1>5

\* The first records from the start of a set on: those of the set that come first
\* in it, and if no more are asked for than it has, no others.
LEMMA ForwardFinds ==
  ASSUME NEW R \in SUBSET S!DataKey, IsFiniteSet(R), NEW k \in Keys, NEW m,
         m.version \in Nat, NEW n \in Int
  PROVE  LET T == OfSet(R, k, m.version)
             W == Forward(R, k, m, n)
         IN  /\ \A r \in T : Ahead(T, r) \in 0 .. Cardinality(T) - 1
             /\ \A r \in T : r \in W <=> Ahead(T, r) < n
             /\ \A r \in T : r \in W => Ahead(W, r) = Ahead(T, r)
             /\ n <= Cardinality(T) => W \subseteq T
  <1> DEFINE v     == m.version
             start == <<k, v, <<LowestScore, NoMember>>>>
             from  == {r \in R : ~ScoreBefore(r, start)}
             T     == OfSet(R, k, v)
             W     == Forward(R, k, m, n)
             lt    == {p \in R \X R : ScoreBefore(p[1], p[2])}
  <1>1. k \in Nat /\ v \in Nat /\ LowestScore \in Int /\ NoMember \in Int
    BY ZSetsAssumption
  <1>2. T \in SUBSET from
    <2> SUFFICES ASSUME NEW r \in T
                 PROVE  r \in R /\ ~ScoreBefore(r, start)
      OBVIOUS
    <2>1. r \in R /\ r[1] = k /\ r[2] = v
      BY DEF OfSet
    <2>2. QED BY <1>1, <2>1, ScoreRecordParts DEF ScoreBefore
  <1>3. from \subseteq R /\ IsFiniteSet(from)
    <2>1. from \in SUBSET R
      OBVIOUS
    <2>2. QED BY <2>1, FS_Subset
  <1>4. ASSUME NEW r \in T, NEW q \in from \ T
        PROVE  ScoreBefore(r, q) /\ ~ScoreBefore(q, r)
    <2>1. q \in R /\ ~ScoreBefore(q, start) /\ ~(q[1] = k /\ q[2] = v)
      BY DEF OfSet
    <2>2. r \in R /\ r[1] = k /\ r[2] = v
      BY DEF OfSet
    <2>3. q[1] > k \/ (q[1] = k /\ q[2] > v)
      BY <1>1, <2>1, ScoreRecordParts DEF ScoreBefore
    <2>4. QED BY <1>1, <2>1, <2>2, <2>3, ScoreRecordParts DEF ScoreBefore
  <1>5. \A q, r \in R : <<q, r>> \in lt <=> ScoreBefore(q, r)
    OBVIOUS
  <1>6. \A A \in SUBSET R : \A r \in R : Ahead(A, r) = Cardinality(Met(A, lt, r))
    <2> SUFFICES ASSUME NEW A \in SUBSET R, NEW r \in R
                 PROVE  {q \in A : ScoreBefore(q, r)} = Met(A, lt, r)
      BY DEF Ahead
    <2> QED BY <1>5 DEF Met
  <1>7. W = First(from, lt, n)
    <2>1. W = {r \in from : Ahead(from, r) < n}
      BY DEF Forward
    <2> HIDE DEF from, W, lt
    <2>2. QED BY <1>3, <1>6, <2>1 DEF First
  <1> HIDE DEF W, lt, from, T
  <1>8. /\ \A q, r, s \in from : <<q, r>> \in lt /\ <<r, s>> \in lt => <<q, s>> \in lt
        /\ \A r \in from : <<r, r>> \notin lt
    BY <1>3, <1>5, ScoreOrder
  <1>9. \A r \in T, q \in from \ T : <<r, q>> \in lt /\ <<q, r>> \notin lt
    BY <1>2, <1>3, <1>4, <1>5
  <1>10. Heads(T, from, lt)
    BY <1>8, <1>9 DEF Heads
  <1>11. /\ \A r \in T : Cardinality(Met(T, lt, r)) \in 0 .. Cardinality(T) - 1
         /\ \A r \in T : r \in W <=> Cardinality(Met(T, lt, r)) < n
         /\ \A r \in T : r \in W => Met(W, lt, r) = Met(T, lt, r)
         /\ n <= Cardinality(T) => W \subseteq T
    BY <1>2, <1>3, <1>7, <1>10, FirstOnes
  <1>12. T \in SUBSET R /\ W \in SUBSET R
    BY <1>2, <1>3, <1>7 DEF First
  <1>13. QED BY <1>6, <1>11, <1>12 DEF W, T

\* And so back from its end; if more are asked for, the set's come first.
LEMMA BackwardFinds ==
  ASSUME NEW R \in SUBSET S!DataKey, IsFiniteSet(R), NEW k \in Keys, NEW m,
         m.version \in Nat, NEW n \in Int
  PROVE  LET T == OfSet(R, k, m.version)
             W == Backward(R, k, m, n)
         IN  /\ \A r \in T : Behind(T, r) \in 0 .. Cardinality(T) - 1
             /\ \A r \in T : r \in W <=> Behind(T, r) < n
             /\ \A r \in T : r \in W => Behind(W, r) = Behind(T, r)
             /\ n <= Cardinality(T) => W \subseteq T
             /\ n >= Cardinality(T) =>
                  \A r \in W \ T : Behind(W, r) \in Nat /\ Behind(W, r) >= Cardinality(T)
  <1> DEFINE v     == m.version
             start == <<k, v, <<TopScore, NoMember>>>>
             from  == {r \in R : ~ScoreBefore(start, r)}
             T     == OfSet(R, k, v)
             W     == Backward(R, k, m, n)
             lt    == {p \in R \X R : ScoreBefore(p[2], p[1])}
  <1>1. k \in Nat /\ v \in Nat /\ TopScore \in Int /\ NoMember \in Int
    BY ZSetsAssumption
  <1>2. T \in SUBSET from
    <2> SUFFICES ASSUME NEW r \in T
                 PROVE  r \in R /\ ~ScoreBefore(start, r)
      OBVIOUS
    <2>1. r \in R /\ r[1] = k /\ r[2] = v
      BY DEF OfSet
    <2>2. QED BY <1>1, <2>1, ScoreRecordParts DEF ScoreBefore
  <1>3. from \subseteq R /\ IsFiniteSet(from)
    <2>1. from \in SUBSET R
      OBVIOUS
    <2>2. QED BY <2>1, FS_Subset
  <1>4. ASSUME NEW r \in T, NEW q \in from \ T
        PROVE  ScoreBefore(q, r) /\ ~ScoreBefore(r, q)
    <2>1. q \in R /\ ~ScoreBefore(start, q) /\ ~(q[1] = k /\ q[2] = v)
      BY DEF OfSet
    <2>2. r \in R /\ r[1] = k /\ r[2] = v
      BY DEF OfSet
    <2>3. q[1] < k \/ (q[1] = k /\ q[2] < v)
      BY <1>1, <2>1, ScoreRecordParts DEF ScoreBefore
    <2>4. QED BY <1>1, <2>1, <2>2, <2>3, ScoreRecordParts DEF ScoreBefore
  <1>5. \A q, r \in R : <<q, r>> \in lt <=> ScoreBefore(r, q)
    OBVIOUS
  <1>6. \A A \in SUBSET R : \A r \in R : Behind(A, r) = Cardinality(Met(A, lt, r))
    <2> SUFFICES ASSUME NEW A \in SUBSET R, NEW r \in R
                 PROVE  {q \in A : ScoreBefore(r, q)} = Met(A, lt, r)
      BY DEF Behind
    <2> QED BY <1>5 DEF Met
  <1>7. W = First(from, lt, n)
    <2>1. W = {r \in from : Behind(from, r) < n}
      BY DEF Backward
    <2> HIDE DEF from, W, lt
    <2>2. QED BY <1>3, <1>6, <2>1 DEF First
  <1> HIDE DEF W, lt, from, T
  <1>8. /\ \A q, r, s \in from : <<q, r>> \in lt /\ <<r, s>> \in lt => <<q, s>> \in lt
        /\ \A r \in from : <<r, r>> \notin lt
    BY <1>3, <1>5, ScoreOrder
  <1>9. \A r \in T, q \in from \ T : <<r, q>> \in lt /\ <<q, r>> \notin lt
    BY <1>2, <1>3, <1>4, <1>5
  <1>10. Heads(T, from, lt)
    BY <1>8, <1>9 DEF Heads
  <1>11. /\ \A r \in T : Cardinality(Met(T, lt, r)) \in 0 .. Cardinality(T) - 1
         /\ \A r \in T : r \in W <=> Cardinality(Met(T, lt, r)) < n
         /\ \A r \in T : r \in W => Met(W, lt, r) = Met(T, lt, r)
         /\ n <= Cardinality(T) => W \subseteq T
         /\ n >= Cardinality(T) => \A r \in W \ T : T \subseteq Met(W, lt, r)
    BY <1>2, <1>3, <1>7, <1>10, FirstOnes
  <1>12. T \in SUBSET R /\ W \in SUBSET R /\ IsFiniteSet(W)
    <2>1. W \in SUBSET from
      BY <1>7 DEF First
    <2>2. QED BY <1>2, <1>3, <2>1, FS_Subset
  <1>13. ASSUME n >= Cardinality(T), NEW r \in W \ T
         PROVE  Behind(W, r) \in Nat /\ Behind(W, r) >= Cardinality(T)
    <2>1. T \in SUBSET Met(W, lt, r) /\ Met(W, lt, r) \in SUBSET W
      BY <1>11, <1>13 DEF Met
    <2>2. IsFiniteSet(Met(W, lt, r)) /\ Cardinality(Met(W, lt, r)) \in Nat
      BY <1>12, <2>1, FS_Subset, FS_CardinalityType
    <2>3. Cardinality(T) <= Cardinality(Met(W, lt, r))
      BY <2>1, <2>2, FS_Subset
    <2>4. IsFiniteSet(T) /\ Cardinality(T) \in Nat
      BY <1>2, <1>3, FS_Subset, FS_CardinalityType
    <2>5. Behind(W, r) = Cardinality(Met(W, lt, r))
      BY <1>6, <1>12, <1>13
    <2>6. QED BY <2>2, <2>3, <2>4, <2>5
  <1>14. QED BY <1>6, <1>11, <1>12, <1>13 DEF W, T

\* In the order of members a walk of as many records as a set has finds the set.
LEMMA ForwardByMemberFinds ==
  ASSUME NEW R \in SUBSET DataKey, IsFiniteSet(R), NEW k \in Keys, NEW m,
         m.version \in Nat
  PROVE  LET T == OfSet(R, k, m.version)
         IN  ForwardByMember(R, k, m, Cardinality(T)) = T
  <1> DEFINE v     == m.version
             start == <<k, v, NoMember>>
             from  == {r \in R : ~MemberBefore(r, start)}
             T     == OfSet(R, k, v)
             W     == ForwardByMember(R, k, m, Cardinality(T))
             lt    == {p \in R \X R : MemberBefore(p[1], p[2])}
  <1>1. k \in Nat /\ v \in Nat /\ NoMember \in Int
    BY ZSetsAssumption
  <1>2. \A r \in R : r[1] \in Nat /\ r[2] \in Nat /\ r[3] \in Nat /\ NoMember < r[3]
    BY ZSetsAssumption DEF DataKey
  <1>3. T \in SUBSET from
    <2> SUFFICES ASSUME NEW r \in T
                 PROVE  r \in R /\ ~MemberBefore(r, start)
      OBVIOUS
    <2>1. r \in R /\ r[1] = k /\ r[2] = v
      BY DEF OfSet
    <2>2. QED BY <1>1, <1>2, <2>1 DEF MemberBefore
  <1>4. from \subseteq R /\ IsFiniteSet(from)
    <2>1. from \in SUBSET R
      OBVIOUS
    <2>2. QED BY <2>1, FS_Subset
  <1>5. ASSUME NEW r \in T, NEW q \in from \ T
        PROVE  MemberBefore(r, q) /\ ~MemberBefore(q, r)
    <2>1. q \in R /\ ~MemberBefore(q, start) /\ ~(q[1] = k /\ q[2] = v)
      BY DEF OfSet
    <2>2. r \in R /\ r[1] = k /\ r[2] = v
      BY DEF OfSet
    <2>3. q[1] > k \/ (q[1] = k /\ q[2] > v)
      BY <1>1, <1>2, <2>1 DEF MemberBefore
    <2>4. QED BY <1>1, <1>2, <2>1, <2>2, <2>3 DEF MemberBefore
  <1>6. \A q, r \in R : <<q, r>> \in lt <=> MemberBefore(q, r)
    OBVIOUS
  <1>7. W = First(from, lt, Cardinality(T))
    <2>1. W = {r \in from : Cardinality({q \in from : MemberBefore(q, r)}) < Cardinality(T)}
      BY DEF ForwardByMember
    <2>2. \A r \in from : {q \in from : MemberBefore(q, r)} = Met(from, lt, r)
      BY <1>6 DEF Met
    <2> HIDE DEF from, W, lt, T
    <2>3. QED BY <2>1, <2>2 DEF First
  <1>8. \A q, r, s \in R : MemberBefore(q, r) /\ MemberBefore(r, s) => MemberBefore(q, s)
    BY <1>2 DEF MemberBefore
  <1>9. \A r \in R : ~MemberBefore(r, r)
    BY <1>2 DEF MemberBefore
  <1> HIDE DEF W, lt, from, T
  <1>10. /\ \A q, r, s \in from : <<q, r>> \in lt /\ <<r, s>> \in lt => <<q, s>> \in lt
         /\ \A r \in from : <<r, r>> \notin lt
    BY <1>4, <1>6, <1>8, <1>9
  <1>11. \A r \in T, q \in from \ T : <<r, q>> \in lt /\ <<q, r>> \notin lt
    BY <1>3, <1>4, <1>5, <1>6
  <1>12. Cardinality(T) \in Nat /\ Heads(T, from, lt)
    BY <1>3, <1>4, <1>10, <1>11, FS_Subset, FS_CardinalityType DEF Heads
  <1>13. PICK n \in Int : n = Cardinality(T) /\ n <= n
    BY <1>12
  <1>14. W = First(from, lt, n)
    BY <1>7, <1>13
  <1>15. /\ n <= Cardinality(T) => W \subseteq T
         /\ n >= Cardinality(T) => T \subseteq W
    BY <1>3, <1>4, <1>12, <1>14, FirstOnes
  <1>16. QED BY <1>13, <1>15 DEF W, T
----------------------------------------------------------------------------
(* What the walks find is a scoring's, by rank.                             *)

\* ExpiringZSets counts as everyone does.
LEMMA PromiseCounts == \A T : ZSets!Cardinality(T) = Cardinality(T)
  BY Zenon DEF ZSets!Cardinality, Cardinality

\* Their values.
LEMMA PairsOfScored ==
  ASSUME NEW k, NEW v, NEW X, NEW c
  PROVE  Pairs(Scored(k, v, X, c)) = {<<c[x], x>> : x \in X}
  <1>1. \A r \in Scored(k, v, X, c) : \E x \in X : r[3] = <<c[x], x>>
    BY DEF Scored
  <1>2. ASSUME NEW x \in X
        PROVE  \E r \in Scored(k, v, X, c) : r[3] = <<c[x], x>>
    <2>1. <<k, v, <<c[x], x>>>> \in Scored(k, v, X, c)
      BY DEF Scored
    <2>2. QED BY <2>1
  <1>3. QED BY <1>1, <1>2 DEF Pairs

\* They are as many as its members.
LEMMA ScoredRecordsCount ==
  ASSUME NEW k, NEW v, NEW X \in SUBSET Members, NEW c
  PROVE  /\ IsFiniteSet(X) /\ Cardinality(X) \in Nat
         /\ Cardinality(Scored(k, v, X, c)) = Cardinality(X)
  <1>1. IsFiniteSet(X) /\ Cardinality(X) \in Nat
    BY FS_Subset, FS_CardinalityType, StoreAssumption
  <1> DEFINE R == Scored(k, v, X, c)
  <1>2. PICK g : g = [x \in X |-> <<k, v, <<c[x], x>>>>]
    OBVIOUS
  <1>3. /\ g \in [X -> R]
        /\ \A x \in X : g[x] = <<k, v, <<c[x], x>>>>
        /\ \A r \in R : \E x \in X : g[x] = r
    BY <1>2 DEF Scored
  <1>4. \A x, y \in X : g[x] = g[y] => x = y
    BY <1>3
  <1> HIDE DEF R
  <1>5. Cardinality(R) = Cardinality(X)
    BY <1>1, <1>3, <1>4, SameSize
  <1>6. QED BY <1>1, <1>5 DEF R

\* Scores are numbers.
LEMMA ScoresAreIntegers == Scores \subseteq Int
  <1>1. LowestScore \in Int /\ TopScore \in Int /\ Scores \subseteq LowestScore .. TopScore - 1
    BY ZSetsAssumption
  <1>2. QED BY <1>1

\* Before a member's record lie those of the members below it.
LEMMA RankCounts ==
  ASSUME NEW k \in Keys, NEW v \in Nat, NEW X \in SUBSET Members, NEW c \in [X -> Scores],
         NEW x \in X
  PROVE  /\ Ahead(Scored(k, v, X, c), <<k, v, <<c[x], x>>>>) = ZSets!Rank(c, x)
         /\ Behind(Scored(k, v, X, c), <<k, v, <<c[x], x>>>>) = ZSets!Revrank(c, x)
  <1> DEFINE rec(y) == <<k, v, <<c[y], y>>>>
             R      == Scored(k, v, X, c)
  <1>1. k \in Nat /\ \A y \in X : y \in Nat /\ c[y] \in Int
    <2>1. Scores \subseteq Int
      BY ScoresAreIntegers
    <2>2. QED BY <2>1, ZSetsAssumption
  <1>2. \A y, z \in X : ScoreBefore(rec(y), rec(z)) <=> ZSets!Below(c, y, z)
    BY <1>1 DEF ScoreBefore, ZSets!Below
  <1>3. /\ \A r \in R : \E y \in X : r = rec(y)
        /\ \A y \in X : rec(y) \in R
        /\ \A y, z \in X : rec(y) = rec(z) => y = z
    BY DEF Scored
  <1>4. ASSUME NEW A \in SUBSET X, NEW B, \A r : r \in B <=> \E y \in A : r = rec(y)
        PROVE  Cardinality(B) = Cardinality(A)
    <2>1. IsFiniteSet(A)
      BY ScoredRecordsCount
    <2>2. PICK g : g = [y \in A |-> rec(y)]
      OBVIOUS
    <2>3. g \in [A -> B] /\ \A y \in A : g[y] = rec(y)
      BY <1>4, <2>2
    <2> HIDE DEF rec
    <2>4. \A y, z \in A : g[y] = g[z] => y = z
      BY <1>3, <2>3
    <2>5. \A r \in B : \E y \in A : g[y] = r
      BY <1>4, <2>3
    <2>6. QED BY <2>1, <2>3, <2>4, <2>5, SameSize
  <1> HIDE DEF rec, R
  <1>5. Cardinality({r \in R : ScoreBefore(r, rec(x))}) =
          Cardinality({y \in X : ZSets!Below(c, y, x)})
    <2>1. \A r : r \in {q \in R : ScoreBefore(q, rec(x))}
                  <=> \E y \in {y \in X : ZSets!Below(c, y, x)} : r = rec(y)
      BY <1>2, <1>3
    <2>2. QED BY <1>4, <2>1
  <1>6. Cardinality({r \in R : ScoreBefore(rec(x), r)}) =
          Cardinality({y \in X : ZSets!Below(c, x, y)})
    <2>1. \A r : r \in {q \in R : ScoreBefore(rec(x), q)}
                  <=> \E y \in {y \in X : ZSets!Below(c, x, y)} : r = rec(y)
      BY <1>2, <1>3
    <2>2. QED BY <1>4, <2>1
  <1>7. /\ ZSets!Rank(c, x) = Cardinality({y \in X : ZSets!Below(c, y, x)})
        /\ ZSets!Revrank(c, x) = Cardinality({y \in X : ZSets!Below(c, x, y)})
    BY PromiseCounts DEF ZSets!Rank, ZSets!Revrank
  <1>8. QED BY <1>5, <1>6, <1>7 DEF Ahead, Behind, R, rec

\* A sorted set that is alive has the score records of what a reader finds in it.
LEMMA LiveIsScored ==
  ASSUME ZSetsInv, raced = {}, scoreRaced = {}, NEW k \in Keys, Live(k)
  PROVE  LET v == meta[k].version
             c == Contents(k)
         IN  /\ v \in Nat /\ meta[k].count \in Nat
             /\ DOMAIN c = Stored(k, v) /\ DOMAIN c \in SUBSET Members
             /\ c \in [DOMAIN c -> Scores]
             /\ \A x \in DOMAIN c : c[x] = score[<<k, v, x>>]
             /\ meta[k].count = Cardinality(DOMAIN c)
             /\ OfSet(scores, k, v) = Scored(k, v, DOMAIN c, c)
             /\ Cardinality(OfSet(scores, k, v)) = meta[k].count
  <1>1. PICK v \in Nat : v = meta[k].version
    BY LiveCount
  <1>2. PICK c : c = Contents(k)
    OBVIOUS
  <1>3. /\ meta[k].count \in Nat /\ meta[k].count = Cardinality(Stored(k, v))
        /\ Stored(k, v) \in SUBSET Members
    BY <1>1, LiveCount
  <1>4. c = [x \in Stored(k, v) |-> score[<<k, v, x>>]]
    BY <1>1, <1>2 DEF Contents, Visible
  <1>5. \A x \in Stored(k, v) : score[<<k, v, x>>] \in Scores
    BY DEF ZSetsInv, ZSetsTypeOK, Stored
  <1>6. DOMAIN c = Stored(k, v) /\ \A x \in DOMAIN c : c[x] = score[<<k, v, x>>]
    BY <1>4
  <1>7. c \in [DOMAIN c -> Scores]
    BY <1>4, <1>5
  <1>8. /\ Cardinality(OfSet(scores, k, v)) = meta[k].count
        /\ \A r \in OfSet(scores, k, v) :
             r[3][2] \in Stored(k, v) /\ r = ScoreRecord(k, v, r[3][2])
    BY <1>1, LiveRecords
  <1>9. \A r \in OfSet(scores, k, v) : r \in Scored(k, v, DOMAIN c, c)
    <2> SUFFICES ASSUME NEW r \in OfSet(scores, k, v)
                 PROVE  \E x \in DOMAIN c : r = <<k, v, <<c[x], x>>>>
      BY DEF Scored
    <2>1. PICK x \in DOMAIN c : r = ScoreRecord(k, v, x)
      BY <1>6, <1>8
    <2>2. QED BY <1>6, <2>1 DEF ScoreRecord
  <1>10. \A x \in DOMAIN c : <<k, v, <<c[x], x>>>> \in scores
    <2>1. Fresh(k)
      BY LiveCount
    <2>2. S!Stored(k, v) = {<<score[<<k, v, x>>], x>> : x \in Stored(k, v)}
      <3>1. S!Stored(k, meta[k].version) =
              {<<score[<<k, meta[k].version, x>>], x>> : x \in Stored(k, meta[k].version)}
        BY <2>1 DEF ZSetsInv, ScoresAgree
      <3>2. QED BY <1>1, <3>1, Zenon
    <2>3. \A x \in Stored(k, v) : <<score[<<k, v, x>>], x>> \in S!Stored(k, v)
      BY <2>2
    <2>4. QED BY <1>6, <2>3 DEF S!Stored
  <1>11. Scored(k, v, DOMAIN c, c) \subseteq OfSet(scores, k, v)
    BY <1>10 DEF Scored, OfSet
  <1>12. OfSet(scores, k, v) = Scored(k, v, DOMAIN c, c)
    BY <1>9, <1>11
  <1>13. QED BY <1>1, <1>2, <1>3, <1>6, <1>7, <1>8, <1>12

\* What walks of n records over a sorted set that is alive find: the members
\* with the n lowest ranks, or with the n highest.
LEMMA WalksFind ==
  ASSUME ZSetsInv, raced = {}, scoreRaced = {}, NEW k \in Keys, Live(k), NEW n \in Int
  PROVE  LET v == meta[k].version
             c == Contents(k)
             F == Forward(scores, k, meta[k], n)
             B == Backward(scores, k, meta[k], n)
             rec(x) == <<k, v, <<c[x], x>>>>
         IN  /\ \A x \in DOMAIN c : /\ ZSets!Rank(c, x) \in 0 .. meta[k].count - 1
                                    /\ ZSets!Revrank(c, x) \in 0 .. meta[k].count - 1
             /\ n <= meta[k].count =>
                  /\ F = Scored(k, v, {x \in DOMAIN c : ZSets!Rank(c, x) < n}, c)
                  /\ B = Scored(k, v, {x \in DOMAIN c : ZSets!Revrank(c, x) < n}, c)
             /\ \A x \in DOMAIN c : rec(x) \in F => Ahead(F, rec(x)) = ZSets!Rank(c, x)
             /\ \A x \in DOMAIN c :
                  /\ rec(x) \in B <=> ZSets!Revrank(c, x) < n
                  /\ rec(x) \in B => Behind(B, rec(x)) = ZSets!Revrank(c, x)
             /\ n >= meta[k].count =>
                  \A r \in B \ Scored(k, v, DOMAIN c, c) :
                    Behind(B, r) \in Nat /\ Behind(B, r) >= meta[k].count
  <1>1. PICK v \in Nat : v = meta[k].version
    BY LiveIsScored
  <1>2. PICK c : c = Contents(k)
    OBVIOUS
  <1>3. PICK N \in Nat : N = meta[k].count
    BY LiveIsScored
  <1> DEFINE T == OfSet(scores, k, v)
             X == DOMAIN c
             F == Forward(scores, k, meta[k], n)
             B == Backward(scores, k, meta[k], n)
             rec(x) == <<k, v, <<c[x], x>>>>
  <1>4. /\ X \in SUBSET Members /\ c \in [X -> Scores] /\ N = Cardinality(T)
        /\ T = Scored(k, v, X, c)
    BY <1>1, <1>2, <1>3, LiveIsScored
  <1>5. scores \in SUBSET S!DataKey /\ IsFiniteSet(scores)
    BY DEF ZSetsInv, ZSetsTypeOK, S!StoreTypeOK
  <1>6. /\ \A r \in T : Ahead(T, r) \in 0 .. N - 1
        /\ \A r \in T : r \in F <=> Ahead(T, r) < n
        /\ \A r \in T : r \in F => Ahead(F, r) = Ahead(T, r)
        /\ n <= N => F \subseteq T
    BY <1>1, <1>4, <1>5, ForwardFinds
  <1>7. /\ \A r \in T : Behind(T, r) \in 0 .. N - 1
        /\ \A r \in T : r \in B <=> Behind(T, r) < n
        /\ \A r \in T : r \in B => Behind(B, r) = Behind(T, r)
        /\ n <= N => B \subseteq T
        /\ n >= N => \A r \in B \ T : Behind(B, r) \in Nat /\ Behind(B, r) >= N
    BY <1>1, <1>4, <1>5, BackwardFinds
  <1>8. \A x \in X : /\ rec(x) \in T
                     /\ Ahead(T, rec(x)) = ZSets!Rank(c, x)
                     /\ Behind(T, rec(x)) = ZSets!Revrank(c, x)
    <2>1. \A x \in X : rec(x) \in T
      BY <1>4 DEF Scored
    <2>2. QED BY <1>1, <1>4, <2>1, RankCounts
  <1>9. \A r \in T : \E x \in X : r = rec(x)
    BY <1>4 DEF Scored
  <1> HIDE DEF T, F, B, rec, X
  <1>10. \A Y \in SUBSET X : \A r : r \in Scored(k, v, Y, c) <=> \E x \in Y : r = rec(x)
    BY DEF Scored, rec
  <1>11. ASSUME n <= N
         PROVE  /\ F = Scored(k, v, {x \in X : ZSets!Rank(c, x) < n}, c)
                /\ B = Scored(k, v, {x \in X : ZSets!Revrank(c, x) < n}, c)
    <2>1. PICK Y, Z : /\ Y = {x \in X : ZSets!Rank(c, x) < n}
                      /\ Z = {x \in X : ZSets!Revrank(c, x) < n}
      OBVIOUS
    <2>2. \A r : r \in F <=> \E x \in Y : r = rec(x)
      BY <1>6, <1>8, <1>9, <1>11, <2>1
    <2>3. \A r : r \in B <=> \E x \in Z : r = rec(x)
      BY <1>7, <1>8, <1>9, <1>11, <2>1
    <2>4. Y \in SUBSET X /\ Z \in SUBSET X
      BY <2>1
    <2>5. F = Scored(k, v, Y, c) /\ B = Scored(k, v, Z, c)
      BY <1>10, <2>2, <2>3, <2>4
    <2>6. QED BY <2>1, <2>5
  <1>12. \A x \in X : /\ ZSets!Rank(c, x) \in 0 .. N - 1
                      /\ ZSets!Revrank(c, x) \in 0 .. N - 1
    BY <1>6, <1>7, <1>8
  <1>13. \A x \in X :
           /\ rec(x) \in F => Ahead(F, rec(x)) = ZSets!Rank(c, x)
           /\ rec(x) \in B <=> ZSets!Revrank(c, x) < n
           /\ rec(x) \in B => Behind(B, rec(x)) = ZSets!Revrank(c, x)
    BY <1>6, <1>7, <1>8
  <1>14. n >= N => \A r \in B \ Scored(k, v, X, c) : Behind(B, r) \in Nat /\ Behind(B, r) >= N
    BY <1>4, <1>7
  <1>15. QED
    BY <1>1, <1>2, <1>3, <1>11, <1>12, <1>13, <1>14 DEF F, B, X, rec

\* A walk of the whole set finds it.
LEMMA WalkFinds ==
  ASSUME ZSetsInv, raced = {}, scoreRaced = {}, NEW k \in Keys, Live(k)
  PROVE  LET v == meta[k].version
             c == Contents(k)
             B == Backward(scores, k, meta[k], meta[k].count)
             rec(x) == <<k, v, <<c[x], x>>>>
         IN  /\ Walk(k) = Scored(k, v, DOMAIN c, c)
             /\ \A x \in DOMAIN c : Ahead(Walk(k), rec(x)) = ZSets!Rank(c, x)
             /\ B = Scored(k, v, DOMAIN c, c)
             /\ ForwardByMember(data, k, meta[k], meta[k].count) =
                  {<<k, v, x>> : x \in DOMAIN c}
  <1>1. PICK v \in Nat : v = meta[k].version
    BY LiveIsScored
  <1>2. PICK c : c = Contents(k)
    OBVIOUS
  <1>3. PICK N \in Nat : N = meta[k].count
    BY LiveIsScored
  <1> DEFINE F == Forward(scores, k, meta[k], N)
             B == Backward(scores, k, meta[k], N)
             rec(x) == <<k, v, <<c[x], x>>>>
  <1>4. PICK X : X = DOMAIN c /\ X = Stored(k, v)
    BY <1>1, <1>2, LiveIsScored
  <1>5. N \in Int /\ N <= N
    OBVIOUS
  <1>6. /\ F = Scored(k, v, {x \in X : ZSets!Rank(c, x) < N}, c)
        /\ B = Scored(k, v, {x \in X : ZSets!Revrank(c, x) < N}, c)
        /\ \A x \in X : /\ ZSets!Rank(c, x) \in 0 .. N - 1
                        /\ ZSets!Revrank(c, x) \in 0 .. N - 1
        /\ \A x \in X : rec(x) \in F => Ahead(F, rec(x)) = ZSets!Rank(c, x)
    BY <1>1, <1>2, <1>3, <1>4, <1>5, WalksFind
  <1> HIDE DEF F, B
  <1>7. /\ {x \in X : ZSets!Rank(c, x) < N} = X
        /\ {x \in X : ZSets!Revrank(c, x) < N} = X
    BY <1>6
  <1>8. F = Scored(k, v, X, c) /\ B = Scored(k, v, X, c)
    BY <1>6, <1>7
  <1>9. \A x \in X : rec(x) \in F
    BY <1>8 DEF Scored
  <1>10. Walk(k) = F
    BY <1>3 DEF Walk, F
  <1>11. ForwardByMember(data, k, meta[k], N) = {<<k, v, x>> : x \in X}
    <2>1. data \in SUBSET DataKey /\ IsFiniteSet(data)
      BY DEF ZSetsInv, ZSetsTypeOK, StoreTypeOK
    <2>2. N = Cardinality(OfSet(data, k, v))
      BY <1>1, <1>3, LiveRecords
    <2>3. ForwardByMember(data, k, meta[k], N) = OfSet(data, k, v)
      BY <1>1, <2>1, <2>2, ForwardByMemberFinds
    <2>4. \A r \in OfSet(data, k, v) : r[3] \in X /\ r = <<k, v, r[3]>>
      BY <1>1, <1>4, LiveRecords
    <2>5. \A x \in X : <<k, v, x>> \in OfSet(data, k, v)
      BY <1>4 DEF Stored, OfSet
    <2>6. QED BY <2>3, <2>4, <2>5
  <1>12. QED BY <1>1, <1>2, <1>3, <1>4, <1>6, <1>8, <1>9, <1>10, <1>11 DEF B, F
----------------------------------------------------------------------------
(* What the reads return.                                                   *)

\* A reader's scoring of a set that is not alive is empty.
LEMMA DeadContents ==
  ASSUME NEW k, ~Live(k)
  PROVE  DOMAIN Contents(k) = {} /\ Visible(k) = {} /\ Walk(k) = {} /\ Length(k) = 0
  BY DEF Contents, Visible, Walk, Length

\* Ranks tell what lies between two indices, in a walk or in a scoring.
LEMMA ByRankIs ==
  ASSUME ZSetsInv, raced = {}, scoreRaced = {}, NEW k \in Keys, Live(k),
         NEW start \in Int, NEW stop \in Int
  PROVE  LET c == Contents(k)
         IN  Between(Walk(k), Length(k), start, stop) =
               Scored(k, meta[k].version, ZSets!ByRank(c, start, stop), c)
  <1>1. PICK v \in Nat : v = meta[k].version
    BY LiveIsScored
  <1>2. PICK c : c = Contents(k)
    OBVIOUS
  <1>3. PICK N \in Nat : N = meta[k].count
    BY LiveIsScored
  <1>4. PICK X : X = DOMAIN c /\ N = Cardinality(X)
    BY <1>1, <1>2, <1>3, LiveIsScored
  <1> DEFINE rec(x) == <<k, v, <<c[x], x>>>>
             W      == Walk(k)
             Y      == ZSets!ByRank(c, start, stop)
             low    == Low(Clamped(start, N))
             high   == High(Clamped(stop, N), N)
  <1>5. /\ W = Scored(k, v, X, c)
        /\ \A x \in X : Ahead(W, rec(x)) = ZSets!Rank(c, x)
    BY <1>1, <1>2, <1>4, WalkFinds
  <1>6. \A x \in X : ZSets!Rank(c, x) \in 0 .. N - 1
    BY <1>2, <1>3, <1>4, WalksFind
  <1>7. ASSUME NEW i \in 0 .. N - 1
        PROVE  /\ low <= i <=> ZSets!Place(c, start) <= i
               /\ i <= high <=> i <= ZSets!Place(c, stop)
    <2>1. ZSets!Cardinality(DOMAIN c) = N
      BY <1>4, PromiseCounts
    <2>2. \A j \in Int : ZSets!Place(c, j) = IF j >= 0 THEN j ELSE N + j
      BY <2>1 DEF ZSets!Place
    <2>3. QED BY <2>2 DEF Low, High, Clamped
  <1>8. \A x \in X : (low <= ZSets!Rank(c, x) /\ ZSets!Rank(c, x) <= high) <=> x \in Y
    <2> HIDE DEF low, high
    <2>1. \A x : x \in Y <=> /\ x \in X
                             /\ ZSets!Place(c, start) <= ZSets!Rank(c, x)
                             /\ ZSets!Rank(c, x) <= ZSets!Place(c, stop)
      BY <1>4 DEF ZSets!ByRank
    <2>2. QED BY <1>6, <1>7, <2>1
  <1>9. Y \subseteq X
    BY <1>4 DEF ZSets!ByRank
  <1>10. Length(k) = N
    BY <1>3 DEF Length
  <1> HIDE DEF W, Y, low, high, rec
  <1>11. Between(W, N, start, stop) =
           {r \in W : low <= Ahead(W, r) /\ Ahead(W, r) <= high}
    BY Zenon DEF Between, low, high
  <1>12. \A Z : \A r : r \in Scored(k, v, Z, c) <=> \E x \in Z : r = rec(x)
    BY DEF Scored, rec
  <1>13. \A r : r \in Between(W, N, start, stop) <=> \E x \in Y : r = rec(x)
    BY <1>5, <1>8, <1>9, <1>11, <1>12
  <1>14. Between(W, N, start, stop) = Scored(k, v, Y, c)
    BY <1>12, <1>13
  <1>15. QED BY <1>1, <1>2, <1>10, <1>14 DEF W, Y

\* An interval of scores is what a walk from either end passes before it leaves it.
LEMMA ByScoreIs ==
  ASSUME ZSetsInv, raced = {}, scoreRaced = {}, NEW k \in Keys, Live(k),
         NEW interval, interval.min \in Int, interval.max \in Int
  PROVE  LET c    == Contents(k)
             Y    == Scored(k, meta[k].version, ZSets!ByScore(c, interval), c)
             walk == Backward(scores, k, meta[k], meta[k].count)
         IN  /\ Within(Walk(k), interval) = Y
             /\ {r \in walk :
                  /\ BelowMax(interval, r[3][1])
                  /\ \A q \in walk : ~ScoreBefore(q, r) => AboveMin(interval, q[3][1])} = Y
  <1>1. PICK v \in Nat : v = meta[k].version
    BY LiveIsScored
  <1>2. PICK c : c = Contents(k)
    OBVIOUS
  <1>3. PICK X : X = DOMAIN c /\ X \in SUBSET Members /\ c \in [X -> Scores]
    BY <1>2, LiveIsScored
  <1> DEFINE rec(x) == <<k, v, <<c[x], x>>>>
             W      == Scored(k, v, X, c)
             Y      == ZSets!ByScore(c, interval)
  <1>4. /\ Walk(k) = W
        /\ Backward(scores, k, meta[k], meta[k].count) = W
    BY <1>1, <1>2, <1>3, WalkFinds
  <1>5. \A x \in X : c[x] \in Int /\ x \in Nat
    BY <1>3, ScoresAreIntegers, ZSetsAssumption
  <1>6. k \in Nat
    BY ZSetsAssumption
  <1>7. \A Z : \A r : r \in Scored(k, v, Z, c) <=> \E x \in Z : r = rec(x)
    BY DEF Scored
  <1>8. \A r \in W : \E x \in X : r = rec(x) /\ r[3][1] = c[x]
    BY DEF Scored
  <1>9. \A x, y \in X : ScoreBefore(rec(x), rec(y)) => c[x] <= c[y]
    BY <1>5, <1>6 DEF ScoreBefore
  <1>10. \A x, y \in X : ~ScoreBefore(rec(x), rec(y)) => c[y] <= c[x]
    BY <1>5, <1>6 DEF ScoreBefore
  <1>11. \A x \in X : rec(x) \in W /\ rec(x)[3][1] = c[x]
                      /\ ~ScoreBefore(rec(x), rec(x))
    BY <1>5, <1>6 DEF ScoreBefore, Scored
  <1>12. ASSUME NEW s \in Int, NEW t \in Int, s <= t
         PROVE  /\ BelowMax(interval, t) => BelowMax(interval, s)
                /\ AboveMin(interval, s) => AboveMin(interval, t)
    <2>1. s = t \/ s < t
      BY <1>12
    <2>2. CASE s < t
      <3>1. BelowMax(interval, t) => s < interval.max
        BY <2>2 DEF BelowMax
      <3>2. AboveMin(interval, s) => interval.min < t
        BY <2>2 DEF AboveMin
      <3>3. QED BY <3>1, <3>2 DEF BelowMax, AboveMin
    <2>3. QED BY <2>1, <2>2
  <1>13. \A x : x \in Y <=> /\ x \in X
                            /\ AboveMin(interval, c[x]) /\ BelowMax(interval, c[x])
    BY <1>3, Zenon DEF ZSets!ByScore, ZSets!In, AboveMin, BelowMax
  <1> HIDE DEF W, Y, rec
  <1>14. \A x \in X :
           (\A q \in W : ~ScoreBefore(rec(x), q) => BelowMax(interval, q[3][1]))
             <=> BelowMax(interval, c[x])
    BY <1>5, <1>8, <1>10, <1>11, <1>12
  <1>15. \A x \in X :
           (\A q \in W : ~ScoreBefore(q, rec(x)) => AboveMin(interval, q[3][1]))
             <=> AboveMin(interval, c[x])
    BY <1>5, <1>8, <1>10, <1>11, <1>12
  <1>16. Within(W, interval) = Scored(k, v, Y, c)
    <2>1. \A r : r \in Within(W, interval) <=> \E x \in Y : r = rec(x)
      BY <1>8, <1>11, <1>13, <1>14 DEF Within
    <2>2. QED BY <1>7, <2>1 DEF rec
  <1>17. {r \in W : /\ BelowMax(interval, r[3][1])
                    /\ \A q \in W : ~ScoreBefore(q, r) => AboveMin(interval, q[3][1])}
           = Scored(k, v, Y, c)
    <2>1. PICK P : P = {r \in W :
              /\ BelowMax(interval, r[3][1])
              /\ \A q \in W : ~ScoreBefore(q, r) => AboveMin(interval, q[3][1])}
      OBVIOUS
    <2>2. \A r : r \in P <=> \E x \in Y : r = rec(x)
      BY <1>8, <1>11, <1>13, <1>15, <2>1
    <2>3. P = Scored(k, v, Y, c)
      BY <1>7, <2>2 DEF rec
    <2>4. QED BY <2>1, <2>3
  <1>18. QED BY <1>1, <1>2, <1>4, <1>16, <1>17 DEF Y

\* ZRevrange counts indices from the high end.
LEMMA ZRevrangeIs ==
  ASSUME ZSetsInv, raced = {}, scoreRaced = {}, NEW k \in Keys, Live(k),
         NEW start \in Int, NEW stop \in Int
  PROVE  LET c == Contents(k)
         IN  ZRevrange(k, start, stop) = {<<c[x], x>> : x \in ZSets!ByRevrank(c, start, stop)}
  <1>1. PICK v \in Nat : v = meta[k].version
    BY LiveIsScored
  <1>2. PICK c : c = Contents(k)
    OBVIOUS
  <1>3. PICK N \in Nat : N = meta[k].count /\ Length(k) = N
    BY LiveIsScored DEF Length
  <1>4. PICK X : X = DOMAIN c /\ N = Cardinality(X) /\ X \in SUBSET Members
    BY <1>1, <1>2, <1>3, LiveIsScored
  <1> DEFINE low  == Low(IF stop >= 0 THEN N - stop - 1 ELSE -stop - 1)
             high == High(IF start >= 0 THEN N - start - 1 ELSE -start - 1, N)
             walk == Backward(scores, k, meta[k], N - low)
             rec(x) == <<k, v, <<c[x], x>>>>
             Y    == ZSets!ByRevrank(c, start, stop)
             P    == {r \in walk : N - 1 - Behind(walk, r) <= high}
  <1>5. low \in Nat /\ high \in Int
    BY DEF Low, High
  <1>6. PICK n \in Int : n = N - low /\ n <= N
    BY <1>5
  <1>7. ASSUME NEW i \in 0 .. N - 1
        PROVE  /\ i < n <=> i <= ZSets!Place(c, stop)
               /\ N - 1 - i <= high <=> ZSets!Place(c, start) <= i
    <2>1. ZSets!Cardinality(DOMAIN c) = N
      BY <1>4, PromiseCounts
    <2>2. \A j \in Int : ZSets!Place(c, j) = IF j >= 0 THEN j ELSE N + j
      BY <2>1 DEF ZSets!Place
    <2>3. QED BY <1>6, <2>2 DEF Low, High
  <1>8. ZRevrange(k, start, stop) = Pairs(P)
    <2>1. Live(k) /\ Length(k) = N
      BY <1>3
    <2>2. QED BY <2>1 DEF ZRevrange
  <1> HIDE DEF low, high
  <1>9. PICK B : B = Backward(scores, k, meta[k], n) /\ walk = B
    BY <1>6
  <1>10. /\ \A x \in X : ZSets!Revrank(c, x) \in 0 .. N - 1
        /\ B = Scored(k, v, {x \in X : ZSets!Revrank(c, x) < n}, c)
        /\ \A x \in X : rec(x) \in B => Behind(B, rec(x)) = ZSets!Revrank(c, x)
    BY <1>1, <1>2, <1>3, <1>4, <1>6, <1>9, WalksFind
  <1>11. walk = B
    BY <1>9
  <1> HIDE DEF walk
  <1>12. P = {r \in B : N - 1 - Behind(B, r) <= high}
    BY <1>11
  <1>13. \A x : x \in Y <=> /\ x \in X
                            /\ ZSets!Place(c, start) <= ZSets!Revrank(c, x)
                            /\ ZSets!Revrank(c, x) <= ZSets!Place(c, stop)
    BY <1>4 DEF ZSets!ByRevrank
  <1> HIDE DEF Y, rec
  <1>14. \A r : r \in B <=> \E x \in X : ZSets!Revrank(c, x) < n /\ r = rec(x)
    BY <1>10 DEF Scored, rec
  <1>15. \A r : r \in P <=> \E x \in Y : r = rec(x)
    BY <1>7, <1>10, <1>12, <1>13, <1>14
  <1> HIDE DEF P
  <1>16. P = Scored(k, v, Y, c)
    BY <1>15 DEF Scored, rec
  <1>17. Pairs(P) = {<<c[x], x>> : x \in Y}
    BY <1>16, PairsOfScored
  <1>18. QED BY <1>2, <1>8, <1>17, Zenon DEF Y

\* An interval of names is what a walk over the members passes before it leaves it.
LEMMA ByLexIs ==
  ASSUME ZSetsInv, raced = {}, scoreRaced = {}, NEW k \in Keys, Live(k),
         NEW interval, interval.min \in Int, interval.max \in Int
  PROVE  ZRangebylex(k, interval) = ZSets!ByLex(Contents(k), interval)
  <1>1. PICK v \in Nat : v = meta[k].version
    BY LiveIsScored
  <1>2. PICK c : c = Contents(k)
    OBVIOUS
  <1>3. PICK X : X = DOMAIN c /\ X \in SUBSET Members
    BY <1>2, LiveIsScored
  <1> DEFINE W == {<<k, v, x>> : x \in X}
             Y == ZSets!ByLex(c, interval)
  <1>4. ForwardByMember(data, k, meta[k], meta[k].count) = W
    BY <1>1, <1>2, <1>3, WalkFinds
  <1>5. k \in Nat /\ \A x \in X : x \in Nat
    BY <1>3, ZSetsAssumption
  <1>6. \A x, y \in X : ~MemberBefore(<<k, v, x>>, <<k, v, y>>) <=> y <= x
    BY <1>5 DEF MemberBefore
  <1>7. ASSUME NEW s \in Nat, NEW t \in Nat, s <= t, BelowMax(interval, t)
        PROVE  BelowMax(interval, s)
    <2>1. s = t \/ s < t
      BY <1>7
    <2>2. CASE s < t
      <3>1. s < interval.max
        BY <1>7, <2>2 DEF BelowMax
      <3>2. QED BY <3>1 DEF BelowMax
    <2>3. QED BY <1>7, <2>1, <2>2
  <1>8. \A x : x \in Y <=> x \in X /\ AboveMin(interval, x) /\ BelowMax(interval, x)
    BY <1>3, Zenon DEF ZSets!ByLex, ZSets!In, AboveMin, BelowMax
  <1>9. /\ \A r \in W : \E x \in X : r = <<k, v, x>> /\ r[3] = x
        /\ \A x \in X : <<k, v, x>> \in W /\ <<k, v, x>>[3] = x
    OBVIOUS
  <1> HIDE DEF W, Y
  <1>10. \A x \in X :
           (\A q \in W : ~MemberBefore(<<k, v, x>>, q) => BelowMax(interval, q[3]))
             <=> BelowMax(interval, x)
    BY <1>5, <1>6, <1>7, <1>9
  <1>11. \A r : r \in WithinLex(W, interval) <=> \E x \in Y : r = <<k, v, x>>
    BY <1>8, <1>9, <1>10 DEF WithinLex
  <1>12. Pairs(WithinLex(W, interval)) = Y
    <2>1. \A r \in WithinLex(W, interval) : r[3] \in Y
      BY <1>11
    <2>2. \A x \in Y : <<k, v, x>> \in WithinLex(W, interval) /\ <<k, v, x>>[3] = x
      BY <1>11
    <2>3. QED BY <2>1, <2>2 DEF Pairs
  <1>13. ZRangebylex(k, interval) = Pairs(WithinLex(W, interval))
    BY <1>4, Zenon DEF ZRangebylex
  <1>14. QED BY <1>2, <1>12, <1>13 DEF Y

\* The least of one number, and of several.
LEMMA MinIs ==
  ASSUME NEW A \in SUBSET Int, NEW a \in A, \A b \in A : a <= b
  PROVE  Min(A) = a
  <1>1. \E x \in A : \A y \in A : x <= y
    OBVIOUS
  <1>2. Min(A) \in A /\ \A y \in A : Min(A) <= y
    BY <1>1, Zenon DEF Min
  <1>3. PICK m : m = Min(A)
    OBVIOUS
  <1>4. m \in Int /\ a \in Int /\ m <= a /\ a <= m
    BY <1>2, <1>3
  <1>5. QED BY <1>3, <1>4

\* ZRank and ZRevrank find a member where its rank is; ZRevrank looks at one record
\* too many, which comes after all members.
LEMMA ZRanksAre ==
  ASSUME ZSetsInv, raced = {}, scoreRaced = {}, NEW k \in Keys, Live(k),
         NEW x \in Members
  PROVE  LET c == Contents(k)
         IN  /\ ZRank(k, x) = IF x \in DOMAIN c THEN ZSets!Rank(c, x) ELSE -1
             /\ x \in DOMAIN c => ZRevrank(k, x) = ZSets!Revrank(c, x)
  <1>1. PICK v \in Nat : v = meta[k].version
    BY LiveIsScored
  <1>2. PICK c : c = Contents(k)
    OBVIOUS
  <1>3. PICK N \in Nat : N = meta[k].count
    BY LiveIsScored
  <1>4. PICK X : X = DOMAIN c
    OBVIOUS
  <1> DEFINE rec(y) == <<k, v, <<c[y], y>>>>
             W == Walk(k)
             B == Backward(scores, k, meta[k], N + 1)
             met == {r \in W : r[3][2] = x}
             back == {r \in B : r[3][2] = x}
  <1>5. /\ W = Scored(k, v, X, c)
        /\ \A y \in X : Ahead(W, rec(y)) = ZSets!Rank(c, y)
    BY <1>1, <1>2, <1>4, WalkFinds
  <1>6. N + 1 \in Int /\ N + 1 >= N
    OBVIOUS
  <1>7. /\ \A y \in X : /\ ZSets!Rank(c, y) \in 0 .. N - 1
                        /\ ZSets!Revrank(c, y) \in 0 .. N - 1
        /\ \A y \in X : /\ rec(y) \in B <=> ZSets!Revrank(c, y) < N + 1
                        /\ rec(y) \in B => Behind(B, rec(y)) = ZSets!Revrank(c, y)
        /\ \A r \in B \ Scored(k, v, X, c) : Behind(B, r) \in Nat /\ Behind(B, r) >= N
    BY <1>1, <1>2, <1>3, <1>4, <1>6, WalksFind
  <1>8. \A r : r \in W <=> \E y \in X : r = rec(y) /\ r[3][2] = y
    BY <1>5 DEF Scored
  <1> HIDE DEF W, B, rec
  <1>9. x \in X => met = {rec(x)}
    BY <1>8 DEF rec
  <1>10. x \notin X => met = {}
    BY <1>8
  <1>11. ZRank(k, x) = IF {Ahead(W, r) : r \in met} = {} THEN -1
                       ELSE Min({Ahead(W, r) : r \in met})
    BY Zenon DEF ZRank, W
  <1>12. ZRank(k, x) = IF x \in X THEN ZSets!Rank(c, x) ELSE -1
    <2>1. CASE x \in X
      <3>1. {Ahead(W, r) : r \in met} = {ZSets!Rank(c, x)}
        BY <1>5, <1>9, <2>1 DEF rec
      <3>2. Min({ZSets!Rank(c, x)}) = ZSets!Rank(c, x)
        <4>1. PICK a \in Int : a = ZSets!Rank(c, x)
          BY <1>7, <2>1
        <4>2. {a} \in SUBSET Int /\ a \in {a} /\ \A b \in {a} : a <= b
          OBVIOUS
        <4>3. QED BY <4>1, <4>2, MinIs, Zenon
      <3>3. QED BY <1>11, <2>1, <3>1, <3>2
    <2>2. CASE x \notin X
      BY <1>10, <1>11, <2>2
    <2>3. QED BY <2>1, <2>2
  <1>13. ASSUME x \in X
         PROVE  ZRevrank(k, x) = ZSets!Revrank(c, x)
    <2> DEFINE ranks == {Behind(B, r) : r \in back}
    <2>1. ZRevrank(k, x) = IF ranks = {} THEN -1 ELSE Min(ranks)
      <3>1. ZRevrank(k, x) =
              LET walk == Backward(scores, k, meta[k], N + 1)
                  found == {Behind(walk, r) : r \in {r \in walk : r[3][2] = x}}
              IN  IF found = {} THEN -1 ELSE Min(found)
        BY <1>3, Zenon DEF ZRevrank
      <3>2. QED BY <3>1 DEF B
    <2>2. /\ rec(x) \in back /\ Behind(B, rec(x)) = ZSets!Revrank(c, x)
          /\ ZSets!Revrank(c, x) \in 0 .. N - 1
      BY <1>7, <1>13 DEF rec
    <2>3. ASSUME NEW r \in back
          PROVE  Behind(B, r) \in Int /\ ZSets!Revrank(c, x) <= Behind(B, r)
      <3>1. CASE r \in Scored(k, v, X, c)
        <4>1. r = rec(x)
          BY <1>5, <1>8, <2>3, <3>1
        <4>2. QED BY <2>2, <4>1
      <3>2. CASE r \notin Scored(k, v, X, c)
        BY <1>7, <2>2, <2>3, <3>2
      <3>3. QED BY <3>1, <3>2
    <2> HIDE DEF back
    <2>4. ranks \in SUBSET Int /\ ZSets!Revrank(c, x) \in ranks
          /\ \A b \in ranks : ZSets!Revrank(c, x) <= b
      BY <2>2, <2>3
    <2> HIDE DEF ranks
    <2>5. Min(ranks) = ZSets!Revrank(c, x)
      BY <2>4, MinIs
    <2>6. QED BY <2>1, <2>4, <2>5
  <1>14. QED BY <1>2, <1>4, <1>12, <1>13

\* All reads together.
LEMMA ZSetsRead ==
  ASSUME ZSetsInv, raced = {}, scoreRaced = {}
  PROVE  ReadsAsPromised
  <1> SUFFICES ASSUME NEW k \in Keys
               PROVE  LET c == Contents(k)
                          pairs(X) == {<<c[x], x>> : x \in X}
                      IN  /\ Length(k) = Cardinality(DOMAIN c)
                          /\ \A start, stop \in Indexes :
                               /\ ZRange(k, start, stop) = pairs(ZSets!ByRank(c, start, stop))
                               /\ ZRevrange(k, start, stop) =
                                    pairs(ZSets!ByRevrank(c, start, stop))
                          /\ \A interval \in Intervals :
                               LET X == ZSets!ByScore(c, interval)
                               IN  /\ ZRangebyscore(k, interval) = pairs(X)
                                   /\ ZRevrangebyscore(k, interval) = pairs(X)
                                   /\ ZCount(k, interval) = Cardinality(X)
                          /\ \A interval \in LexIntervals :
                               /\ ZRangebylex(k, interval) = ZSets!ByLex(c, interval)
                               /\ ZLexcount(k, interval) =
                                    Cardinality(ZSets!ByLex(c, interval))
                          /\ \A x \in Members : ZRank(k, x) =
                               IF x \in DOMAIN c THEN ZSets!Rank(c, x) ELSE -1
                          /\ \A x \in DOMAIN c :
                               ZRevrank(k, x) = ZSets!Revrank(c, x) /\ ZScore(k, x) = c[x]
    BY Zenon DEF ReadsAsPromised
  <1> DEFINE c == Contents(k)
  <1>1. c = Contents(k)
    OBVIOUS
  <1> HIDE DEF c
  <1> DEFINE pairs(X) == {<<c[x], x>> : x \in X}
             Ranges == \A start, stop \in Indexes :
                         /\ ZRange(k, start, stop) = pairs(ZSets!ByRank(c, start, stop))
                         /\ ZRevrange(k, start, stop) =
                              pairs(ZSets!ByRevrank(c, start, stop))
             ScoreRanges == \A interval \in Intervals :
                              LET X == ZSets!ByScore(c, interval)
                              IN  /\ ZRangebyscore(k, interval) = pairs(X)
                                  /\ ZRevrangebyscore(k, interval) = pairs(X)
                                  /\ ZCount(k, interval) = Cardinality(X)
             LexRanges == \A interval \in LexIntervals :
                            /\ ZRangebylex(k, interval) = ZSets!ByLex(c, interval)
                            /\ ZLexcount(k, interval) = Cardinality(ZSets!ByLex(c, interval))
             Ranks == \A x \in Members : ZRank(k, x) =
                        IF x \in DOMAIN c THEN ZSets!Rank(c, x) ELSE -1
             Lookups == \A x \in DOMAIN c :
                          ZRevrank(k, x) = ZSets!Revrank(c, x) /\ ZScore(k, x) = c[x]
  <1>2. \A X, v : Pairs(Scored(k, v, X, c)) = pairs(X)
    BY PairsOfScored
  <1> DEFINE Reads == /\ Length(k) = Cardinality(DOMAIN c)
                      /\ Ranges /\ ScoreRanges /\ LexRanges /\ Ranks /\ Lookups
  <1>3. ASSUME Live(k)
        PROVE  Reads
    <2>1. PICK v \in Nat : v = meta[k].version
      BY <1>3, LiveIsScored
    <2>2. PICK X \in SUBSET Members :
            /\ X = DOMAIN c /\ X = Stored(k, v) /\ meta[k].count = Cardinality(X)
            /\ \A x \in X : c[x] = score[<<k, v, x>>]
      BY <1>1, <1>3, <2>1, LiveIsScored
    <2>3. Length(k) = Cardinality(DOMAIN c)
      BY <1>3, <2>2 DEF Length
    <2>4. ASSUME NEW start \in Indexes, NEW stop \in Indexes
          PROVE  /\ ZRange(k, start, stop) = pairs(ZSets!ByRank(c, start, stop))
                 /\ ZRevrange(k, start, stop) = pairs(ZSets!ByRevrank(c, start, stop))
      <3>1. start \in Int /\ stop \in Int
        BY ZSetsAssumption
      <3>2. Between(Walk(k), Length(k), start, stop) =
              Scored(k, v, ZSets!ByRank(c, start, stop), c)
        BY <1>1, <1>3, <2>1, <3>1, ByRankIs
      <3>3. ZRange(k, start, stop) = pairs(ZSets!ByRank(c, start, stop))
        BY <1>2, <3>2 DEF ZRange
      <3>4. ZRevrange(k, start, stop) = pairs(ZSets!ByRevrank(c, start, stop))
        BY <1>1, <1>3, <3>1, ZRevrangeIs
      <3>5. QED BY <3>3, <3>4
    <2>5. ASSUME NEW interval \in Intervals
          PROVE  LET Y == ZSets!ByScore(c, interval)
                 IN  /\ ZRangebyscore(k, interval) = pairs(Y)
                     /\ ZRevrangebyscore(k, interval) = pairs(Y)
                     /\ ZCount(k, interval) = Cardinality(Y)
      <3>1. interval.min \in Int /\ interval.max \in Int
        BY ZSetsAssumption
      <3> DEFINE Y == ZSets!ByScore(c, interval)
                 walk == Backward(scores, k, meta[k], meta[k].count)
                 back == {r \in walk :
                   /\ BelowMax(interval, r[3][1])
                   /\ \A q \in walk : ~ScoreBefore(q, r) => AboveMin(interval, q[3][1])}
      <3>2. /\ Within(Walk(k), interval) = Scored(k, v, Y, c)
            /\ back = Scored(k, v, Y, c)
        BY <1>1, <1>3, <2>1, <3>1, ByScoreIs
      <3>3. ZRangebyscore(k, interval) = pairs(Y)
        BY <1>2, <3>2 DEF ZRangebyscore
      <3>4. ZRevrangebyscore(k, interval) = Pairs(back)
        BY <1>3, Zenon DEF ZRevrangebyscore
      <3>5. Y \in SUBSET Members
        BY <2>2 DEF ZSets!ByScore
      <3> HIDE DEF Y, back
      <3>6. Cardinality(Scored(k, v, Y, c)) = Cardinality(Y)
        BY <3>5, ScoredRecordsCount
      <3>7. ZCount(k, interval) = Cardinality(Y)
        BY <3>2, <3>6, Zenon DEF ZCount
      <3>8. ZRevrangebyscore(k, interval) = pairs(Y)
        BY <1>2, <3>2, <3>4
      <3>9. QED BY <3>3, <3>7, <3>8 DEF Y
    <2>6. ASSUME NEW interval \in LexIntervals
          PROVE  /\ ZRangebylex(k, interval) = ZSets!ByLex(c, interval)
                 /\ ZLexcount(k, interval) = Cardinality(ZSets!ByLex(c, interval))
      <3>1. interval.min \in Int /\ interval.max \in Int
        BY ZSetsAssumption
      <3>2. ZRangebylex(k, interval) = ZSets!ByLex(c, interval)
        BY <1>1, <1>3, <3>1, ByLexIs
      <3>3. QED BY <3>2 DEF ZLexcount
    <2>7. \A x \in Members :
            /\ ZRank(k, x) = IF x \in DOMAIN c THEN ZSets!Rank(c, x) ELSE -1
            /\ x \in DOMAIN c => ZRevrank(k, x) = ZSets!Revrank(c, x)
      BY <1>1, <1>3, ZRanksAre
    <2>8. \A x \in DOMAIN c : ZScore(k, x) = c[x]
      BY <1>3, <2>1, <2>2 DEF ZScore, Visible
    <2>9. Ranks
      BY <2>7
    <2>10. Lookups
      BY <2>2, <2>7, <2>8
    <2>11. Ranges /\ ScoreRanges /\ LexRanges
      BY <2>4, <2>5, <2>6, Zenon
    <2> HIDE DEF Ranges, ScoreRanges, LexRanges, Ranks, Lookups
    <2>12. QED BY <2>3, <2>9, <2>10, <2>11
  <1>4. ASSUME ~Live(k)
        PROVE  Reads
    <2>1. DOMAIN c = {} /\ Visible(k) = {} /\ Walk(k) = {} /\ Length(k) = 0
      BY <1>1, <1>4, DeadContents
    <2>2. Cardinality({}) = 0 /\ pairs({}) = {}
      BY FS_EmptySet
    <2>3. ASSUME NEW start \in Indexes, NEW stop \in Indexes
          PROVE  /\ ZRange(k, start, stop) = pairs(ZSets!ByRank(c, start, stop))
                 /\ ZRevrange(k, start, stop) = pairs(ZSets!ByRevrank(c, start, stop))
      <3>1. ZSets!ByRank(c, start, stop) = {} /\ ZSets!ByRevrank(c, start, stop) = {}
        BY <2>1 DEF ZSets!ByRank, ZSets!ByRevrank
      <3>2. ZRange(k, start, stop) = {}
        BY <2>1 DEF ZRange, Between, Pairs
      <3>3. ZRevrange(k, start, stop) = {}
        BY <1>4 DEF ZRevrange, Pairs
      <3>4. QED BY <2>2, <3>1, <3>2, <3>3
    <2>4. ASSUME NEW interval \in Intervals
          PROVE  LET Y == ZSets!ByScore(c, interval)
                 IN  /\ ZRangebyscore(k, interval) = pairs(Y)
                     /\ ZRevrangebyscore(k, interval) = pairs(Y)
                     /\ ZCount(k, interval) = Cardinality(Y)
      <3>1. ZSets!ByScore(c, interval) = {}
        BY <2>1 DEF ZSets!ByScore
      <3>2. Within(Walk(k), interval) = {}
        BY <2>1 DEF Within
      <3>3. ZRangebyscore(k, interval) = {} /\ ZCount(k, interval) = Cardinality({})
        BY <3>2 DEF ZRangebyscore, ZCount, Pairs
      <3>4. ZRevrangebyscore(k, interval) = {}
        BY <1>4 DEF ZRevrangebyscore, Pairs
      <3>5. QED BY <2>2, <3>1, <3>3, <3>4
    <2>5. ASSUME NEW interval \in LexIntervals
          PROVE  /\ ZRangebylex(k, interval) = ZSets!ByLex(c, interval)
                 /\ ZLexcount(k, interval) = Cardinality(ZSets!ByLex(c, interval))
      <3>1. ZSets!ByLex(c, interval) = {}
        BY <2>1 DEF ZSets!ByLex
      <3>2. ZRangebylex(k, interval) = {}
        BY <1>4 DEF ZRangebylex, WithinLex, Pairs
      <3>3. QED BY <3>1, <3>2 DEF ZLexcount
    <2>6. \A x \in Members : ZRank(k, x) = -1
      BY <2>1 DEF ZRank
    <2>7. Ranks /\ Lookups /\ Length(k) = Cardinality(DOMAIN c)
      BY <2>1, <2>2, <2>6
    <2>8. Ranges /\ ScoreRanges /\ LexRanges
      BY <2>3, <2>4, <2>5, Zenon
    <2> HIDE DEF Ranges, ScoreRanges, LexRanges, Ranks, Lookups
    <2>9. QED BY <2>7, <2>8
  <1>5. Reads
    BY <1>3, <1>4
  <1>6. QED BY <1>5, Zenon DEF c

\* Reads by rank, score and name, from either end, return what they name in the
\* scoring of the members column family, whatever records of dead versions and
\* other keys surround those of the set.
THEOREM ZSetsReadAsPromised == UnracedSpec => []ReadsAsPromised
  <1>1. ZSetsInv /\ raced = {} /\ scoreRaced = {} => ReadsAsPromised
    BY ZSetsRead
  <1>2. QED BY <1>1, ZSetsInvHolds, PTL

----------------------------------------------------------------------------
(* What the handlers that walk over score records take away.                *)

\* The members of the records they walked over.
LEMMA WalkedAreTaken ==
  ASSUME ZSetsInv, raced = {}, scoreRaced = {}, raced' = {}, scoreRaced' = {},
         NEW k \in Keys, Live(k), NEW c, c = Contents(k),
         NEW X, X \subseteq DOMAIN c, NEW W, W = Scored(k, meta[k].version, X, c),
         RemoveWalked(k, W)
  PROVE  ZSets!Remove(k, X)
  <1>1. PICK v \in Nat : v = meta[k].version
    BY LiveIsScored
  <1>2. W = Scored(k, v, X, c)
    BY <1>1
  <1>3. OfSet(scores, k, v) = Scored(k, v, DOMAIN c, c)
    BY <1>1, LiveIsScored
  <1>4. W \subseteq OfSet(scores, k, meta[k].version)
    BY <1>1, <1>2, <1>3 DEF Scored
  <1>5. PICK G : G = {r[3][2] : r \in W}
    OBVIOUS
  <1>6. ZSets!Remove(k, G)
    <2>1. ZSets!Remove(k, {r[3][2] : r \in W})
      BY <1>4, RemoveWalkedInv
    <2>2. QED BY <1>5, <2>1, Zenon
  <1>7. G = X
    <2>1. \A r \in W : r[3][2] \in X
      BY <1>2 DEF Scored
    <2>2. \A x \in X : <<k, v, <<c[x], x>>>> \in W /\ <<k, v, <<c[x], x>>>>[3][2] = x
      BY <1>2 DEF Scored
    <2>3. QED BY <1>5, <2>1, <2>2
  <1>8. QED BY <1>6, <1>7, Zenon

\* ZPopMin and ZPopMax take the members of the lowest and the highest ranks.
LEMMA ZPopsDo ==
  ASSUME ZSetsInv, raced = {}, scoreRaced = {}, raced' = {}, scoreRaced' = {},
         NEW k \in Keys, NEW n \in Nat
  PROVE  /\ ZPopMin(k, n) => ZSets!PopMin(k, n)
         /\ ZPopMax(k, n) => ZSets!PopMax(k, n)
  <1> SUFFICES ASSUME ZPopMin(k, n) \/ ZPopMax(k, n)
               PROVE  /\ ZPopMin(k, n) => ZSets!PopMin(k, n)
                      /\ ZPopMax(k, n) => ZSets!PopMax(k, n)
    OBVIOUS
  <1>1. Live(k)
    BY DEF ZPopMin, ZPopMax, RemoveWalked
  <1>2. PICK v \in Nat : v = meta[k].version
    BY <1>1, LiveIsScored
  <1>3. PICK c : c = Contents(k)
    OBVIOUS
  <1>4. PICK N \in Nat : N = meta[k].count
    BY <1>1, LiveIsScored
  <1>5. PICK t \in Int : t = AtMost(N, n) /\ t <= N
    BY DEF AtMost
  <1>6. PICK X, Y : /\ X = {x \in DOMAIN c : ZSets!Rank(c, x) < n}
                    /\ Y = {x \in DOMAIN c : ZSets!Revrank(c, x) < n}
    OBVIOUS
  <1>7. /\ \A x \in DOMAIN c : /\ ZSets!Rank(c, x) \in 0 .. N - 1
                               /\ ZSets!Revrank(c, x) \in 0 .. N - 1
        /\ Forward(scores, k, meta[k], t)
             = Scored(k, v, {x \in DOMAIN c : ZSets!Rank(c, x) < t}, c)
        /\ Backward(scores, k, meta[k], t)
             = Scored(k, v, {x \in DOMAIN c : ZSets!Revrank(c, x) < t}, c)
    BY <1>1, <1>2, <1>3, <1>4, <1>5, WalksFind
  <1>8. /\ {x \in DOMAIN c : ZSets!Rank(c, x) < t} = X
        /\ {x \in DOMAIN c : ZSets!Revrank(c, x) < t} = Y
    BY <1>5, <1>6, <1>7 DEF AtMost
  <1>9. X \subseteq DOMAIN c /\ Y \subseteq DOMAIN c
    BY <1>6
  <1>10. ASSUME ZPopMin(k, n)
         PROVE  ZSets!PopMin(k, n)
    <2>1. PICK W : W = Forward(scores, k, meta[k], t)
      OBVIOUS
    <2>2. RemoveWalked(k, W)
      BY <1>4, <1>5, <1>10, <2>1 DEF ZPopMin
    <2>3. W = Scored(k, meta[k].version, X, c)
      BY <1>2, <1>7, <1>8, <2>1
    <2>4. ZSets!Remove(k, X)
      BY <1>1, <1>3, <1>9, <2>2, <2>3, WalkedAreTaken
    <2>5. X = {x \in DOMAIN Row[k] : ZSets!Rank(Row[k], x) < n}
      BY <1>3, <1>6 DEF Row
    <2>6. QED BY <2>4, <2>5, Zenon DEF ZSets!PopMin, Row
  <1>11. ASSUME ZPopMax(k, n)
         PROVE  ZSets!PopMax(k, n)
    <2>1. PICK W : W = Backward(scores, k, meta[k], t)
      OBVIOUS
    <2>2. RemoveWalked(k, W)
      BY <1>4, <1>5, <1>11, <2>1 DEF ZPopMax
    <2>3. W = Scored(k, meta[k].version, Y, c)
      BY <1>2, <1>7, <1>8, <2>1
    <2>4. ZSets!Remove(k, Y)
      BY <1>1, <1>3, <1>9, <2>2, <2>3, WalkedAreTaken
    <2>5. Y = {x \in DOMAIN Row[k] : ZSets!Revrank(Row[k], x) < n}
      BY <1>3, <1>6 DEF Row
    <2>6. QED BY <2>4, <2>5, Zenon DEF ZSets!PopMax, Row
  <1>12. QED BY <1>10, <1>11

\* ZRemrangebyrank and ZRemrangebyscore take what ZRange and ZRangebyscore return.
LEMMA ZRemrangesDo ==
  ASSUME ZSetsInv, raced = {}, scoreRaced = {}, raced' = {}, scoreRaced' = {},
         NEW k \in Keys
  PROVE  /\ \A start, stop \in Indexes :
              ZRemrangebyrank(k, start, stop) => ZSets!RemoveByRank(k, start, stop)
         /\ \A interval \in Intervals :
              ZRemrangebyscore(k, interval) => ZSets!RemoveByScore(k, interval)
  <1>1. PICK c : c = Contents(k)
    OBVIOUS
  <1>2. ASSUME NEW start \in Indexes, NEW stop \in Indexes,
               ZRemrangebyrank(k, start, stop)
        PROVE  ZSets!RemoveByRank(k, start, stop)
    <2>1. Live(k)
      BY <1>2 DEF ZRemrangebyrank, RemoveWalked
    <2>2. start \in Int /\ stop \in Int
      BY ZSetsAssumption
    <2>3. PICK X : X = ZSets!ByRank(c, start, stop)
      OBVIOUS
    <2>4. PICK W : W = Between(Walk(k), Length(k), start, stop)
      OBVIOUS
    <2>5. W = Scored(k, meta[k].version, X, c)
      BY <1>1, <2>1, <2>2, <2>3, <2>4, ByRankIs
    <2>6. X \subseteq DOMAIN c
      BY <2>3 DEF ZSets!ByRank
    <2>7. RemoveWalked(k, W)
      BY <1>2, <2>4 DEF ZRemrangebyrank
    <2>8. ZSets!Remove(k, X)
      BY <1>1, <2>1, <2>5, <2>6, <2>7, WalkedAreTaken
    <2>9. X = ZSets!ByRank(Row[k], start, stop)
      BY <1>1, <2>3 DEF Row
    <2>10. QED BY <2>8, <2>9, Zenon DEF ZSets!RemoveByRank, Row
  <1>3. ASSUME NEW interval \in Intervals, ZRemrangebyscore(k, interval)
        PROVE  ZSets!RemoveByScore(k, interval)
    <2>1. Live(k)
      BY <1>3 DEF ZRemrangebyscore, RemoveWalked
    <2>2. interval.min \in Int /\ interval.max \in Int
      BY ZSetsAssumption
    <2>3. PICK X : X = ZSets!ByScore(c, interval)
      OBVIOUS
    <2>4. PICK W : W = Within(Walk(k), interval)
      OBVIOUS
    <2>5. W = Scored(k, meta[k].version, X, c)
      BY <1>1, <2>1, <2>2, <2>3, <2>4, ByScoreIs
    <2>6. X \subseteq DOMAIN c
      BY <2>3 DEF ZSets!ByScore
    <2>7. RemoveWalked(k, W)
      BY <1>3, <2>4 DEF ZRemrangebyscore
    <2>8. ZSets!Remove(k, X)
      BY <1>1, <2>1, <2>5, <2>6, <2>7, WalkedAreTaken
    <2>9. X = ZSets!ByScore(Row[k], interval)
      BY <1>1, <2>3 DEF Row
    <2>10. QED BY <2>8, <2>9, Zenon DEF ZSets!RemoveByScore, Row
  <1>4. QED BY <1>2, <1>3

\* ZRemrangebylex takes what ZRangebylex returns.
LEMMA ZRemrangebylexDoes ==
  ASSUME ZSetsInv, raced = {}, scoreRaced = {}, raced' = {}, scoreRaced' = {},
         snapshot # NoSnapshot, NEW k \in Keys, k = snapshot.dst,
         NEW interval \in LexIntervals, ZRemrangebylex(interval)
  PROVE  ZSets!RemoveByLex(k, interval) \/ UNCHANGED <<storeVars, scoreVars>>
  <1>1. PICK m \in MetaValue \cup {NoMeta} : m = snapshot.meta[k]
    BY InHand
  <1>2. PICK W : W = ForwardByMember(snapshot.data, k, m, m.count)
    OBVIOUS
  <1>3. PICK gone, G : gone = WithinLex(W, interval) /\ G = {r[3] : r \in gone}
    OBVIOUS
  <1>4. IF SnapshotLive(k) /\ gone # {}
        THEN ZSets!Remove(k, {r[3] : r \in gone})
        ELSE UNCHANGED <<storeVars, scoreVars>>
    <2>1. LET b == snapshot.meta[k]
              g == WithinLex(ForwardByMember(snapshot.data, k, b, b.count), interval)
          IN  IF SnapshotLive(k) /\ g # {}
              THEN ZSets!Remove(k, {r[3] : r \in g})
              ELSE UNCHANGED <<storeVars, scoreVars>>
      BY ZRemrangebylexInv
    <2>2. gone = WithinLex(ForwardByMember(snapshot.data, k, snapshot.meta[k], snapshot.meta[k].count), interval)
      BY <1>1, <1>2, <1>3, Zenon
    <2>3. QED BY <2>1, <2>2, Zenon
  <1>5. CASE SnapshotLive(k) /\ gone # {}
    <2>1. /\ m = meta[k] /\ Live(k)
          /\ OfSet(snapshot.data, k, m.version) = OfSet(data, k, m.version)
          /\ snapshot.data \in SUBSET DataKey /\ IsFiniteSet(snapshot.data)
      BY <1>1, <1>5, InHand
    <2>2. /\ m.version \in Nat /\ Cardinality(OfSet(data, k, m.version)) = m.count
          /\ data \in SUBSET DataKey /\ IsFiniteSet(data)
      BY <2>1, LiveCount, LiveRecords DEF ZSetsInv, ZSetsTypeOK, StoreTypeOK
    <2>3. W = ForwardByMember(data, k, meta[k], meta[k].count)
      <3>1. PICK T : T = OfSet(data, k, m.version)
        OBVIOUS
      <3>2. ForwardByMember(snapshot.data, k, m, Cardinality(T)) = T
        BY <2>1, <2>2, <3>1, ForwardByMemberFinds
      <3>3. ForwardByMember(data, k, m, Cardinality(T)) = T
        BY <2>2, <3>1, ForwardByMemberFinds
      <3>4. QED BY <1>2, <2>1, <2>2, <3>1, <3>2, <3>3
    <2>4. G = ZRangebylex(k, interval)
      BY <1>3, <2>1, <2>3, Zenon DEF ZRangebylex, Pairs
    <2>5. interval.min \in Int /\ interval.max \in Int
      BY ZSetsAssumption
    <2>6. ZRangebylex(k, interval) = ZSets!ByLex(Contents(k), interval)
      BY <2>1, <2>5, ByLexIs
    <2>7. G = ZSets!ByLex(Row[k], interval)
      BY <2>4, <2>6 DEF Row
    <2>8. ZSets!Remove(k, G)
      BY <1>3, <1>4, <1>5, Zenon
    <2>9. ZSets!RemoveByLex(k, interval)
      BY <2>7, <2>8, Zenon DEF ZSets!RemoveByLex, Row
    <2>10. QED BY <2>9
  <1>6. QED BY <1>4, <1>5
----------------------------------------------------------------------------
(* Sums over finite sets.                                                   *)

\* A set of numbers that has 0 and with each number the next has them all.
LEMMA AllNumbers ==
  ASSUME NEW B, 0 \in B, \A n \in Nat : n \in B => n + 1 \in B
  PROVE  Nat \subseteq B
  <1> SUFFICES ASSUME Nat \ B # {}
               PROVE  FALSE
    OBVIOUS
  <1>1. \E n \in Nat \ B : \A m \in Nat \ B : ~(m < n)
    <2>1. Nat \ B \subseteq Nat
      OBVIOUS
    <2>2. PICK n \in Nat \ B : \A m \in Nat \ B : ~(<<m, n>> \in OpToRel(<, Nat))
      BY <2>1, NatLessThanWellFounded, WFMin
    <2>3. \A m \in Nat \ B : ~(m < n)
      BY <2>1, <2>2 DEF OpToRel
    <2>4. QED BY <2>3
  <1>2. PICK n \in Nat \ B : \A m \in Nat \ B : ~(m < n)
    BY <1>1
  <1>3. n # 0 /\ n - 1 \in Nat
    OBVIOUS
  <1>4. n - 1 \in B
    BY <1>2, <1>3
  <1>5. n = (n - 1) + 1
    OBVIOUS
  <1>6. QED BY <1>3, <1>4, <1>5

\* A set of sets that has the empty one, and each that it has with any one element
\* less, has all subsets of a finite set.
LEMMA AllSubsets ==
  ASSUME NEW Y, IsFiniteSet(Y), NEW B, {} \in B,
         \A s \in SUBSET Y : s # {} /\ (\A x \in s : s \ {x} \in B) => s \in B
  PROVE  SUBSET Y \subseteq B
  <1> DEFINE N == {n \in Nat : \A s \in SUBSET Y : Cardinality(s) = n => s \in B}
  <1>1. \A s \in SUBSET Y : IsFiniteSet(s) /\ Cardinality(s) \in Nat
    BY FS_Subset, FS_CardinalityType
  <1>2. 0 \in N
    BY <1>1, FS_EmptySet
  <1>3. ASSUME NEW n \in Nat, n \in N
        PROVE  n + 1 \in N
    <2> SUFFICES ASSUME NEW s \in SUBSET Y, Cardinality(s) = n + 1
                 PROVE  s \in B
      OBVIOUS
    <2>1. s # {}
      BY FS_EmptySet
    <2>2. ASSUME NEW x \in s
          PROVE  s \ {x} \in B
      <3>1. Cardinality(s \ {x}) = n
        BY <1>1, FS_RemoveElement
      <3>2. QED BY <1>3, <3>1
    <2>3. QED BY <2>1, <2>2
  <1> HIDE DEF N
  <1>4. Nat \subseteq N
    BY <1>2, <1>3, AllNumbers
  <1>5. QED BY <1>1, <1>4 DEF N

\* it adds up the values of g over each subset of Y, as MapThenSumSet does.
Sums(it, Y, g) ==
  it = [s \in SUBSET Y |->
          IF s = {} THEN 0
          ELSE g[CHOOSE x \in s : TRUE] + it[s \ {CHOOSE x \in s : TRUE}]]

\* The values of a finite set can be added up.
LEMMA SumsExist ==
  ASSUME NEW Y, IsFiniteSet(Y), NEW g
  PROVE  \E it : Sums(it, Y, g)
  <1> DEFINE one(s) == CHOOSE x \in s : TRUE
             Good(it, n) == \A s \in SUBSET Y : Cardinality(s) <= n =>
                              it[s] = IF s = {} THEN 0 ELSE g[one(s)] + it[s \ {one(s)}]
             N == {n \in Nat : \E it : Good(it, n)}
  <1>1. \A s \in SUBSET Y : IsFiniteSet(s) /\ Cardinality(s) \in Nat
    BY FS_Subset, FS_CardinalityType
  <1>2. \A s \in SUBSET Y : s # {} => one(s) \in s /\ s \ {one(s)} \in SUBSET Y
                                      /\ Cardinality(s \ {one(s)}) = Cardinality(s) - 1
    <2> SUFFICES ASSUME NEW s \in SUBSET Y, s # {}
                 PROVE  one(s) \in s /\ Cardinality(s \ {one(s)}) = Cardinality(s) - 1
      OBVIOUS
    <2>1. one(s) \in s
      OBVIOUS
    <2> HIDE DEF one
    <2>2. QED BY <1>1, <2>1, FS_RemoveElement
  <1> HIDE DEF one
  <1>3. 0 \in N
    <2> DEFINE it == [s \in SUBSET Y |-> 0]
    <2>1. ASSUME NEW s \in SUBSET Y, Cardinality(s) <= 0
          PROVE  s = {} /\ it[s] = 0
      BY <1>1, <2>1, FS_EmptySet
    <2>2. Good(it, 0)
      BY <2>1
    <2>3. QED BY <2>2
  <1>4. ASSUME NEW n \in Nat, n \in N
        PROVE  n + 1 \in N
    <2>1. PICK old : Good(old, n)
      BY <1>4
    <2>2. PICK jt : jt = [s \in SUBSET Y |->
              IF Cardinality(s) <= n THEN old[s] ELSE g[one(s)] + old[s \ {one(s)}]]
      OBVIOUS
    <2>3. ASSUME NEW s \in SUBSET Y, Cardinality(s) <= n + 1
          PROVE  jt[s] = IF s = {} THEN 0 ELSE g[one(s)] + jt[s \ {one(s)}]
      <3>1. CASE s = {}
        BY <2>1, <2>2, <3>1, FS_EmptySet
      <3>2. CASE s # {}
        <4>1. s \ {one(s)} \in SUBSET Y /\ Cardinality(s \ {one(s)}) <= n
          BY <1>1, <1>2, <2>3, <3>2
        <4>2. jt[s \ {one(s)}] = old[s \ {one(s)}]
          BY <2>2, <4>1
        <4>3. jt[s] = g[one(s)] + old[s \ {one(s)}]
          BY <2>1, <2>2, <3>2
        <4>4. QED BY <3>2, <4>2, <4>3
      <3>3. QED BY <3>1, <3>2
    <2>4. Good(jt, n + 1)
      BY <2>3
    <2>5. \E it : Good(it, n + 1)
      <3> HIDE DEF Good
      <3>1. QED BY <2>4
    <2> HIDE DEF Good
    <2>6. QED BY <2>5
  <1>5. \E it : Good(it, Cardinality(Y))
    <2> HIDE DEF Good
    <2>1. Nat \subseteq N
      <3> HIDE DEF N
      <3>1. QED BY <1>3, <1>4, AllNumbers
    <2>2. Cardinality(Y) \in Nat
      BY FS_CardinalityType
    <2>3. QED BY <2>1, <2>2
  <1>6. PICK it : Good(it, Cardinality(Y))
    BY <1>5
  <1>7. PICK jt : jt = [s \in SUBSET Y |-> it[s]]
    OBVIOUS
  <1>8. ASSUME NEW s \in SUBSET Y
        PROVE  jt[s] = IF s = {} THEN 0 ELSE g[one(s)] + jt[s \ {one(s)}]
    <2>1. Cardinality(s) <= Cardinality(Y)
      BY FS_Subset
    <2>2. it[s] = IF s = {} THEN 0 ELSE g[one(s)] + it[s \ {one(s)}]
      BY <1>6, <2>1
    <2>3. s # {} => s \ {one(s)} \in SUBSET Y
      BY <1>2
    <2>4. QED BY <1>7, <2>2, <2>3
  <1>9. jt = [s \in SUBSET Y |-> IF s = {} THEN 0 ELSE g[one(s)] + jt[s \ {one(s)}]]
    BY <1>7, <1>8
  <1>10. QED BY <1>9 DEF Sums, one

\* it adds them up from any element on.
AddsUp(it, Y, g) ==
  /\ it[{}] = 0
  /\ \A s \in SUBSET Y : it[s] \in Int /\ \A x \in s : it[s] = g[x] + it[s \ {x}]

\* The order in which the values are added makes no difference.
LEMMA SumsInAnyOrder ==
  ASSUME NEW Y, IsFiniteSet(Y), NEW g, \A x \in Y : g[x] \in Int, NEW it, Sums(it, Y, g)
  PROVE  AddsUp(it, Y, g)
  <1>1. it[{}] = 0
    BY DEF Sums
  <1>2. ASSUME NEW s \in SUBSET Y, s # {}
        PROVE  \E p \in s : it[s] = g[p] + it[s \ {p}]
    <2>1. PICK p \in s : p = CHOOSE x \in s : TRUE
      BY <1>2
    <2>2. it[s] = g[p] + it[s \ {p}]
      BY <1>2, <2>1 DEF Sums
    <2>3. QED BY <2>2
  <1>3. \A s \in SUBSET Y : it[s] \in Int
    <2> DEFINE B == {s \in SUBSET Y : it[s] \in Int}
    <2>1. {} \in B
      BY <1>1
    <2>2. ASSUME NEW s \in SUBSET Y, s # {}, \A x \in s : s \ {x} \in B
          PROVE  s \in B
      <3>1. PICK p \in s : it[s] = g[p] + it[s \ {p}]
        BY <1>2, <2>2
      <3>2. g[p] \in Int /\ it[s \ {p}] \in Int
        BY <2>2
      <3>3. g[p] + it[s \ {p}] \in Int
        BY <3>2
      <3>4. QED BY <3>1, <3>3
    <2>3. SUBSET Y \subseteq B
      <3> HIDE DEF B
      <3>1. QED BY <2>1, <2>2, AllSubsets
    <2>4. QED BY <2>3
  <1> DEFINE B == {s \in SUBSET Y : \A x \in s : it[s] = g[x] + it[s \ {x}]}
  <1>4. {} \in B
    OBVIOUS
  <1>5. ASSUME NEW s \in SUBSET Y, s # {}, \A x \in s : s \ {x} \in B
        PROVE  s \in B
    <2>1. PICK p \in s : it[s] = g[p] + it[s \ {p}]
      BY <1>2, <1>5
    <2>2. ASSUME NEW x \in s, x # p
          PROVE  it[s] = g[x] + it[s \ {x}]
      <3>1. it[s \ {p}] = g[x] + it[(s \ {p}) \ {x}]
        <4>1. s \ {p} \in B /\ x \in s \ {p}
          BY <1>5, <2>2
        <4>2. QED BY <4>1
      <3>2. it[s \ {x}] = g[p] + it[(s \ {x}) \ {p}]
        <4>1. s \ {x} \in B /\ p \in s \ {x}
          BY <1>5, <2>2
        <4>2. QED BY <4>1
      <3>3. PICK r \in SUBSET Y : r = (s \ {p}) \ {x} /\ r = (s \ {x}) \ {p}
        OBVIOUS
      <3>4. it[r] \in Int /\ g[x] \in Int /\ g[p] \in Int
        BY <1>3
      <3>5. it[s] = g[p] + (g[x] + it[r]) /\ it[s \ {x}] = g[p] + it[r]
        BY <2>1, <3>1, <3>2, <3>3
      <3>6. QED BY <3>4, <3>5
    <2>3. QED BY <2>1, <2>2
  <1>6. SUBSET Y \subseteq B
    <2> HIDE DEF B
    <2>1. QED BY <1>4, <1>5, AllSubsets
  <1>7. QED BY <1>1, <1>3, <1>6 DEF AddsUp

\* Sums of the same values are the same.
LEMMA SumsAgree ==
  ASSUME NEW Y, IsFiniteSet(Y), NEW g, NEW it, AddsUp(it, Y, g),
         NEW T, NEW h, NEW jt, AddsUp(jt, T, h),
         NEW b \in [Y -> T], \A x \in Y : h[b[x]] = g[x],
         \A x, y \in Y : b[x] = b[y] => x = y, \A y \in T : \E x \in Y : b[x] = y
  PROVE  it[Y] = jt[T]
  <1> DEFINE image(s) == {b[x] : x \in s}
             B == {s \in SUBSET Y : it[s] = jt[image(s)]}
  <1>1. /\ it[{}] = 0
        /\ \A s \in SUBSET Y : \A x \in s : it[s] = g[x] + it[s \ {x}]
    BY DEF AddsUp
  <1>3. /\ jt[{}] = 0
        /\ \A t \in SUBSET T : \A y \in t : jt[t] = h[y] + jt[t \ {y}]
    BY DEF AddsUp
  <1>4. image({}) = {} /\ image(Y) = T
    OBVIOUS
  <1>5. ASSUME NEW s \in SUBSET Y, NEW x \in s
        PROVE  b[x] \in image(s) /\ image(s) \in SUBSET T /\ image(s \ {x}) = image(s) \ {b[x]}
    OBVIOUS
  <1> HIDE DEF image
  <1>6. {} \in B
    BY <1>1, <1>3, <1>4
  <1>7. ASSUME NEW s \in SUBSET Y, s # {}, \A x \in s : s \ {x} \in B
        PROVE  s \in B
    <2>1. PICK x \in s : TRUE
      BY <1>7
    <2>2. it[s] = g[x] + it[s \ {x}]
      BY <1>1
    <2>3. jt[image(s)] = h[b[x]] + jt[image(s \ {x})]
      BY <1>3, <1>5
    <2>4. it[s \ {x}] = jt[image(s \ {x})]
      BY <1>7
    <2>5. QED BY <2>2, <2>3, <2>4
  <1>8. SUBSET Y \subseteq B
    <2> HIDE DEF B
    <2>1. QED BY <1>6, <1>7, AllSubsets
  <1>9. QED BY <1>4, <1>8

\* The sum of the values of g over Y.
Total(Y, g) == (CHOOSE it : Sums(it, Y, g))[Y]

\* It is the same for the same values, whatever tells them apart.
LEMMA TotalsAgree ==
  ASSUME NEW Y, IsFiniteSet(Y), NEW g, \A x \in Y : g[x] \in Int,
         NEW T, NEW h, NEW b \in [Y -> T], \A x \in Y : h[b[x]] = g[x],
         \A x, y \in Y : b[x] = b[y] => x = y, \A y \in T : \E x \in Y : b[x] = y
  PROVE  Total(Y, g) = Total(T, h)
  <1> DEFINE it == CHOOSE it : Sums(it, Y, g)
             jt == CHOOSE jt : Sums(jt, T, h)
  <1>1. IsFiniteSet(T)
    BY SameSize
  <1>2. Sums(it, Y, g) /\ Sums(jt, T, h)
    <2>1. (\E a : Sums(a, Y, g)) /\ (\E a : Sums(a, T, h))
      BY <1>1, SumsExist
    <2>2. QED BY <2>1, Zenon
  <1>3. Total(Y, g) = it[Y] /\ Total(T, h) = jt[T]
    BY Zenon DEF Total
  <1> HIDE DEF it, jt
  <1>4. \A y \in T : h[y] \in Int
    OBVIOUS
  <1>5. AddsUp(it, Y, g)
    BY <1>2, SumsInAnyOrder
  <1>6. AddsUp(jt, T, h)
    BY <1>1, <1>2, <1>4, SumsInAnyOrder
  <1>7. it[Y] = jt[T]
    BY <1>5, <1>6, SumsAgree
  <1>8. QED BY <1>3, <1>7
----------------------------------------------------------------------------
(* What ZUnionstore and ZInterstore compute.                                *)

\* Weighted scores are integers.
LEMMA WeightedIsInt ==
  ASSUME NEW args \in StoreArgs, NEW i, NEW s \in Int
  PROVE  Weight(args, i) * s \in Int
  <1>1. PICK w \in Int : w = Weight(args, i)
    <2>1. \A j \in DOMAIN args.weights : args.weights[j] \in Int
      BY ZSetsAssumption
    <2>2. QED BY <2>1 DEF Weight
  <1>2. w * s \in Int
    OBVIOUS
  <1>3. QED BY <1>1, <1>2

\* The sources of args that hold x.
Holders(args, x) == {i \in DOMAIN args.keys : x \in DOMAIN Row[args.keys[i]]}

\* The promise's sum over the sources that hold x.
LEMMA PromisedSumIs ==
  ASSUME NEW args, args.agg = "SUM", NEW x,
         NEW H, H = Holders(args, x),
         NEW h, \A i \in H : h[i] = Weight(args, i) * Row[args.keys[i]][x]
  PROVE  ZSets!Combined(args, x) = Total(H, h)
  <1> DEFINE row == [k \in Keys |-> Contents(k)]
             one(s) == CHOOSE y \in s : TRUE
             part(i) == ZSets!Weight(args, i) * row[args.keys[i]][x]
             hold == {i \in DOMAIN args.keys : x \in DOMAIN row[args.keys[i]]}
             Adds(it) == it = [s \in SUBSET hold |->
                           IF s = {} THEN 0 ELSE part(one(s)) + it[s \ {one(s)}]]
  <1>1. row = Row /\ \A i : ZSets!Weight(args, i) = Weight(args, i)
    BY DEF Row, ZSets!Weight, Weight
  <1>2. ZSets!Combined(args, x) = (CHOOSE it : Adds(it))[hold]
    <2>1. ZSets!Combined(args, x) = ZSets!MapThenSumSet(LAMBDA i : part(i), hold)
      BY DEF ZSets!Combined
    <2>2. ZSets!MapThenSumSet(LAMBDA i : part(i), hold) = (CHOOSE it : Adds(it))[hold]
      BY DEF ZSets!MapThenSumSet, ZSets!MapThenFoldSet
    <2>3. QED BY <2>1, <2>2, Zenon
  <1> HIDE DEF row
  <1>3. H = hold /\ \A i \in H : h[i] = part(i)
    BY <1>1 DEF Holders
  <1> HIDE DEF part, hold
  <1>4. \A it : Adds(it) <=> Sums(it, H, h)
    <2> SUFFICES ASSUME NEW it
                 PROVE  Adds(it) <=> Sums(it, H, h)
      OBVIOUS
    <2>1. ASSUME NEW s \in SUBSET H, s # {}
          PROVE  h[one(s)] = part(one(s))
      <3>1. one(s) \in H
        BY <2>1
      <3> HIDE DEF one
      <3>2. QED BY <1>3, <3>1
    <2>2. [s \in SUBSET hold |-> IF s = {} THEN 0 ELSE part(one(s)) + it[s \ {one(s)}]]
            = [s \in SUBSET H |-> IF s = {} THEN 0 ELSE h[one(s)] + it[s \ {one(s)}]]
      <3> HIDE DEF one
      <3>1. QED BY <1>3, <2>1
    <2>3. QED BY <2>2, Zenon DEF Sums
  <1> HIDE DEF Adds
  <1>5. (CHOOSE it : Adds(it)) = CHOOSE it : Sums(it, H, h)
    BY <1>4, Zenon
  <1>6. QED BY <1>2, <1>3, <1>5, Zenon DEF Total

\* The aggregate of one value from each source that holds x is what the promise
\* combines, whatever tells the values apart.
LEMMA AggregateIs ==
  ASSUME NEW args \in StoreArgs, NEW x, NEW H,
         H = Holders(args, x),
         \A i \in H : Row[args.keys[i]][x] \in Int,
         NEW value, NEW D, D = DOMAIN value, NEW b \in [H -> D],
         \A i \in H : value[b[i]] = Weight(args, i) * Row[args.keys[i]][x],
         \A i, j \in H : b[i] = b[j] => i = j,
         \A e \in D : \E i \in H : b[i] = e
  PROVE  Aggregate(args.agg, value) = ZSets!Combined(args, x)
  <1> DEFINE row == [k \in Keys |-> Contents(k)]
             part(i) == ZSets!Weight(args, i) * row[args.keys[i]][x]
  <1>1. row = Row /\ \A i : ZSets!Weight(args, i) = Weight(args, i)
    BY DEF Row, ZSets!Weight, Weight
  <1>2. PICK h : h = [i \in H |-> part(i)]
    OBVIOUS
  <1> HIDE DEF row
  <1>3. /\ \A i \in H : h[i] \in Int /\ value[b[i]] = h[i]
        /\ \A e \in D : value[e] \in Int
    <2>1. \A i \in H : h[i] = Weight(args, i) * Row[args.keys[i]][x]
      BY <1>1, <1>2
    <2>2. ASSUME NEW i \in H
          PROVE  h[i] \in Int /\ value[b[i]] = h[i]
      <3>1. PICK s \in Int : s = Row[args.keys[i]][x]
        OBVIOUS
      <3>2. Weight(args, i) * s \in Int
        BY WeightedIsInt
      <3>3. QED BY <2>1, <3>1, <3>2
    <2>3. QED BY <2>2
  <1>4. IsFiniteSet(H) /\ IsFiniteSet(D)
    <2>1. IsFiniteSet(DOMAIN args.keys) /\ H \subseteq DOMAIN args.keys
      BY ZSetsAssumption DEF Holders
    <2>2. IsFiniteSet(H)
      BY <2>1, FS_Subset
    <2>3. QED BY <2>2, SameSize
  <1>5. ZSets!Combined(args, x) =
          CASE args.agg = "SUM" -> ZSets!MapThenSumSet(part, H)
            [] args.agg = "MIN" -> ZSets!Min({part(i) : i \in H})
            [] args.agg = "MAX" -> ZSets!Max({part(i) : i \in H})
    <2>1. H = {i \in DOMAIN args.keys : x \in DOMAIN row[args.keys[i]]}
      BY <1>1 DEF Holders
    <2> DEFINE hold == {i \in DOMAIN args.keys : x \in DOMAIN row[args.keys[i]]}
    <2>2. ZSets!Combined(args, x) =
            CASE args.agg = "SUM" -> ZSets!MapThenSumSet(part, hold)
              [] args.agg = "MIN" -> ZSets!Min({part(i) : i \in hold})
              [] args.agg = "MAX" -> ZSets!Max({part(i) : i \in hold})
      BY Zenon DEF ZSets!Combined, row
    <2>3. H = hold
      BY <2>1, Zenon
    <2> HIDE DEF hold, part
    <2>4. QED BY <2>2, <2>3, Zenon
  <1>6. CASE args.agg = "SUM"
    <2>1. \A i \in H : h[i] = Weight(args, i) * Row[args.keys[i]][x]
      BY <1>1, <1>2
    <2>2. ZSets!Combined(args, x) = Total(H, h)
      BY <1>6, <2>1, PromisedSumIs
    <2>3. Total(H, h) = Total(D, value)
      <3>1. \A i \in H : h[i] \in Int /\ value[b[i]] = h[i]
        BY <1>3
      <3>2. QED BY <1>4, <3>1, TotalsAgree
    <2>4. MapThenSumSet(LAMBDA i : value[i], D) = Total(D, value)
      BY DEF MapThenSumSet, MapThenFoldSet, Sums, Total
    <2>5. Aggregate(args.agg, value) = MapThenSumSet(LAMBDA i : value[i], DOMAIN value)
      BY <1>6 DEF Aggregate
    <2>6. QED BY <2>2, <2>3, <2>4, <2>5, Zenon
  <1>7. Range(value) = {part(i) : i \in H}
    <2>1. Range(value) = {value[e] : e \in D}
      BY DEF Range
    <2>2. \A i \in H : part(i) = h[i] /\ value[b[i]] = part(i) /\ b[i] \in D
      BY <1>2, <1>3
    <2> HIDE DEF part
    <2>3. QED BY <2>1, <2>2
  <1>8. CASE args.agg = "MIN"
    <2>1. Aggregate(args.agg, value) = Min(Range(value))
      BY <1>8, Zenon DEF Aggregate
    <2>2. ZSets!Combined(args, x) = ZSets!Min({part(i) : i \in H})
      BY <1>5, <1>8
    <2> HIDE DEF part
    <2>3. QED BY <1>7, <2>1, <2>2, Zenon DEF Min, ZSets!Min
  <1>9. CASE args.agg = "MAX"
    <2>1. Aggregate(args.agg, value) = Max(Range(value))
      BY <1>9, Zenon DEF Aggregate
    <2>2. ZSets!Combined(args, x) = ZSets!Max({part(i) : i \in H})
      BY <1>5, <1>9
    <2> HIDE DEF part
    <2>3. QED BY <1>7, <2>1, <2>2, Zenon DEF Max, ZSets!Max
  <1>10. args.agg \in {"SUM", "MIN", "MAX"}
    BY ZSetsAssumption
  <1>11. QED BY <1>6, <1>8, <1>9, <1>10

\* A snapshot of a sorted set that is alive still shows its scoring.
LEMMA SnapshotFinds ==
  ASSUME ZSetsInv, raced = {}, scoreRaced = {}, snapshot # NoSnapshot,
         NEW k \in Keys, SnapshotLive(k), NEW v, v = meta[k].version, NEW c, c = Row[k]
  PROVE  /\ snapshot.meta[k].version = v
         /\ SnapshotWalk(k) = Scored(k, v, DOMAIN c, c)
         /\ \A x : <<k, v, x>> \in snapshot.data <=> x \in DOMAIN c
         /\ \A x \in DOMAIN c : snapshot.score[<<k, v, x>>] = c[x]
  <1>1. PICK m \in MetaValue \cup {NoMeta} : m = snapshot.meta[k]
    BY InHand
  <1>2. /\ m = meta[k] /\ Live(k)
        /\ OfSet(snapshot.data, k, m.version) = OfSet(data, k, m.version)
        /\ OfSet(snapshot.scores, k, m.version) = OfSet(scores, k, m.version)
        /\ \A r \in OfSet(data, k, m.version) : snapshot.score[r] = score[r]
        /\ snapshot.data \in SUBSET DataKey
        /\ snapshot.scores \in SUBSET S!DataKey /\ IsFiniteSet(snapshot.scores)
    BY <1>1, InHand
  <1>3. c = Contents(k)
    BY DEF Row
  <1>4. /\ v \in Nat /\ m.count \in Nat
        /\ DOMAIN c = Stored(k, v)
        /\ \A x \in DOMAIN c : c[x] = score[<<k, v, x>>]
        /\ OfSet(scores, k, v) = Scored(k, v, DOMAIN c, c)
        /\ Cardinality(OfSet(scores, k, v)) = m.count
    BY <1>2, <1>3, LiveIsScored
  <1>5. SnapshotWalk(k) = Scored(k, v, DOMAIN c, c)
    <2>1. PICK R \in SUBSET S!DataKey : R = snapshot.scores /\ IsFiniteSet(R)
      BY <1>2
    <2>2. PICK n \in Int : n = m.count /\ n <= Cardinality(OfSet(R, k, v))
      BY <1>2, <1>4, <2>1
    <2>3. /\ \A r \in OfSet(R, k, v) : Ahead(OfSet(R, k, v), r) \in 0 .. n - 1
          /\ \A r \in OfSet(R, k, v) :
               r \in Forward(R, k, m, n) <=> Ahead(OfSet(R, k, v), r) < n
          /\ Forward(R, k, m, n) \subseteq OfSet(R, k, v)
      BY <1>2, <1>4, <2>1, <2>2, ForwardFinds
    <2>4. Forward(R, k, m, n) = OfSet(R, k, v)
      <3>1. \A r \in OfSet(R, k, v) : Ahead(OfSet(R, k, v), r) < n
        BY <2>2, <2>3
      <3>2. \A r \in OfSet(R, k, v) : r \in Forward(R, k, m, n)
        BY <2>3, <3>1
      <3>3. QED BY <2>3, <3>2
    <2>5. SnapshotWalk(k) = Forward(R, k, m, n)
      BY <1>1, <2>1, <2>2, Zenon DEF SnapshotWalk
    <2>6. QED BY <1>2, <1>4, <2>1, <2>4, <2>5
  <1>6. ASSUME NEW x
        PROVE  <<k, v, x>> \in snapshot.data <=> x \in DOMAIN c
    <2>1. <<k, v, x>> \in snapshot.data <=> <<k, v, x>> \in data
      BY <1>2 DEF OfSet
    <2>2. <<k, v, x>> \in data => x \in Members
      BY DEF ZSetsInv, ZSetsTypeOK, StoreTypeOK, DataKey
    <2>3. QED BY <1>4, <2>1, <2>2 DEF Stored
  <1>7. ASSUME NEW x \in DOMAIN c
        PROVE  snapshot.score[<<k, v, x>>] = c[x]
    <2>1. <<k, v, x>> \in OfSet(data, k, m.version)
      BY <1>2, <1>4 DEF OfSet, Stored
    <2>2. QED BY <1>2, <1>4, <2>1
  <1>8. QED BY <1>1, <1>2, <1>5, <1>6, <1>7

\* The scores of every scoring are integers.
LEMMA RowIsInt ==
  ASSUME ZSetsInv, raced = {}, scoreRaced = {}, NEW k \in Keys, NEW x \in DOMAIN Row[k]
  PROVE  Row[k][x] \in Int
  <1>1. Live(k)
    BY DeadSeen
  <1>2. Contents(k) \in [DOMAIN Contents(k) -> Scores]
    BY <1>1, LiveIsScored
  <1>3. QED BY <1>2, ScoresAreIntegers DEF Row

\* The record of the i-th source for x.
SourceRecord(args, i, x) ==
  <<args.keys[i], meta[args.keys[i]].version, <<Row[args.keys[i]][x], x>>>>

\* ZUnionstore reads the scores that the sources give their members.
LEMMA UnionReads ==
  ASSUME ZSetsInv, raced = {}, scoreRaced = {}, snapshot # NoSnapshot,
         NEW args \in StoreArgs, NEW e
  PROVE  e \in UnionRead(args) <=>
           \E x : \E i \in Holders(args, x) : e = <<i, SourceRecord(args, i, x)>>
  <1>1. e \in UnionRead(args) <=>
          \E i \in DOMAIN args.keys : /\ SnapshotLive(args.keys[i])
                                      /\ \E r \in SnapshotWalk(args.keys[i]) : e = <<i, r>>
    BY DEF UnionRead
  <1>2. ASSUME NEW i \in DOMAIN args.keys
        PROVE  (/\ SnapshotLive(args.keys[i])
                /\ \E r \in SnapshotWalk(args.keys[i]) : e = <<i, r>>)
               <=> \E x \in DOMAIN Row[args.keys[i]] : e = <<i, SourceRecord(args, i, x)>>
    <2>1. PICK k \in Keys : k = args.keys[i]
      BY ZSetsAssumption
    <2>2. CASE SnapshotLive(k)
      <3>1. PICK v, c : v = meta[k].version /\ c = Row[k]
        OBVIOUS
      <3>2. SnapshotWalk(k) = Scored(k, v, DOMAIN c, c)
        BY <2>2, <3>1, SnapshotFinds
      <3>3. \A x : SourceRecord(args, i, x) = <<k, v, <<c[x], x>>>>
        BY <2>1, <3>1 DEF SourceRecord
      <3>4. (\E r \in SnapshotWalk(k) : e = <<i, r>>)
              <=> \E x \in DOMAIN c : e = <<i, <<k, v, <<c[x], x>>>>>>
        BY <3>2 DEF Scored
      <3>5. QED BY <2>1, <2>2, <3>1, <3>3, <3>4
    <2>3. CASE ~SnapshotLive(k)
      <3>1. DOMAIN Row[k] = {}
        BY <2>3, SnapshotIsCurrent, DeadSeen
      <3>2. QED BY <2>1, <2>3, <3>1
    <2>4. QED BY <2>2, <2>3
  <1>3. QED BY <1>1, <1>2 DEF Holders

\* The sources' members.
LEMMA SourcesAre ==
  ASSUME NEW args \in StoreArgs, NEW x
  PROVE  /\ x \in UNION ZSets!Sources(args) <=> Holders(args, x) # {}
         /\ (\A D \in ZSets!Sources(args) : x \in D) <=> Holders(args, x) = DOMAIN args.keys
  <1>1. ZSets!Sources(args) = {DOMAIN Row[args.keys[i]] : i \in DOMAIN args.keys}
    BY DEF ZSets!Sources, Row
  <1>2. QED BY <1>1 DEF Holders

\* ZUnionstore computes the union of the sources, each score weighted and combined.
LEMMA UnionIs ==
  ASSUME ZSetsInv, raced = {}, scoreRaced = {}, snapshot # NoSnapshot,
         NEW args \in StoreArgs
  PROVE  [x \in {e[2][3][2] : e \in UnionRead(args)} |->
            Aggregate(args.agg, UnionValue(args, x))] = ZSets!Union(args)
  <1>1. {e[2][3][2] : e \in UnionRead(args)} = UNION ZSets!Sources(args)
    <2> SUFFICES ASSUME NEW x
                 PROVE  (\E e \in UnionRead(args) : x = e[2][3][2]) <=> Holders(args, x) # {}
      BY SourcesAre
    <2>1. \A y, i : <<i, SourceRecord(args, i, y)>>[2][3][2] = y
      BY DEF SourceRecord
    <2>2. ASSUME NEW e \in UnionRead(args), x = e[2][3][2]
          PROVE  Holders(args, x) # {}
      <3>1. PICK y : \E i \in Holders(args, y) : e = <<i, SourceRecord(args, i, y)>>
        BY UnionReads
      <3>2. y = x
        BY <2>1, <2>2, <3>1
      <3>3. QED BY <3>1, <3>2
    <2>3. ASSUME NEW i \in Holders(args, x)
          PROVE  \E e \in UnionRead(args) : x = e[2][3][2]
      <3>1. PICK e : e = <<i, SourceRecord(args, i, x)>>
        OBVIOUS
      <3>2. e \in UnionRead(args)
        BY <3>1, UnionReads
      <3>3. x = e[2][3][2]
        BY <2>1, <3>1
      <3>4. QED BY <3>2, <3>3
    <2>4. QED BY <2>2, <2>3
  <1>2. ASSUME NEW x
        PROVE  Aggregate(args.agg, UnionValue(args, x)) = ZSets!Combined(args, x)
    <2>1. PICK H, value : H = Holders(args, x) /\ value = UnionValue(args, x)
      OBVIOUS
    <2>2. PICK b, D : b = [i \in H |-> <<i, SourceRecord(args, i, x)>>] /\ D = DOMAIN value
      OBVIOUS
    <2>3. D = {e \in UnionRead(args) : e[2][3][2] = x}
      BY <2>1, <2>2 DEF UnionValue
    <2>4. \A y, i : /\ <<i, SourceRecord(args, i, y)>>[2][3][2] = y
                    /\ <<i, SourceRecord(args, i, y)>>[1] = i
                    /\ <<i, SourceRecord(args, i, y)>>[2][3][1] = Row[args.keys[i]][y]
      BY DEF SourceRecord
    <2>5. ASSUME NEW i \in H
          PROVE  b[i] \in D /\ value[b[i]] = Weight(args, i) * Row[args.keys[i]][x]
      <3>1. b[i] \in UnionRead(args)
        BY <2>1, <2>2, UnionReads
      <3>2. b[i] \in D
        BY <2>2, <2>3, <2>4, <3>1
      <3>3. value[b[i]] = Weight(args, b[i][1]) * b[i][2][3][1]
        BY <2>1, <2>3, <3>2 DEF UnionValue
      <3>4. b[i][1] = i /\ b[i][2][3][1] = Row[args.keys[i]][x]
        BY <2>2, <2>4
      <3>5. QED BY <3>2, <3>3, <3>4
    <2>6. ASSUME NEW e \in D
          PROVE  \E i \in H : b[i] = e
      <3>1. PICK y : \E i \in Holders(args, y) : e = <<i, SourceRecord(args, i, y)>>
        BY <2>3, UnionReads
      <3>2. y = x
        BY <2>3, <2>4, <3>1
      <3>3. QED BY <2>1, <2>2, <3>1, <3>2
    <2>7. \A i, j \in H : b[i] = b[j] => i = j
      BY <2>2
    <2>8. b \in [H -> D]
      BY <2>2, <2>5
    <2>9. \A i \in H : Row[args.keys[i]][x] \in Int
      <3> SUFFICES ASSUME NEW i \in H
                   PROVE  Row[args.keys[i]][x] \in Int
        OBVIOUS
      <3>1. PICK k \in Keys : k = args.keys[i] /\ x \in DOMAIN Row[k]
        BY <2>1, ZSetsAssumption DEF Holders
      <3>2. QED BY <3>1, RowIsInt
    <2>10. Aggregate(args.agg, value) = ZSets!Combined(args, x)
      <3>1. \A i \in H : value[b[i]] = Weight(args, i) * Row[args.keys[i]][x]
        BY <2>5
      <3>2. QED BY <2>1, <2>2, <2>6, <2>7, <2>8, <2>9, <3>1, AggregateIs
    <2>11. QED BY <2>1, <2>10
  <1>3. QED BY <1>1, <1>2, Zenon DEF ZSets!Union

\* ZInterstore reads the members that all sources have.
LEMMA InterReads ==
  ASSUME ZSetsInv, raced = {}, scoreRaced = {}, snapshot # NoSnapshot,
         NEW args \in StoreArgs, NEW r
  PROVE  /\ r \in InterRead(args) <=>
              \E x : Holders(args, x) = DOMAIN args.keys /\ r = SourceRecord(args, 1, x)
         /\ r \in InterRead(args) =>
              \A i \in DOMAIN args.keys : InterValue(args, r)[i] =
                Weight(args, i) * Row[args.keys[i]][r[3][2]]
  <1>1. \A x : SourceRecord(args, 1, x)[3][2] = x /\ SourceRecord(args, 1, x)[3][1] = Row[args.keys[1]][x]
    BY DEF SourceRecord
  <1>2. 1 \in DOMAIN args.keys /\ \A i \in DOMAIN args.keys : args.keys[i] \in Keys
    BY ZSetsAssumption
  <1>3. CASE \A i \in DOMAIN args.keys : SnapshotLive(args.keys[i])
    <2>1. ASSUME NEW i \in DOMAIN args.keys, NEW x
          PROVE  /\ SnapshotRow(args, i, x) \in snapshot.data <=> i \in Holders(args, x)
                 /\ i \in Holders(args, x) =>
                      snapshot.score[SnapshotRow(args, i, x)] = Row[args.keys[i]][x]
      <3>1. PICK k \in Keys : k = args.keys[i] /\ SnapshotLive(k)
        BY <1>2, <1>3
      <3>2. PICK v, c : v = meta[k].version /\ c = Row[k]
        OBVIOUS
      <3>3. /\ snapshot.meta[k].version = v
            /\ <<k, v, x>> \in snapshot.data <=> x \in DOMAIN c
            /\ x \in DOMAIN c => snapshot.score[<<k, v, x>>] = c[x]
        BY <3>1, <3>2, SnapshotFinds
      <3>4. SnapshotRow(args, i, x) = <<k, v, x>>
        BY <3>1, <3>3 DEF SnapshotRow
      <3>5. QED BY <3>1, <3>2, <3>3, <3>4 DEF Holders
    <2>2. r \in SnapshotWalk(args.keys[1]) <=>
            \E x : 1 \in Holders(args, x) /\ r = SourceRecord(args, 1, x)
      <3>1. PICK k \in Keys : k = args.keys[1] /\ SnapshotLive(k)
        BY <1>2, <1>3
      <3>2. PICK v, c : v = meta[k].version /\ c = Row[k]
        OBVIOUS
      <3>3. SnapshotWalk(k) = Scored(k, v, DOMAIN c, c)
        BY <3>1, <3>2, SnapshotFinds
      <3>4. \A x : SourceRecord(args, 1, x) = <<k, v, <<c[x], x>>>>
        BY <3>1, <3>2 DEF SourceRecord
      <3>5. \A x : 1 \in Holders(args, x) <=> x \in DOMAIN c
        BY <1>2, <3>1, <3>2 DEF Holders
      <3>6. QED BY <3>1, <3>3, <3>4, <3>5 DEF Scored
    <2>3. r \in InterRead(args) <=>
            \E x : /\ 1 \in Holders(args, x) /\ r = SourceRecord(args, 1, x)
                   /\ \A i \in DOMAIN args.keys \ {1} : i \in Holders(args, x)
      <3>1. r \in InterRead(args) <=>
              /\ r \in SnapshotWalk(args.keys[1])
              /\ \A i \in DOMAIN args.keys \ {1} :
                   SnapshotRow(args, i, r[3][2]) \in snapshot.data
        BY <1>3 DEF InterRead
      <3>2. (\A i \in DOMAIN args.keys \ {1} : SnapshotRow(args, i, r[3][2]) \in snapshot.data)
              <=> \A i \in DOMAIN args.keys \ {1} : i \in Holders(args, r[3][2])
        BY <2>1
      <3>3. QED BY <1>1, <2>2, <3>1, <3>2
    <2>4. \A x : Holders(args, x) = DOMAIN args.keys <=>
             1 \in Holders(args, x) /\ \A i \in DOMAIN args.keys \ {1} : i \in Holders(args, x)
      BY <1>2 DEF Holders
    <2>5. r \in InterRead(args) <=>
            \E x : Holders(args, x) = DOMAIN args.keys /\ r = SourceRecord(args, 1, x)
      BY <2>3, <2>4
    <2>6. ASSUME r \in InterRead(args), NEW i \in DOMAIN args.keys
          PROVE  InterValue(args, r)[i] = Weight(args, i) * Row[args.keys[i]][r[3][2]]
      <3>1. PICK x : Holders(args, x) = DOMAIN args.keys /\ r = SourceRecord(args, 1, x)
        BY <2>5, <2>6
      <3>2. r[3][2] = x /\ r[3][1] = Row[args.keys[1]][x]
        BY <1>1, <3>1
      <3>3. snapshot.score[SnapshotRow(args, i, x)] = Row[args.keys[i]][x]
        BY <2>1, <3>1
      <3>4. InterValue(args, r)[i] =
              Weight(args, i) * (IF i = 1 THEN r[3][1]
                                 ELSE snapshot.score[SnapshotRow(args, i, r[3][2])])
        BY DEF InterValue
      <3>5. QED BY <3>2, <3>3, <3>4
    <2>7. QED BY <2>5, <2>6
  <1>4. CASE ~\A i \in DOMAIN args.keys : SnapshotLive(args.keys[i])
    <2>1. PICK i \in DOMAIN args.keys : ~SnapshotLive(args.keys[i])
      BY <1>4
    <2>2. DOMAIN Row[args.keys[i]] = {}
      BY <1>2, <2>1, SnapshotIsCurrent, DeadSeen
    <2>3. \A x : i \notin Holders(args, x)
      BY <2>2 DEF Holders
    <2>4. InterRead(args) = {}
      BY <1>4 DEF InterRead
    <2>5. QED BY <2>3, <2>4
  <1>5. QED BY <1>3, <1>4

\* ZInterstore computes the intersection of the sources, the scores weighted and
\* combined.
LEMMA InterIs ==
  ASSUME ZSetsInv, raced = {}, scoreRaced = {}, snapshot # NoSnapshot,
         NEW args \in StoreArgs, NEW f, Intersects(args, f)
  PROVE  f = ZSets!Inter(args)
  <1>1. PICK X : /\ X = {r[3][2] : r \in InterRead(args)} /\ f = [x \in X |-> f[x]]
                 /\ \A r \in InterRead(args) :
                      f[r[3][2]] = Aggregate(args.agg, InterValue(args, r))
    BY DEF Intersects, IsScoring
  <1>2. \A x : SourceRecord(args, 1, x)[3][2] = x
    BY DEF SourceRecord
  <1>3. \A x : x \in X <=> Holders(args, x) = DOMAIN args.keys
    <2>1. ASSUME NEW x, Holders(args, x) = DOMAIN args.keys
          PROVE  x \in X
      <3>1. PICK r : r = SourceRecord(args, 1, x)
        OBVIOUS
      <3>2. r \in InterRead(args)
        BY <2>1, <3>1, InterReads
      <3>3. QED BY <1>1, <1>2, <3>1, <3>2
    <2>2. ASSUME NEW r \in InterRead(args)
          PROVE  Holders(args, r[3][2]) = DOMAIN args.keys
      <3>1. PICK x : Holders(args, x) = DOMAIN args.keys /\ r = SourceRecord(args, 1, x)
        BY InterReads
      <3>2. QED BY <1>2, <3>1
    <2>3. QED BY <1>1, <2>1, <2>2
  <1>4. X = {x \in UNION ZSets!Sources(args) : \A D \in ZSets!Sources(args) : x \in D}
    <2>1. \A x : Holders(args, x) = DOMAIN args.keys => Holders(args, x) # {}
      BY ZSetsAssumption
    <2>2. QED BY <1>3, <2>1, SourcesAre
  <1>5. ASSUME NEW x \in X
        PROVE  f[x] = ZSets!Combined(args, x)
    <2>1. PICK r \in InterRead(args) : r[3][2] = x
      BY <1>1, <1>5
    <2>2. PICK H, value : H = Holders(args, x) /\ value = InterValue(args, r)
      OBVIOUS
    <2>3. H = DOMAIN args.keys /\ DOMAIN value = H
      BY <1>3, <2>2 DEF InterValue
    <2>4. PICK D, b : D = DOMAIN value /\ b \in [H -> D] /\ b = [i \in H |-> i]
      BY <2>3
    <2>5. \A i \in H : value[b[i]] = Weight(args, i) * Row[args.keys[i]][x]
      BY <2>1, <2>2, <2>3, <2>4, InterReads
    <2>6. \A i \in H : Row[args.keys[i]][x] \in Int
      <3> SUFFICES ASSUME NEW i \in H
                   PROVE  Row[args.keys[i]][x] \in Int
        OBVIOUS
      <3>1. PICK k \in Keys : k = args.keys[i] /\ x \in DOMAIN Row[k]
        BY <2>2, ZSetsAssumption DEF Holders
      <3>2. QED BY <3>1, RowIsInt
    <2>7. Aggregate(args.agg, value) = ZSets!Combined(args, x)
      <3>1. /\ \A i, j \in H : b[i] = b[j] => i = j
            /\ \A e \in D : \E i \in H : b[i] = e
        BY <2>3, <2>4
      <3>2. QED BY <2>2, <2>4, <2>5, <2>6, <3>1, AggregateIs
    <2>8. QED BY <1>1, <2>1, <2>2, <2>7
  <1>6. f = [x \in X |-> ZSets!Combined(args, x)]
    BY <1>1, <1>5
  <1>7. QED BY <1>4, <1>6, Zenon DEF ZSets!Inter

\* The two store what the promise says.
LEMMA StoresDo ==
  ASSUME ZSetsInv, raced = {}, scoreRaced = {}, raced' = {}, scoreRaced' = {},
         snapshot # NoSnapshot, snapshot.dst \in Keys, NEW args \in StoreArgs
  PROVE  /\ ZUnionstore(args) => ZSets!UnionStore(snapshot.dst, args)
         /\ ZInterstore(args) => ZSets!InterStore(snapshot.dst, args)
  <1>1. ASSUME ZUnionstore(args)
        PROVE  ZSets!UnionStore(snapshot.dst, args)
    <2>1. PICK f : /\ f = [x \in {e[2][3][2] : e \in UnionRead(args)} |->
                              Aggregate(args.agg, UnionValue(args, x))]
                   /\ ZSets!Become(snapshot.dst, f, 0)
      BY <1>1, ZUnionstoreInv
    <2>2. f = ZSets!Union(args)
      BY <2>1, UnionIs
    <2>3. QED BY <2>1, <2>2, Zenon DEF ZSets!UnionStore
  <1>2. ASSUME ZInterstore(args)
        PROVE  ZSets!InterStore(snapshot.dst, args)
    <2>1. PICK f : Intersects(args, f) /\ ZSets!Become(snapshot.dst, f, 0)
      BY <1>2, ZInterstoreInv
    <2>2. f = ZSets!Inter(args)
      BY <2>1, InterIs
    <2>3. QED BY <2>1, <2>2, Zenon DEF ZSets!InterStore
  <1>3. QED BY <1>1, <1>2
----------------------------------------------------------------------------
(* What is seen of the steps that write no record.                          *)

\* A sorted set that is seen after such a step is the one that was seen before.
LEMMA UpkeepSeen ==
  ASSUME ZSetsInv, Upkeep, NEW j \in Keys
  PROVE  Contents(j)' = IF Visible(j)' = {} THEN ZSets!Nothing ELSE Contents(j)
  <1>1. CASE Visible(j)' = {}
    BY <1>1 DEF Contents, ZSets!Nothing
  <1>2. CASE Visible(j)' # {}
    <2>1. Live(j)'
      BY <1>2 DEF Visible
    <2>2. Fresh(j)' /\ meta'[j].count # 0
      BY <2>1 DEF Live, IsLive, Fresh
    <2>3. /\ Fresh(j) /\ meta[j] # NoMeta
          /\ meta'[j].version = meta[j].version /\ meta'[j].count = meta[j].count
          /\ StoredIn(data', j, meta[j].version) = StoredIn(data, j, meta[j].version)
          /\ data' \subseteq data /\ score' = [rec \in data' |-> score[rec]]
      BY <2>2 DEF Upkeep, FollowsOn, Fresh
    <2>4. Live(j)
      BY <2>2, <2>3 DEF Live, IsLive, Fresh
    <2>5. PICK v : v = meta[j].version /\ v = meta'[j].version
      BY <2>3
    <2>6. Visible(j) = StoredIn(data, j, v) /\ Visible(j)' = StoredIn(data, j, v)
      BY <2>1, <2>3, <2>4, <2>5 DEF Visible, Stored, StoredIn
    <2>7. \A x \in StoredIn(data, j, v) : score'[<<j, v, x>>] = score[<<j, v, x>>]
      BY <2>3, <2>5 DEF StoredIn
    <2>8. /\ Contents(j) = [x \in StoredIn(data, j, v) |-> score[<<j, v, x>>]]
          /\ Contents(j)' = [x \in StoredIn(data, j, v) |-> score'[<<j, v, x>>]]
      BY <2>5, <2>6 DEF Contents
    <2>9. Contents(j)' = Contents(j)
      BY <2>7, <2>8
    <2>10. QED BY <1>2, <2>9
  <1>3. QED BY <1>1, <1>2

\* A key holds nothing that has no members.
LEMMA NothingSeen ==
  ASSUME NEW j \in Keys
  PROVE  Contents(j) = ZSets!Nothing <=> Visible(j) = {}
  <1>1. DOMAIN Contents(j) = Visible(j) /\ DOMAIN ZSets!Nothing = {}
    BY DEF Contents, ZSets!Nothing
  <1>2. Visible(j) = {} => Contents(j) = ZSets!Nothing
    BY DEF Contents, ZSets!Nothing
  <1>3. QED BY <1>1, <1>2

\* So what the promise says of the members holds of the scoring.
LEMMA UpkeepPromised ==
  ASSUME ZSetsInv, Upkeep
  PROVE  /\ \A k \in Keys : /\ Promise!SetDeadline(k) => ZSets!SetDeadline(k)
                            /\ Promise!Replace(k, {}) => ZSets!Delete({k})
         /\ Promise!Tick => ZSets!Tick
         /\ Seen' = Seen => Row' = Row
  <1>1. \A j \in Keys :
          Row'[j] = IF Visible(j)' = {} THEN ZSets!Nothing ELSE Row[j]
    BY UpkeepSeen DEF Row
  <1>2. \A j \in Keys : Row[j] = ZSets!Nothing <=> Seen[j] = {}
    BY NothingSeen DEF Row, Seen
  <1>3. /\ Row' = [j \in Keys |-> Row'[j]] /\ Row = [j \in Keys |-> Row[j]]
        /\ Seen' = [j \in Keys |-> Visible(j)'] /\ Seen = [j \in Keys |-> Seen[j]]
        /\ Due' = [j \in Keys |-> Due'[j]] /\ Due = [j \in Keys |-> Due[j]]
    BY DEF Row, Seen, Due
  <1>4. \A j \in Keys : Seen'[j] = Visible(j)'
    BY <1>3
  <1>5. Seen' = Seen => Row' = Row
    <2> SUFFICES ASSUME Seen' = Seen
                 PROVE  Row' = Row
      OBVIOUS
    <2>1. \A j \in Keys : Row'[j] = Row[j]
      BY <1>1, <1>2, <1>4
    <2>2. QED BY <1>3, <2>1
  <1>6. ASSUME NEW k \in Keys, Promise!SetDeadline(k)
        PROVE  ZSets!SetDeadline(k)
    <2>1. /\ Seen[k] # {} /\ Due' \in [Keys -> Nat]
          /\ Due'[k] = 0 \/ Due'[k] >= now
          /\ \A j \in Keys \ {k} : Due'[j] = Due[j]
          /\ Seen' = Seen /\ now' = now
      BY <1>6 DEF Promise!SetDeadline, Seen, Due
    <2>2. Row[k] # ZSets!Nothing /\ Row' = Row
      BY <1>2, <1>5, <2>1
    <2>3. QED BY <2>1, <2>2, Zenon DEF ZSets!SetDeadline, Row, Due
  <1>7. ASSUME NEW k \in Keys, Promise!Replace(k, {})
        PROVE  ZSets!Delete({k})
    <2>1. /\ Seen' = [Seen EXCEPT ![k] = {}] /\ Due' = [Due EXCEPT ![k] = 0]
          /\ now' = now
      BY <1>7 DEF Promise!Replace, Promise!Become, Seen, Due
    <2>2. \A j \in Keys : Visible(j)' = IF j \in {k} THEN {} ELSE Seen[j]
      BY <1>3, <1>4, <2>1
    <2>3. \A j \in Keys : /\ Row'[j] = IF j \in {k} THEN ZSets!Nothing ELSE Row[j]
                          /\ Due'[j] = IF j \in {k} THEN 0 ELSE Due[j]
      <3> SUFFICES ASSUME NEW j \in Keys
                   PROVE  /\ Row'[j] = IF j \in {k} THEN ZSets!Nothing ELSE Row[j]
                          /\ Due'[j] = IF j \in {k} THEN 0 ELSE Due[j]
        OBVIOUS
      <3>1. Row'[j] = IF j \in {k} THEN ZSets!Nothing ELSE Row[j]
        BY <1>1, <1>2, <2>2
      <3>2. Due'[j] = IF j \in {k} THEN 0 ELSE Due[j]
        BY <1>3, <2>1
      <3>3. QED BY <3>1, <3>2
    <2>4. /\ Row' = [j \in Keys |-> IF j \in {k} THEN ZSets!Nothing ELSE Row[j]]
          /\ Due' = [j \in Keys |-> IF j \in {k} THEN 0 ELSE Due[j]]
      BY <1>3, <2>3
    <2>5. QED BY <2>1, <2>4, Zenon DEF ZSets!Delete, Row, Due
  <1>8. ASSUME Promise!Tick
        PROVE  ZSets!Tick
    <2> DEFINE over == {j \in Keys : Due[j] # 0 /\ Due[j] < now + 1}
    <2>1. /\ now' = now + 1
          /\ Seen' = [j \in Keys |-> IF j \in over THEN {} ELSE Seen[j]]
          /\ Due' = [j \in Keys |-> IF j \in over THEN 0 ELSE Due[j]]
      BY <1>8, Zenon DEF Promise!Tick, Seen, Due
    <2> HIDE DEF over
    <2>2. \A j \in Keys : Visible(j)' = IF j \in over THEN {} ELSE Seen[j]
      BY <1>4, <2>1
    <2>3. \A j \in Keys : Row'[j] = IF j \in over THEN ZSets!Nothing ELSE Row[j]
      BY <1>1, <1>2, <2>2
    <2>4. Row' = [j \in Keys |-> IF j \in over THEN ZSets!Nothing ELSE Row[j]]
      BY <1>3, <2>3
    <2>5. QED BY <2>1, <2>4, Zenon DEF ZSets!Tick, Row, Due, over
  <1>9. QED BY <1>5, <1>6, <1>7, <1>8

\* ZExpire, ZExpireat, ZPersist and ZDel.
LEMMA ZExpiryDoes ==
  ASSUME ZSetsInv, raced = {}, scoreRaced = {}, raced' = {}, scoreRaced' = {},
         NEW k \in Keys,
         \/ \E ttl \in Ttls : ZExpire(k, ttl)
         \/ \E ts \in Timestamps : ZExpireat(k, ts)
         \/ ZPersist(k)
         \/ ZDel(k)
  PROVE  /\ ZSets!SetDeadline(k) \/ ZSets!Delete({k})
         /\ ZDel(k) => ZSets!Delete({k})
  <1>1. Kept /\ Upkeep
    BY ZExpiryInv
  <1>2. StoreInv /\ StoreInv'
    BY <1>1 DEF Kept, ZSetsInv
  <1>3. \/ \E ttl \in Ttls : Expire(k, ttl)
        \/ \E ts \in Timestamps : Expireat(k, ts)
        \/ Persist(k)
        \/ Del(k)
    BY DEF ZExpire, ZExpireat, ZPersist, ZDel
  <1>4. Promise!SetDeadline(k) \/ Promise!Replace(k, {})
    BY <1>2, <1>3, ExpiryPromised
  <1>5. ZDel(k) => Promise!Replace(k, {})
    BY <1>2, RenewPromised DEF ZDel, Del
  <1>6. QED BY <1>1, <1>4, <1>5, UpkeepPromised

\* Time passes in the promise too; compaction is no step of it.
LEMMA ZMaintenanceDoes ==
  ASSUME ZSetsInv, raced = {}, scoreRaced = {}, raced' = {}, scoreRaced' = {},
         ZMaintenance
  PROVE  ZSets!Tick \/ (Row' = Row /\ Due' = Due /\ now' = now)
  <1>1. Kept /\ Upkeep
    BY ZMaintenanceInv
  <1>2. StoreInv /\ StoreInv'
    BY <1>1 DEF Kept, ZSetsInv
  <1>3. CASE Maintenance
    <2>1. Promise!Tick \/ (Seen' = Seen /\ Due' = Due /\ now' = now)
      BY <1>2, <1>3, BackgroundPromised DEF Background
    <2>2. QED BY <1>1, <2>1, UpkeepPromised
  <1>4. CASE ScoreCompaction
    <2>1. meta' = meta /\ data' = data /\ now' = now /\ score' = score
      BY <1>4 DEF ScoreCompaction, S!CompactionStart, S!FilterRecord, S!CompactionInstall
    <2>2. \A j \in Keys : Visible(j)' = Visible(j)
      BY <2>1 DEF Visible, Live, Stored
    <2>3. QED BY <2>1, <2>2 DEF Row, Contents, Due
  <1>5. QED BY <1>3, <1>4 DEF ZMaintenance, MemberCompaction, Maintenance
----------------------------------------------------------------------------
(* The commands, and the refinement.                                        *)

\* Each command does to the scorings what it promises.
THEOREM ZSetsDoAsPromised == UnracedSpec => HandlersDoAsPromised
  <1> DEFINE OfKey(k) ==
           /\ \A f \in Scorings : ZAdd(k, f) => ZSets!Add(k, f)
           /\ \A x \in Members, by \in Increments :
                ZIncrby(k, x, by) => ZSets!Incrby(k, x, by)
           /\ \A X \in SUBSET Members : ZRem(k, X) => ZSets!Remove(k, X)
           /\ \A n \in 1 .. Cardinality(Members) :
                /\ ZPopMin(k, n) => ZSets!PopMin(k, n)
                /\ ZPopMax(k, n) => ZSets!PopMax(k, n)
           /\ \A start, stop \in Indexes :
                ZRemrangebyrank(k, start, stop) => ZSets!RemoveByRank(k, start, stop)
           /\ \A interval \in Intervals :
                ZRemrangebyscore(k, interval) => ZSets!RemoveByScore(k, interval)
           /\ ZDel(k) => ZSets!Delete({k})
         OfPattern == \A K \in SUBSET Keys : PKPatternMatchDel(K) => ZSets!Delete(K)
         OfStores ==
           /\ \A args \in StoreArgs :
                /\ ZUnionstore(args) => ZSets!UnionStore(snapshot.dst, args)
                /\ ZInterstore(args) => ZSets!InterStore(snapshot.dst, args)
           /\ \A interval \in LexIntervals :
                ZRemrangebylex(interval) => ZSets!RemoveByLex(snapshot.dst, interval)
         Does == <<meta, score>>' # <<meta, score>> =>
           /\ snapshot = NoSnapshot => \A k \in Keys : OfKey(k)
           /\ snapshot # NoSnapshot /\ snapshot.dst = NoKey => OfPattern
           /\ snapshot # NoSnapshot /\ snapshot.dst \in Keys => OfStores
         Step == ((snapshot = NoSnapshot /\ Handlers) \/ Others) /\ Unraced
         Inv == ZSetsInv /\ raced = {} /\ scoreRaced = {}
  <1>1. ASSUME Inv, raced' = {}, scoreRaced' = {}, NEW k \in Keys
        PROVE  OfKey(k)
    <2>1. \A f \in Scorings : ZAdd(k, f) => ZSets!Add(k, f)
      BY <1>1, ZAddInv
    <2>2. \A x \in Members, by \in Increments : ZIncrby(k, x, by) => ZSets!Incrby(k, x, by)
      BY <1>1, ZIncrbyInv
    <2>3. \A X \in SUBSET Members : ZRem(k, X) => ZSets!Remove(k, X)
      BY <1>1, ZRemInv
    <2>4. \A n \in 1 .. Cardinality(Members) :
            /\ ZPopMin(k, n) => ZSets!PopMin(k, n)
            /\ ZPopMax(k, n) => ZSets!PopMax(k, n)
      <3>1. Cardinality(Members) \in Nat
        BY StoreAssumption, FS_CardinalityType
      <3>2. \A n \in 1 .. Cardinality(Members) : n \in Nat
        BY <3>1
      <3>3. QED BY <1>1, <3>2, ZPopsDo
    <2>5. /\ \A start, stop \in Indexes :
               ZRemrangebyrank(k, start, stop) => ZSets!RemoveByRank(k, start, stop)
          /\ \A interval \in Intervals :
               ZRemrangebyscore(k, interval) => ZSets!RemoveByScore(k, interval)
      BY <1>1, ZRemrangesDo
    <2>6. ZDel(k) => ZSets!Delete({k})
      BY <1>1, ZExpiryDoes
    <2>7. QED BY <2>1, <2>2, <2>3, <2>4, <2>5, <2>6
  <1>2. ASSUME Inv, raced' = {}, scoreRaced' = {}, <<meta, score>>' # <<meta, score>>
        PROVE  /\ snapshot # NoSnapshot /\ snapshot.dst = NoKey => OfPattern
               /\ snapshot # NoSnapshot /\ snapshot.dst \in Keys => OfStores
    <2>1. ASSUME snapshot # NoSnapshot, NEW K \in SUBSET Keys, PKPatternMatchDel(K)
          PROVE  ZSets!Delete(K)
      BY <1>2, <2>1, PKPatternMatchDelInv
    <2>2. ASSUME snapshot # NoSnapshot, snapshot.dst \in Keys, NEW args \in StoreArgs
          PROVE  /\ ZUnionstore(args) => ZSets!UnionStore(snapshot.dst, args)
                 /\ ZInterstore(args) => ZSets!InterStore(snapshot.dst, args)
      BY <1>2, <2>2, StoresDo
    <2>3. ASSUME snapshot # NoSnapshot, snapshot.dst \in Keys,
                 NEW interval \in LexIntervals, ZRemrangebylex(interval)
          PROVE  ZSets!RemoveByLex(snapshot.dst, interval)
      <3>1. PICK k \in Keys : k = snapshot.dst
        BY <2>3
      <3>2. ZSets!RemoveByLex(k, interval) \/ UNCHANGED <<storeVars, scoreVars>>
        BY <1>2, <2>3, <3>1, ZRemrangebylexDoes
      <3>3. ZSets!RemoveByLex(k, interval)
        BY <1>2, <3>2 DEF storeVars, scoreVars
      <3>4. QED BY <3>1, <3>3 DEF ZSets!RemoveByLex, ZSets!Remove, ZSets!Become
    <2>4. QED BY <2>1, <2>2, <2>3
  <1> HIDE DEF OfKey, OfPattern, OfStores
  <1>3. Inv /\ [Step]_zsetsVars => [Does]_zsetsVars
    BY <1>1, <1>2 DEF Unraced
  <1>4. Inv /\ [Step]_zsetsVars => Inv'
    BY ZSetsStep, ZSetsStutter
  <1>5. ZSetsInit => Inv
    BY ZSetsInitInv
  <1>6. UnracedSpec => [][Does]_zsetsVars
    BY <1>3, <1>4, <1>5, PTL DEF UnracedSpec
  <1>7. QED BY <1>6, PTL DEF HandlersDoAsPromised, OfKey, OfPattern, OfStores

\* A handler of one key is a step of the map of scorings.
LEMMA HandlerDoes ==
  ASSUME ZSetsInv, raced = {}, scoreRaced = {}, raced' = {}, scoreRaced' = {},
         NEW k \in Keys, Handler(k)
  PROVE  ZSets!Next
  <1>1. ASSUME NEW f \in Scorings, ZSets!Add(k, f)
        PROVE  ZSets!Next
    BY <1>1, Zenon DEF ZSets!Next, ZSets!Command
  <1>2. ASSUME NEW X \in SUBSET Members, ZSets!Remove(k, X)
        PROVE  ZSets!Next
    BY <1>2, Zenon DEF ZSets!Next, ZSets!Command
  <1>3. DOMAIN Row[k] \in SUBSET Members
    BY DEF Row, Contents, Visible, Stored
  <1>4. ASSUME NEW f \in Scorings, ZAdd(k, f)
        PROVE  ZSets!Next
    BY <1>1, <1>4, ZAddInv
  <1>5. ASSUME NEW x \in Members, NEW by \in Increments, ZIncrby(k, x, by)
        PROVE  ZSets!Next
    <2>1. Kept /\ ZSets!Incrby(k, x, by)
      BY <1>5, ZIncrbyInv
    <2>2. PICK f : /\ f = [y \in {x} |-> IF x \in DOMAIN Row[k] THEN Row[k][x] + by ELSE by]
                   /\ ZSets!Add(k, f)
      BY <2>1, Zenon DEF ZSets!Incrby, Row
    <2>3. Row' = [Row EXCEPT ![k] = [y \in DOMAIN f \cup DOMAIN Row[k] |->
                                       IF y \in DOMAIN f THEN f[y] ELSE Row[k][y]]]
      BY <2>2, Zenon DEF ZSets!Add, ZSets!Become, Row
    <2>4. x \in DOMAIN Row'[k] /\ Row'[k][x] = f[x]
      BY <2>2, <2>3 DEF Row
    <2>5. Row'[k][x] \in Scores
      <3>1. Row'[k] = Contents(k)'
        BY DEF Row
      <3>2. /\ x \in Visible(k)'
            /\ Row'[k][x] = score'[<<k, meta'[k].version, x>>]
        BY <2>4, <3>1 DEF Contents
      <3>3. <<k, meta'[k].version, x>> \in data'
        BY <3>2 DEF Visible, Stored
      <3>4. QED BY <2>1, <3>2, <3>3 DEF Kept
    <2>6. f \in Scorings
      <3>1. f \in [{x} -> Scores]
        BY <2>2, <2>4, <2>5
      <3>2. {x} \in (SUBSET Members) \ {{}}
        OBVIOUS
      <3>3. QED BY <3>1, <3>2 DEF Scorings
    <2>7. QED BY <1>1, <2>2, <2>6
  <1>6. ASSUME NEW X \in SUBSET Members, ZRem(k, X)
        PROVE  ZSets!Next
    BY <1>2, <1>6, ZRemInv
  <1>7. ASSUME NEW n \in 1 .. Cardinality(Members), ZPopMax(k, n) \/ ZPopMin(k, n)
        PROVE  ZSets!Next
    <2>1. n \in Nat
      <3>1. Cardinality(Members) \in Nat
        BY StoreAssumption, FS_CardinalityType
      <3>2. QED BY <3>1
    <2>2. ZSets!PopMin(k, n) \/ ZSets!PopMax(k, n)
      BY <1>7, <2>1, ZPopsDo
    <2>3. PICK X \in SUBSET DOMAIN Row[k] : ZSets!Remove(k, X)
      BY <2>2, Zenon DEF ZSets!PopMin, ZSets!PopMax, Row
    <2>4. QED BY <1>2, <1>3, <2>3
  <1>8. ASSUME NEW start \in Indexes, NEW stop \in Indexes, ZRemrangebyrank(k, start, stop)
        PROVE  ZSets!Next
    <2>1. ZSets!RemoveByRank(k, start, stop)
      BY <1>8, ZRemrangesDo
    <2>2. PICK X \in SUBSET DOMAIN Row[k] : ZSets!Remove(k, X)
      BY <2>1, Zenon DEF ZSets!RemoveByRank, ZSets!ByRank, Row
    <2>3. QED BY <1>2, <1>3, <2>2
  <1>9. ASSUME NEW interval \in Intervals, ZRemrangebyscore(k, interval)
        PROVE  ZSets!Next
    <2>1. ZSets!RemoveByScore(k, interval)
      BY <1>9, ZRemrangesDo
    <2>2. PICK X \in SUBSET DOMAIN Row[k] : ZSets!Remove(k, X)
      BY <2>1, Zenon DEF ZSets!RemoveByScore, ZSets!ByScore, Row
    <2>3. QED BY <1>2, <1>3, <2>2
  <1>10. CASE \/ \E ttl \in Ttls : ZExpire(k, ttl)
              \/ \E ts \in Timestamps : ZExpireat(k, ts)
              \/ ZPersist(k)
              \/ ZDel(k)
    <2>1. ZSets!SetDeadline(k) \/ ZSets!Delete({k})
      BY <1>10, ZExpiryDoes
    <2>2. {k} \in SUBSET Keys
      OBVIOUS
    <2>3. QED BY <2>1, <2>2, Zenon DEF ZSets!Next, ZSets!Command
  <1>11. QED BY <1>4, <1>5, <1>6, <1>7, <1>8, <1>9, <1>10 DEF Handler

\* So is a call that writes from its snapshot, unless it finds nothing to delete.
LEMMA FromSnapshotDoes ==
  ASSUME ZSetsInv, raced = {}, scoreRaced = {}, raced' = {}, scoreRaced' = {},
         FromSnapshot
  PROVE  ZSets!Next \/ UNCHANGED <<storeVars, scoreVars>>
  <1>1. snapshot # NoSnapshot /\ snapshot.dst \in Keys \cup {NoKey}
    BY DEF FromSnapshot, ZSetsInv, ZSetsTypeOK
  <1>2. CASE snapshot.dst = NoKey
    <2>1. PICK K \in SUBSET Keys : PKPatternMatchDel(K)
      BY <1>2 DEF FromSnapshot
    <2>2. ZSets!Delete(K)
      BY <1>1, <2>1, PKPatternMatchDelInv
    <2>3. QED BY <2>2, Zenon DEF ZSets!Next
  <1>3. ASSUME NEW args \in StoreArgs, ZUnionstore(args) \/ ZInterstore(args),
               snapshot.dst \in Keys
        PROVE  ZSets!Next
    <2>1. ZSets!UnionStore(snapshot.dst, args) \/ ZSets!InterStore(snapshot.dst, args)
      BY <1>1, <1>3, StoresDo
    <2>2. PICK k \in Keys : k = snapshot.dst
      BY <1>3
    <2>3. ZSets!UnionStore(k, args) \/ ZSets!InterStore(k, args)
      BY <2>1, <2>2, Zenon DEF ZSets!UnionStore, ZSets!InterStore, ZSets!Become
    <2>4. QED BY <2>3, Zenon DEF ZSets!Next, ZSets!Command
  <1>4. ASSUME NEW interval \in LexIntervals, ZRemrangebylex(interval),
               snapshot.dst \in Keys
        PROVE  ZSets!Next \/ UNCHANGED <<storeVars, scoreVars>>
    <2>1. PICK k \in Keys : k = snapshot.dst
      BY <1>4
    <2>2. CASE ZSets!RemoveByLex(k, interval)
      <3>1. PICK X \in SUBSET DOMAIN Row[k] : ZSets!Remove(k, X)
        BY <2>2, Zenon DEF ZSets!RemoveByLex, ZSets!ByLex, Row
      <3>2. X \in SUBSET Members
        BY <3>1 DEF Row, Contents, Visible, Stored
      <3>3. QED BY <3>1, <3>2, Zenon DEF ZSets!Next, ZSets!Command
    <2>3. QED BY <1>1, <1>4, <2>1, <2>2, ZRemrangebylexDoes
  <1>5. QED BY <1>1, <1>2, <1>3, <1>4 DEF FromSnapshot

\* A reader cannot tell RedisZSets from a map of scorings that expire, as long as
\* a snapshot stays current and no TTL is lifted or prolonged while a filter
\* remembers the old one.
THEOREM ZSetsKeepPromise == UnracedSpec => KeepsZSetPromise
  <1> DEFINE Inv == ZSetsInv /\ raced = {} /\ scoreRaced = {}
             Step == ((snapshot = NoSnapshot /\ Handlers) \/ Others) /\ Unraced
  <1>1. ZSetsInit => Inv
    BY ZSetsInitInv
  <1>2. Inv /\ [Step]_zsetsVars => Inv'
    BY ZSetsStep, ZSetsStutter
  <1>3. ZSetsInit => ZSets!Init
    <2> SUFFICES ASSUME ZSetsInit
                 PROVE  ZSets!Init
      OBVIOUS
    <2>1. /\ \A k \in Keys : Visible(k) = {}
          /\ now = 1
      BY DEF ZSetsInit, StoreInit, Visible, Live, IsLive
    <2>2. /\ [k \in Keys |-> Contents(k)] = [k \in Keys |-> ZSets!Nothing]
          /\ Due = [k \in Keys |-> 0]
      BY <2>1, NothingSeen DEF Due
    <2>3. QED BY <2>1, <2>2, Zenon DEF ZSets!Init, Due
  <1>4. Inv /\ [Step]_zsetsVars => [ZSets!Next]_ZSets!zsets
    <2> SUFFICES ASSUME Inv, [Step]_zsetsVars
                 PROVE  ZSets!Next \/ UNCHANGED ZSets!zsets
      OBVIOUS
    <2>1. CASE Row' = Row /\ Due' = Due /\ now' = now
      BY <2>1, Zenon DEF ZSets!zsets, Row, Due
    <2>2. CASE UNCHANGED <<meta, data, now, score>>
      <3>1. \A k \in Keys : Visible(k)' = Visible(k)
        BY <2>2 DEF Visible, Live, Stored
      <3>2. Row' = Row /\ Due' = Due /\ now' = now
        BY <2>2, <3>1 DEF Row, Contents, Due
      <3>3. QED BY <2>1, <3>2
    <2>3. CASE Step
      <3>1. raced' = {} /\ scoreRaced' = {}
        BY <2>3 DEF Unraced
      <3>2. CASE Handlers
        BY <3>1, <3>2, HandlerDoes DEF Handlers
      <3>3. CASE FromSnapshot
        <4>1. ZSets!Next \/ UNCHANGED <<storeVars, scoreVars>>
          BY <3>1, <3>3, FromSnapshotDoes
        <4>2. QED BY <2>2, <4>1 DEF storeVars, scoreVars
      <3>4. CASE ZMaintenance
        <4>1. ZSets!Tick \/ (Row' = Row /\ Due' = Due /\ now' = now)
          BY <3>1, <3>4, ZMaintenanceDoes
        <4>2. CASE ZSets!Tick
          BY <4>2, Zenon DEF ZSets!Next
        <4>3. QED BY <2>1, <4>1, <4>2
      <3>5. CASE \E dst \in Keys \cup {NoKey} : TakeSnapshot(dst)
        BY <2>2, <3>5 DEF TakeSnapshot, storeVars, scoreVars
      <3>6. CASE ZSetsReopen
        BY <2>2, <3>6 DEF ZSetsReopen
      <3>7. ASSUME NEW K \in SUBSET Keys, DeleteBatch(K)
            PROVE  ZSets!Next
        <4>1. ZSets!Delete(K)
          BY <3>1, <3>7, DeleteBatchInv
        <4>2. QED BY <4>1, Zenon DEF ZSets!Next
      <3>8. QED BY <2>3, <3>2, <3>3, <3>4, <3>5, <3>6, <3>7 DEF Others
    <2>4. CASE UNCHANGED zsetsVars
      BY <2>2, <2>4 DEF zsetsVars, scoreVars
    <2>5. QED BY <2>3, <2>4
  <1>5. QED BY <1>1, <1>2, <1>3, <1>4, PTL DEF UnracedSpec, KeepsZSetPromise, ZSets!Spec
=============================================================================
