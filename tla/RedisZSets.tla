------------------------------ MODULE RedisZSets ------------------------------
(***************************************************************************)
(* RedisZSets: a sorted set's members and scores are two column families.   *)
(* The members' is the data of CollectionStore; the scores', ordered by key,*)
(* version, score and member, is a second instance of it over the same meta *)
(* values and clock.  Every handler writes both in one batch; two compactions*)
(* with filters of their own collect them.                                  *)
(*                                                                         *)
(* A handler finds ranks and ranges by walking the score records from the   *)
(* one end of its set for as many records as the meta value counts.         *)
(* ZUnionstore, ZInterstore and ZRemrangebylex take a snapshot before the   *)
(* record lock of the key they write, and PKPatternMatchDel takes no lock.  *)
(***************************************************************************)
EXTENDS CollectionStore, FiniteSetsExt

CONSTANTS
  Scores,       \* the scores of members
  TopScore,     \* the greatest finite double
  LowestScore,  \* the least finite double
  NoMember,     \* the empty member, before all others in byte order
  Intervals, LexIntervals, Indexes, Increments, StoreArgs,
                \* what the callers of ranges, ZIncrby and *store pass
  BatchLimit,   \* BATCH_DELETE_LIMIT, keys that one write renews
  MaxRecords,   \* bound: no more score records than this
  NoSnapshot

\* Backward walks miss the greatest finite score, so no member has it here.
ASSUME ZSetsAssumption ==
  /\ Keys \subseteq Nat
  /\ BatchLimit \in Nat \ {0}
  /\ Members \subseteq Nat
  /\ NoMember \in Int /\ \A x \in Members : NoMember < x
  /\ LowestScore \in Int /\ TopScore \in Int
  /\ Scores \subseteq LowestScore .. TopScore - 1
  /\ \A interval \in Intervals \cup LexIntervals :
       interval.min \in Int /\ interval.max \in Int
  /\ Indexes \subseteq Int
  /\ Increments \subseteq Int
  /\ \A args \in StoreArgs :
       /\ args.agg \in {"SUM", "MIN", "MAX"}
       /\ 1 \in DOMAIN args.keys /\ IsFiniteSet(DOMAIN args.keys)
       /\ \A i \in DOMAIN args.keys : args.keys[i] \in Keys
       /\ \A i \in DOMAIN args.weights : args.weights[i] \in Int

ScoredMembers == Scores \X Members

VARIABLES
  score,       \* the values of the members column family
  scores,      \* the keys of the scores column family: <<key, version, <<score, member>>>>
  scoreFilter, \* the compaction of the scores in progress, if any
  scoreRaced,  \* history: as raced, of the scores' filter
  snapshot     \* what a call has in hand that has yet to lock and write, and
               \* dst, the key it will lock, NoKey for none.  Bound: one at a time

scoreVars == <<score, scores, scoreFilter, scoreRaced>>

zsetsVars == <<meta, data, now, filter, raced, scoreVars, snapshot>>

S == INSTANCE CollectionStore WITH
  data <- scores, filter <- scoreFilter, raced <- scoreRaced,
  Members <- ScoredMembers

ZSetsTypeOK ==
  /\ StoreTypeOK
  /\ S!StoreTypeOK
  /\ IsFiniteSet(data) /\ IsFiniteSet(scores)
  /\ score \in [data -> Scores]
  /\ snapshot # NoSnapshot =>
       /\ snapshot.dst \in Keys \cup {NoKey}
       /\ snapshot.meta \in [Keys -> MetaValue \cup {NoMeta}]
       /\ snapshot.data \in SUBSET DataKey /\ IsFiniteSet(snapshot.data)
       /\ snapshot.scores \in SUBSET S!DataKey /\ IsFiniteSet(snapshot.scores)

ZSetsInit ==
  /\ StoreInit
  /\ S!StoreInit
  /\ score = [r \in {} |-> 0]
  /\ snapshot = NoSnapshot

----------------------------------------------------------------------------
(* The order of the two column families.  (Versions are 32-bit little-endian*)
(* in both: versions a few seconds apart are ordered as numbers unless a    *)
(* carry falls between them.)                                               *)

MemberBefore(q, r) ==
  \/ q[1] < r[1]
  \/ q[1] = r[1] /\ q[2] < r[2]
  \/ q[1] = r[1] /\ q[2] = r[2] /\ q[3] < r[3]

ScoreBefore(q, r) ==
  \/ q[1] < r[1]
  \/ q[1] = r[1] /\ q[2] < r[2]
  \/ q[1] = r[1] /\ q[2] = r[2] /\ q[3][1] < r[3][1]
  \/ q[1] = r[1] /\ q[2] = r[2] /\ q[3][1] = r[3][1] /\ q[3][2] < r[3][2]

\* How many records of S an iterator meets before r, in either direction.
Ahead(R, r) == Cardinality({q \in R : ScoreBefore(q, r)})

Behind(R, r) == Cardinality({q \in R : ScoreBefore(r, q)})

\* The bug of seeking the key without its version.
ForwardUnversioned(R, k, m, n) ==
  LET from  == {r \in R : ~ScoreBefore(r, <<k, 0, <<LowestScore, NoMember>>>>)}
  IN  {r \in from : Ahead(from, r) < n}

\* The first n records from Seek(key, version, lowest, "") on, and the first n
\* back from SeekForPrev(key, version, max, ""): each runs on into records of
\* other versions and keys where n exceeds the set's own.
Forward(R, k, m, n) ==
  LET start == <<k, m.version, <<LowestScore, NoMember>>>>
      from  == {r \in R : ~ScoreBefore(r, start)}
  IN  {r \in from : Ahead(from, r) < n}

Backward(R, k, m, n) ==
  LET start == <<k, m.version, <<TopScore, NoMember>>>>
      upto  == {r \in R : ~ScoreBefore(start, r)}
  IN  {r \in upto : Behind(upto, r) < n}

\* The same over the members column family, from Seek(key, version, "") on.
ForwardByMember(R, k, m, n) ==
  LET from == {r \in R : ~MemberBefore(r, <<k, m.version, NoMember>>)}
  IN  {r \in from : Cardinality({q \in from : MemberBefore(q, r)}) < n}

AboveMin(interval, x) ==
  interval.min < x \/ (interval.leftClose /\ interval.min = x)

BelowMax(interval, x) ==
  x < interval.max \/ (interval.rightClose /\ x = interval.max)

----------------------------------------------------------------------------
(* Reads.  Each returns the records it walks over that qualify; their order *)
(* is the column family's.                                                  *)

Walk(k) == IF Live(k) THEN Forward(scores, k, meta[k], meta[k].count) ELSE {}

Pairs(R) == {r[3] : r \in R}

\* start_index and stop_index.
Clamped(i, count) == IF i >= 0 THEN i ELSE count + i

Low(i) == IF i <= 0 THEN 0 ELSE i

High(i, count) == IF i >= count THEN count - 1 ELSE i

\* The records of a forward walk between two indices.
Between(W, count, start, stop) ==
  {r \in W : /\ Low(Clamped(start, count)) <= Ahead(W, r)
             /\ Ahead(W, r) <= High(Clamped(stop, count), count)}

ZRange(k, start, stop) == Pairs(Between(Walk(k), Length(k), start, stop))

ZRevrange(k, start, stop) ==
  LET count == Length(k)
      low   == Low(IF stop >= 0 THEN count - stop - 1 ELSE -stop - 1)
      high  == High(IF start >= 0 THEN count - start - 1 ELSE -start - 1, count)
      walk  == IF Live(k) THEN Backward(scores, k, meta[k], count - low) ELSE {}
  IN  Pairs({r \in walk : count - 1 - Behind(walk, r) <= high})

\* The walk is broken off at the first record above the interval.
Within(W, interval) ==
  {r \in W : /\ AboveMin(interval, r[3][1])
             /\ \A q \in W : ~ScoreBefore(r, q) => BelowMax(interval, q[3][1])}

ZRangebyscore(k, interval) == Pairs(Within(Walk(k), interval))

ZCount(k, interval) == Cardinality(Within(Walk(k), interval))

ZRevrangebyscore(k, interval) ==
  LET walk == IF Live(k) THEN Backward(scores, k, meta[k], meta[k].count) ELSE {}
  IN  Pairs({r \in walk :
        /\ BelowMax(interval, r[3][1])
        /\ \A q \in walk : ~ScoreBefore(q, r) => AboveMin(interval, q[3][1])})

\* The index of the first record of x that is met; -1 is NotFound.
ZRank(k, x) ==
  LET ranks == {Ahead(Walk(k), r) : r \in {r \in Walk(k) : r[3][2] = x}}
  IN  IF ranks = {} THEN -1 ELSE Min(ranks)

\* The loop runs while left >= 0: one record more than there are members.
ZRevrank(k, x) ==
  LET walk  == IF Live(k) THEN Backward(scores, k, meta[k], meta[k].count + 1) ELSE {}
      ranks == {Behind(walk, r) : r \in {r \in walk : r[3][2] = x}}
  IN  IF ranks = {} THEN -1 ELSE Min(ranks)

ZScore(k, x) == IF x \in Visible(k) THEN score[<<k, meta[k].version, x>>] ELSE NoSnapshot

WithinLex(W, interval) ==
  {r \in W : /\ AboveMin(interval, r[3])
             /\ \A q \in W : ~MemberBefore(r, q) => BelowMax(interval, q[3])}

ZRangebylex(k, interval) ==
  LET walk == IF Live(k) THEN ForwardByMember(data, k, meta[k], meta[k].count) ELSE {}
  IN  Pairs(WithinLex(walk, interval))

ZLexcount(k, interval) == Cardinality(ZRangebylex(k, interval))

----------------------------------------------------------------------------
(* Writes.                                                                  *)

\* One WriteBatch: k's meta value becomes m, the records goneMembers and
\* goneScores are deleted and those of put, score records, are written with
\* their members' records.
Write(k, m, goneMembers, goneScores, put) ==
  LET member(r) == <<r[1], r[2], r[3][2]>>
      rows      == {member(r) : r \in put}
      valueOf(row) == (CHOOSE r \in put : member(r) = row)[3][1]
  IN  /\ m.version <= MaxVersion
      /\ meta' = [meta EXCEPT ![k] = m]
      /\ data' = (data \ goneMembers) \cup rows
      /\ score' = [row \in data' |-> IF row \in rows THEN valueOf(row) ELSE score[row]]
      /\ scores' = (scores \ goneScores) \cup put
      /\ Shadow(goneMembers \cup rows)
      /\ S!Shadow(goneScores \cup put)
      /\ raced' = IF meta[k] # NoMeta /\ m.version = meta[k].version
                  THEN raced ELSE raced \ {k}
      /\ scoreRaced' = IF meta[k] # NoMeta /\ m.version = meta[k].version
                       THEN scoreRaced ELSE scoreRaced \ {k}
      /\ Cardinality(scores') <= MaxRecords
      /\ UNCHANGED now

\* The bug of reviving an expired sorted set under its old version.
IncarnationInPlace(k) ==
  IF meta[k] = NoMeta THEN Renewed(k)
  ELSE IF IsStale(meta[k], now) THEN SetTimestamp(meta[k], 0) ELSE meta[k]

Incarnation(k) == IF Live(k) THEN meta[k] ELSE Renewed(k)

ScoreRecord(k, version, x) == <<k, version, <<score[<<k, version, x>>], x>>>>

\* The bug of leaving the record of a member's old score.
ZAddLeavesScore(k, f) ==
  LET m     == Incarnation(k)
      held  == {x \in DOMAIN f : Live(k) /\ x \in Stored(k, m.version)}
  IN  Write(k, ModifyCount(m, Cardinality(DOMAIN f \ held)), {}, {},
            {<<k, m.version, <<f[x], x>>>> : x \in DOMAIN f})

\* f: what the argument list says after the repetitions of a member are gone.
\* A member that has its score already is left alone.
ZAdd(k, f) ==
  LET m     == Incarnation(k)
      held  == {x \in DOMAIN f : Live(k) /\ x \in Stored(k, m.version)}
      same  == {x \in held : score[<<k, m.version, x>>] = f[x]}
  IN  Write(k, ModifyCount(m, Cardinality(DOMAIN f \ held)), {},
            {ScoreRecord(k, m.version, x) : x \in held \ same},
            {<<k, m.version, <<f[x], x>>>> : x \in DOMAIN f \ same})

\* Bound: a sum beyond Scores is not taken.
ZIncrby(k, x, by) ==
  LET m     == Incarnation(k)
      found == meta[k] # NoMeta /\ x \in Stored(k, m.version)
      new   == IF found THEN score[<<k, m.version, x>>] + by ELSE by
  IN  /\ new \in Scores
      /\ Write(k, IF found THEN meta[k] ELSE ModifyCount(m, 1), {},
               IF found THEN {ScoreRecord(k, m.version, x)} ELSE {},
               {<<k, m.version, <<new, x>>>>})

ZRem(k, X) ==
  LET held == X \cap Stored(k, meta[k].version)
  IN  /\ Live(k)
      /\ Write(k, ModifyCount(meta[k], -Cardinality(held)),
               Records(k, meta[k].version, held),
               {ScoreRecord(k, meta[k].version, x) : x \in held}, {})

\* Delete the score records of W and, under k's own version, their members'.
RemoveWalked(k, W) ==
  /\ Live(k)
  /\ Write(k, ModifyCount(meta[k], -Cardinality(W)),
           Records(k, meta[k].version, {r[3][2] : r \in W}), W, {})

AtMost(count, n) == IF count <= n THEN count ELSE n

ZPopMax(k, n) ==
  RemoveWalked(k, Backward(scores, k, meta[k], AtMost(meta[k].count, n)))

ZPopMin(k, n) ==
  RemoveWalked(k, Forward(scores, k, meta[k], AtMost(meta[k].count, n)))

ZRemrangebyrank(k, start, stop) ==
  RemoveWalked(k, Between(Walk(k), Length(k), start, stop))

ZRemrangebyscore(k, interval) == RemoveWalked(k, Within(Walk(k), interval))

ZExpire(k, ttl) == Expire(k, ttl) /\ S!Expire(k, ttl) /\ UNCHANGED score

ZExpireat(k, ts) == Expireat(k, ts) /\ S!Expireat(k, ts) /\ UNCHANGED score

ZPersist(k) == Persist(k) /\ S!Persist(k) /\ UNCHANGED score

ZDel(k) == Del(k) /\ S!Del(k) /\ UNCHANGED score

----------------------------------------------------------------------------
(* Calls that read from a snapshot.                                         *)

TakeSnapshot(dst) ==
  /\ snapshot = NoSnapshot
  /\ snapshot' = [dst |-> dst, meta |-> meta, data |-> data, score |-> score,
                  scores |-> scores]
  /\ UNCHANGED <<storeVars, scoreVars>>

SnapshotLive(k) == IsLive(snapshot.meta[k], now)

SnapshotWalk(k) ==
  Forward(snapshot.scores, k, snapshot.meta[k], snapshot.meta[k].count)

\* The bug of leaving the destination's TTL.
OverwrittenKeepsTTL(k) == IF snapshot.meta[k] = NoMeta THEN FreshMetaValue(now)
                          ELSE UpdateVersion(snapshot.meta[k], now)

\* The destination's meta value is renewed from the snapshot's.
Overwritten(k) == IF snapshot.meta[k] = NoMeta THEN FreshMetaValue(now)
                  ELSE InitialMetaValue(snapshot.meta[k], now)

Weight(args, i) == IF i \in DOMAIN args.weights THEN args.weights[i] ELSE 1

\* value: the weighted scores, a function.
Aggregate(agg, value) ==
  CASE agg = "SUM" -> MapThenSumSet(LAMBDA i : value[i], DOMAIN value)
    [] agg = "MIN" -> Min(Range(value))
    [] agg = "MAX" -> Max(Range(value))

\* Bound: a score beyond Scores is not computed.
StoreResult(result, count) ==
  LET dst == snapshot.dst
      m   == SetCount(Overwritten(dst), count)
  IN  /\ {pair[1] : pair \in result} \subseteq Scores
      /\ Write(dst, m, {}, {}, {<<dst, m.version, pair>> : pair \in result})

\* Every record of every source's walk counts, the weight being its source's.
ZUnionstore(args) ==
  LET read == UNION {{<<i, r>> : r \in SnapshotWalk(args.keys[i])} :
                 i \in {i \in DOMAIN args.keys : SnapshotLive(args.keys[i])}}
      value(x) == [e \in {e \in read : e[2][3][2] = x} |->
                     Weight(args, e[1]) * e[2][3][1]]
      result   == {<<Aggregate(args.agg, value(x)), x>> :
                     x \in {e[2][3][2] : e \in read}}
  IN  StoreResult(result, Cardinality(result))

\* The records of the first source's walk whose members the others hold too.
ZInterstore(args) ==
  LET valid == \A i \in DOMAIN args.keys : SnapshotLive(args.keys[i])
      row(i, x) == <<args.keys[i], snapshot.meta[args.keys[i]].version, x>>
      others == DOMAIN args.keys \ {1}
      read  == IF valid THEN {r \in SnapshotWalk(args.keys[1]) :
                        \A i \in others : row(i, r[3][2]) \in snapshot.data}
                        ELSE {}
      value(r) == [i \in DOMAIN args.keys |->
                     Weight(args, i) * (IF i = 1 THEN r[3][1]
                                        ELSE snapshot.score[row(i, r[3][2])])]
  IN  StoreResult({<<Aggregate(args.agg, value(r)), r[3][2]>> : r \in read},
                  Cardinality(read))

\* The meta value put back is the snapshot's, less what was deleted.
ZRemrangebylex(interval) ==
  LET k == snapshot.dst
      m == snapshot.meta[k]
      gone == WithinLex(ForwardByMember(snapshot.data, k, m, m.count), interval)
  IN  IF SnapshotLive(k) /\ gone # {}
      THEN Write(k, ModifyCount(m, -Cardinality(gone)), gone,
                 {<<k, m.version, <<snapshot.score[r], r[3]>>>> : r \in gone}, {})
      ELSE UNCHANGED <<storeVars, scoreVars>>

\* One write of it: renew the keys of K that are live in the snapshot.
PKPatternMatchDel(K) ==
  LET dead == {k \in K : SnapshotLive(k)}
      renewed(k) == InitialMetaValue(snapshot.meta[k], now)
  IN  /\ \A k \in dead : renewed(k).version <= MaxVersion
      /\ meta' = [k \in Keys |-> IF k \in dead THEN renewed(k) ELSE meta[k]]
      /\ raced' = raced \ dead
      /\ scoreRaced' = scoreRaced \ dead
      /\ UNCHANGED <<data, now, filter, score, scores, scoreFilter>>

\* K: keys that the pattern matches, as many as fill a batch; the iterator does not
\* come to them again.  (Which of them come first is left open.)
DeleteBatch(K) ==
  /\ snapshot # NoSnapshot /\ snapshot.dst = NoKey
  /\ Cardinality(K) = BatchLimit /\ \A k \in K : SnapshotLive(k)
  /\ PKPatternMatchDel(K)
  /\ snapshot' = [snapshot EXCEPT !.meta =
                    [k \in Keys |-> IF k \in K THEN NoMeta ELSE @[k]]]

\* PKPatternMatchDel ends with what has not filled a batch.
FromSnapshot ==
  /\ snapshot # NoSnapshot
  /\ snapshot' = NoSnapshot
  /\ \/ /\ snapshot.dst = NoKey
        /\ \E K \in SUBSET Keys :
             Cardinality({k \in K : SnapshotLive(k)}) < BatchLimit /\ PKPatternMatchDel(K)
     \/ /\ snapshot.dst # NoKey
        /\ \/ \E args \in StoreArgs : ZUnionstore(args) \/ ZInterstore(args)
           \/ \E interval \in LexIntervals : ZRemrangebylex(interval)

----------------------------------------------------------------------------

Scorings == UNION {[X -> Scores] : X \in (SUBSET Members) \ {{}}}

Handler(k) ==
  \/ \E f \in Scorings : ZAdd(k, f)
  \/ \E x \in Members, by \in Increments : ZIncrby(k, x, by)
  \/ \E X \in (SUBSET Members) \ {{}} : ZRem(k, X)
  \/ \E n \in 1 .. Cardinality(Members) : ZPopMax(k, n) \/ ZPopMin(k, n)
  \/ \E start, stop \in Indexes : ZRemrangebyrank(k, start, stop)
  \/ \E interval \in Intervals : ZRemrangebyscore(k, interval)
  \/ \E ttl \in Ttls : ZExpire(k, ttl)
  \/ \E ts \in Timestamps : ZExpireat(k, ts)
  \/ ZPersist(k)
  \/ ZDel(k)

\* The two compactions judge their records in the order of their column family;
\* the installation of the members' takes the values of its records along.
\* Bounds: one compaction at a time, and of a whole column family, as Compact
\* asks for it; CollectionStore lets any records be the input.
MemberCompaction ==
  /\ scoreFilter = NoCompaction
  /\ \/ CompactionStart /\ filter'.todo = data
     \/ \E r \in filter.todo :
          FilterRecord(r) /\ \A q \in filter.todo : ~MemberBefore(q, r)
     \/ CompactionInstall
  /\ score' = [r \in data' |-> score[r]]
  /\ UNCHANGED <<scores, scoreFilter, scoreRaced>>

ScoreCompaction ==
  /\ filter = NoCompaction
  /\ \/ S!CompactionStart /\ scoreFilter'.todo = scores
     \/ \E r \in scoreFilter.todo :
          S!FilterRecord(r) /\ \A q \in scoreFilter.todo : ~ScoreBefore(q, r)
     \/ S!CompactionInstall
  /\ UNCHANGED <<data, filter, raced, score>>

ZMaintenance ==
  \/ Tick /\ S!Tick /\ UNCHANGED score
  \/ (\E k \in Keys : MetaCompact(k) /\ S!MetaCompact(k)) /\ UNCHANGED score
  \/ MemberCompaction
  \/ ScoreCompaction

\* The process stops and the database is opened again.
ZSetsReopen ==
  /\ filter # NoCompaction \/ scoreFilter # NoCompaction \/ snapshot # NoSnapshot
  /\ filter' = NoCompaction
  /\ scoreFilter' = NoCompaction
  /\ snapshot' = NoSnapshot
  /\ UNCHANGED <<meta, data, now, raced, score, scores, scoreRaced>>

Handlers == (\E k \in Keys : Handler(k)) /\ UNCHANGED snapshot

Others ==
  \/ \E dst \in Keys \cup {NoKey} : TakeSnapshot(dst)
  \/ \E K \in SUBSET Keys : DeleteBatch(K)
  \/ FromSnapshot
  \/ ZMaintenance /\ UNCHANGED snapshot
  \/ ZSetsReopen

Next == Handlers \/ Others

Spec == ZSetsInit /\ [][Next]_zsetsVars

Unraced == raced' = {} /\ scoreRaced' = {}

\* As if a snapshot were taken under the locks of all keys, and without the TTL
\* changes that compaction does not survive.
UnracedSpec ==
  ZSetsInit /\ [][((snapshot = NoSnapshot /\ Handlers) \/ Others) /\ Unraced]_zsetsVars

----------------------------------------------------------------------------
(* Properties.                                                              *)

\* The members column family and the scores column family say the same of a
\* collection that has not expired.
ScoresAgree ==
  \A k \in Keys \ (raced \cup scoreRaced) : Fresh(k) =>
    S!Stored(k, meta[k].version) =
      {<<score[<<k, meta[k].version, x>>], x>> : x \in Stored(k, meta[k].version)}

\* What a call that has yet to write has in hand: of a sorted set that is alive
\* still, what the column families hold; the meta values that compaction has
\* dropped since are behind the clock, and the keys of batches written are dead.
SnapshotHolds ==
  \A k \in Keys :
    LET m == snapshot.meta[k]
        ofSet(R) == {r \in R : r[1] = k /\ r[2] = m.version}
    IN  /\ m # meta[k] => \/ m # NoMeta /\ meta[k] = NoMeta /\ m.version < now
                          \/ m = NoMeta /\ snapshot.dst = NoKey /\ ~Live(k)
        /\ SnapshotLive(k) =>
             /\ m = meta[k]
             /\ ofSet(snapshot.data) = ofSet(data)
             /\ ofSet(snapshot.scores) = ofSet(scores)
             /\ \A r \in ofSet(data) : snapshot.score[r] = score[r]

\* Every reachable state has the shapes of ZSetsTypeOK and satisfies the store's
\* inductive invariant for both column families, which two compactions work on
\* independently, a member has one score record and that of its own score, and
\* a snapshot in hand holds what it will be used for.
ZSetsInv ==
  /\ ZSetsTypeOK
  /\ StoreInv
  /\ S!StoreInv
  /\ ScoresAgree
  /\ snapshot # NoSnapshot => SnapshotHolds

Contents(k) == [x \in Visible(k) |-> score[<<k, meta[k].version, x>>]]

\* The promise of ExpiringZSets, read off the members column family.
ZSets == INSTANCE ExpiringZSets WITH
  contents <- [k \in Keys |-> Contents(k)],
  deadline <- [k \in Keys |-> IF Visible(k) = {} THEN 0 ELSE meta[k].timestamp]

\* As long as a snapshot stays current and no key's life is extended behind a
\* filter's back, a reader cannot tell the store from a map of scorings that
\* expire.
KeepsZSetPromise == ZSets!Spec

\* What the walks over score records and member records return is what the
\* commands ask of the scoring: ranks, ranges by rank, score and name, from
\* either end, also where records of dead versions and other keys lie around.
\* (ZRevrank of a member that is not there is left out: the one record too many
\* that it looks at may hold it, in another version or key.)
ReadsAsPromised ==
  \A k \in Keys :
    LET c == Contents(k)
        pairs(X) == {<<c[x], x>> : x \in X}
    IN  /\ Length(k) = Cardinality(DOMAIN c)
        /\ \A start, stop \in Indexes :
             /\ ZRange(k, start, stop) = pairs(ZSets!ByRank(c, start, stop))
             /\ ZRevrange(k, start, stop) = pairs(ZSets!ByRevrank(c, start, stop))
        /\ \A interval \in Intervals :
             LET X == ZSets!ByScore(c, interval)
             IN  /\ ZRangebyscore(k, interval) = pairs(X)
                 /\ ZRevrangebyscore(k, interval) = pairs(X)
                 /\ ZCount(k, interval) = Cardinality(X)
        /\ \A interval \in LexIntervals :
             /\ ZRangebylex(k, interval) = ZSets!ByLex(c, interval)
             /\ ZLexcount(k, interval) = Cardinality(ZSets!ByLex(c, interval))
        /\ \A x \in Members :
             ZRank(k, x) = IF x \in DOMAIN c THEN ZSets!Rank(c, x) ELSE -1
        /\ \A x \in DOMAIN c :
             ZRevrank(k, x) = ZSets!Revrank(c, x) /\ ZScore(k, x) = c[x]

\* Each command does to the scoring what it promises: to that of its key, and in
\* terms of all its sources for ZUnionstore and ZInterstore.
HandlersDoAsPromised ==
  [][<<meta, score>>' # <<meta, score>> =>
      /\ snapshot = NoSnapshot => \A k \in Keys :
           /\ \A f \in Scorings : ZAdd(k, f) => ZSets!Add(k, f)
           /\ \A x \in Members, by \in Increments :
                ZIncrby(k, x, by) => ZSets!Incrby(k, x, by)
           /\ \A X \in SUBSET Members : ZRem(k, X) => ZSets!Remove(k, X)
           /\ \A n \in 1 .. Cardinality(Members) :
                /\ ZPopMin(k, n) => ZSets!PopMin(k, n)
                /\ ZPopMax(k, n) => ZSets!PopMax(k, n)
           /\ \A start, stop \in Indexes :
                ZRemrangebyrank(k, start, stop) => ZSets!RemoveByRank(k, start, stop)
           /\ \A interval \in Intervals :
                ZRemrangebyscore(k, interval) => ZSets!RemoveByScore(k, interval)
           /\ ZDel(k) => ZSets!Delete({k})
      /\ snapshot # NoSnapshot /\ snapshot.dst = NoKey => \A K \in SUBSET Keys :
           PKPatternMatchDel(K) => ZSets!Delete(K)
      /\ snapshot # NoSnapshot /\ snapshot.dst \in Keys =>
           /\ \A args \in StoreArgs :
                /\ ZUnionstore(args) => ZSets!UnionStore(snapshot.dst, args)
                /\ ZInterstore(args) => ZSets!InterStore(snapshot.dst, args)
           /\ \A interval \in LexIntervals :
                ZRemrangebylex(interval) => ZSets!RemoveByLex(snapshot.dst, interval)
    ]_zsetsVars
=============================================================================
