--------------------------- MODULE CollectionStore ---------------------------
(***************************************************************************)
(* The storage that hashes and sets share: a meta column family with one    *)
(* counted, versioned, expiring record per key, a data column family whose  *)
(* records carry the version they were written under, and compaction, which *)
(* is the only thing that ever removes the records of a deleted, expired or *)
(* renewed collection.  A handler holds its keys' record locks from its     *)
(* first read to its write and commits one WriteBatch, so it is one step;   *)
(* compaction holds no lock and is many steps.                              *)
(***************************************************************************)
EXTENDS MetaValue, FiniteSets

CONSTANTS
  Keys,        \* the user keys
  Members,     \* the field names of a hash, the members of a set
  NoKey,       \* what a compaction filter's cur_key_ holds before any key
  Ttls,        \* the arguments of Expire
  Timestamps,  \* the arguments of Expireat
  MaxTime,     \* bound: the clock stops here
  MaxVersion   \* bound: no version beyond this is created

ASSUME StoreAssumption ==
  /\ IsFiniteSet(Members)
  /\ NoKey \notin Keys
  /\ Ttls \subseteq Int
  /\ Timestamps \subseteq Int
  /\ MaxTime \in Nat
  /\ MaxVersion \in Nat

VARIABLES
  meta,    \* the meta column family
  data,    \* the keys of the data column family: <<key, version, member>>
  now,     \* the wall clock, in seconds
  filter,  \* the data compaction in progress, if any
  raced    \* history: keys whose life was extended behind the filter's back

storeVars == <<meta, data, now, filter, raced>>

DataKey == Keys \X Nat \X Members

\* todo: records of the input files the filter has yet to judge.
\* doomed: records it dropped; they vanish when the compaction is installed.
\* key, meta: cur_key_ and what the filter remembers of that key's meta value.
Filter == [todo: SUBSET DataKey, doomed: SUBSET DataKey,
           key: Keys \cup {NoKey}, meta: MetaValue \cup {NoMeta}]

NoCompaction == [todo |-> {}, doomed |-> {}, key |-> NoKey, meta |-> NoMeta]

StoreTypeOK ==
  /\ meta \in [Keys -> MetaValue \cup {NoMeta}]
  /\ data \in SUBSET DataKey
  /\ now \in Nat \ {0}
  /\ filter \in Filter
  /\ raced \in SUBSET Keys

StoreInit ==
  /\ meta = [k \in Keys |-> NoMeta]
  /\ data = {}
  /\ now = 1
  /\ filter = NoCompaction
  /\ raced = {}

----------------------------------------------------------------------------
(* Reads.                                                                   *)

Records(k, version, S) == {<<k, version, m>> : m \in S}

Stored(k, version) == {m \in Members : <<k, version, m>> \in data}

Live(k) == IsLive(meta[k], now)

\* What HGetall, HKeys, SMembers... return, and what HLen, SCard return.
Visible(k) == IF Live(k) THEN Stored(k, meta[k].version) ELSE {}

Length(k) == IF Live(k) THEN meta[k].count ELSE 0

----------------------------------------------------------------------------
(* Writes.  A record that is put or deleted is shadowed by a newer entry of *)
(* the LSM tree: what the running compaction decides about the old entry no *)
(* longer matters.                                                          *)

Shadow(recs) ==
  filter' = [filter EXCEPT !.todo = @ \ recs, !.doomed = @ \ recs]

\* The bug of reviving an expired or emptied collection under its old version.
RenewedInPlace(k) == IF meta[k] = NoMeta THEN FreshMetaValue(now)
                     ELSE SetTimestamp(SetCount(meta[k], 0), 0)

\* The meta value a key gets when its old collection, if any, is void.
Renewed(k) == IF meta[k] = NoMeta THEN FreshMetaValue(now)
                                  ELSE InitialMetaValue(meta[k], now)

\* The bug of counting every written member as a new one.
AddMembersCountsAll(k, S) ==
  LET m == IF Live(k) THEN ModifyCount(meta[k], Cardinality(S))
                      ELSE SetCount(Renewed(k), Cardinality(S))
  IN  /\ m.version <= MaxVersion
      /\ meta' = [meta EXCEPT ![k] = m]
      /\ data' = data \cup Records(k, m.version, S)
      /\ Shadow(Records(k, m.version, S))
      /\ raced' = IF Live(k) THEN raced ELSE raced \ {k}
      /\ UNCHANGED now

\* The bug of not asking whether the collection has expired.
AddMembersUnchecked(k, S) ==
  LET m == IF meta[k] # NoMeta
           THEN SetTimestamp(ModifyCount(meta[k],
                    Cardinality(S \ Stored(k, meta[k].version))), 0)
           ELSE SetCount(Renewed(k), Cardinality(S))
  IN  /\ m.version <= MaxVersion
      /\ meta' = [meta EXCEPT ![k] = m]
      /\ data' = data \cup Records(k, m.version, S)
      /\ Shadow(Records(k, m.version, S))
      /\ raced' = IF meta[k] # NoMeta THEN raced ELSE raced \ {k}
      /\ UNCHANGED now

\* Put the members S of k.  A live collection keeps its version and TTL and
\* counts the members it did not hold; otherwise the collection starts anew.
AddMembers(k, S) ==
  LET m == IF Live(k)
           THEN ModifyCount(meta[k], Cardinality(S \ Stored(k, meta[k].version)))
           ELSE SetCount(Renewed(k), Cardinality(S))
  IN  /\ m.version <= MaxVersion
      /\ meta' = [meta EXCEPT ![k] = m]
      /\ data' = data \cup Records(k, m.version, S)
      /\ Shadow(Records(k, m.version, S))
      /\ raced' = IF Live(k) THEN raced ELSE raced \ {k}
      /\ UNCHANGED now

\* Delete the members S of k that it holds.
RemoveMembers(k, S) ==
  LET held == S \cap Stored(k, meta[k].version)
      recs == Records(k, meta[k].version, held)
  IN  /\ Live(k)
      /\ meta' = [meta EXCEPT ![k] = ModifyCount(@, -Cardinality(held))]
      /\ data' = data \ recs
      /\ Shadow(recs)
      /\ UNCHANGED <<now, raced>>

\* Del, and Expire or Expireat with an argument that is not positive: the
\* records stay behind under the old version.
Renew(k) ==
  /\ Live(k)
  /\ Renewed(k).version <= MaxVersion
  /\ meta' = [meta EXCEPT ![k] = Renewed(k)]
  /\ raced' = raced \ {k}
  /\ UNCHANGED <<data, now, filter>>

\* The filter remembers a finite TTL of this incarnation of k that is about
\* to be lifted or moved to a later time.
Outlives(k, ts) ==
  /\ filter.key = k
  /\ filter.meta # NoMeta
  /\ filter.meta.version = meta[k].version
  /\ filter.meta.timestamp # 0
  /\ ts = 0 \/ ts > filter.meta.timestamp

Reschedule(k, m) ==
  /\ Live(k)
  /\ meta' = [meta EXCEPT ![k] = m]
  /\ raced' = IF Outlives(k, m.timestamp) THEN raced \cup {k} ELSE raced
  /\ UNCHANGED <<data, now, filter>>

Expire(k, ttl) ==
  \/ ttl > 0 /\ Reschedule(k, SetRelativeTimestamp(meta[k], ttl, now))
  \/ ttl <= 0 /\ Renew(k)

\* The bug of storing a timestamp that is not positive.
ExpireatUnchecked(k, ts) == Reschedule(k, SetTimestamp(meta[k], ts))

Expireat(k, ts) ==
  \/ ts > 0 /\ Reschedule(k, SetTimestamp(meta[k], ts))
  \/ ts <= 0 /\ Renew(k)

Persist(k) ==
  /\ Live(k)
  /\ meta[k].timestamp # 0
  /\ Reschedule(k, SetTimestamp(meta[k], 0))

Del(k) == Renew(k)

----------------------------------------------------------------------------
(* Time and compaction.                                                     *)

Tick ==
  /\ now < MaxTime
  /\ now' = now + 1
  /\ UNCHANGED <<meta, data, filter, raced>>

\* The meta filter drops k's record.  A record rewritten since the compaction
\* took its input is shadowed, so the verdict is on the current value.
MetaCompact(k) ==
  /\ meta[k] # NoMeta
  /\ MetaFilterDrops(meta[k], now)
  /\ meta' = [meta EXCEPT ![k] = NoMeta]
  /\ raced' = raced \ {k}
  /\ UNCHANGED <<data, now, filter>>

\* RocksDB picks the input: any records of the data column family.
CompactionStart ==
  /\ filter = NoCompaction
  /\ \E recs \in (SUBSET data) \ {{}} :
       filter' = [NoCompaction EXCEPT !.todo = recs]
  /\ UNCHANGED <<meta, data, now, raced>>

\* The bug of not reading the meta value again when the key changes.
FilterRecordKeepsMemory(rec) ==
  LET k      == rec[1]
      cached == IF filter.key # NoKey THEN filter.meta ELSE meta[k]
  IN  /\ rec \in filter.todo
      /\ k # filter.key => \A other \in filter.todo : other[1] # filter.key
      /\ filter' = [todo   |-> filter.todo \ {rec},
                    doomed |-> IF DataFilterDrops(cached, rec[2], now)
                               THEN filter.doomed \cup {rec}
                               ELSE filter.doomed,
                    key    |-> k,
                    meta   |-> cached]
      /\ UNCHANGED <<meta, data, now, raced>>

\* The filter judges one record.  Records arrive in key order, so those of
\* the remembered key come first; the first record of another key makes the
\* filter read and remember that key's meta value.
FilterRecord(rec) ==
  LET k      == rec[1]
      cached == IF k = filter.key THEN filter.meta ELSE meta[k]
  IN  /\ rec \in filter.todo
      /\ k # filter.key => \A other \in filter.todo : other[1] # filter.key
      /\ filter' = [todo   |-> filter.todo \ {rec},
                    doomed |-> IF DataFilterDrops(cached, rec[2], now)
                               THEN filter.doomed \cup {rec}
                               ELSE filter.doomed,
                    key    |-> k,
                    meta   |-> cached]
      /\ UNCHANGED <<meta, data, now, raced>>

\* The output files replace the input files.
CompactionInstall ==
  /\ filter.key # NoKey
  /\ filter.todo = {}
  /\ data' = data \ filter.doomed
  /\ filter' = NoCompaction
  /\ UNCHANGED <<meta, now, raced>>

\* The process stops and the database is opened again: every committed batch
\* is in the log, and an unfinished compaction leaves its input in place.
Reopen ==
  /\ filter # NoCompaction
  /\ filter' = NoCompaction
  /\ UNCHANGED <<meta, data, now, raced>>

Maintenance ==
  \/ Tick
  \/ \E k \in Keys : MetaCompact(k)
  \/ CompactionStart
  \/ \E rec \in filter.todo : FilterRecord(rec)
  \/ CompactionInstall

Background == Maintenance \/ Reopen

----------------------------------------------------------------------------
(* Properties.                                                              *)

\* No record outruns its key's meta value, so the version a renewal or a
\* creation picks (InitialMetaValue, UpdateVersion) has no record yet, even
\* after compaction has dropped the meta record and with it the version.
VersionsBehindMeta ==
  \A rec \in data :
    LET k == rec[1] IN
      IF meta[k] = NoMeta THEN rec[2] < now ELSE rec[2] <= meta[k].version

\* The length kept in a live key's meta value is the number of records a
\* reader finds under its version, whatever compaction dropped meanwhile,
\* unless the key was given a longer life behind a filter's back.
LengthCountsMembers ==
  \A k \in Keys \ raced : Length(k) = Cardinality(Visible(k))

\* HLen and SCard promise the number of members the collection holds, with no
\* exception for the keys in raced.
LengthAlwaysCountsMembers ==
  \A k \in Keys : Length(k) = Cardinality(Visible(k))

\* A member that becomes visible is written by the very step that makes it
\* visible: deleted, expired and overwritten collections never resurface.
NothingResurfaces ==
  [][\A k \in Keys : \A m \in Visible(k)' \ Visible(k) :
        <<k, meta[k]'.version, m>> \notin data]_storeVars

\* Compaction and restart are invisible: no step of theirs changes what a
\* reader sees of a collection, its members or its length, though the filters
\* read the clock and a remembered meta value without any lock.
BackgroundInvisible ==
  [][\A k \in Keys \ raced :
        (Background /\ now' = now)
          => Visible(k)' = Visible(k) /\ Length(k)' = Length(k)]_storeVars

\* The promise of ExpiringCollections, read off the store.
Promise == INSTANCE ExpiringCollections WITH
  contents <- [k \in Keys |-> Visible(k)],
  deadline <- [k \in Keys |-> IF Visible(k) = {} THEN 0 ELSE meta[k].timestamp]

\* As long as no key's life is extended behind a filter's back, a reader cannot
\* tell the store from a map of collections that expire.
KeepsPromise == Promise!Spec

----------------------------------------------------------------------------
(* The inductive invariant: what the properties above rest on.              *)

\* A key's meta value is present and its TTL, if any, has not run out.
Fresh(k) == meta[k] # NoMeta /\ ~IsStale(meta[k], now)

CountsStored ==
  \A k \in Keys \ raced :
    Fresh(k) => meta[k].count = Cardinality(Stored(k, meta[k].version))

\* The compaction works on records that are still there.
FilterWorksOnData == filter.todo \subseteq data /\ filter.doomed \subseteq data

\* No record of a fresh key's present incarnation is doomed.
DoomedAreDead ==
  \A rec \in filter.doomed :
    rec[1] \notin raced /\ Fresh(rec[1]) => rec[2] # meta[rec[1]].version

\* Whatever happened to a key since the filter found it had no meta value, its
\* records in the input belong to an incarnation that is gone: none is of a
\* fresh one.
AbsenceStaysTrue ==
  filter.key # NoKey /\ filter.meta = NoMeta =>
    \A rec \in filter.todo : rec[1] = filter.key =>
      /\ rec[2] < now
      /\ Fresh(rec[1]) => rec[2] < meta[rec[1]].version

\* The remembered version is at or behind the present one, ahead of or at the
\* versions of the input, and a remembered TTL runs out no earlier than the
\* present one.
MemoryStaysSafe ==
  filter.key # NoKey /\ filter.meta # NoMeta =>
    LET m == meta[filter.key] IN
    /\ \A rec \in filter.todo :
         rec[1] = filter.key => rec[2] <= filter.meta.version
    /\ IF m = NoMeta THEN filter.meta.version < now
                     ELSE filter.meta.version <= m.version
    /\ ( /\ m # NoMeta
         /\ filter.key \notin raced
         /\ filter.meta.version = m.version
         /\ filter.meta.timestamp # 0 )
       => m.timestamp # 0 /\ m.timestamp <= filter.meta.timestamp

StoreInv ==
  /\ StoreTypeOK
  /\ VersionsBehindMeta
  /\ CountsStored
  /\ FilterWorksOnData
  /\ DoomedAreDead
  /\ AbsenceStaysTrue
  /\ MemoryStaysSafe
=============================================================================
