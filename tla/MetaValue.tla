------------------------------ MODULE MetaValue ------------------------------
(***************************************************************************)
(* The meta value of a hash, set or sorted set: what one record of the     *)
(* meta column family holds, how the handlers rewrite it, and how the two   *)
(* compaction filters judge it.  Pure operators: every one takes the clock  *)
(* reading it depends on as a parameter.                                    *)
(***************************************************************************)
EXTENDS Integers

CONSTANT NoMeta  \* what a Get of the meta column family answers: NotFound

MetaValue == [count: Int, version: Nat, timestamp: Nat]

ASSUME NoMetaAssumption == NoMeta \notin MetaValue

----------------------------------------------------------------------------
(* Reading a meta value.                                                    *)

IsStale(m, now) == m.timestamp # 0 /\ m.timestamp < now

\* The test every handler makes before it trusts a meta value: it was found,
\* it has not expired, and the collection is not empty.
IsLive(m, now) == m # NoMeta /\ ~IsStale(m, now) /\ m.count # 0

----------------------------------------------------------------------------
(* Rewriting a meta value.                                                  *)

\* The bug of taking the clock as the version even when it has not moved.
NextVersionIsClock(version, now) == now

\* The version a renewed collection gets: the clock, or one more than the
\* old version when the clock has not passed it.
NextVersion(version, now) == IF version >= now THEN version + 1 ELSE now

UpdateVersion(m, now) == [m EXCEPT !.version = NextVersion(m.version, now)]

InitialMetaValue(m, now) ==
  [UpdateVersion(m, now) EXCEPT !.count = 0, !.timestamp = 0]

SetCount(m, n) == [m EXCEPT !.count = n]

ModifyCount(m, delta) == [m EXCEPT !.count = m.count + delta]

SetTimestamp(m, ts) == [m EXCEPT !.timestamp = ts]

SetRelativeTimestamp(m, ttl, now) == [m EXCEPT !.timestamp = now + ttl]

\* A meta value built for a key that has none: version 0, then UpdateVersion.
FreshMetaValue(now) ==
  UpdateVersion([count |-> 0, version |-> 0, timestamp |-> 0], now)

----------------------------------------------------------------------------
(* The compaction filters' verdicts: TRUE drops the record.                 *)

\* The bug of dropping an empty meta value in the second it was renewed.
MetaFilterIgnoresVersion(m, now) == IsStale(m, now) \/ m.count = 0

MetaFilterDrops(m, now) ==
  (IsStale(m, now) \/ m.count = 0) /\ m.version < now

\* The bug of comparing versions the wrong way round at equality.
DataFilterDropsEqual(cached, version, now) ==
  \/ cached = NoMeta
  \/ IsStale(cached, now)
  \/ cached.version >= version

\* cached is the meta value the filter remembered for the record's key.
DataFilterDrops(cached, version, now) ==
  \/ cached = NoMeta
  \/ IsStale(cached, now)
  \/ cached.version > version
=============================================================================
