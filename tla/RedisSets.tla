------------------------------ MODULE RedisSets ------------------------------
(***************************************************************************)
(* RedisSets: the handlers that change a set, over the store of             *)
(* CollectionStore.  SDiffstore, SInterstore and SUnionstore read all their *)
(* sources from one snapshot and write later, holding only the record lock  *)
(* of the destination: they are two steps, and the clock, compaction and    *)
(* the handlers of every other key may run between them.                    *)
(***************************************************************************)
EXTENDS CollectionStore, Sequences

CONSTANT RemArgs  \* the argument lists of SRem

VARIABLE pending  \* the *store between its reads and its write, if any

setsVars == <<meta, data, now, filter, raced, pending>>

ASSUME SetsAssumption == RemArgs \subseteq Seq(Members)

\* Bound: one *store at a time.  meta: the meta value it will write.
NoStore == [dst |-> NoKey, members |-> {}, meta |-> NoMeta]

PendingStore == [dst: Keys, members: SUBSET Members, meta: MetaValue]

SetsTypeOK == StoreTypeOK /\ pending \in PendingStore \cup {NoStore}

SetsInit == StoreInit /\ pending = NoStore

\* The record lock of k is not held by a *store.
Free(k) == pending.dst # k

----------------------------------------------------------------------------
(* Handlers of one or two keys.                                             *)

\* Members that are there already are not put again.
SAdd(k, S) ==
  LET new == IF Live(k) THEN S \ Stored(k, meta[k].version) ELSE S
  IN  new # {} /\ AddMembers(k, new)

\* Every occurrence of a held member in the argument list is counted.
SRem(k, args) ==
  LET held == {i \in DOMAIN args : args[i] \in Stored(k, meta[k].version)}
      recs == Records(k, meta[k].version, {args[i] : i \in held})
  IN  /\ Live(k)
      /\ meta' = [meta EXCEPT ![k] = ModifyCount(@, -Cardinality(held))]
      /\ data' = data \ recs
      /\ Shadow(recs)
      /\ UNCHANGED <<now, raced>>

\* The bug of not looking for the member in the destination.
SMoveCountsAlways(src, dst, m) ==
  LET from == ModifyCount(meta[src], -1)
      to   == IF Live(dst) THEN ModifyCount(meta[dst], 1)
                           ELSE SetCount(Renewed(dst), 1)
      gone == Records(src, meta[src].version, {m})
      put  == Records(dst, to.version, {m})
  IN  /\ src # dst
      /\ Live(src)
      /\ m \in Stored(src, meta[src].version)
      /\ to.version <= MaxVersion
      /\ meta' = [meta EXCEPT ![src] = from, ![dst] = to]
      /\ data' = (data \ gone) \cup put
      /\ Shadow(gone \cup put)
      /\ raced' = IF Live(dst) THEN raced ELSE raced \ {dst}
      /\ UNCHANGED now

\* One batch takes the member out of src and puts it into dst, which is left
\* alone if it holds the member already.
SMove(src, dst, m) ==
  LET from == ModifyCount(meta[src], -1)
      has  == m \in Visible(dst)
      to   == CASE has                  -> meta[dst]
                [] Live(dst) /\ ~has    -> ModifyCount(meta[dst], 1)
                [] OTHER                -> SetCount(Renewed(dst), 1)
      gone == Records(src, meta[src].version, {m})
      put  == IF has THEN {} ELSE Records(dst, to.version, {m})
  IN  /\ src # dst
      /\ Live(src)
      /\ m \in Stored(src, meta[src].version)
      /\ to.version <= MaxVersion
      /\ meta' = [meta EXCEPT ![src] = from, ![dst] = to]
      /\ data' = (data \ gone) \cup put
      /\ Shadow(gone \cup put)
      /\ raced' = IF Live(dst) THEN raced ELSE raced \ {dst}
      /\ UNCHANGED now

\* A random one of the first count records from k's first on: where the count
\* exceeds the members of k, it may be a record that follows them.  The order
\* of keys is left open, so any record may be the one that follows.
SPop(k) ==
  LET own == Records(k, meta[k].version, Stored(k, meta[k].version))
  IN  /\ Live(k)
      /\ meta[k].count > 0
      /\ \E rec \in (IF meta[k].count > Cardinality(own) THEN data ELSE own) :
           /\ meta' = [meta EXCEPT ![k] = ModifyCount(@, -1)]
           /\ data' = data \ {rec}
           /\ Shadow({rec})
      /\ UNCHANGED <<now, raced>>

----------------------------------------------------------------------------
(* SDiffstore, SInterstore, SUnionstore.                                    *)

\* What each computes from its first source and the others.
SDiff(k, others) == Visible(k) \ UNION {Visible(o) : o \in others}

SInter(k, others) == {m \in Visible(k) : \A o \in others : m \in Visible(o)}

SUnion(k, others) == UNION {Visible(o) : o \in others \cup {k}}

\* The destination's meta value is renewed whether or not it is live.
StoreRead(dst, S) ==
  LET m == SetCount(Renewed(dst), Cardinality(S))
  IN  /\ pending = NoStore
      /\ m.version <= MaxVersion
      /\ pending' = [dst |-> dst, members |-> S, meta |-> m]
      /\ UNCHANGED storeVars

SDiffstore(dst, k, others) == StoreRead(dst, SDiff(k, others))

SInterstore(dst, k, others) == StoreRead(dst, SInter(k, others))

SUnionstore(dst, k, others) == StoreRead(dst, SUnion(k, others))

StoreWrite ==
  LET recs == Records(pending.dst, pending.meta.version, pending.members)
  IN  /\ pending # NoStore
      /\ meta' = [meta EXCEPT ![pending.dst] = pending.meta]
      /\ data' = data \cup recs
      /\ Shadow(recs)
      /\ raced' = raced \ {pending.dst}
      /\ pending' = NoStore
      /\ UNCHANGED now

\* The process stops and the database is opened again.
SetsReopen ==
  /\ filter # NoCompaction \/ pending # NoStore
  /\ filter' = NoCompaction
  /\ pending' = NoStore
  /\ UNCHANGED <<meta, data, now, raced>>

----------------------------------------------------------------------------

Handler(k) ==
  \/ \E S \in (SUBSET Members) \ {{}} : SAdd(k, S)
  \/ \E args \in RemArgs : SRem(k, args)
  \/ SPop(k)
  \/ \E ttl \in Ttls : Expire(k, ttl)
  \/ \E ts \in Timestamps : Expireat(k, ts)
  \/ Persist(k)
  \/ Del(k)

\* The bug of a *store that does not hold the lock of its destination.
LockedBarred(k) == Handler(k) /\ UNCHANGED pending

Locked(k) == Free(k) /\ Handler(k) /\ UNCHANGED pending

Next ==
  \/ \E k \in Keys : Locked(k)
  \/ \E src, dst \in Keys, m \in Members :
       Free(src) /\ Free(dst) /\ SMove(src, dst, m) /\ UNCHANGED pending
  \/ \E dst, k \in Keys, others \in SUBSET Keys :
       \/ SDiffstore(dst, k, others)
       \/ SInterstore(dst, k, others)
       \/ SUnionstore(dst, k, others)
  \/ StoreWrite
  \/ Maintenance /\ UNCHANGED pending
  \/ SetsReopen

Spec == SetsInit /\ [][Next]_setsVars

\* Without the TTL changes that compaction does not survive.
UnracedSpec == SetsInit /\ [][Next /\ raced' = {}]_setsVars

----------------------------------------------------------------------------
(* Properties.                                                              *)

\* The version a *store has picked stays ahead of everything the destination
\* has, though the clock, the filters and a restart run before it is written.
PendingStaysAhead ==
  pending # NoStore =>
    LET k == pending.dst
        v == pending.meta.version
    IN  /\ \A rec \in data : rec[1] = k => rec[2] < v
        /\ meta[k] # NoMeta => meta[k].version < v
        /\ (filter.key = k /\ filter.meta # NoMeta) => filter.meta.version < v

\* What it will write is a collection of its own, with no deadline.
PendingIsWhole ==
  pending # NoStore =>
    /\ pending.meta.count = Cardinality(pending.members)
    /\ pending.meta.timestamp = 0

SetsInv == StoreInv /\ SetsTypeOK /\ PendingStaysAhead /\ PendingIsWhole
=============================================================================
