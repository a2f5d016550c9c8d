----------------------------- MODULE RedisHashes -----------------------------
(***************************************************************************)
(* RedisHashes: the handlers that change a hash, over the store of          *)
(* CollectionStore.  Field values are left out: a Put of a field that is    *)
(* there rewrites its record and nothing else.                              *)
(***************************************************************************)
EXTENDS CollectionStore

HMSet(k, F) == AddMembers(k, F)

HSet(k, f) == AddMembers(k, {f})

HSetnx(k, f) == f \notin Visible(k) /\ AddMembers(k, {f})

HIncrby(k, f) == AddMembers(k, {f})

HIncrbyfloat(k, f) == AddMembers(k, {f})

HDel(k, F) == RemoveMembers(k, F)

HashesHandler(k) ==
  \/ \E F \in (SUBSET Members) \ {{}} : HMSet(k, F) \/ HDel(k, F)
  \/ \E f \in Members :
       HSet(k, f) \/ HSetnx(k, f) \/ HIncrby(k, f) \/ HIncrbyfloat(k, f)
  \/ \E ttl \in Ttls : Expire(k, ttl)
  \/ \E ts \in Timestamps : Expireat(k, ts)
  \/ Persist(k)
  \/ Del(k)

HashesNext == Background \/ \E k \in Keys : HashesHandler(k)

HashesSpec == StoreInit /\ [][HashesNext]_storeVars

\* Without the one step that compaction does not survive: a TTL lifted or
\* prolonged while the filter remembers the old one.
UnracedHashesSpec == StoreInit /\ [][HashesNext /\ raced' = {}]_storeVars
=============================================================================
