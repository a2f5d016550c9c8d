------------------------- MODULE HashesAndSetsProofs -------------------------
(***************************************************************************)
(* What RedisHashes and RedisSets promise, for every set of keys and        *)
(* members: each one's inductive invariant over that of the store, and from *)
(* it the length, that nothing resurfaces, and the map of expiring          *)
(* collections.  Sets have it through moves between two of them and *store  *)
(* commands of two steps; SRem is taken with argument lists that name no    *)
(* member twice, and no TTL is lifted or prolonged behind a filter's back.  *)
(***************************************************************************)
EXTENDS RedisHashes, RedisSets, CollectionStoreProofs

----------------------------------------------------------------------------
(* Hashes: steps.                                                           *)

\* Every handler of a hash is one of the store's writes.
LEMMA HashesHandlerWrites ==
  ASSUME NEW k \in Keys, HashesHandler(k)
  PROVE  \/ \E S \in SUBSET Members : AddMembers(k, S) \/ RemoveMembers(k, S)
         \/ \E ttl \in Ttls : Expire(k, ttl)
         \/ \E ts \in Timestamps : Expireat(k, ts)
         \/ Persist(k)
         \/ Del(k)
  <1>1. CASE \E F \in (SUBSET Members) \ {{}} : HMSet(k, F) \/ HDel(k, F)
    BY <1>1 DEF HMSet, HDel
  <1>2. CASE \E f \in Members :
               HSet(k, f) \/ HSetnx(k, f) \/ HIncrby(k, f) \/ HIncrbyfloat(k, f)
    <2>1. PICK f \in Members : AddMembers(k, {f})
      BY <1>2 DEF HSet, HSetnx, HIncrby, HIncrbyfloat
    <2>2. {f} \in SUBSET Members
      OBVIOUS
    <2>3. QED BY <2>1, <2>2
  <1>3. QED BY <1>1, <1>2 DEF HashesHandler

\* Every step of a hash store, a handler's or the background's, keeps StoreInv.
LEMMA HashesNextInv ==
  ASSUME StoreInv, [HashesNext]_storeVars
  PROVE  StoreInv'
  <1>1. CASE Background
    BY <1>1, BackgroundInv
  <1>2. ASSUME NEW k \in Keys, HashesHandler(k)
        PROVE  StoreInv'
    BY <1>2, HashesHandlerWrites, AddMembersInv, RemoveMembersInv, ExpiryInv
  <1>3. CASE UNCHANGED storeVars
    BY <1>3, StutterInv
  <1>4. QED BY <1>1, <1>2, <1>3 DEF HashesNext

----------------------------------------------------------------------------
(* Hashes: invariants.                                                      *)

\* The strengthened invariant holds in every reachable state.
THEOREM HashesInvHolds == HashesSpec => []StoreInv
  <1>1. StoreInit => StoreInv
    BY StoreInitInv
  <1>2. StoreInv /\ [HashesNext]_storeVars => StoreInv'
    BY HashesNextInv
  <1>3. QED BY <1>1, <1>2, PTL DEF HashesSpec

\* What HLen answers is no less than zero and no more than there are fields to
\* count; of a key in raced the code itself loses count.
CountsInBounds ==
  \A k \in Keys \ raced : Fresh(k) => meta[k].count \in 0 .. Cardinality(Members)

\* The column families, the clock and the filter keep their types, and no count
\* is decremented below zero.
THEOREM HashesTypeCorrect == HashesSpec => [](StoreTypeOK /\ CountsInBounds)
  <1>1. ASSUME StoreInv, NEW k \in Keys \ raced, Fresh(k)
        PROVE  meta[k].count \in 0 .. Cardinality(Members)
    <2>1. PICK S : S = Stored(k, meta[k].version)
      OBVIOUS
    <2>2. meta[k].count = Cardinality(S)
      BY <1>1, <2>1 DEF StoreInv, CountsStored
    <2>3. S \in SUBSET Members
      BY <2>1 DEF Stored
    <2>4. IsFiniteSet(Members)
      BY StoreAssumption
    <2>5. IsFiniteSet(S) /\ Cardinality(S) <= Cardinality(Members)
      BY <2>3, <2>4, FS_Subset
    <2>6. Cardinality(S) \in Nat /\ Cardinality(Members) \in Nat
      BY <2>4, <2>5, FS_CardinalityType
    <2>7. QED BY <2>2, <2>5, <2>6
  <1>2. StoreInv => StoreTypeOK /\ CountsInBounds
    BY <1>1 DEF StoreInv, CountsInBounds
  <1>3. QED BY <1>2, HashesInvHolds, PTL

\* A renewed or recreated hash never reuses a version that has records: not
\* after the meta filter dropped its meta value, not twice in one second.
THEOREM HashesVersionsStayBehind == HashesSpec => []VersionsBehindMeta
  <1>1. StoreInv => VersionsBehindMeta
    BY DEF StoreInv
  <1>2. QED BY <1>1, HashesInvHolds, PTL

\* HLen is the number of fields HGetall returns, except for a key whose TTL
\* was lifted or prolonged while a filter remembered the old one.
THEOREM HashesLengthIsRight == HashesSpec => []LengthCountsMembers
  <1>1. StoreInv => LengthCountsMembers
    <2> SUFFICES ASSUME StoreInv, NEW k \in Keys \ raced
                 PROVE  Length(k) = Cardinality(Visible(k))
      BY DEF LengthCountsMembers
    <2>1. CASE Live(k)
      BY <2>1, LiveFacts DEF StoreInv, CountsStored, Length, Visible
    <2>2. CASE ~Live(k)
      BY <2>2, FS_EmptySet DEF Length, Visible
    <2>3. QED BY <2>1, <2>2
  <1>2. QED BY <1>1, HashesInvHolds, PTL

----------------------------------------------------------------------------
(* Hashes: action properties.                                               *)

\* No handler and no background step brings back a field it did not write.
THEOREM HashesNeverResurface == HashesSpec => NothingResurfaces
  <1>1. ASSUME StoreInv, [HashesNext]_storeVars
        PROVE  [\A k \in Keys : \A m \in Visible(k)' \ Visible(k) :
                  <<k, meta[k]'.version, m>> \notin data]_storeVars
    <2>1. ASSUME NEW j \in Keys, Background
          PROVE  Uncovers(j)
      BY <1>1, <2>1, BackgroundUncovers
    <2>2. ASSUME NEW j \in Keys, NEW k \in Keys, HashesHandler(k)
          PROVE  Uncovers(j)
      BY <1>1, <2>2, HashesHandlerWrites, AddMembersUncovers, RemoveMembersUncovers,
         ExpiryUncovers
    <2>3. HashesNext => \A j \in Keys : Uncovers(j)
      BY <2>1, <2>2 DEF HashesNext
    <2>4. QED BY <1>1, <2>3 DEF Uncovers
  <1>2. QED BY <1>1, HashesInvHolds, PTL DEF HashesSpec, NothingResurfaces

\* Compaction and restart change nothing a reader of a hash can see.
THEOREM HashesBackgroundInvisible == HashesSpec => BackgroundInvisible
  <1>1. ASSUME StoreInv, [HashesNext]_storeVars
        PROVE  [\A k \in Keys \ raced :
                  (Background /\ now' = now)
                    => Visible(k)' = Visible(k) /\ Length(k)' = Length(k)]_storeVars
    BY <1>1, BackgroundUnseen
  <1>2. QED BY <1>1, HashesInvHolds, PTL DEF HashesSpec, BackgroundInvisible

----------------------------------------------------------------------------
(* Hashes: refinement.                                                      *)

\* A handler of a hash is a step of the map of expiring collections.
LEMMA HashesHandlerPromised ==
  ASSUME StoreInv, StoreInv', raced = {}, raced' = {}, NEW k \in Keys, HashesHandler(k)
  PROVE  Promise!Next
  <1>1. ASSUME NEW S \in SUBSET Members, AddMembers(k, S) \/ RemoveMembers(k, S)
        PROVE  Promise!Next
    BY <1>1, AddMembersPromised, RemoveMembersPromised DEF Promise!Next
  <1>2. CASE \/ \E ttl \in Ttls : Expire(k, ttl)
             \/ \E ts \in Timestamps : Expireat(k, ts)
             \/ Persist(k)
             \/ Del(k)
    BY <1>2, ExpiryPromised DEF Promise!Next
  <1>3. QED BY <1>1, <1>2, HashesHandlerWrites

\* A reader cannot tell RedisHashes from a map of collections that expire, so
\* long as no TTL is lifted or prolonged while a filter remembers the old one.
THEOREM HashesKeepPromise == UnracedHashesSpec => KeepsPromise
  <1> DEFINE Inv == StoreInv /\ raced = {}
  <1>1. StoreInit => Inv
    BY StoreInitInv DEF StoreInit
  <1>2. Inv /\ [HashesNext /\ raced' = {}]_storeVars => Inv'
    BY HashesNextInv DEF storeVars
  <1>3. StoreInit => Promise!Init
    BY InitPromised
  <1>4. Inv /\ Inv' /\ [HashesNext /\ raced' = {}]_storeVars => [Promise!Next]_Promise!collections
    <2> SUFFICES ASSUME Inv, Inv', [HashesNext /\ raced' = {}]_storeVars
                 PROVE  Promise!Next \/ UNCHANGED Promise!collections
      OBVIOUS
    <2>1. CASE Background
      <3>1. CASE Promise!Tick
        BY <3>1 DEF Promise!Next
      <3>2. CASE Seen' = Seen /\ Due' = Due /\ now' = now
        BY <3>2 DEF Promise!collections, Seen, Due
      <3>3. QED BY <2>1, <3>1, <3>2, BackgroundPromised
    <2>2. ASSUME NEW k \in Keys, HashesHandler(k)
          PROVE  Promise!Next
      BY <2>2, HashesHandlerPromised
    <2>3. CASE UNCHANGED storeVars
      BY <2>3 DEF storeVars, Promise!collections, Visible, Stored, Live, IsLive, IsStale
    <2>4. QED BY <2>1, <2>2, <2>3 DEF HashesNext
  <1>5. QED BY <1>1, <1>2, <1>3, <1>4, PTL DEF UnracedHashesSpec, KeepsPromise, Promise!Spec

----------------------------------------------------------------------------
(* Sets.                                                                    *)

\* No argument list of SRem names a member twice.
NoRepeats == \A args \in RemArgs : \A i, j \in DOMAIN args : args[i] = args[j] => i = j

----------------------------------------------------------------------------
(* SRem and SPop remove what RemoveMembers does.                            *)

\* A one-to-one function maps a finite set to one of the same size.
LEMMA SameSize ==
  ASSUME NEW S, IsFiniteSet(S), NEW T, NEW f \in [S -> T],
         \A a, b \in S : f[a] = f[b] => a = b,
         \A y \in T : \E x \in S : f[x] = y
  PROVE  Cardinality(T) = Cardinality(S)
  <1>1. f \in Bijection(S, T)
    BY DEF Bijection, Injection, Surjection, IsInjective
  <1>2. QED BY <1>1, FS_Bijection DEF ExistsBijection

\* Counting the held arguments is counting the held members.
LEMMA SRemRemoves ==
  ASSUME NoRepeats, NEW k \in Keys, NEW args \in RemArgs, SRem(k, args)
  PROVE  \E S \in SUBSET Members : RemoveMembers(k, S)
  <1> DEFINE stored == Stored(k, meta[k].version)
             held   == {i \in DOMAIN args : args[i] \in stored}
             S      == {args[i] : i \in DOMAIN args}
             f      == [i \in held |-> args[i]]
  <1>1. args \in Seq(Members) /\ DOMAIN args = 1 .. Len(args) /\ Len(args) \in Nat
    BY SetsAssumption
  <1>2. S \in SUBSET Members
    BY <1>1
  <1>3. IsFiniteSet(held)
    <2>1. IsFiniteSet(DOMAIN args)
      BY <1>1, FS_Interval
    <2>2. held \subseteq DOMAIN args
      OBVIOUS
    <2>3. QED BY <2>1, <2>2, FS_Subset
  <1>4. Cardinality(S \cap stored) = Cardinality(held)
    <2>1. f \in [held -> S \cap stored]
      OBVIOUS
    <2>2. \A a, b \in held : f[a] = f[b] => a = b
      BY DEF NoRepeats
    <2>3. \A y \in S \cap stored : \E x \in held : f[x] = y
      OBVIOUS
    <2> HIDE DEF f, held, S, stored
    <2>4. QED BY <1>3, <2>1, <2>2, <2>3, SameSize
  <1>5. S \cap stored = {args[i] : i \in held}
    OBVIOUS
  <1>6. RemoveMembers(k, S)
    BY <1>4, <1>5 DEF SRem, RemoveMembers
  <1>7. QED BY <1>2, <1>6

\* The count is that of the set's records, so SPop finds one of those.
LEMMA SPopRemoves ==
  ASSUME StoreInv, raced = {}, NEW k \in Keys, SPop(k)
  PROVE  \E S \in SUBSET Members : RemoveMembers(k, S)
  <1>0. PICK v : v = meta[k].version
    OBVIOUS
  <1> DEFINE stored == Stored(k, v)
             own    == Records(k, v, stored)
             f      == [m \in stored |-> <<k, v, m>>]
  <1>1. Live(k) /\ meta[k] # NoMeta /\ Fresh(k) /\ meta[k].count \in Int
    BY LiveFacts DEF SPop, StoreInv
  <1>2. IsFiniteSet(stored) /\ stored \subseteq Members
    BY StoredFinite
  <1>3. meta[k].count = Cardinality(stored)
    BY <1>0, <1>1 DEF StoreInv, CountsStored
  <1>4. Cardinality(own) = Cardinality(stored)
    <2>1. f \in [stored -> own]
      BY DEF Records
    <2>2. \A a, b \in stored : f[a] = f[b] => a = b
      OBVIOUS
    <2>3. \A y \in own : \E x \in stored : f[x] = y
      BY DEF Records
    <2>4. QED BY <1>2, <2>1, <2>2, <2>3, SameSize
  <1>5. PICK rec \in own :
          /\ meta' = [meta EXCEPT ![k] = ModifyCount(@, -1)]
          /\ data' = data \ {rec}
          /\ Shadow({rec})
          /\ UNCHANGED <<now, raced>>
    <2>1. Cardinality(stored) \in Nat
      BY <1>2, FS_CardinalityType
    <2>2. ~(meta[k].count > Cardinality(own))
      BY <1>3, <1>4, <2>1
    <2>3. own = Records(k, meta[k].version, Stored(k, meta[k].version))
      BY <1>0
    <2>4. QED BY <2>2, <2>3 DEF SPop
  <1>6. PICK m \in stored : rec = <<k, v, m>>
    BY <1>5 DEF Records
  <1>7. {m} \cap stored = {m} /\ Cardinality({m}) = 1
    BY <1>6, FS_Singleton
  <1>8. {rec} = Records(k, v, {m})
    BY <1>6 DEF Records
  <1>9. RemoveMembers(k, {m})
    BY <1>0, <1>1, <1>5, <1>7, <1>8 DEF RemoveMembers
  <1>10. QED BY <1>2, <1>9

\* Every handler of one set is one of the store's writes.
LEMMA HandlerWrites ==
  ASSUME NoRepeats, StoreInv, raced = {}, NEW k \in Keys, Handler(k)
  PROVE  \/ \E S \in SUBSET Members : AddMembers(k, S) \/ RemoveMembers(k, S)
         \/ \E ttl \in Ttls : Expire(k, ttl)
         \/ \E ts \in Timestamps : Expireat(k, ts)
         \/ Persist(k)
         \/ Del(k)
  <1>1. ASSUME NEW S \in SUBSET Members, SAdd(k, S)
        PROVE  \E T \in SUBSET Members : AddMembers(k, T)
    BY <1>1 DEF SAdd
  <1>2. ASSUME NEW args \in RemArgs, SRem(k, args)
        PROVE  \E S \in SUBSET Members : RemoveMembers(k, S)
    BY <1>2, SRemRemoves
  <1>3. CASE SPop(k)
    BY <1>3, SPopRemoves
  <1>4. QED BY <1>1, <1>2, <1>3 DEF Handler

----------------------------------------------------------------------------
(* SMove.                                                                   *)

\* What one batch of SMove writes: to, the destination's meta value, keeps its
\* incarnation or begins one, and counts m; P is {m} or, if dst has it, empty.
Moves(src, dst, m, to, P) ==
  LET v    == meta[src].version
      gone == Records(src, v, {m})
      put  == Records(dst, to.version, P)
  IN  /\ src # dst /\ Live(src) /\ m \in Stored(src, v)
      /\ meta' = [meta EXCEPT ![src] = ModifyCount(meta[src], -1), ![dst] = to]
      /\ data' = (data \ gone) \cup put
      /\ Shadow(gone \cup put)
      /\ now' = now
      /\ \/ /\ Live(dst)
            /\ to.version = meta[dst].version
            /\ to.timestamp = meta[dst].timestamp
            /\ raced' = raced
         \/ /\ ~Live(dst)
            /\ Unreached(dst, to.version)
            /\ to.timestamp = 0
            /\ raced' = raced \ {dst}
            /\ Stored(dst, to.version) = {}
      /\ m \in Stored(dst, to.version) \cup P
      /\ dst \notin raced' => to.count = Cardinality(Stored(dst, to.version) \cup P)

\* A destination that has the member, one that gets it, and one that begins anew.
LEMMA SMoveMoves ==
  ASSUME StoreInv, NEW src \in Keys, NEW dst \in Keys, NEW m \in Members,
         SMove(src, dst, m)
  PROVE  \E to \in MetaValue, P \in SUBSET {m} : Moves(src, dst, m, to, P)
  <1>1. Live(dst) => /\ meta[dst] \in MetaValue /\ meta[dst].count \in Int
                     /\ dst \notin raced =>
                          meta[dst].count = Cardinality(Stored(dst, meta[dst].version))
    BY LiveFacts DEF StoreInv, CountsStored
  <1>2. CASE m \in Visible(dst)
    <2>1. Live(dst) /\ m \in Stored(dst, meta[dst].version)
      BY <1>2 DEF Visible
    <2>2. Records(dst, meta[dst].version, {}) = {}
      BY DEF Records
    <2>3. Stored(dst, meta[dst].version) \cup {} = Stored(dst, meta[dst].version)
      OBVIOUS
    <2>4. Moves(src, dst, m, meta[dst], {})
      BY <1>1, <1>2, <2>1, <2>2, <2>3 DEF SMove, Moves
    <2>5. QED BY <1>1, <2>1, <2>4
  <1>3. CASE Live(dst) /\ m \notin Visible(dst)
    <2>1. PICK to : to = ModifyCount(meta[dst], 1)
      OBVIOUS
    <2>2. /\ to \in MetaValue /\ to.version = meta[dst].version
          /\ to.timestamp = meta[dst].timestamp /\ to.count = meta[dst].count + 1
      BY <1>1, <1>3, <2>1 DEF ModifyCount, MetaValue
    <2>3. PICK A \in SUBSET Members : A = Stored(dst, to.version)
      BY StoredFinite
    <2>4. m \notin A
      BY <1>3, <2>2, <2>3 DEF Visible
    <2>5. Cardinality(A \cup {m}) = Cardinality(A) + 1
      BY <2>3, <2>4, StoredFinite, FS_AddElement
    <2>6. dst \notin raced' => to.count = Cardinality(A \cup {m})
      BY <1>1, <1>3, <2>2, <2>3, <2>5 DEF SMove
    <2>7. Moves(src, dst, m, to, {m})
      BY <1>3, <2>1, <2>2, <2>3, <2>6 DEF SMove, Moves
    <2>8. QED BY <2>2, <2>7
  <1>4. CASE ~Live(dst)
    <2>1. PICK to : to = SetCount(Renewed(dst), 1)
      OBVIOUS
    <2>2. /\ to \in MetaValue /\ to.version = Renewed(dst).version
          /\ to.timestamp = 0 /\ to.count = 1
      BY <2>1, RenewedMeta DEF SetCount, MetaValue, StoreInv
    <2>3. Unreached(dst, to.version) /\ Stored(dst, to.version) = {}
      BY <2>2, RenewedUnreached, RenewedUnused DEF StoreInv
    <2>4. m \notin Visible(dst)
      BY <1>4 DEF Visible
    <2>5. Cardinality(Stored(dst, to.version) \cup {m}) = 1
      BY <2>3, FS_Singleton
    <2>6. Moves(src, dst, m, to, {m})
      BY <1>4, <2>1, <2>2, <2>3, <2>4, <2>5 DEF SMove, Moves
    <2>7. QED BY <2>2, <2>6
  <1>5. QED BY <1>2, <1>3, <1>4

\* What a move leaves of the meta values: one member less at its source.
LEMMA MovesMeta ==
  ASSUME StoreInv, NEW src \in Keys, NEW dst \in Keys, NEW m \in Members,
         NEW to \in MetaValue, NEW P \in SUBSET {m}, Moves(src, dst, m, to, P)
  PROVE  /\ meta' \in [Keys -> MetaValue \cup {NoMeta}]
         /\ meta[src] \in MetaValue /\ meta'[src] # NoMeta
         /\ meta'[src].version = meta[src].version /\ meta[src].version \in Nat
         /\ meta'[src].timestamp = meta[src].timestamp
         /\ meta'[src].count = meta[src].count - 1 /\ meta[src].count \in Int
         /\ meta'[dst] = to /\ to # NoMeta /\ to.version \in Nat
         /\ \A j \in Keys \ {src, dst} : meta'[j] = meta[j]
  <1>1. meta[src] \in MetaValue /\ ModifyCount(meta[src], -1) \in MetaValue
    BY LiveFacts DEF Moves, StoreInv, MetaValue, ModifyCount
  <1>2. /\ meta'[src] = ModifyCount(meta[src], -1) /\ meta'[dst] = to
        /\ \A j \in Keys \ {src, dst} : meta'[j] = meta[j]
        /\ meta' \in [Keys -> MetaValue \cup {NoMeta}]
    BY <1>1 DEF Moves, StoreInv, StoreTypeOK
  <1>3. ModifyCount(meta[src], -1) # NoMeta /\ to # NoMeta
    BY <1>1, NoMetaAssumption
  <1>4. QED BY <1>1, <1>2, <1>3 DEF ModifyCount, MetaValue

\* SMove keeps StoreInv.
LEMMA MovesInv ==
  ASSUME StoreInv, NEW src \in Keys, NEW dst \in Keys, NEW m \in Members,
         NEW to \in MetaValue, NEW P \in SUBSET {m}, Moves(src, dst, m, to, P)
  PROVE  StoreInv'
  <1>0. PICK v \in Nat, w \in Nat : v = meta[src].version /\ w = to.version
    BY MovesMeta
  <1> DEFINE gone == Records(src, v, {m})
             put  == Records(dst, w, P)
  <1>1. /\ src # dst /\ Live(src) /\ Fresh(src) /\ m \in Stored(src, v)
        /\ data' = (data \ gone) \cup put
        /\ Shadow(gone \cup put)
        /\ now' = now
    BY <1>0, LiveFacts DEF Moves, StoreInv
  <1>2. /\ meta' \in [Keys -> MetaValue \cup {NoMeta}]
        /\ meta'[src] # NoMeta /\ meta[src] # NoMeta
        /\ meta'[src].version = v
        /\ meta'[src].timestamp = meta[src].timestamp
        /\ meta'[src].count = meta[src].count - 1 /\ meta[src].count \in Int
        /\ meta'[dst] = to /\ to # NoMeta
        /\ \A j \in Keys \ {src, dst} : meta'[j] = meta[j]
    BY <1>0, <1>1, MovesMeta, LiveFacts DEF StoreInv
  <1>3. /\ raced' \subseteq raced /\ \A j \in Keys \ {dst} : j \in raced' <=> j \in raced
        /\ \/ Live(dst) /\ Fresh(dst) /\ w = meta[dst].version
              /\ to.timestamp = meta[dst].timestamp /\ raced' = raced /\ meta[dst] # NoMeta
           \/ Unreached(dst, w)
        /\ dst \notin raced' => to.count = Cardinality(Stored(dst, w) \cup P)
    BY <1>0, LiveFacts DEF Moves, StoreInv
  <1>4. /\ FilterOnlyShrinks
        /\ filter'.todo = filter.todo \ (gone \cup put)
        /\ filter'.doomed = filter.doomed \ (gone \cup put)
    BY <1>1, ShadowShrinks DEF StoreInv
  <1>5. DoomedAreDead' /\ AbsenceStaysTrue' /\ MemoryStaysSafe'
    <2>1. \A j \in Keys \ {dst} : Stays(j)
      BY <1>0, <1>2, <1>3 DEF Stays
    <2>2. Stays(dst) \/ Begins(dst)
      BY <1>0, <1>2, <1>3 DEF Stays, Begins
    <2>3. \A j \in Keys : Stays(j) \/ Begins(j)
      BY <2>1, <2>2
    <2>4. QED BY <1>1, <1>4, <2>3, StaysOrBegins
  <1>6. /\ put \in SUBSET DataKey /\ \A rec \in put : rec[1] = dst /\ rec[2] = w
        /\ \A rec \in gone : rec[1] = src
    BY RecordsType DEF Records
  <1>7. StoreTypeOK'
    BY <1>1, <1>2, <1>3, <1>4, <1>6 DEF StoreInv, StoreTypeOK, FilterOnlyShrinks
  <1>8. VersionsBehindMeta'
    <2> SUFFICES ASSUME NEW rec \in data'
                 PROVE  IF meta'[rec[1]] = NoMeta THEN rec[2] < now'
                                                  ELSE rec[2] <= meta'[rec[1]].version
      BY DEF VersionsBehindMeta
    <2>1. rec[1] \in Keys /\ rec[2] \in Nat
      BY <1>7 DEF StoreTypeOK, DataKey
    <2>2. CASE rec \in put
      BY <1>0, <1>2, <1>6, <2>2
    <2>3. CASE rec \in data /\ rec[1] = dst
      <3>1. rec[2] <= w
        BY <1>0, <1>3, <2>1, <2>3 DEF StoreInv, VersionsBehindMeta, Unreached
      <3>2. QED BY <1>0, <1>2, <2>3, <3>1
    <2>4. CASE rec \in data /\ rec[1] # dst
      BY <1>0, <1>1, <1>2, <2>1, <2>4 DEF StoreInv, VersionsBehindMeta
    <2>5. QED BY <1>1, <2>2, <2>3, <2>4
  <1>9. CountsStored'
    <2> SUFFICES ASSUME NEW j \in Keys \ raced', Fresh(j)'
                 PROVE  meta'[j].count = Cardinality(StoredIn(data', j, meta'[j].version))
      BY DEF CountsStored, Stored, StoredIn
    <2>1. CASE j = src
      <3>1. PICK A \in SUBSET Members : A = Stored(src, v)
        BY StoredFinite
      <3>2. StoredIn(data', src, v) = A \ {m}
        BY <1>1, <1>6, <3>1 DEF Stored, StoredIn, Records
      <3>3. meta[src].count = Cardinality(A)
        BY <1>0, <1>1, <1>3, <2>1, <3>1 DEF StoreInv, CountsStored
      <3>4. Cardinality(A \ {m}) = Cardinality(A) - 1
        <4>1. {m} \in SUBSET A
          BY <1>1, <3>1
        <4>2. QED BY <4>1, ShrinksByHeld, FS_Singleton
      <3>5. QED BY <1>2, <2>1, <3>2, <3>3, <3>4
    <2>2. CASE j = dst
      <3>1. StoredIn(data', dst, w) = Stored(dst, w) \cup P
        BY <1>1 DEF Stored, StoredIn, Records
      <3>2. QED BY <1>0, <1>2, <1>3, <2>2, <3>1
    <2>3. CASE j \notin {src, dst}
      <3>1. meta'[j] = meta[j] /\ Fresh(j) /\ j \notin raced
        BY <1>1, <1>2, <1>3, <2>3 DEF Fresh, IsStale
      <3>2. StoredIn(data', j, meta[j].version) = Stored(j, meta[j].version)
        BY <1>1, <2>3 DEF Stored, StoredIn, Records
      <3>3. QED BY <3>1, <3>2 DEF StoreInv, CountsStored
    <2>4. QED BY <2>1, <2>2, <2>3
  <1>10. FilterWorksOnData'
    BY <1>1, <1>4 DEF StoreInv, FilterWorksOnData
  <1>11. QED BY <1>5, <1>7, <1>8, <1>9, <1>10 DEF StoreInv

----------------------------------------------------------------------------
(* A *store between its reads and its write.                                *)

\* A step that leaves the destination of the *store to its holder: no record is
\* added to it, its meta value stays or is dropped, and the filter learns of it
\* no more than is there.
LeavesDestination ==
  /\ pending' = pending
  /\ \A rec \in data' : rec[1] = pending.dst => rec \in data
  /\ meta'[pending.dst] \in {meta[pending.dst], NoMeta}
  /\ filter'.key = pending.dst /\ filter'.meta # NoMeta =>
       \/ filter'.meta = meta[pending.dst]
       \/ filter'.key = filter.key /\ filter'.meta = filter.meta

\* Such a step keeps what is said of the *store.
LEMMA PendingKept ==
  ASSUME SetsInv, StoreInv', pending # NoStore => LeavesDestination,
         pending' = pending
  PROVE  SetsInv'
  <1>1. SetsTypeOK'
    BY DEF SetsInv, SetsTypeOK, StoreInv
  <1>2. PendingStaysAhead'
    <2>1. CASE pending = NoStore
      BY <2>1 DEF PendingStaysAhead
    <2>2. CASE pending # NoStore
      BY <2>2 DEF SetsInv, PendingStaysAhead, LeavesDestination
    <2>3. QED BY <2>1, <2>2
  <1>3. PendingIsWhole'
    BY DEF SetsInv, PendingIsWhole
  <1>4. QED BY <1>1, <1>2, <1>3 DEF SetsInv

\* A handler of one set touches that set alone.
LEMMA HandlerTouches ==
  ASSUME NoRepeats, StoreInv, raced = {}, NEW k \in Keys, Handler(k)
  PROVE  /\ now' = now
         /\ \A j \in Keys \ {k} : meta'[j] = meta[j]
         /\ \A rec : rec[1] # k => (rec \in data' <=> rec \in data)
         /\ filter'.key = filter.key /\ filter'.meta = filter.meta
  <1>1. ASSUME NEW S \in SUBSET Members, AddMembers(k, S) \/ RemoveMembers(k, S)
        PROVE  /\ now' = now
               /\ \A j \in Keys \ {k} : meta'[j] = meta[j]
               /\ \A rec : rec[1] # k => (rec \in data' <=> rec \in data)
               /\ filter'.key = filter.key /\ filter'.meta = filter.meta
    <2>1. PICK m, v, A : /\ meta' = [meta EXCEPT ![k] = m]
                         /\ data' \in {data \ Records(k, v, A), data \cup Records(k, v, A)}
                         /\ Shadow(Records(k, v, A))
                         /\ now' = now
      <3>1. CASE AddMembers(k, S)
        <4>1. PICK m : m = IF Live(k)
                           THEN ModifyCount(meta[k], Cardinality(S \ Stored(k, meta[k].version)))
                           ELSE SetCount(Renewed(k), Cardinality(S))
          OBVIOUS
        <4>2. /\ meta' = [meta EXCEPT ![k] = m]
              /\ data' = data \cup Records(k, m.version, S)
              /\ Shadow(Records(k, m.version, S))
              /\ now' = now
          BY <3>1, <4>1 DEF AddMembers
        <4>3. QED BY <4>2
      <3>2. CASE RemoveMembers(k, S)
        <4>1. PICK v, A : v = meta[k].version /\ A = S \cap Stored(k, v)
          OBVIOUS
        <4>2. /\ meta' = [meta EXCEPT ![k] = ModifyCount(meta[k], -Cardinality(A))]
              /\ data' = data \ Records(k, v, A)
              /\ Shadow(Records(k, v, A))
              /\ now' = now
          BY <3>2, <4>1 DEF RemoveMembers
        <4>3. QED BY <4>2
      <3>3. QED BY <1>1, <3>1, <3>2
    <2>2. filter'.key = filter.key /\ filter'.meta = filter.meta
      BY <2>1, ShadowShrinks DEF FilterOnlyShrinks, StoreInv
    <2>3. QED BY <2>1, <2>2 DEF Records, StoreInv, StoreTypeOK
  <1>2. CASE \/ \E ttl \in Ttls : Expire(k, ttl)
             \/ \E ts \in Timestamps : Expireat(k, ts)
             \/ Persist(k)
             \/ Del(k)
    BY <1>2 DEF Expire, Expireat, Persist, Del, Renew, Reschedule, StoreInv, StoreTypeOK
  <1>3. QED BY <1>1, <1>2, HandlerWrites

\* A read of a *store picks a version nothing has reached.
LEMMA StoreReadInv ==
  ASSUME SetsInv, NEW dst \in Keys, NEW S \in SUBSET Members, StoreRead(dst, S)
  PROVE  SetsInv'
  <1>1. StoreInv'
    BY StutterInv DEF StoreRead, SetsInv
  <1>2. PICK m : m = SetCount(Renewed(dst), Cardinality(S))
    OBVIOUS
  <1>3. /\ m \in MetaValue /\ m.version = Renewed(dst).version
        /\ m.timestamp = 0 /\ m.count = Cardinality(S)
    <2>1. Cardinality(S) \in Int
      BY FS_Subset, FS_CardinalityType, StoreAssumption
    <2>2. QED BY <1>2, <2>1, RenewedMeta DEF SetCount, MetaValue, SetsInv, StoreInv
  <1>4. /\ pending' = [dst |-> dst, members |-> S, meta |-> m]
        /\ UNCHANGED storeVars
    BY <1>2 DEF StoreRead
  <1>5. Unreached(dst, m.version)
    BY <1>3, RenewedUnreached DEF SetsInv
  <1>6. SetsTypeOK'
    BY <1>1, <1>3, <1>4 DEF SetsTypeOK, PendingStore, StoreInv
  <1>7. PendingStaysAhead'
    BY <1>4, <1>5 DEF PendingStaysAhead, Unreached, storeVars
  <1>8. PendingIsWhole'
    BY <1>3, <1>4 DEF PendingIsWhole
  <1>9. QED BY <1>1, <1>6, <1>7, <1>8 DEF SetsInv

\* What is known of a *store that is about to write.
LEMMA PendingFacts ==
  ASSUME SetsInv, pending # NoStore
  PROVE  /\ pending.dst \in Keys /\ pending.members \in SUBSET Members
         /\ pending.meta \in MetaValue
         /\ pending.meta.count = Cardinality(pending.members)
         /\ pending.meta.timestamp = 0
         /\ Unreached(pending.dst, pending.meta.version)
  BY DEF SetsInv, SetsTypeOK, PendingStore, PendingIsWhole, PendingStaysAhead, Unreached

\* The write starts a collection under it.
LEMMA StoreWriteInv ==
  ASSUME SetsInv, StoreWrite
  PROVE  SetsInv'
  <1>1. PICK k \in Keys, S \in SUBSET Members, m \in MetaValue :
          /\ k = pending.dst /\ S = pending.members /\ m = pending.meta
          /\ m.count = Cardinality(S) /\ Unreached(k, m.version)
    BY PendingFacts DEF StoreWrite
  <1>2. /\ meta' = [meta EXCEPT ![k] = m]
        /\ data' = data \cup Records(k, m.version, S)
        /\ Shadow(Records(k, m.version, S))
        /\ now' = now /\ raced' = raced \ {k}
        /\ pending' = NoStore
    BY <1>1 DEF StoreWrite
  <1>3. StoreInv'
    BY <1>1, <1>2, StartAnewInv DEF SetsInv
  <1>4. QED BY <1>2, <1>3 DEF SetsInv, SetsTypeOK, PendingStaysAhead, PendingIsWhole, StoreInv

\* The clock, compaction and restart leave a *store's destination alone.
LEMMA MaintenanceLeaves ==
  ASSUME SetsInv, Maintenance, pending' = pending, pending # NoStore
  PROVE  LeavesDestination
  <1>1. pending.dst \in Keys /\ pending.dst # NoKey
    BY PendingFacts, StoreAssumption
  <1>2. CASE Tick
    BY <1>2 DEF Tick, LeavesDestination
  <1>3. ASSUME NEW k \in Keys, MetaCompact(k)
        PROVE  LeavesDestination
    BY <1>1, <1>3 DEF MetaCompact, LeavesDestination, SetsInv, StoreInv, StoreTypeOK
  <1>4. CASE CompactionStart
    BY <1>1, <1>4 DEF CompactionStart, LeavesDestination, NoCompaction
  <1>5. ASSUME NEW rec \in filter.todo, FilterRecord(rec)
        PROVE  LeavesDestination
    BY <1>5 DEF FilterRecord, LeavesDestination
  <1>6. CASE CompactionInstall
    BY <1>1, <1>6 DEF CompactionInstall, LeavesDestination, NoCompaction
  <1>7. QED BY <1>2, <1>3, <1>4, <1>5, <1>6 DEF Maintenance

----------------------------------------------------------------------------
(* Steps.                                                                   *)

\* What the three *store commands compute is a set of members.
LEMMA StoresRead ==
  ASSUME NEW dst \in Keys, NEW k \in Keys, NEW others \in SUBSET Keys,
         \/ SDiffstore(dst, k, others)
         \/ SInterstore(dst, k, others)
         \/ SUnionstore(dst, k, others)
  PROVE  \E S \in SUBSET Members : StoreRead(dst, S)
  <1>1. \A j \in Keys : Visible(j) \subseteq Members
    BY DEF Visible, Stored
  <1>2. /\ SDiff(k, others) \in SUBSET Members
        /\ SInter(k, others) \in SUBSET Members
        /\ SUnion(k, others) \in SUBSET Members
    BY <1>1 DEF SDiff, SInter, SUnion
  <1>3. QED BY <1>2 DEF SDiffstore, SInterstore, SUnionstore

\* Every step of the sets keeps SetsInv, as long as no key is raced.
LEMMA NextInv ==
  ASSUME NoRepeats, SetsInv, raced = {}, Next
  PROVE  SetsInv'
  <1>1. ASSUME NEW k \in Keys, Locked(k)
        PROVE  SetsInv'
    <2>1. Handler(k) /\ pending' = pending /\ k # pending.dst
      BY <1>1 DEF Locked, Free
    <2>2. StoreInv'
      BY <2>1, HandlerWrites, AddMembersInv, RemoveMembersInv, ExpiryInv DEF SetsInv
    <2>3. pending # NoStore => LeavesDestination
      BY <2>1, HandlerTouches, PendingFacts DEF LeavesDestination, SetsInv
    <2>4. QED BY <2>1, <2>2, <2>3, PendingKept
  <1>2. ASSUME NEW src \in Keys, NEW dst \in Keys, NEW m \in Members,
               Free(src), Free(dst), SMove(src, dst, m), pending' = pending
        PROVE  SetsInv'
    <2>1. PICK to \in MetaValue, P \in SUBSET {m} : Moves(src, dst, m, to, P)
      BY <1>2, SMoveMoves DEF SetsInv
    <2>2. StoreInv'
      BY <2>1, MovesInv DEF SetsInv
    <2>3. pending # NoStore => LeavesDestination
      <3>1. filter'.key = filter.key /\ filter'.meta = filter.meta
        BY <2>1, ShadowShrinks DEF Moves, FilterOnlyShrinks, SetsInv, StoreInv
      <3>2. \A rec : rec[1] \notin {src, dst} => (rec \in data' <=> rec \in data)
        BY <2>1 DEF Moves, Records
      <3>3. \A j \in Keys \ {src, dst} : meta'[j] = meta[j]
        BY <2>1, MovesMeta DEF SetsInv
      <3>4. QED BY <1>2, <3>1, <3>2, <3>3, PendingFacts DEF Free, LeavesDestination
    <2>4. QED BY <1>2, <2>2, <2>3, PendingKept
  <1>3. ASSUME NEW dst \in Keys, NEW k \in Keys, NEW others \in SUBSET Keys,
               \/ SDiffstore(dst, k, others)
               \/ SInterstore(dst, k, others)
               \/ SUnionstore(dst, k, others)
        PROVE  SetsInv'
    BY <1>3, StoresRead, StoreReadInv
  <1>4. CASE StoreWrite
    BY <1>4, StoreWriteInv
  <1>5. CASE Maintenance /\ UNCHANGED pending
    <2>1. StoreInv'
      BY <1>5, BackgroundInv DEF Background, SetsInv
    <2>2. QED BY <1>5, <2>1, MaintenanceLeaves, PendingKept
  <1>6. CASE SetsReopen
    <2>1. StoreInv' /\ pending' = NoStore
      BY <1>6, CompactionEndInv DEF SetsReopen, SetsInv
    <2>2. QED BY <2>1 DEF SetsInv, SetsTypeOK, PendingStaysAhead, PendingIsWhole, StoreInv
  <1>7. QED BY <1>1, <1>2, <1>3, <1>4, <1>5, <1>6 DEF Next

\* The empty database, and a step that changes nothing.
LEMMA InitInv == SetsInit => SetsInv /\ raced = {}
  BY StoreInitInv DEF SetsInit, StoreInit, SetsInv, SetsTypeOK, StoreInv,
     PendingStaysAhead, PendingIsWhole

\* A step that changes nothing.
LEMMA SetsStutterInv ==
  ASSUME SetsInv, UNCHANGED setsVars
  PROVE  SetsInv'
  BY StutterInv DEF setsVars, storeVars, SetsInv, SetsTypeOK, StoreInv,
     PendingStaysAhead, PendingIsWhole

----------------------------------------------------------------------------
(* Invariants.                                                              *)

\* The store's invariant holds of sets too, through moves between two of them and
\* through the steps other handlers take between a *store's reads and its write.
THEOREM SetsInvHolds ==
  ASSUME NoRepeats
  PROVE  UnracedSpec => [](SetsInv /\ raced = {})
  <1> DEFINE Inv == SetsInv /\ raced = {}
  <1>1. SetsInit => Inv
    BY InitInv
  <1>2. Inv /\ [Next /\ raced' = {}]_setsVars => Inv'
    BY NextInv, SetsStutterInv DEF setsVars
  <1>3. QED BY <1>1, <1>2, PTL DEF UnracedSpec

\* SCard is the number of members SMembers returns, of every set at any time.
THEOREM SetLengthIsRight ==
  ASSUME NoRepeats
  PROVE  UnracedSpec => []LengthAlwaysCountsMembers
  <1>1. SetsInv /\ raced = {} => LengthAlwaysCountsMembers
    <2> SUFFICES ASSUME SetsInv, raced = {}, NEW k \in Keys
                 PROVE  Length(k) = Cardinality(Visible(k))
      BY DEF LengthAlwaysCountsMembers
    <2>1. CASE Live(k)
      BY <2>1, LiveFacts DEF SetsInv, StoreInv, CountsStored, Length, Visible
    <2>2. CASE ~Live(k)
      BY <2>2, FS_EmptySet DEF Length, Visible
    <2>3. QED BY <2>1, <2>2
  <1>2. QED BY <1>1, SetsInvHolds, PTL

----------------------------------------------------------------------------
(* What becomes visible.                                                    *)

\* A move uncovers no record but the one it puts.
LEMMA MovesUncovers ==
  ASSUME StoreInv, NEW src \in Keys, NEW dst \in Keys, NEW m \in Members,
         NEW to \in MetaValue, NEW P \in SUBSET {m}, Moves(src, dst, m, to, P),
         NEW j \in Keys
  PROVE  Uncovers(j)
  <1> SUFFICES ASSUME NEW x \in Visible(j)', x \notin Visible(j)
               PROVE  <<j, meta'[j].version, x>> \notin data
    BY DEF Uncovers
  <1>1. /\ Live(j)' /\ x \in Members /\ <<j, meta'[j].version, x>> \in data'
        /\ src # dst
    BY DEF Visible, Stored, Moves
  <1>2. CASE j = src
    <2>1. meta'[src].version = meta[src].version
      BY MovesMeta
    <2>2. Live(src) /\ x \notin Stored(src, meta[src].version)
      BY <1>2 DEF Moves, Visible
    <2>3. QED BY <1>1, <1>2, <2>1, <2>2 DEF Stored
  <1>3. CASE j = dst
    <2>1. meta'[dst].version = to.version
      BY MovesMeta
    <2>2. x \notin Stored(dst, to.version)
      BY <1>3 DEF Moves, Visible
    <2>3. QED BY <1>1, <1>3, <2>1, <2>2 DEF Stored
  <1>4. CASE j \notin {src, dst}
    <2>1. meta'[j] = meta[j] /\ now' = now
      BY <1>4, MovesMeta DEF Moves
    <2>2. \A y \in Members : \A v : <<j, v, y>> \in data' <=> <<j, v, y>> \in data
      BY <1>4 DEF Moves, Records
    <2>3. Visible(j)' = Visible(j)
      BY <2>1, <2>2, SameSeen
    <2>4. QED BY <2>3
  <1>5. QED BY <1>2, <1>3, <1>4

\* Nor does the write of a *store.
LEMMA StoreWriteUncovers ==
  ASSUME SetsInv, StoreWrite, NEW j \in Keys
  PROVE  Uncovers(j)
  <1>1. PICK k \in Keys, S \in SUBSET Members, m \in MetaValue :
          /\ k = pending.dst /\ S = pending.members /\ m = pending.meta
          /\ Unreached(k, m.version)
    BY PendingFacts DEF StoreWrite
  <1>2. /\ meta'[k] = m /\ \A i \in Keys \ {k} : meta'[i] = meta[i]
        /\ data' = data \cup Records(k, m.version, S)
        /\ now' = now /\ m.version \in Nat
    BY <1>1 DEF StoreWrite, SetsInv, StoreInv, StoreTypeOK, MetaValue
  <1>3. CASE j = k
    <2>1. \A x : <<k, m.version, x>> \notin data
      <3>1. ASSUME NEW x, <<k, m.version, x>> \in data
            PROVE  FALSE
        <4>1. m.version < m.version
          BY <1>1, <3>1 DEF Unreached
        <4>2. QED BY <1>2, <4>1
      <3>2. QED BY <3>1
    <2>2. QED BY <1>2, <1>3, <2>1 DEF Uncovers
  <1>4. CASE j # k
    <2>1. \A y \in Members : \A v : <<j, v, y>> \in data' <=> <<j, v, y>> \in data
      BY <1>2, <1>4 DEF Records
    <2>2. Visible(j)' = Visible(j)
      BY <1>2, <1>4, <2>1, SameSeen
    <2>3. QED BY <2>2 DEF Uncovers
  <1>5. QED BY <1>3, <1>4

\* No handler, move, *store or background step brings back a member it did not
\* write.
THEOREM SetsNeverResurface ==
  ASSUME NoRepeats
  PROVE  UnracedSpec => NothingResurfaces
  <1>1. ASSUME SetsInv, raced = {}, [Next /\ raced' = {}]_setsVars
        PROVE  [\A k \in Keys : \A m \in Visible(k)' \ Visible(k) :
                  <<k, meta[k]'.version, m>> \notin data]_storeVars
    <2>1. ASSUME NEW j \in Keys, NEW k \in Keys, Handler(k)
          PROVE  Uncovers(j)
      BY <1>1, <2>1, HandlerWrites, AddMembersUncovers, RemoveMembersUncovers,
         ExpiryUncovers DEF SetsInv
    <2>2. ASSUME NEW j \in Keys, NEW src \in Keys, NEW dst \in Keys, NEW m \in Members,
                 SMove(src, dst, m)
          PROVE  Uncovers(j)
      BY <1>1, <2>2, SMoveMoves, MovesUncovers DEF SetsInv
    <2>3. ASSUME NEW j \in Keys, StoreWrite
          PROVE  Uncovers(j)
      BY <1>1, <2>3, StoreWriteUncovers
    <2>4. ASSUME NEW j \in Keys, Background
          PROVE  Uncovers(j)
      BY <1>1, <2>4, BackgroundUncovers DEF SetsInv
    <2>5. SetsReopen => Reopen \/ UNCHANGED storeVars
      BY DEF SetsReopen, Reopen, storeVars
    <2>6. Next => (\A j \in Keys : Uncovers(j)) \/ UNCHANGED storeVars
      BY <2>1, <2>2, <2>3, <2>4, <2>5
         DEF Next, Locked, Background, SDiffstore, SInterstore, SUnionstore, StoreRead
    <2>7. QED BY <1>1, <2>6 DEF Uncovers, setsVars, storeVars
  <1>2. QED BY <1>1, SetsInvHolds, PTL DEF UnracedSpec, NothingResurfaces

----------------------------------------------------------------------------
(* Refinement.                                                              *)

\* Of a meta value that has not run out, a reader sees the records of its version.
LEMMA FreshSeen ==
  StoreInv /\ raced = {} =>
    \A k \in Keys : Fresh(k) => Visible(k) = Stored(k, meta[k].version)
  <1> SUFFICES ASSUME StoreInv, raced = {}, NEW k \in Keys, Fresh(k)
               PROVE  Visible(k) = Stored(k, meta[k].version)
    OBVIOUS
  <1>1. CASE Live(k)
    BY <1>1 DEF Visible
  <1>2. CASE ~Live(k)
    <2>1. meta[k].count = 0
      BY <1>2 DEF Fresh, Live, IsLive
    <2>2. Cardinality(Stored(k, meta[k].version)) = 0
      BY <2>1 DEF StoreInv, CountsStored
    <2>3. Stored(k, meta[k].version) = {}
      BY <2>2, StoredFinite, FS_EmptySet
    <2>4. QED BY <1>2, <2>3 DEF Visible
  <1>3. QED BY <1>1, <1>2

\* The same of the state a step leads to.
LEMMA FreshSeenNext ==
  (StoreInv /\ raced = {})' =>
    (\A k \in Keys : Fresh(k) => Visible(k) = Stored(k, meta[k].version))'
  BY FreshSeen, PTL

\* A move takes the member out of one collection and puts it into the other.
LEMMA MovesPromised ==
  ASSUME StoreInv, StoreInv', raced = {}, raced' = {},
         NEW src \in Keys, NEW dst \in Keys, NEW m \in Members,
         NEW to \in MetaValue, NEW P \in SUBSET {m}, Moves(src, dst, m, to, P)
  PROVE  Promise!Move(src, dst, m)
  <1>0. PICK v \in Nat, w \in Nat : v = meta[src].version /\ w = to.version
    BY MovesMeta
  <1>a. /\ src # dst /\ Live(src) /\ Fresh(src) /\ m \in Stored(src, v)
        /\ data' = (data \ Records(src, v, {m})) \cup Records(dst, w, P)
        /\ now' = now
    BY <1>0, LiveFacts DEF Moves, StoreInv
  <1>b. /\ meta'[src].version = v /\ meta'[src].timestamp = meta[src].timestamp
        /\ meta'[src] # NoMeta /\ meta'[dst] = to /\ to # NoMeta
        /\ \A j \in Keys \ {src, dst} : meta'[j] = meta[j]
    BY <1>0, <1>a, MovesMeta, LiveFacts DEF StoreInv
  <1>1. /\ src # dst /\ Live(src) /\ Fresh(src) /\ m \in Stored(src, v)
        /\ data' = (data \ Records(src, v, {m})) \cup Records(dst, w, P)
        /\ now' = now
        /\ meta'[src].version = v /\ meta'[src].timestamp = meta[src].timestamp
        /\ meta'[src] # NoMeta /\ meta'[dst] = to /\ to # NoMeta
        /\ \A j \in Keys \ {src, dst} : meta'[j] = meta[j]
    BY <1>a, <1>b
  <1>2. /\ \/ /\ Live(dst) /\ w = meta[dst].version
              /\ to.timestamp = meta[dst].timestamp
           \/ ~Live(dst) /\ to.timestamp = 0 /\ Stored(dst, w) = {}
        /\ m \in Stored(dst, w) \cup P
    BY <1>0 DEF Moves
  <1>3. Visible(src) = Stored(src, v) /\ Visible(src) # {}
    BY <1>0, <1>1 DEF Visible
  <1>4. Visible(src)' = Visible(src) \ {m}
    <2>1. Fresh(src)'
      BY <1>1 DEF Fresh, IsStale
    <2>2. Visible(src)' = Stored(src, v)'
      BY <1>1, <2>1, FreshSeenNext DEF Stored
    <2>3. Stored(src, v)' = Stored(src, v) \ {m}
      BY <1>1 DEF Stored, Records
    <2>4. QED BY <1>3, <2>2, <2>3
  <1>5. Visible(dst)' = Visible(dst) \cup {m}
    <2>1. Fresh(dst)'
      BY <1>1, <1>2 DEF Fresh, IsStale, Live, IsLive
    <2>2. Visible(dst)' = Stored(dst, w)'
      BY <1>0, <1>1, <2>1, FreshSeenNext DEF Stored
    <2>3. Stored(dst, w)' = Stored(dst, w) \cup P
      BY <1>1 DEF Stored, Records
    <2>4. Visible(dst) = Stored(dst, w)
      BY <1>2 DEF Visible
    <2>5. QED BY <1>2, <2>2, <2>3, <2>4
  <1>6. \A j \in Keys \ {src, dst} : Visible(j)' = Visible(j)
    <2> SUFFICES ASSUME NEW j \in Keys \ {src, dst}
                 PROVE  Visible(j)' = Visible(j)
      OBVIOUS
    <2>1. \A x \in Members : \A u : <<j, u, x>> \in data' <=> <<j, u, x>> \in data
      BY <1>1 DEF Records
    <2>2. QED BY <1>1, <2>1, SameSeen
  <1>7. Seen' = [Seen EXCEPT ![src] = @ \ {m}, ![dst] = @ \cup {m}]
    BY <1>1, <1>4, <1>5, <1>6 DEF Seen
  <1>8. Due' = [Due EXCEPT ![src] = IF Seen[src] = {m} THEN 0 ELSE @]
    <2>1. Due'[src] = IF Seen[src] = {m} THEN 0 ELSE Due[src]
      <3>1. Visible(src) \ {m} = {} <=> Visible(src) = {m}
        BY <1>1, <1>3
      <3>2. QED BY <1>1, <1>3, <1>4, <3>1 DEF Due, Seen
    <2>2. Due'[dst] = Due[dst]
      <3>1. Visible(dst) = {} <=> ~Live(dst)
        BY VisibleIffLive
      <3>2. QED BY <1>1, <1>2, <1>5, <3>1 DEF Due
    <2>3. \A j \in Keys \ {src, dst} : Due'[j] = Due[j]
      BY <1>1, <1>6 DEF Due
    <2>4. QED BY <2>1, <2>2, <2>3 DEF Due
  <1>9. m \in Seen[src]
    BY <1>1, <1>3 DEF Seen
  <1>10. QED BY <1>1, <1>7, <1>8, <1>9 DEF Promise!Move, Seen, Due

\* The write of a *store replaces a collection, though its reads lie behind.
LEMMA StoreWritePromised ==
  ASSUME SetsInv, StoreInv', raced = {}, raced' = {}, StoreWrite
  PROVE  \E k \in Keys, S \in SUBSET Members : Promise!Replace(k, S)
  <1>1. PICK k \in Keys, S \in SUBSET Members, m \in MetaValue :
          /\ k = pending.dst /\ S = pending.members /\ m = pending.meta
          /\ m.timestamp = 0 /\ Unreached(k, m.version)
    BY PendingFacts DEF StoreWrite
  <1>2. /\ meta'[k] = m /\ \A i \in Keys \ {k} : meta'[i] = meta[i]
        /\ data' = data \cup Records(k, m.version, S)
        /\ now' = now /\ m.version \in Nat /\ m # NoMeta
    BY <1>1, NoMetaAssumption DEF StoreWrite, SetsInv, StoreInv, StoreTypeOK, MetaValue
  <1>3. Stored(k, m.version)' = S
    <2>1. ASSUME NEW x, <<k, m.version, x>> \in data
          PROVE  FALSE
      <3>1. m.version < m.version
        BY <1>1, <2>1 DEF Unreached
      <3>2. QED BY <1>2, <3>1
    <2>2. QED BY <1>2, <2>1 DEF Stored, Records
  <1>4. Visible(k)' = S
    <2>1. Fresh(k)'
      BY <1>1, <1>2 DEF Fresh, IsStale
    <2>2. Visible(k)' = Stored(k, m.version)'
      BY <1>2, <2>1, FreshSeenNext DEF Stored
    <2>3. QED BY <1>3, <2>2
  <1>5. \A j \in Keys \ {k} : Visible(j)' = Visible(j) /\ meta'[j] = meta[j]
    <2>1. \A rec : rec[1] # k => (rec \in data' <=> rec \in data)
      BY <1>2 DEF Records
    <2>2. QED BY <1>2, <2>1, OthersSeen
  <1>6. Becomes(k, S, 0)
    BY <1>1, <1>2, <1>4, <1>5, BecomePromised
  <1>7. Promise!Replace(k, S)
    BY <1>6 DEF Becomes, Seen, Due, Promise!Replace, Promise!Become
  <1>8. QED BY <1>7

\* A handler of one set is a step of the map of expiring collections.
LEMMA HandlerPromised ==
  ASSUME NoRepeats, StoreInv, StoreInv', raced = {}, raced' = {}, NEW k \in Keys,
         Handler(k)
  PROVE  Promise!Next
  <1>1. ASSUME NEW S \in SUBSET Members, AddMembers(k, S) \/ RemoveMembers(k, S)
        PROVE  Promise!Next
    BY <1>1, AddMembersPromised, RemoveMembersPromised DEF Promise!Next
  <1>2. CASE \/ \E ttl \in Ttls : Expire(k, ttl)
             \/ \E ts \in Timestamps : Expireat(k, ts)
             \/ Persist(k)
             \/ Del(k)
    BY <1>2, ExpiryPromised DEF Promise!Next
  <1>3. QED BY <1>1, <1>2, HandlerWrites

\* A reader cannot tell RedisSets from a map of collections that expire.
THEOREM SetsKeepPromise ==
  ASSUME NoRepeats
  PROVE  UnracedSpec => KeepsPromise
  <1> DEFINE Inv == SetsInv /\ raced = {}
  <1>1. SetsInit => Promise!Init
    BY InitPromised DEF SetsInit
  <1>2. Inv /\ Inv' /\ [Next /\ raced' = {}]_setsVars
          => [Promise!Next]_Promise!collections
    <2> SUFFICES ASSUME Inv, Inv', [Next /\ raced' = {}]_setsVars
                 PROVE  Promise!Next \/ UNCHANGED Promise!collections
      OBVIOUS
    <2>0. StoreInv /\ StoreInv' /\ raced = {} /\ raced' = {}
      BY DEF SetsInv
    <2>1. CASE Background
      <3>1. CASE Promise!Tick
        BY <3>1 DEF Promise!Next
      <3>2. CASE Seen' = Seen /\ Due' = Due /\ now' = now
        BY <3>2 DEF Promise!collections, Seen, Due
      <3>3. QED BY <2>0, <2>1, <3>1, <3>2, BackgroundPromised
    <2>2. ASSUME NEW k \in Keys, Handler(k)
          PROVE  Promise!Next
      BY <2>0, <2>2, HandlerPromised
    <2>3. ASSUME NEW src \in Keys, NEW dst \in Keys, NEW m \in Members,
                 SMove(src, dst, m)
          PROVE  Promise!Next
      <3>1. Promise!Move(src, dst, m)
        BY <2>0, <2>3, SMoveMoves, MovesPromised
      <3>2. QED BY <3>1 DEF Promise!Next
    <2>4. CASE StoreWrite
      BY <2>0, <2>4, StoreWritePromised DEF Promise!Next
    <2>5. CASE UNCHANGED storeVars
      BY <2>5 DEF storeVars, Promise!collections, Visible, Stored, Live, IsLive, IsStale
    <2>6. SetsReopen => Reopen \/ UNCHANGED storeVars
      BY DEF SetsReopen, Reopen, storeVars
    <2>7. UNCHANGED setsVars => UNCHANGED storeVars
      BY DEF setsVars, storeVars
    <2>8. QED BY <2>1, <2>2, <2>3, <2>4, <2>5, <2>6, <2>7
              DEF Next, Locked, Background, SDiffstore, SInterstore, SUnionstore, StoreRead
  <1>3. QED BY <1>1, <1>2, SetsInvHolds, PTL DEF UnracedSpec, KeepsPromise, Promise!Spec
=============================================================================
