------------------------------ MODULE RedisLists ------------------------------
(***************************************************************************)
(* RedisLists: the handlers that change a list, over the store of           *)
(* CollectionStore.  The nodes of a list are records under consecutive      *)
(* indices, and its meta value keeps the two indices that enclose them, so  *)
(* the members of CollectionStore are indices here.  Both filters of        *)
(* lists_filter.h judge as those of base_filter.h do.                       *)
(*                                                                          *)
(* RPush takes no record lock.  It is two steps, its Get and its Write, and *)
(* any other handler may run between them.                                  *)
(***************************************************************************)
EXTENDS CollectionStore, Sequences

CONSTANTS
  Half,      \* 2^63: indices are the numbers below 2 * Half
  Values,    \* the values of nodes
  NoValue,   \* what reading a node that is not there answers
  PushArgs,  \* the argument lists of LPush and RPush
  Indexes,   \* the index arguments of LSet and LTrim, and LRem's counts
  MaxRecords \* bound: no push beyond this many records, dead ones included

ASSUME ListsAssumption ==
  /\ Half \in Nat \ {0}
  /\ Members = 0 .. 2 * Half - 1
  /\ NoValue \notin Values
  /\ PushArgs \subseteq Seq(Values) \ {<<>>}
  /\ Indexes \subseteq -Half .. Half - 1
  /\ MaxRecords \in Nat

VARIABLES
  window,  \* the left_index and right_index of each key's meta value
  value,   \* the values of the records in data
  pending  \* the RPush between its Get and its Write, if any

listsVars == <<meta, data, now, filter, raced, window, value, pending>>

Window == [left: Members, right: Members]

InitialWindow == [left |-> Half - 1, right |-> Half]

\* The meta value and window it will write, and the values it appends.
PendingPush == [key: Keys, meta: MetaValue, window: Window, values: PushArgs]

\* Bound: one RPush at a time.
NoPush == [key |-> NoKey, meta |-> NoMeta, window |-> InitialWindow, values |-> <<>>]

ListsTypeOK ==
  /\ StoreTypeOK
  /\ window \in [Keys -> Window]
  /\ value \in [data -> Values]
  /\ pending \in PendingPush \cup {NoPush}

ListsInit ==
  /\ StoreInit
  /\ window = [k \in Keys |-> InitialWindow]
  /\ value = <<>>
  /\ pending = NoPush

----------------------------------------------------------------------------
(* Reads.                                                                   *)

First(k) == window[k].left + 1

Last(k) == window[k].right - 1

Node(k, i) ==
  LET rec == <<k, meta[k].version, i>> IN IF rec \in data THEN value[rec] ELSE NoValue

\* The list: its nodes from the first to the last.
Elements(k) ==
  IF Live(k) THEN [i \in 1 .. Last(k) - window[k].left |-> Node(k, window[k].left + i)]
             ELSE <<>>

\* Where the nodes holding v are.
Occurrences(k, v) == {i \in First(k) .. Last(k) : Node(k, i) = v}

\* The bug of counting a negative index from the last node.
PositionFromLast(k, i) ==
  (IF i >= 0 THEN First(k) + i ELSE Last(k) + i) % (2 * Half)

\* The index of a node counted from the first (i >= 0) or the last (i < 0), as
\* LIndex, LSet, LRange and LTrim compute it in 64 bits.
Position(k, i) ==
  (IF i >= 0 THEN window[k].left + i + 1 ELSE window[k].right + i) % (2 * Half)

LIndex(k, i) ==
  IF Live(k) /\ Position(k, i) \in First(k) .. Last(k) THEN Node(k, Position(k, i))
                                                     ELSE NoValue

\* The indices from start to stop that are in the list, as LRange and LTrim
\* clip them.
InRange(k, start, stop) ==
  {i \in First(k) .. Last(k) : Position(k, start) <= i /\ i <= Position(k, stop)}

Least(S) == CHOOSE i \in S : \A j \in S : i <= j

Greatest(S) == CHOOSE i \in S : \A j \in S : j <= i

LRange(k, start, stop) ==
  LET found == InRange(k, start, stop)
  IN  IF Live(k) THEN [i \in 1 .. Cardinality(found) |-> Node(k, Least(found) + i - 1)]
                 ELSE <<>>

\* The iterators of LInsert and LRem step from record to record and take them
\* to be consecutive.  Bound: they run on lists that are.
Consecutive(k) == \A i \in First(k) .. Last(k) : Node(k, i) # NoValue

----------------------------------------------------------------------------
(* Writes.                                                                  *)

\* One WriteBatch: the meta values ms and windows ws of some keys, then the
\* records of puts with their values, then the deletions.
Write(ms, ws, puts, dels) ==
  /\ \A k \in DOMAIN ms :
       /\ ms[k].version <= MaxVersion
       /\ ws[k] \in Window
  /\ meta' = [k \in Keys |-> IF k \in DOMAIN ms THEN ms[k] ELSE meta[k]]
  /\ window' = [k \in Keys |-> IF k \in DOMAIN ws THEN ws[k] ELSE window[k]]
  /\ data' = (data \cup DOMAIN puts) \ dels
  /\ Cardinality(data') <= MaxRecords
  /\ value' = [rec \in data' |-> IF rec \in DOMAIN puts THEN puts[rec] ELSE value[rec]]
  /\ Shadow(DOMAIN puts \cup dels)
  /\ raced' = raced \ {k \in DOMAIN ms : meta[k] = NoMeta \/ ms[k].version # meta[k].version}
  /\ UNCHANGED now

Only(k, x) == [j \in {k} |-> x]

\* The records of k under a version that give the indices in DOMAIN f the
\* values f.
Nodes(k, version, f) == [rec \in Records(k, version, DOMAIN f) |-> f[rec[3]]]

\* A write to k alone that keeps its version: count changes by delta, the
\* nodes f are put and those at the indices gone deleted.
Update(k, delta, left, right, f, gone) ==
  Write(Only(k, ModifyCount(meta[k], delta)), Only(k, [left |-> left, right |-> right]),
        Nodes(k, meta[k].version, f), Records(k, meta[k].version, gone))

\* The bug of a new incarnation that takes over the old indices.
PushWindowKept(k) == window[k]

\* The meta value and the window a push starts from.
PushMeta(k) == IF Live(k) THEN meta[k] ELSE Renewed(k)

PushWindow(k) == IF Live(k) THEN window[k] ELSE InitialWindow

----------------------------------------------------------------------------
(* Handlers of one key.                                                     *)

LPush(k, vs) ==
  LET m    == ModifyCount(PushMeta(k), Len(vs))
      left == PushWindow(k).left
  IN  Write(Only(k, m), Only(k, [PushWindow(k) EXCEPT !.left = @ - Len(vs)]),
            Nodes(k, m.version, [i \in left - Len(vs) + 1 .. left |-> vs[left - i + 1]]), {})

LPushx(k, v) == Live(k) /\ LPush(k, <<v>>)

RPushx(k, v) ==
  /\ Live(k)
  /\ Update(k, 1, window[k].left, window[k].right + 1, Only(window[k].right, v), {})

LPop(k) ==
  /\ Live(k)
  /\ Node(k, First(k)) # NoValue
  /\ Update(k, -1, window[k].left + 1, window[k].right, <<>>, {First(k)})

\* The bug of taking the last node and leaving right_index where it was.
RPopKeepsIndex(k) ==
  /\ Live(k)
  /\ Node(k, Last(k)) # NoValue
  /\ Update(k, -1, window[k].left, window[k].right, <<>>, {Last(k)})

RPop(k) ==
  /\ Live(k)
  /\ Node(k, Last(k)) # NoValue
  /\ Update(k, -1, window[k].left, window[k].right - 1, <<>>, {Last(k)})

LSet(k, i, v) ==
  /\ Live(k)
  /\ Position(k, i) \in First(k) .. Last(k)
  /\ Update(k, 0, window[k].left, window[k].right, Only(Position(k, i), v), {})

\* The first node that holds pivot gets a new neighbour.  The nodes of the half
\* that the pivot is in move one index outwards.
LInsert(k, before, pivot, v) ==
  LET w   == window[k]
      p   == Least(Occurrences(k, pivot))
      mid == w.left + (w.right - w.left) \div 2
      toTheLeft  == IF before THEN p - 1 ELSE p
      toTheRight == IF before THEN p ELSE p + 1
  IN  /\ Live(k)
      /\ Consecutive(k)
      /\ Occurrences(k, pivot) # {}
      /\ \/ /\ p <= mid
            /\ Update(k, 1, w.left - 1, w.right,
                 [i \in w.left .. toTheLeft |->
                    IF i = toTheLeft THEN v ELSE Node(k, i + 1)], {})
         \/ /\ p > mid
            /\ Update(k, 1, w.left, w.right + 1,
                 [i \in toTheRight .. w.right |->
                    IF i = toTheRight THEN v ELSE Node(k, i - 1)], {})

\* The nodes LRem removes: the first count that hold v, the last -count if
\* count is negative, all if it is 0.
Targets(k, count, v) ==
  LET hits == Occurrences(k, v)
  IN  CASE count = 0 -> hits
        [] count > 0 -> {i \in hits : Cardinality({j \in hits : j < i}) < count}
        [] count < 0 -> {i \in hits : Cardinality({j \in hits : j > i}) < -count}

\* The nodes between the nearer end and the farthest target close ranks, and
\* the indices that come free at that end are deleted.
LRem(k, count, v) ==
  LET w       == window[k]
      targets == Targets(k, count, v)
      n       == Cardinality(targets)
      low     == Least(targets)
      high    == Greatest(targets)
      gap     == First(k) .. First(k) + n - 1
      tail    == Last(k) - n + 1 .. Last(k)
      Before(i) == Cardinality({t \in targets : t <= i})
      Beyond(i) == Cardinality({t \in targets : t >= i})
      \* The node that comes to lie at i when those before high move right.
      FromLeft(i) == CHOOSE j \in (First(k) .. high) \ targets : j + Beyond(j) = i
      FromRight(i) == CHOOSE j \in (low .. Last(k)) \ targets : j - Before(j) = i
  IN  /\ Live(k)
      /\ Consecutive(k)
      /\ targets # {}
      /\ \/ /\ high - First(k) <= Last(k) - low
            /\ Update(k, -n, w.left + n, w.right,
                 [i \in First(k) + n .. high |-> Node(k, FromLeft(i))], gap)
         \/ /\ high - First(k) > Last(k) - low
            /\ Update(k, -n, w.left, w.right - n,
                 [i \in low .. Last(k) - n |-> Node(k, FromRight(i))], tail)

\* An empty range deletes every node and renews the meta value; otherwise the
\* nodes outside the range go and the window shrinks to it.
LTrim(k, start, stop) ==
  LET kept == InRange(k, start, stop)
      gone == (First(k) .. Last(k)) \ kept
  IN  /\ Live(k)
      /\ \/ /\ kept = {}
            /\ Write(Only(k, Renewed(k)), Only(k, InitialWindow), <<>>,
                     Records(k, meta[k].version, gone))
         \/ /\ kept # {}
            /\ Update(k, -Cardinality(gone), Least(kept) - 1, Greatest(kept) + 1,
                      <<>>, gone)

\* Del, Expire, Expireat and Persist: a renewed meta value has the initial
\* window, and so has one that compaction dropped when it is created again.
WindowFollows ==
  /\ window' = [k \in Keys |->
       IF meta[k] # NoMeta /\ meta'[k] # NoMeta /\ meta'[k].version = meta[k].version
       THEN window[k] ELSE InitialWindow]
  /\ value' = [rec \in data' |-> value[rec]]

KeyHandler(k) ==
  \/ \E ttl \in Ttls : Expire(k, ttl)
  \/ \E ts \in Timestamps : Expireat(k, ts)
  \/ Persist(k)
  \/ Del(k)

----------------------------------------------------------------------------
(* RPoplpush and RPush.                                                     *)

\* One batch moves src's last node in front of dst's first.  Over one key, a
\* list of one node is left as it is.
RPoplpush(src, dst) ==
  LET v  == Node(src, Last(src))
      to == ModifyCount(PushMeta(dst), 1)
      at == PushWindow(dst).left
  IN  /\ Live(src)
      /\ v # NoValue
      /\ \/ /\ src = dst
            /\ meta[src].count # 1
            /\ Update(src, 0, window[src].left - 1, window[src].right - 1,
                      Only(window[src].left, v), {Last(src)})
         \/ /\ src # dst
            /\ Write([k \in {src, dst} |->
                        IF k = src THEN ModifyCount(meta[src], -1) ELSE to],
                     [k \in {src, dst} |->
                        IF k = src THEN [window[src] EXCEPT !.right = @ - 1]
                                   ELSE [PushWindow(dst) EXCEPT !.left = @ - 1]],
                     Nodes(dst, to.version, Only(at, v)),
                     Records(src, meta[src].version, {Last(src)}))

RPushRead(k, vs) ==
  /\ pending = NoPush
  /\ pending' = [key    |-> k,
                 meta   |-> ModifyCount(PushMeta(k), Len(vs)),
                 window |-> [PushWindow(k) EXCEPT !.right = @ + Len(vs)],
                 values |-> vs]
  /\ pending'.window \in Window
  /\ UNCHANGED <<storeVars, window, value>>

RPushWrite ==
  LET right == pending.window.right - Len(pending.values)
  IN  /\ pending # NoPush
      /\ Write(Only(pending.key, pending.meta), Only(pending.key, pending.window),
               Nodes(pending.key, pending.meta.version,
                     [i \in right .. pending.window.right - 1 |->
                        pending.values[i - right + 1]]), {})
      /\ pending' = NoPush

ListsReopen ==
  /\ filter # NoCompaction \/ pending # NoPush
  /\ filter' = NoCompaction
  /\ pending' = NoPush
  /\ UNCHANGED <<meta, data, now, raced, window, value>>

----------------------------------------------------------------------------

Handler(k) ==
  \/ \E vs \in PushArgs : LPush(k, vs)
  \/ \E v \in Values : LPushx(k, v) \/ RPushx(k, v)
  \/ LPop(k)
  \/ RPop(k)
  \/ \E i \in Indexes, v \in Values : LSet(k, i, v) \/ LRem(k, i, v)
  \/ \E before \in BOOLEAN, pivot, v \in Values : LInsert(k, before, pivot, v)
  \/ \E start, stop \in Indexes : LTrim(k, start, stop)
  \/ KeyHandler(k) /\ WindowFollows

\* The handlers of the keys K, each of which locks its keys.
Locked(K) ==
  /\ \/ \E k \in K : Handler(k)
     \/ \E src, dst \in K : RPoplpush(src, dst)
  /\ UNCHANGED pending

Others ==
  \/ \E k \in Keys, vs \in PushArgs : RPushRead(k, vs)
  \/ RPushWrite
  \/ Maintenance /\ WindowFollows /\ UNCHANGED pending
  \/ ListsReopen

Next == Locked(Keys) \/ Others

Spec == ListsInit /\ [][Next]_listsVars

\* As if RPush locked its key, and without the TTL changes that compaction does
\* not survive.
UnracedSpec ==
  ListsInit /\ [][(Locked(Keys \ {pending.key}) \/ Others) /\ raced' = {}]_listsVars

----------------------------------------------------------------------------
(* Properties.                                                              *)

\* The window of a key that has not expired encloses exactly the nodes stored
\* under its version, and the count is their number: every handler that moves
\* an index moves it by what it puts and deletes.
WindowEnclosesNodes ==
  \A k \in Keys \ raced : Fresh(k) =>
    /\ Stored(k, meta[k].version) = First(k) .. Last(k)
    /\ meta[k].count = Last(k) - window[k].left

\* The push that waits for its write begins a list of its own, where there is none
\* while it waits, under a version that nothing reaches meanwhile.
PushBegins ==
  LET k == pending.key
      m == pending.meta
      n == Len(pending.values)
  IN  /\ ~Live(k) /\ m.timestamp = 0
      /\ \A rec \in data : rec[1] = k => rec[2] < m.version
      /\ meta[k] # NoMeta => meta[k].version < m.version
      /\ filter.key = k /\ filter.meta # NoMeta => filter.meta.version < m.version
      /\ m.count = n
      /\ pending.window = [InitialWindow EXCEPT !.right = @ + n]

\* Or it prolongs one that is as the push found it, unless that has expired and
\* compaction has dropped its meta value.
PushProlongs ==
  LET k == pending.key
      m == pending.meta
      n == Len(pending.values)
  IN  /\ \A rec \in data : rec[1] = k => rec[2] <= m.version
      /\ pending.window.left < pending.window.right - n
      /\ meta[k] = NoMeta => IsStale(m, now)
      /\ meta[k] # NoMeta => /\ m = ModifyCount(meta[k], n) /\ meta[k].count # 0
                             /\ pending.window = [window[k] EXCEPT !.right = @ + n]
      /\ filter.key = k /\ filter.meta # NoMeta =>
           /\ filter.meta.version <= m.version
           /\ filter.meta.version = m.version /\ filter.meta.timestamp # 0 =>
                m.timestamp # 0 /\ m.timestamp <= filter.meta.timestamp

\* Every reachable state has the shapes of ListsTypeOK, satisfies the store's
\* inductive invariant, which the filters rest on, and keeps window, count and
\* nodes of every list in agreement, also with those of the push under way.
ListsInv ==
  /\ ListsTypeOK
  /\ StoreInv
  /\ WindowEnclosesNodes
  /\ pending # NoPush => PushBegins \/ PushProlongs

\* The promise of ExpiringLists, read off the store.
Lists == INSTANCE ExpiringLists WITH
  contents <- [k \in Keys |-> Elements(k)],
  deadline <- [k \in Keys |-> IF Elements(k) = <<>> THEN 0 ELSE meta[k].timestamp]

\* With pushes that exclude each other, and as long as no key's life is extended
\* behind a filter's back, a reader cannot tell the store from a map of
\* sequences that expire.
KeepsListPromise == Lists!Spec

\* The index argument i and the window add up to an index without a carry.
Fits(k, i) ==
  IF i >= 0 THEN window[k].left + i + 1 < 2 * Half ELSE window[k].right + i >= 0

\* LRange and LIndex find what the sequence has there, at either end and from
\* either end.  LIndex does so for every argument, LRange for those whose sum
\* with an index does not wrap.
ReadsAsPromised ==
  \A k \in Keys, i, j \in Indexes :
    LET s == Elements(k)
    IN  /\ Fits(k, i) /\ Fits(k, j) => LRange(k, i, j) = Lists!Trimmed(s, i, j)
        /\ LIndex(k, i) = IF Lists!Place(s, i) \in DOMAIN s THEN s[Lists!Place(s, i)]
                                                            ELSE NoValue

\* What each handler does to the window is what its command promises of the
\* sequence, for every index argument, pivot and count it is called with.  Only
\* LTrim asks that the arguments do not wrap.
HandlersDoAsPromised ==
  [][/\ \A k \in Keys :
          /\ \A vs \in PushArgs : LPush(k, vs) => Lists!PushLeft(k, vs)
          /\ \A v \in Values : /\ LPushx(k, v) => Lists!PushLeft(k, <<v>>)
                               /\ RPushx(k, v) => Lists!PushRight(k, <<v>>)
          /\ LPop(k) => Lists!PopLeft(k)
          /\ RPop(k) => Lists!PopRight(k)
          /\ \A i \in Indexes, v \in Values : /\ LSet(k, i, v) => Lists!Set(k, i, v)
                                             /\ LRem(k, i, v) => Lists!Remove(k, i, v)
          /\ \A before \in BOOLEAN, pivot, v \in Values :
               LInsert(k, before, pivot, v) => Lists!Insert(k, before, pivot, v)
          /\ \A start, stop \in Indexes :
               Fits(k, start) /\ Fits(k, stop) /\ LTrim(k, start, stop)
                 => Lists!Trim(k, start, stop)
     /\ \A src, dst \in Keys : RPoplpush(src, dst) => Lists!Move(src, dst)]_listsVars
=============================================================================
