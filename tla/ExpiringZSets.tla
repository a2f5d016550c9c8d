---------------------------- MODULE ExpiringZSets ----------------------------
(***************************************************************************)
(* What RedisZSets promises its callers, with no versions, counts, column   *)
(* families, snapshots or compaction: a map from keys to functions of       *)
(* members to scores, each of which is gone the second after its deadline.  *)
(***************************************************************************)
EXTENDS Integers, FiniteSets, FiniteSetsExt

CONSTANTS
  Keys, Members,
  Scorings,    \* the nonempty partial functions from members to scores
  Intervals,   \* of scores
  LexIntervals,\* of members
  Indexes,     \* arguments that count from either end
  StoreArgs    \* what ZUnionstore and ZInterstore are given besides a destination

VARIABLES
  contents,  \* the score of each member of each key
  deadline,  \* the last second of each key's life, 0 for none
  now

zsets == <<contents, deadline, now>>

Nothing == [x \in {} |-> 0]

Init ==
  /\ contents = [k \in Keys |-> Nothing]
  /\ deadline = [k \in Keys |-> 0]
  /\ now = 1

----------------------------------------------------------------------------
(* A scoring orders its members by score, then by name.                     *)

Below(c, x, y) == c[x] < c[y] \/ (c[x] = c[y] /\ x < y)

Rank(c, x) == Cardinality({y \in DOMAIN c : Below(c, y, x)})

Revrank(c, x) == Cardinality({y \in DOMAIN c : Below(c, x, y)})

In(interval, x) ==
  /\ interval.min < x \/ (interval.leftClose /\ interval.min = x)
  /\ x < interval.max \/ (interval.rightClose /\ x = interval.max)

\* The members whose rank lies between two indices that count from 0 at the low
\* end or from -1 at the high end.
Place(c, i) == IF i >= 0 THEN i ELSE Cardinality(DOMAIN c) + i

ByRank(c, start, stop) ==
  {x \in DOMAIN c : Place(c, start) <= Rank(c, x) /\ Rank(c, x) <= Place(c, stop)}

ByRevrank(c, start, stop) ==
  {x \in DOMAIN c : Place(c, start) <= Revrank(c, x) /\ Revrank(c, x) <= Place(c, stop)}

ByScore(c, interval) == {x \in DOMAIN c : In(interval, c[x])}

ByLex(c, interval) == {x \in DOMAIN c : In(interval, x)}

----------------------------------------------------------------------------
(* Combining scorings.                                                      *)

Weight(args, i) == IF i \in DOMAIN args.weights THEN args.weights[i] ELSE 1

\* The weighted scores of x in the scorings of args, combined as args.agg says.
Combined(args, x) ==
  LET holding == {i \in DOMAIN args.keys : x \in DOMAIN contents[args.keys[i]]}
      score(i) == Weight(args, i) * contents[args.keys[i]][x]
  IN  CASE args.agg = "SUM" -> MapThenSumSet(score, holding)
        [] args.agg = "MIN" -> Min({score(i) : i \in holding})
        [] args.agg = "MAX" -> Max({score(i) : i \in holding})

Sources(args) == {DOMAIN contents[args.keys[i]] : i \in DOMAIN args.keys}

Union(args) == [x \in UNION Sources(args) |-> Combined(args, x)]

Inter(args) ==
  [x \in {x \in UNION Sources(args) : \A D \in Sources(args) : x \in D}
     |-> Combined(args, x)]

----------------------------------------------------------------------------
(* Commands.                                                                *)

\* k comes to hold c until ts; a key that holds nothing has no deadline.
Become(k, c, ts) ==
  /\ contents' = [contents EXCEPT ![k] = c]
  /\ deadline' = [deadline EXCEPT ![k] = IF c = Nothing THEN 0 ELSE ts]
  /\ UNCHANGED now

Add(k, f) ==
  Become(k, [x \in DOMAIN f \cup DOMAIN contents[k] |->
               IF x \in DOMAIN f THEN f[x] ELSE contents[k][x]], deadline[k])

Incrby(k, x, by) ==
  Add(k, [y \in {x} |-> IF x \in DOMAIN contents[k] THEN contents[k][x] + by ELSE by])

Remove(k, S) ==
  Become(k, [x \in DOMAIN contents[k] \ S |-> contents[k][x]], deadline[k])

PopMin(k, n) == Remove(k, {x \in DOMAIN contents[k] : Rank(contents[k], x) < n})

PopMax(k, n) == Remove(k, {x \in DOMAIN contents[k] : Revrank(contents[k], x) < n})

RemoveByRank(k, start, stop) == Remove(k, ByRank(contents[k], start, stop))

RemoveByScore(k, interval) == Remove(k, ByScore(contents[k], interval))

RemoveByLex(k, interval) == Remove(k, ByLex(contents[k], interval))

UnionStore(k, args) == Become(k, Union(args), 0)

InterStore(k, args) == Become(k, Inter(args), 0)

Delete(S) ==
  /\ contents' = [k \in Keys |-> IF k \in S THEN Nothing ELSE contents[k]]
  /\ deadline' = [k \in Keys |-> IF k \in S THEN 0 ELSE deadline[k]]
  /\ UNCHANGED now

\* Lift, set or move k's deadline.  (A deadline in the past is a Delete.)
SetDeadline(k) ==
  /\ contents[k] # Nothing
  /\ deadline' \in [Keys -> Nat]
  /\ deadline'[k] = 0 \/ deadline'[k] >= now
  /\ \A j \in Keys \ {k} : deadline'[j] = deadline[j]
  /\ UNCHANGED <<contents, now>>

Tick ==
  LET over == {k \in Keys : deadline[k] # 0 /\ deadline[k] < now + 1}
  IN  /\ now' = now + 1
      /\ contents' = [k \in Keys |-> IF k \in over THEN Nothing ELSE contents[k]]
      /\ deadline' = [k \in Keys |-> IF k \in over THEN 0 ELSE deadline[k]]

\* Incrby is an Add, the pops and the removals of intervals are Removes.
Command(k) ==
  \/ \E f \in Scorings : Add(k, f)
  \/ \E S \in SUBSET Members : Remove(k, S)
  \/ \E args \in StoreArgs : UnionStore(k, args) \/ InterStore(k, args)
  \/ SetDeadline(k)

Next == Tick \/ (\E S \in SUBSET Keys : Delete(S)) \/ \E k \in Keys : Command(k)

Spec == Init /\ [][Next]_zsets
=============================================================================
