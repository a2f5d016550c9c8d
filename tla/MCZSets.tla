-------------------------------- MODULE MCZSets ------------------------------
(* RedisZSets for TLC. *)
EXTENDS RedisZSets

Interval(min, max, leftClose, rightClose) ==
  [min |-> min, max |-> max, leftClose |-> leftClose, rightClose |-> rightClose]

\* Open and closed at either end, one score or all of them.
SomeIntervals ==
  {Interval(1, 2, FALSE, TRUE), Interval(1, 2, TRUE, FALSE), Interval(0, 9, TRUE, TRUE)}

SomeIndexes == {-2, 1}

\* One source, or the same one twice under two weights.
Arguments(keys, weights, agg) == [keys |-> keys, weights |-> weights, agg |-> agg]
SomeStoreArgs ==
  {Arguments(<<1>>, <<2>>, "SUM"), Arguments(<<1, 1>>, <<>>, "SUM"),
   Arguments(<<1, 1>>, <<2>>, "MIN"), Arguments(<<1, 1>>, <<2>>, "MAX")}
=============================================================================
