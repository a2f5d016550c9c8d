-------------------------------- MODULE MCSets -------------------------------
(* RedisSets for TLC. *)
EXTENDS RedisSets, TLC

KeySymmetry == Permutations(Keys)

\* Expire with these deletes at once; Expireat gives a deadline that may pass.
PastTtl == {-1}

\* Argument lists of SRem that name no member twice, and one that does.
Lists == UNION {[1 .. n -> Members] : n \in 1 .. 2}
DistinctArgs ==
  {args \in Lists : \A i, j \in DOMAIN args : args[i] = args[j] => i = j}
RepeatedArgs == {<<m, m>> : m \in Members}
=============================================================================
