------------------------------- MODULE MCHashes ------------------------------
(* RedisHashes for TLC. *)
EXTENDS RedisHashes, TLC

MemberSymmetry == Permutations(Members)

\* Arguments of Expire and Expireat on both sides of zero.
AnyTtl == {-1, 1}
AnyTimestamp == {-1, 2}
=============================================================================
