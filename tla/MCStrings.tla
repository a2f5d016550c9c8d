------------------------------ MODULE MCStrings ------------------------------
(* RedisStrings for TLC: bytes of two bits, 0 NUL, 1 and 2 the digits, 3 the sign. *)
EXTENDS RedisStrings, TLC

SomeTexts == {<<>>, <<2>>}

\* The least and the greatest.
SomeNumbers == {-2, 1}

SomeIndexes == {-2, -1, 0, 1}

SomeTtls == {-1, 1}

Reading(op, keys) == [op |-> op, keys |-> keys]

SomeCalls ==
  {[op |-> "MSetnx", keys |-> <<1, 2>>, put |-> (1 :> <<1>> @@ 2 :> <<2>>)],
   [op |-> "PfAdd", keys |-> <<1>>, hashes |-> {}],
   [op |-> "PfAdd", keys |-> <<1>>, hashes |-> {<<1, 2>>}],
   Reading("PfMerge", <<1, 2>>),
   Reading("PKPatternMatchDel", <<1, 2>>)}
  \cup {[op |-> "BitOp", dst |-> 2, keys |-> <<1, 2>>, how |-> how] : how \in {"AND", "XOR"}}
  \cup {[op |-> "BitOp", dst |-> 2, keys |-> <<1>>, how |-> "NOT"]}
=============================================================================
