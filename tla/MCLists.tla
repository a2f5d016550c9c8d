-------------------------------- MODULE MCLists ------------------------------
(* RedisLists for TLC. *)
EXTENDS RedisLists, TLC

KeySymmetry == Permutations(Keys)

ValueSymmetry == Permutations(Values)

\* Indices are 0 .. 2 * Half - 1; a new list lies in the middle.
AllIndices == 0 .. 2 * Half - 1

Pushes == {<<v>> : v \in Values} \cup {<<v, w>> : v, w \in Values}

\* Index arguments from the least to the greatest there is.
AllArguments == -Half .. Half - 1
=============================================================================
