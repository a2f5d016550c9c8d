------------------------------ MODULE MCLockMgr ------------------------------
(* LockMgr for TLC: three keys on two stripes. *)
EXTENDS LockMgr

TwoStripes == [k \in Keys |-> IF k = 1 THEN "b" ELSE "a"]
SomeRequests == {{0}, {2}, {0, 1}, {0, 1, 2}}
=============================================================================
