------------------------- MODULE ExpiringCollections -------------------------
(***************************************************************************)
(* What RedisHashes and RedisSets promise their callers, with no versions,  *)
(* no counts and no compaction: a map from keys to finite collections, each *)
(* of which is gone the second after its deadline.                          *)
(***************************************************************************)
EXTENDS Integers

CONSTANTS Keys, Members

VARIABLES
  contents,  \* what each key holds; a key that is absent holds nothing
  deadline,  \* the last second of each key's life, 0 for none
  now

collections == <<contents, deadline, now>>

Init ==
  /\ contents = [k \in Keys |-> {}]
  /\ deadline = [k \in Keys |-> 0]
  /\ now = 1

\* k comes to hold S until ts; a key that holds nothing has no deadline.
Become(k, S, ts) ==
  /\ contents' = [contents EXCEPT ![k] = S]
  /\ deadline' = [deadline EXCEPT ![k] = IF S = {} THEN 0 ELSE ts]
  /\ UNCHANGED now

Put(k, S) == Become(k, contents[k] \cup S, deadline[k])

Remove(k, S) == Become(k, contents[k] \ S, deadline[k])

Replace(k, S) == Become(k, S, 0)

\* Lift, set or move k's deadline.  (A deadline in the past is a Replace by {}.)
SetDeadline(k) ==
  /\ contents[k] # {}
  /\ deadline' \in [Keys -> Nat]
  /\ deadline'[k] = 0 \/ deadline'[k] >= now
  /\ \A j \in Keys \ {k} : deadline'[j] = deadline[j]
  /\ UNCHANGED <<contents, now>>

Move(source, destination, m) ==
  /\ source # destination
  /\ m \in contents[source]
  /\ contents' = [contents EXCEPT ![source] = @ \ {m}, ![destination] = @ \cup {m}]
  /\ deadline' = [deadline EXCEPT ![source] = IF contents[source] = {m} THEN 0 ELSE @]
  /\ UNCHANGED now

Tick ==
  LET over == {k \in Keys : deadline[k] # 0 /\ deadline[k] < now + 1}
  IN  /\ now' = now + 1
      /\ contents' = [k \in Keys |-> IF k \in over THEN {} ELSE contents[k]]
      /\ deadline' = [k \in Keys |-> IF k \in over THEN 0 ELSE deadline[k]]

Next ==
  \/ Tick
  \/ \E k \in Keys, S \in SUBSET Members : Put(k, S) \/ Remove(k, S) \/ Replace(k, S)
  \/ \E k \in Keys : SetDeadline(k)
  \/ \E k, j \in Keys, m \in Members : Move(k, j, m)

Spec == Init /\ [][Next]_collections
=============================================================================
