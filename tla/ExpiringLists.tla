---------------------------- MODULE ExpiringLists ----------------------------
(***************************************************************************)
(* What RedisLists promises its callers, with no indices, versions, counts  *)
(* or compaction: a map from keys to sequences, each of which is gone the   *)
(* second after its deadline.                                               *)
(***************************************************************************)
EXTENDS Integers, Sequences, FiniteSets

CONSTANTS Keys, Values, PushArgs, Indexes

VARIABLES
  contents,  \* the sequence of each key; a key that is absent has an empty one
  deadline,  \* the last second of each key's life, 0 for none
  now

lists == <<contents, deadline, now>>

Init ==
  /\ contents = [k \in Keys |-> <<>>]
  /\ deadline = [k \in Keys |-> 0]
  /\ now = 1

\* The element at i, counted from 0 at the head or from -1 at the tail.
Place(s, i) == IF i >= 0 THEN i + 1 ELSE Len(s) + i + 1

Reversed(s) == [i \in DOMAIN s |-> s[Len(s) - i + 1]]

\* s without the elements at the places of gone.
Without(s, gone) ==
  LET kept == DOMAIN s \ gone
  IN  [i \in 1 .. Cardinality(kept) |->
         s[CHOOSE j \in kept : Cardinality({h \in kept : h <= j}) = i]]

\* The first count places of v in s, the last -count, or all of them.
PlacesToRemove(s, count, v) ==
  LET places == {i \in DOMAIN s : s[i] = v}
  IN  CASE count = 0 -> places
        [] count > 0 -> {i \in places : Cardinality({j \in places : j < i}) < count}
        [] count < 0 -> {i \in places : Cardinality({j \in places : j > i}) < -count}

FirstPlace(s, v) == CHOOSE i \in DOMAIN s : s[i] = v /\ \A j \in 1 .. i - 1 : s[j] # v

Trimmed(s, start, stop) ==
  LET low  == Place(s, start)
      high == Place(s, stop)
  IN  SubSeq(s, IF low < 1 THEN 1 ELSE low, IF high > Len(s) THEN Len(s) ELSE high)

\* k comes to hold s; a key that holds nothing has no deadline.
Become(k, s) ==
  /\ contents' = [contents EXCEPT ![k] = s]
  /\ deadline' = [deadline EXCEPT ![k] = IF s = <<>> THEN 0 ELSE @]
  /\ UNCHANGED now

PushLeft(k, vs) == Become(k, Reversed(vs) \o contents[k])

PushRight(k, vs) == Become(k, contents[k] \o vs)

PopLeft(k) == contents[k] # <<>> /\ Become(k, Tail(contents[k]))

PopRight(k) ==
  contents[k] # <<>> /\ Become(k, SubSeq(contents[k], 1, Len(contents[k]) - 1))

Set(k, i, v) ==
  /\ Place(contents[k], i) \in DOMAIN contents[k]
  /\ Become(k, [contents[k] EXCEPT ![Place(contents[k], i)] = v])

Insert(k, before, pivot, v) ==
  LET s    == contents[k]
      gap  == IF before THEN FirstPlace(s, pivot) - 1 ELSE FirstPlace(s, pivot)
  IN  /\ \E i \in DOMAIN s : s[i] = pivot
      /\ Become(k, SubSeq(s, 1, gap) \o <<v>> \o SubSeq(s, gap + 1, Len(s)))

Remove(k, count, v) ==
  Become(k, Without(contents[k], PlacesToRemove(contents[k], count, v)))

Trim(k, start, stop) == Become(k, Trimmed(contents[k], start, stop))

Clear(k) == Become(k, <<>>)

Move(source, destination) ==
  LET s == contents[source]
      d == IF source = destination THEN SubSeq(s, 1, Len(s) - 1)
                                   ELSE contents[destination]
  IN  /\ s # <<>>
      /\ contents' = [contents EXCEPT ![source] = SubSeq(s, 1, Len(s) - 1),
                                      ![destination] = <<s[Len(s)]>> \o d]
      /\ deadline' = [deadline EXCEPT ![source] =
           IF Len(s) = 1 /\ source # destination THEN 0 ELSE @]
      /\ UNCHANGED now

\* Lift, set or move k's deadline.  (A deadline in the past is a Clear.)
SetDeadline(k) ==
  /\ contents[k] # <<>>
  /\ deadline' \in [Keys -> Nat]
  /\ deadline'[k] = 0 \/ deadline'[k] >= now
  /\ \A j \in Keys \ {k} : deadline'[j] = deadline[j]
  /\ UNCHANGED <<contents, now>>

Tick ==
  LET over == {k \in Keys : deadline[k] # 0 /\ deadline[k] < now + 1}
  IN  /\ now' = now + 1
      /\ contents' = [k \in Keys |-> IF k \in over THEN <<>> ELSE contents[k]]
      /\ deadline' = [k \in Keys |-> IF k \in over THEN 0 ELSE deadline[k]]

Next ==
  \/ Tick
  \/ \E k \in Keys :
       \/ \E vs \in PushArgs \cup {<<v>> : v \in Values} : PushLeft(k, vs) \/ PushRight(k, vs)
       \/ PopLeft(k) \/ PopRight(k) \/ Clear(k) \/ SetDeadline(k)
       \/ \E i \in Indexes, v \in Values : Set(k, i, v) \/ Remove(k, i, v)
       \/ \E before \in BOOLEAN, pivot, v \in Values : Insert(k, before, pivot, v)
       \/ \E i, j \in DOMAIN contents[k] : Trim(k, i - 1, j - 1)
  \/ \E k, j \in Keys : Move(k, j)

Spec == Init /\ [][Next]_lists
=============================================================================
