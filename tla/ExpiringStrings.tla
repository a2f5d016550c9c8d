--------------------------- MODULE ExpiringStrings ---------------------------
(***************************************************************************)
(* What RedisStrings promises its callers, with no records that outlive     *)
(* their deadline, no compaction, no 64-bit offsets, no words and no calls  *)
(* in several steps: a map from keys to strings of bytes, each of which is  *)
(* gone the second after its deadline, and what each command does to it.    *)
(***************************************************************************)
EXTENDS Integers, Sequences, FiniteSets

CONSTANTS
  Keys,
  Width,    \* the bits of a byte
  NoString  \* what a key without a string holds

VARIABLES
  contents,  \* the string of each key
  deadline,  \* the last second of each key's life, 0 for none
  now

expiringStrings == <<contents, deadline, now>>

Held(k) == contents[k] # NoString

Text(k) == IF Held(k) THEN contents[k] ELSE <<>>

----------------------------------------------------------------------------
(* Bits.  Bit 0 of a string is the highest of its first byte.               *)

\* TwoTo[n] is 2^n.
TwoTo[n \in Nat] == IF n = 0 THEN 1 ELSE 2 * TwoTo[n - 1]

Bits(s) == 0 .. Width * Len(s) - 1

BitAt(s, i) ==
  IF i \in Bits(s) THEN (s[(i \div Width) + 1] \div TwoTo[Width - 1 - (i % Width)]) % 2
                   ELSE 0

\* The place of an index that counts from 0 at the head or from -1 at the end.
Place(s, i) == IF i >= 0 THEN i ELSE Len(s) + i

\* The bytes of s whose index is between two such indices.
Slice(s, start, stop) ==
  {i \in 1 .. Len(s) : Place(s, start) <= i - 1 /\ i - 1 <= Place(s, stop)}

Substring(s, start, stop) ==
  LET I == Slice(s, start, stop)
      nth(n) == CHOOSE i \in I : Cardinality({j \in I : j <= i}) = n
  IN  [n \in 1 .. Cardinality(I) |-> s[nth(n)]]

\* The first bit of s that is b and whose byte is one of I, -1 if there is none.
FirstBit(s, I, b) ==
  LET found == {i \in Bits(s) : (i \div Width) + 1 \in I /\ BitAt(s, i) = b}
  IN  IF found = {} THEN -1 ELSE CHOOSE i \in found : \A j \in found : i <= j

SetBits(s, I) == {i \in Bits(s) : (i \div Width) + 1 \in I /\ BitAt(s, i) = 1}

----------------------------------------------------------------------------
(* Commands.                                                                *)

\* The keys of S come to hold the strings of put until ts.
BecomeAll(put, ts) ==
  /\ contents' = [k \in Keys |-> IF k \in DOMAIN put THEN put[k] ELSE contents[k]]
  /\ deadline' = [k \in Keys |-> IF k \in DOMAIN put THEN ts ELSE deadline[k]]
  /\ UNCHANGED now

Become(k, s, ts) == BecomeAll([j \in {k} |-> s], ts)

Delete(S) ==
  /\ contents' = [k \in Keys |-> IF k \in S THEN NoString ELSE contents[k]]
  /\ deadline' = [k \in Keys |-> IF k \in S THEN 0 ELSE deadline[k]]
  /\ UNCHANGED now

Extend(k, s) == Become(k, Text(k) \o s, deadline[k])

\* s over the bytes from offset on, with zeros between it and the old string.
Overwrite(k, offset, s) ==
  LET old == Text(k)
      end == IF offset + Len(s) > Len(old) THEN offset + Len(s) ELSE Len(old)
  IN  Become(k, [i \in 1 .. end |->
                   IF i \in offset + 1 .. offset + Len(s) THEN s[i - offset]
                   ELSE IF i <= Len(old) THEN old[i] ELSE 0], 0)

\* Only bit i changes; the string grows with zeros to hold it.
SetBit(k, i, b) ==
  LET new == contents'[k]
  IN  /\ Len(new) = IF i \in Bits(Text(k)) THEN Len(Text(k)) ELSE (i \div Width) + 1
      /\ \A j \in Bits(new) : BitAt(new, j) = IF j = i THEN b ELSE BitAt(Text(k), j)
      /\ Become(k, new, 0)

\* The result is as long as the longest operand, shorter ones count as zeros.
BitOp(dst, src, Op(_)) ==
  LET new == contents'[dst]
      I   == DOMAIN src
  IN  /\ \A n \in I : Len(Text(src[n])) <= Len(new)
      /\ \E n \in I : Len(Text(src[n])) = Len(new)
      /\ \A j \in Bits(new) : BitAt(new, j) = Op([n \in I |-> BitAt(Text(src[n]), j)])
      /\ Become(dst, new, 0)

\* A sketch holds in each register the greatest rank observed for it.
Greatest(ranks) == CHOOSE rank \in ranks : \A other \in ranks : other <= rank

RankAt(s, i) == IF i \in DOMAIN s THEN s[i] ELSE 0

Observe(k, registers, hashes) ==
  Become(k, [i \in 1 .. registers |->
    Greatest({RankAt(Text(k), i)} \cup {h[2] : h \in {h \in hashes : h[1] = i}})], 0)

Merge(dst, src, registers) ==
  Become(dst, [i \in 1 .. registers |->
    Greatest({RankAt(Text(src[n]), i) : n \in DOMAIN src})], 0)

SetAll(put) == BecomeAll(put, 0)

SetAllIfNone(put) ==
  IF \E k \in DOMAIN put : Held(k) THEN UNCHANGED expiringStrings ELSE SetAll(put)

\* Lift, set or move k's deadline.  (A deadline in the past is a Delete.)
SetDeadline(k, ts) ==
  /\ Held(k)
  /\ deadline' = [deadline EXCEPT ![k] = ts]
  /\ UNCHANGED <<contents, now>>

Tick ==
  LET over == {k \in Keys : deadline[k] # 0 /\ deadline[k] < now + 1}
  IN  /\ now' = now + 1
      /\ contents' = [k \in Keys |-> IF k \in over THEN NoString ELSE contents[k]]
      /\ deadline' = [k \in Keys |-> IF k \in over THEN 0 ELSE deadline[k]]
=============================================================================
