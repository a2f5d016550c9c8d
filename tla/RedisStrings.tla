----------------------------- MODULE RedisStrings -----------------------------
(***************************************************************************)
(* RedisStrings: one column family of values that carry a timestamp, and the*)
(* HyperLogLog sketches the facade keeps in it.  A handler locks its key    *)
(* from its Get to its Put.  MSetnx, BitOp, PfAdd, PfMerge and              *)
(* PKPatternMatchDel do not: they look first and lock, if at all, to write. *)
(***************************************************************************)
EXTENDS Integers, Sequences, FiniteSets

CONSTANTS
  Keys,
  Width,         \* bits of a byte; eight in the code
  WordBytes,     \* bytes of a word of GetBitPos; eight in the code
  Registers,     \* registers of a sketch, m_; 2^17 in the code
  MaxInt,        \* the greatest int64_t, LLONG_MAX
  Modulus,       \* one more than the greatest size_t
  BatchLimit,    \* BATCH_DELETE_LIMIT, keys that one write deletes
  MaxTimestamp,  \* the greatest int32_t
  Texts, Numbers, Offsets, Indexes, Ttls, Timestamps, Calls,
                 \* what callers pass
  MaxTime,       \* bound: the clock stops here
  MaxBytes,      \* bound: all strings together are no longer than that
  MaxRacedBytes, \* bound: and than that where a handler comes between the
                 \* steps of a call
  NoValue,       \* NotFound
  NoCall

\* TwoTo[n] is 2^n.
TwoTo[n \in Nat] == IF n = 0 THEN 1 ELSE 2 * TwoTo[n - 1]

Byte == 0 .. TwoTo[Width] - 1

Value == [value: Seq(Byte), timestamp: Int]

PendingCall == [call: Calls, read: Seq(Seq(Byte) \cup {NoValue})]

BitOperations == {"NOT", "AND", "OR", "XOR"}

ASSUME StringsAssumption ==
  /\ Width \in Nat \ {0, 1}
  /\ WordBytes \in Nat \ {0}
  /\ Registers \in Nat \ {0} /\ BatchLimit \in Nat \ {0}
  /\ MaxInt \in Nat /\ MaxTimestamp \in Nat /\ MaxTime \in Nat \ {0}
  /\ MaxBytes \in Nat /\ Modulus \in Nat /\ MaxBytes < Modulus
  /\ IsFiniteSet(Keys)
  /\ Texts \subseteq Seq(Byte)
  /\ Offsets \subseteq Nat
  /\ Numbers \subseteq -MaxInt - 1 .. MaxInt /\ Indexes \subseteq Int
  /\ Ttls \subseteq Int /\ Timestamps \subseteq Int
  /\ NoValue \notin Seq(Byte) \cup Value
  /\ NoCall \notin PendingCall

\* A call names a key at least; MSetnx puts a value to each that it names.
ASSUME CallsAssumption ==
  \A call \in Calls :
    /\ call.keys \in Seq(Keys) \ {<<>>}
    /\ call.op = "MSetnx" =>
         /\ DOMAIN call.put = {call.keys[i] : i \in DOMAIN call.keys}
         /\ \A k \in DOMAIN call.put : call.put[k] \in Seq(Byte)
    /\ call.op = "BitOp" => call.dst \in Keys /\ call.how \in BitOperations
    /\ call.op = "PfAdd" =>
         IsFiniteSet(call.hashes) /\ call.hashes \subseteq (1 .. Registers) \X Byte

VARIABLES
  strings,  \* the column family
  now,      \* the wall clock, in seconds
  pending   \* a call that has looked at some of its keys.  Bound: one at a time

stringsVars == <<strings, now, pending>>

StringsTypeOK ==
  /\ strings \in [Keys -> Value \cup {NoValue}]
  /\ now \in 1 .. MaxTime
  /\ pending \in PendingCall \cup {NoCall}

StringsInit ==
  /\ strings = [k \in Keys |-> NoValue]
  /\ now = 1
  /\ pending = NoCall

----------------------------------------------------------------------------
(* Values.                                                                  *)

IsStale(r) == r.timestamp # 0 /\ r.timestamp < now

Live(k) == strings[k] # NoValue /\ ~IsStale(strings[k])

\* What Get returns, and what the handlers that make a string of none begin with.
Get(k) == IF Live(k) THEN strings[k].value ELSE NoValue

OrEmpty(v) == IF v = NoValue THEN <<>> ELSE v

Old(k) == OrEmpty(Get(k))

\* A sum of 32-bit seconds.
Wrapped(t) == IF t > MaxTimestamp THEN t - 2 * (MaxTimestamp + 1) ELSE t

RelativeTimestamp(ttl) == Wrapped(now + ttl)

\* The digit of a number that stands for 2^n.
Bit(byte, n) == (byte \div TwoTo[n]) % 2

Zeros(n) == [i \in 1 .. n |-> 0]

\* What is left of a string that is passed as a char*.
UpToNul(v) ==
  LET nuls == {i \in DOMAIN v : v[i] = 0}
  IN  IF nuls = {} THEN v
      ELSE SubSeq(v, 1, (CHOOSE i \in nuls : \A j \in nuls : i <= j) - 1)

\* Numerals are binary where the code's are decimal: byte 1 is the digit 0, byte
\* 2 the digit 1, and byte 3 the sign.
Minus == 3

Digits(v) == IF v # <<>> /\ v[1] = Minus THEN Tail(v) ELSE v

IsNumeral(v) ==
  /\ \A i \in DOMAIN Digits(v) : Digits(v)[i] \in {1, 2}
  /\ v # <<>> => Digits(v) # <<>>

NumberOf(v) ==
  LET d == Digits(v)
      upTo[i \in 0 .. Len(d)] == IF i = 0 THEN 0 ELSE 2 * upTo[i - 1] + d[i] - 1
  IN  IF d = v THEN upTo[Len(d)] ELSE -upTo[Len(d)]

\* strtoll stops at a NUL, reads an empty string as 0 and a number beyond its
\* range as the end of the range.
IsInteger(v) == IsNumeral(UpToNul(v))

Integer(v) ==
  LET n == NumberOf(UpToNul(v))
  IN  IF n > MaxInt THEN MaxInt ELSE IF n < -MaxInt - 1 THEN -MaxInt - 1 ELSE n

\* In as few digits as hold it.
Numeral(n) ==
  LET size(m)   == CHOOSE d \in 1 .. m + 1 :
                     m < TwoTo[d] /\ (d = 1 \/ TwoTo[d - 1] <= m)
      digits(m) == [i \in 1 .. size(m) |-> Bit(m, size(m) - i) + 1]
  IN  IF n < 0 THEN <<Minus>> \o digits(-n) ELSE digits(n)

----------------------------------------------------------------------------
(* Bits.                                                                    *)

ByteOf(bits) ==  \* bits: a function from 0 .. Width - 1
  LET upTo[n \in 0 .. Width] ==
        IF n = 0 THEN 0 ELSE upTo[n - 1] + bits[n - 1] * TwoTo[n - 1]
  IN  upTo[Width]

Ones(byte) == Cardinality({n \in 0 .. Width - 1 : Bit(byte, n) = 1})

\* The byte and the bit of it that SetBit and GetBit address.
ByteOffset(offset) == (offset \div Width) + 1

BitOffset(offset) == Width - 1 - (offset % Width)

GetBit(k, offset) ==
  IF ByteOffset(offset) > Len(Old(k)) THEN 0
  ELSE Bit(Old(k)[ByteOffset(offset)], BitOffset(offset))

\* BitOpOperate for one byte; a source that is too short counts as zeros.
OperateByte(op, bytes) ==
  LET one(n) == {Bit(bytes[i], n) : i \in DOMAIN bytes}
      ones(n) == Cardinality({i \in DOMAIN bytes : Bit(bytes[i], n) = 1})
      bit(n) == CASE op = "NOT" -> 1 - Bit(bytes[1], n)
                  [] op = "AND" -> IF one(n) = {1} THEN 1 ELSE 0
                  [] op = "OR"  -> IF 1 \in one(n) THEN 1 ELSE 0
                  [] op = "XOR" -> ones(n) % 2
  IN  ByteOf([n \in 0 .. Width - 1 |-> bit(n)])

LongestOf(src) ==
  CHOOSE n \in {Len(src[i]) : i \in DOMAIN src} : \A i \in DOMAIN src : Len(src[i]) <= n

BitOpOperate(op, src) ==
  LET at(i, j) == IF j <= Len(src[i]) THEN src[i][j] ELSE 0
  IN  [j \in 1 .. LongestOf(src) |-> OperateByte(op, [i \in DOMAIN src |-> at(i, j)])]

----------------------------------------------------------------------------
(* Reads of a range of bytes: offsets count from 0, or back from the end.   *)

FromEnd(i, n) == IF i < 0 THEN i + n ELSE i

NotBelow(i, low) == IF i < low THEN low ELSE i

NotAbove(i, high) == IF i > high THEN high ELSE i

Bytes(v, start, end) == SubSeq(v, start + 1, NotAbove(end + 1, Len(v)))

Getrange(k, start, end) ==
  LET size == Len(Old(k))
      s == FromEnd(start, size)
      e == FromEnd(end, size)
  IN  IF s > size - 1 \/ (s # 0 /\ s > e) \/ (s # 0 /\ e < 0) THEN <<>>
      ELSE Bytes(Old(k), NotBelow(s, 0),
                 IF NotBelow(s, 0) = 0 /\ NotAbove(e, size - 1) < 0 THEN 0
                 ELSE NotAbove(e, size - 1))

GetBitCount(v) ==
  LET upTo[i \in 0 .. Len(v)] == IF i = 0 THEN 0 ELSE upTo[i - 1] + Ones(v[i])
  IN  upTo[Len(v)]

BitCount(k) == GetBitCount(Old(k))

BitCountRange(k, start, end) ==
  LET size == Len(Old(k))
      s == NotBelow(FromEnd(start, size), 0)
      e == NotAbove(NotBelow(FromEnd(end, size), 0), size - 1)
  IN  IF s > e THEN 0 ELSE GetBitCount(Bytes(Old(k), s, e))

\* Whole words without bit are skipped; what is left of the string is filled up
\* with zeros to a word, whose bits are looked through from the highest.
GetBitPos(v, bit) ==
  LET skip  == [i \in 1 .. WordBytes |-> IF bit = 0 THEN TwoTo[Width] - 1 ELSE 0]
      words == {n \in 0 .. Len(v) \div WordBytes :
                  \A i \in 1 .. n : SubSeq(v, (i - 1) * WordBytes + 1, i * WordBytes) = skip}
      gone  == WordBytes * (CHOOSE n \in words : \A m \in words : m <= n)
      word  == [i \in 1 .. WordBytes |-> IF gone + i <= Len(v) THEN v[gone + i] ELSE 0]
      found == {i \in 0 .. WordBytes * Width - 1 :
                  Bit(word[ByteOffset(i)], BitOffset(i)) = bit}
  IN  IF bit = 1 /\ word = Zeros(WordBytes) THEN -1
      ELSE Width * gone + (IF found = {} THEN WordBytes * Width
                           ELSE CHOOSE i \in found : \A j \in found : i <= j)

\* The bug of calling the zeros behind the end a hit.
PosWithinPadded(v, bit, s, e) ==
  LET pos == GetBitPos(Bytes(v, s, e), bit)
  IN  IF pos = -1 THEN -1 ELSE pos + Width * s

\* The position of bit in bytes s to e.
PosWithin(v, bit, s, e) ==
  LET pos == GetBitPos(Bytes(v, s, e), bit)
  IN  IF pos = -1 \/ (bit = 0 /\ pos = Width * (e - s + 1)) THEN -1 ELSE pos + Width * s

\* Without offsets a string of no bytes counts as the NUL that ends it.
BitPos(k, bit) ==
  LET v == IF Old(k) = <<>> THEN <<0>> ELSE Old(k)
  IN  PosWithin(v, bit, 0, Len(v) - 1)

BitPosRange(k, bit, start, end) ==
  LET size == Len(Old(k))
      s == NotBelow(FromEnd(start, size), 0)
      e == NotBelow(NotAbove(FromEnd(end, size), size - 1), 0)
  IN  IF s > e \/ s > size - 1 THEN -1 ELSE PosWithin(Old(k), bit, s, e)

BitPosFrom(k, bit, start) ==
  LET size == Len(Old(k))
      s == NotBelow(FromEnd(start, size), 0)
      e == NotBelow(size - 1, 0)
  IN  IF s > e \/ s > size - 1 THEN -1 ELSE PosWithin(Old(k), bit, s, e)

TTL(k) ==
  IF ~Live(k) THEN -2
  ELSE IF strings[k].timestamp = 0 THEN -1 ELSE strings[k].timestamp - now

----------------------------------------------------------------------------
(* Sketches.                                                                *)

\* HyperLogLog::HyperLogLog: the registers in a string, all zero for "".  The end
\* of a string that is too short is a NUL, and what lies behind it anything.
RegistersOf(v) ==
  IF v = <<>> THEN {Zeros(Registers)}
  ELSE {r \in [1 .. Registers -> Byte] :
          /\ \A i \in DOMAIN v \cap 1 .. Registers : r[i] = v[i]
          /\ Len(v) < Registers => r[Len(v) + 1] = 0}

\* HyperLogLog::Add of hashed values, each an index and a rank.
Add(r, hashes) ==
  [i \in 1 .. Registers |->
     LET ranks == {h[2] : h \in {h \in hashes : h[1] = i}} \cup {r[i]}
     IN  CHOOSE rank \in ranks : \A other \in ranks : other <= rank]

\* The bug of adding registers up.
MergeAdds(r, other) ==
  [i \in 1 .. Registers |-> IF r[i] < other[i] THEN r[i] + other[i] ELSE r[i]]

\* HyperLogLog::Merge: a register that is less than the other's is ORed with it.
Merge(r, other) ==
  [i \in 1 .. Registers |->
     IF r[i] < other[i] THEN OperateByte("OR", <<r[i], other[i]>>) ELSE r[i]]

----------------------------------------------------------------------------
(* Handlers.                                                                *)

TotalLength ==
  Cardinality(UNION {{k} \X DOMAIN strings[k].value : k \in {k \in Keys : strings[k] # NoValue}})

PutAll(put, timestamp) ==
  /\ strings' = [k \in Keys |-> IF k \in DOMAIN put
                                THEN [value |-> put[k], timestamp |-> timestamp]
                                ELSE strings[k]]
  /\ TotalLength' <= MaxBytes
  /\ UNCHANGED now

Put(k, v, timestamp) == PutAll([j \in {k} |-> v], timestamp)

Delete(S) ==
  /\ strings' = [k \in Keys |-> IF k \in S THEN NoValue ELSE strings[k]]
  /\ UNCHANGED now

\* Set, and what GetSet writes.
Set(k, v) == Put(k, v, 0)

TtlOrNone(ttl) == IF ttl > 0 THEN RelativeTimestamp(ttl) ELSE 0

Setxx(k, v, ttl) == Live(k) /\ Put(k, v, TtlOrNone(ttl))

Setnx(k, v, ttl) == ~Live(k) /\ Put(k, v, TtlOrNone(ttl))

Setvx(k, v, new, ttl) == Get(k) = v /\ Put(k, new, TtlOrNone(ttl))

Delvx(k, v) == Get(k) = v /\ Delete({k})

Setex(k, v, ttl) == ttl > 0 /\ Put(k, v, RelativeTimestamp(ttl))

PKSetexAt(k, v, timestamp) == Put(k, v, timestamp)

\* The timestamp of a string that is modified, none for one that is made.
OldTimestamp(k) == IF Live(k) THEN strings[k].timestamp ELSE 0

StringAppend(k, v) == Put(k, Old(k) \o v, OldTimestamp(k))

Incrby(k, n) ==
  \/ ~Live(k) /\ Put(k, Numeral(n), 0)
  \/ /\ Live(k)
     /\ IsInteger(Old(k))
     /\ n >= 0 => MaxInt - n >= Integer(Old(k))
     /\ n < 0  => -MaxInt - 1 - n <= Integer(Old(k))
     /\ Put(k, Numeral(Integer(Old(k)) + n), OldTimestamp(k))

\* The least int64_t has no negation: the bits stay as they are, or to_string
\* takes the sign from n and writes one that does not fit.
Negations(n) == IF n = -MaxInt - 1 THEN {n, -n} ELSE {-n}

Decrby(k, n) ==
  \/ ~Live(k) /\ \E m \in Negations(n) : Put(k, Numeral(m), 0)
  \/ /\ Live(k)
     /\ IsInteger(Old(k))
     /\ n >= 0 => -MaxInt - 1 + n <= Integer(Old(k))
     /\ n < 0  => MaxInt + n >= Integer(Old(k))
     /\ Put(k, Numeral(Integer(Old(k)) - n), OldTimestamp(k))

\* The numbers here are whole; strtold must read the string to its end.
Incrbyfloat(k, n) ==
  \/ ~Live(k) /\ Put(k, Numeral(n), 0)
  \/ /\ Live(k)
     /\ IsNumeral(Old(k))
     /\ Put(k, Numeral(NumberOf(Old(k)) + n), OldTimestamp(k))

\* A bit that has the value already is not written.
SetBit(k, offset, on) ==
  LET old  == Old(k)
      at   == ByteOffset(offset)
      byte == IF at > Len(old) THEN 0 ELSE old[at]
      new  == ByteOf([n \in 0 .. Width - 1 |->
                        IF n = BitOffset(offset) THEN on ELSE Bit(byte, n)])
  IN  /\ GetBit(k, offset) # on
      /\ Put(k, IF at <= Len(old) THEN [old EXCEPT ![at] = new]
                ELSE old \o Zeros(at - Len(old) - 1) \o <<new>>, 0)

\* The bug of keeping what the new bytes overwrite.
TailFromOffset(old, offset, v) == SubSeq(old, offset + 1, Len(old))

\* substr from behind v on; the test is one of size_t.
TailBehind(old, offset, v) ==
  IF (offset + Len(v) - 1) % Modulus < (Len(old) - 1) % Modulus
  THEN SubSeq(old, offset + Len(v) + 1, Len(old)) ELSE <<>>

\* What Setrange finds to keep behind v where old is the empty string begins
\* behind old's end: substr throws, and nothing is written.
Setrange(k, offset, v) ==
  LET old == Old(k)
  IN  \/ /\ ~Live(k) \/ offset > Len(old)
         /\ Put(k, old \o Zeros(offset - Len(old)) \o UpToNul(v), 0)
      \/ /\ Live(k)
         /\ offset <= Len(old)
         /\ ~(old = <<>> /\ v # <<>>)
         /\ Put(k, SubSeq(old, 1, offset) \o UpToNul(v) \o TailBehind(old, offset, v), 0)

MSet(put) == PutAll(put, 0)

Del(k) == Live(k) /\ Delete({k})

Expireat(k, timestamp) ==
  /\ Live(k)
  /\ \/ timestamp > 0 /\ Put(k, Old(k), timestamp)
     \/ timestamp <= 0 /\ Delete({k})

Expire(k, ttl) ==
  /\ Live(k)
  /\ \/ ttl > 0 /\ Put(k, Old(k), RelativeTimestamp(ttl))
     \/ ttl <= 0 /\ Delete({k})

Persist(k) == Live(k) /\ strings[k].timestamp # 0 /\ Put(k, Old(k), 0)

----------------------------------------------------------------------------
(* Calls in several steps.  call.keys: the keys they look at, one Get each. *)

\* MSetnx and PKPatternMatchDel ask no more than whether a key has a string.
Seen(op, k) ==
  IF op \in {"MSetnx", "PKPatternMatchDel"} /\ Live(k) THEN <<>> ELSE Get(k)

Unread == Len(pending.call.keys) - Len(pending.read)

\* PKPatternMatchDel reads all its keys from one snapshot.
Begin(call) ==
  /\ pending = NoCall
  /\ pending' = [call |-> call, read |->
       [i \in 1 .. IF call.op = "PKPatternMatchDel" THEN Len(call.keys) ELSE 1
          |-> Seen(call.op, call.keys[i])]]
  /\ UNCHANGED <<strings, now>>

ReadNext ==
  /\ Unread > 0
  /\ pending' = [pending EXCEPT !.read =
       LET call == pending.call IN Append(@, Seen(call.op, call.keys[Len(@) + 1]))]
  /\ UNCHANGED <<strings, now>>

\* The bug of writing the keys of those given that are free.
MSetnxFreeKeys(call, read) ==
  MSet([k \in {call.keys[i] : i \in {i \in DOMAIN read : read[i] = NoValue}}
          |-> call.put[k]])

\* MSet locks the keys that were found free.
MSetnx(call, read) ==
  IF \E i \in DOMAIN read : read[i] # NoValue THEN UNCHANGED <<strings, now>>
  ELSE MSet(call.put)

BitOp(call, read) ==
  Set(call.dst, BitOpOperate(call.how, [i \in DOMAIN read |-> OrEmpty(read[i])]))

\* With no values the result stays "".
PfAdd(call, read) ==
  \E r \in RegistersOf(OrEmpty(read[1])) :
    Set(call.keys[1], IF call.hashes = {} THEN <<>> ELSE Add(r, call.hashes))

\* Keys that were not found are passed over; the first one's string stays where
\* no other was found.
PfMerge(call, read) ==
  LET others == {i \in DOMAIN read \ {1} : read[i] # NoValue}
  IN  IF others = {} THEN Set(call.keys[1], OrEmpty(read[1]))
      ELSE \E rs \in [{1} \cup others -> [1 .. Registers -> Byte]] :
             /\ \A i \in DOMAIN rs : rs[i] \in RegistersOf(OrEmpty(read[i]))
             /\ LET upTo[i \in DOMAIN read] ==
                      IF i = 1 THEN rs[1]
                      ELSE IF i \in others THEN Merge(upTo[i - 1], rs[i]) ELSE upTo[i - 1]
                IN  Set(call.keys[1], upTo[Len(read)])

\* What PKPatternMatchDel has yet to delete, and as much of it as fills a batch.
Counted == {i \in DOMAIN pending.read : pending.read[i] # NoValue}

Batch == {i \in Counted : Cardinality({j \in Counted : j <= i}) <= BatchLimit}

DeleteBatch ==
  /\ pending.call.op = "PKPatternMatchDel"
  /\ Cardinality(Counted) >= BatchLimit
  /\ Delete({pending.call.keys[i] : i \in Batch})
  /\ pending' = [pending EXCEPT !.read =
       [i \in DOMAIN @ |-> IF i \in Batch THEN NoValue ELSE @[i]]]

PKPatternMatchDel(call, read) ==
  /\ Cardinality(Counted) < BatchLimit
  /\ Delete({call.keys[i] : i \in {i \in DOMAIN read : read[i] # NoValue}})

Finish ==
  /\ Unread = 0
  /\ pending' = NoCall
  /\ LET call == pending.call
         read == pending.read
     IN  \/ call.op = "MSetnx" /\ MSetnx(call, read)
         \/ call.op = "BitOp" /\ BitOp(call, read)
         \/ call.op = "PfAdd" /\ PfAdd(call, read)
         \/ call.op = "PfMerge" /\ PfMerge(call, read)
         \/ call.op = "PKPatternMatchDel" /\ PKPatternMatchDel(call, read)

----------------------------------------------------------------------------

Write(k) ==
  \/ \E v \in Texts : Set(k, v) \/ StringAppend(k, v) \/ Delvx(k, v)
  \/ \E v \in Texts, ttl \in Ttls : Setxx(k, v, ttl) \/ Setnx(k, v, ttl) \/ Setex(k, v, ttl)
  \/ \E v, new \in Texts, ttl \in Ttls : Setvx(k, v, new, ttl)
  \/ \E v \in Texts, ts \in Timestamps : PKSetexAt(k, v, ts)
  \/ \E n \in Numbers : Incrby(k, n) \/ Decrby(k, n) \/ Incrbyfloat(k, n)
  \/ \E offset \in Offsets, on \in {0, 1} : SetBit(k, offset, on)
  \/ \E offset \in Offsets, v \in Texts : Setrange(k, offset, v)

KeyHandler(k) ==
  \/ Del(k)
  \/ \E ttl \in Ttls : Expire(k, ttl)
  \/ \E ts \in Timestamps : Expireat(k, ts)
  \/ Persist(k)

Handlers ==
  /\ \/ \E k \in Keys : Write(k) \/ KeyHandler(k)
     \/ \E put \in [Keys -> Texts] : MSet(put)
  /\ pending = NoCall \/ TotalLength' <= MaxRacedBytes
  /\ UNCHANGED pending

\* Any handler may come between two steps of a call.
Call ==
  \/ \E call \in Calls : Begin(call)
  \/ pending # NoCall /\ (ReadNext \/ DeleteBatch \/ Finish)

Tick == now < MaxTime /\ now' = now + 1 /\ UNCHANGED <<strings, pending>>

\* StringsFilter drops a record by its own timestamp alone.
Compact(k) ==
  /\ strings[k] # NoValue
  /\ IsStale(strings[k])
  /\ Delete({k})
  /\ UNCHANGED pending

Reopen == pending # NoCall /\ pending' = NoCall /\ UNCHANGED <<strings, now>>

Next == Handlers \/ Call \/ Tick \/ (\E k \in Keys : Compact(k)) \/ Reopen

Spec == StringsInit /\ [][Next]_stringsVars

----------------------------------------------------------------------------
(* Properties.                                                              *)

\* Every reachable state has the shapes of StringsTypeOK, no string is longer than
\* a size_t can count, and a call has looked at its first key and no more keys
\* than it names.
StringsInv ==
  /\ StringsTypeOK
  /\ TotalLength <= MaxBytes
  /\ pending # NoCall => Len(pending.read) \in 1 .. Len(pending.call.keys)

\* The promise of ExpiringStrings, read off the column family.
Promise == INSTANCE ExpiringStrings WITH
  contents <- [k \in Keys |-> Get(k)],
  deadline <- [k \in Keys |-> IF Live(k) THEN strings[k].timestamp ELSE 0],
  NoString <- NoValue

\* The offsets, words and padding of the reads find the bytes and bits that the
\* commands speak of.  (An end before the first byte is the first byte to some.)
ReadsAsPromised ==
  \A k \in Keys :
    LET v == Old(k)
        all == DOMAIN v
    IN  /\ BitCount(k) = Cardinality(Promise!SetBits(v, all))
        /\ \A offset \in Offsets : GetBit(k, offset) = Promise!BitAt(v, offset)
        /\ \A bit \in {0, 1} :
             Live(k) /\ v # <<>> => BitPos(k, bit) = Promise!FirstBit(v, all, bit)
        /\ \A start, end \in Indexes : Promise!Place(v, end) >= 0 =>
             LET I == Promise!Slice(v, start, end)
             IN  /\ BitCountRange(k, start, end) = Cardinality(Promise!SetBits(v, I))
                 /\ Getrange(k, start, end) = Promise!Substring(v, start, end)
                 /\ \A bit \in {0, 1} :
                      /\ BitPosRange(k, bit, start, end) = Promise!FirstBit(v, I, bit)
                      /\ BitPosFrom(k, bit, start) =
                           Promise!FirstBit(v, Promise!Slice(v, start, -1), bit)
        /\ TTL(k) >= -2 /\ (TTL(k) = -2 <=> Get(k) = NoValue)

\* What BitOp makes of the bits of its operands at one place.
Combine(how, bits) ==
  LET ones == {i \in DOMAIN bits : bits[i] = 1}
  IN  CASE how = "NOT" -> 1 - bits[1]
        [] how = "AND" -> IF ones = DOMAIN bits THEN 1 ELSE 0
        [] how = "OR"  -> IF ones # {} THEN 1 ELSE 0
        [] how = "XOR" -> Cardinality(ones) % 2

IsSketch(v) == v = <<>> \/ Len(v) = Registers

\* Where the registers of all sketches can be ORed for their maximum.
BitsNested(vs) ==
  \A u, v \in vs, i \in 1 .. Registers : u # <<>> /\ v # <<>> =>
    OperateByte("OR", <<u[i], v[i]>>) \in {u[i], v[i]}

\* What a call in several steps has read still holds as it writes.
StillTrue ==
  \A i \in DOMAIN pending.read :
    pending.read[i] = Seen(pending.call.op, pending.call.keys[i])

\* Each command makes of the strings what it says, and keeps, sets or drops the
\* deadline as it says; those in several steps do unless what they read is no
\* longer true, and a batch of deletes takes nothing but what it counted.  An
\* expired string is as good as none for all of them, and for everyone before and
\* after compaction drops it.  Left out where the code does something else:
\* Setrange of "" or a NUL, a TTL that ends after 2038, Decrby by the least number
\* of a string that is not there, PfAdd of no values, and PfMerge of registers
\* whose bits collide.
HandlersDoAsPromised ==
  [][/\ Tick => Promise!Tick
     /\ \A k \in Keys : Compact(k) => UNCHANGED Promise!expiringStrings
     /\ pending # NoCall /\ DeleteBatch =>
          Promise!Delete({pending.call.keys[i] : i \in Batch})
     /\ strings' # strings =>
      /\ pending = NoCall => \A k \in {k \in Keys : strings'[k] # strings[k]} :
           /\ \A v \in Texts : StringAppend(k, v) => Promise!Extend(k, v)
           /\ \A offset \in Offsets, on \in {0, 1} :
                SetBit(k, offset, on) => Promise!SetBit(k, offset, on)
           /\ \A offset \in Offsets, v \in Texts :
                v # <<>> /\ UpToNul(v) = v /\ Setrange(k, offset, v)
                  => Promise!Overwrite(k, offset, v)
           /\ \A n \in Numbers, by \in {-1, 1} :
                (Live(k) \/ by * n <= MaxInt) /\
                ((by = 1 /\ Incrby(k, n)) \/ (by = -1 /\ Decrby(k, n))) =>
                  LET sum == Integer(Old(k)) + by * n
                  IN  /\ NumberOf(Old(k)') = sum
                      /\ Get(k) # NoValue => sum \in -MaxInt - 1 .. MaxInt
                      /\ Promise!Become(k, Old(k)', OldTimestamp(k))
           /\ \A ttl \in Ttls : ttl > 0 /\ now + ttl <= MaxTimestamp =>
                /\ Expire(k, ttl) => Promise!SetDeadline(k, now + ttl)
                /\ \A v \in Texts : Setex(k, v, ttl) => Promise!Become(k, v, now + ttl)
      /\ \A call \in Calls :
           pending # NoCall /\ pending.call = call /\ pending' = NoCall /\ StillTrue =>
             LET keys == call.keys
                 held == {Old(keys[i]) : i \in DOMAIN keys}
             IN
               /\ call.op = "MSetnx" => Promise!SetAllIfNone(call.put)
               /\ call.op = "BitOp" =>
                    Promise!BitOp(call.dst, keys, LAMBDA bits : Combine(call.how, bits))
               /\ call.op = "PfAdd" /\ call.hashes # {} /\ (\A v \in held : IsSketch(v)) =>
                    Promise!Observe(keys[1], Registers, call.hashes)
               /\ (/\ call.op = "PfMerge"
                   /\ \E i \in DOMAIN keys : i > 1 /\ Get(keys[i]) # NoValue
                   /\ \A v \in held : IsSketch(v)
                   /\ BitsNested(held)) => Promise!Merge(keys[1], keys, Registers)
               /\ call.op = "PKPatternMatchDel" =>
                    Promise!Delete({keys[i] : i \in DOMAIN keys})
    ]_stringsVars
=============================================================================
