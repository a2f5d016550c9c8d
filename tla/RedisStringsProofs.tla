-------------------------- MODULE RedisStringsProofs --------------------------
(***************************************************************************)
(* What RedisStrings promises, for every set of keys, width of a byte and   *)
(* argument: that its records keep their shapes and stay within MaxBytes,   *)
(* that the words, offsets and padding of the reads find the bits and bytes *)
(* that ExpiringStrings speaks of, and that each handler, and each call in  *)
(* several steps whose reads still hold, does to the strings and their      *)
(* deadlines what ExpiringStrings says.  Most of it is about data: bytes    *)
(* and their bits, numerals, sketches, and the recursive functions that     *)
(* compute them, by induction over a set that has 0 and with n also n + 1.  *)
(***************************************************************************)
EXTENDS RedisStrings, FiniteSetTheorems, WellFoundedInduction, NaturalsInduction,
        SequenceTheorems, TLAPS

----------------------------------------------------------------------------
(* Recursion over the natural numbers.                                      *)

\* A set of numbers that has 0 and with each number the next has them all.
LEMMA AllNumbers ==
  ASSUME NEW B, 0 \in B, \A n \in Nat : n \in B => n + 1 \in B
  PROVE  Nat \subseteq B
  <1> SUFFICES ASSUME Nat \ B # {}
               PROVE  FALSE
    OBVIOUS
  <1>1. \E n \in Nat \ B : \A m \in Nat \ B : ~(m < n)
    <2>1. Nat \ B \subseteq Nat
      OBVIOUS
    <2>2. PICK n \in Nat \ B : \A m \in Nat \ B : ~(<<m, n>> \in OpToRel(<, Nat))
      BY <2>1, NatLessThanWellFounded, WFMin
    <2>3. \A m \in Nat \ B : ~(m < n)
      BY <2>1, <2>2 DEF OpToRel
    <2>4. QED BY <2>3
  <1>2. PICK n \in Nat \ B : \A m \in Nat \ B : ~(m < n)
    BY <1>1
  <1>3. n # 0 /\ n - 1 \in Nat
    OBVIOUS
  <1>4. n - 1 \in B
    BY <1>2, <1>3
  <1>5. n = (n - 1) + 1
    OBVIOUS
  <1>6. QED BY <1>3, <1>4, <1>5

\* What makes a value of T of a number and the value before.
IsStep(step, T) == step \in [Nat \X T -> T]

\* f begins with base and goes on by step for ever.
Recurs(f, T, base, step) ==
  /\ f \in [Nat -> T]
  /\ f[0] = base
  /\ \A n \in Nat : f[n + 1] = step[<<n, f[n]>>]

\* f begins with base and goes on by step as far as n.
GoesOn(f, n, T, base, step) ==
  /\ f \in [0 .. n -> T]
  /\ f[0] = base
  /\ \A i \in 0 .. n - 1 : f[i + 1] = step[<<i, f[i]>>]

\* There is such a function for every n.
LEMMA GoesOnExists ==
  ASSUME NEW T, NEW base \in T, NEW step \in [Nat \X T -> T]
  PROVE  \A n \in Nat : \E f : GoesOn(f, n, T, base, step)
  <1> DEFINE N == {n \in Nat : \E f : GoesOn(f, n, T, base, step)}
  <1>1. 0 \in N
    <2>1. PICK f : f = [i \in 0 .. 0 |-> base]
      OBVIOUS
    <2>2. GoesOn(f, 0, T, base, step)
      BY <2>1 DEF GoesOn
    <2>3. QED BY <2>2
  <1>2. ASSUME NEW n \in Nat, n \in N
        PROVE  n + 1 \in N
    <2>1. PICK f : GoesOn(f, n, T, base, step)
      BY <1>2
    <2>2. PICK g : g = [i \in 0 .. n + 1 |-> IF i <= n THEN f[i] ELSE step[<<n, f[n]>>]]
      OBVIOUS
    <2>3. f \in [0 .. n -> T] /\ \A i \in 0 .. n : f[i] \in T
      BY <2>1 DEF GoesOn
    <2>4. g \in [0 .. n + 1 -> T]
      BY <2>2, <2>3
    <2>5. g[0] = base
      BY <2>1, <2>2 DEF GoesOn
    <2>6. ASSUME NEW i \in 0 .. (n + 1) - 1
          PROVE  g[i + 1] = step[<<i, g[i]>>]
      <3>1. CASE i = n
        <4>1. n + 1 \in 0 .. n + 1 /\ n \in 0 .. n + 1 /\ ~(n + 1 <= n) /\ n <= n
          OBVIOUS
        <4>2. g[n + 1] = step[<<n, f[n]>>] /\ g[n] = f[n]
          BY <2>2, <4>1
        <4>3. QED BY <3>1, <4>2
      <3>2. CASE i # n
        <4>1. i \in 0 .. n - 1 /\ i + 1 \in 0 .. n + 1 /\ i + 1 <= n /\ i <= n /\ i \in 0 .. n + 1
          BY <3>2
        <4>2. g[i] = f[i] /\ g[i + 1] = f[i + 1]
          BY <2>2, <4>1
        <4>3. QED BY <2>1, <4>1, <4>2 DEF GoesOn
      <3>3. QED BY <3>1, <3>2
    <2>7. GoesOn(g, n + 1, T, base, step)
      BY <2>4, <2>5, <2>6 DEF GoesOn
    <2>8. QED BY <2>7
  <1> HIDE DEF N
  <1>3. Nat \subseteq N
    BY <1>1, <1>2, AllNumbers
  <1>4. QED BY <1>3 DEF N

\* Two of them agree as far as both go.
LEMMA GoesOnAgree ==
  ASSUME NEW T, NEW base \in T, NEW step \in [Nat \X T -> T],
         NEW n \in Nat, NEW m \in Nat, NEW f, NEW g,
         GoesOn(f, n, T, base, step), GoesOn(g, m, T, base, step), n <= m
  PROVE  \A i \in 0 .. n : f[i] = g[i]
  <1> DEFINE N == {i \in Nat : i <= n => f[i] = g[i]}
  <1>1. 0 \in N
    BY DEF GoesOn
  <1>2. ASSUME NEW i \in Nat, i \in N
        PROVE  i + 1 \in N
    <2> SUFFICES ASSUME i + 1 <= n
                 PROVE  f[i + 1] = g[i + 1]
      OBVIOUS
    <2>1. i \in 0 .. n - 1 /\ i \in 0 .. m - 1 /\ f[i] = g[i]
      BY <1>2
    <2>2. QED BY <2>1 DEF GoesOn
  <1> HIDE DEF N
  <1>3. Nat \subseteq N
    BY <1>1, <1>2, AllNumbers
  <1>4. QED BY <1>3 DEF N

\* What a recursive function over the natural numbers is defined by, there is.
LEMMA RecursionExists ==
  ASSUME NEW T, NEW base \in T, NEW step, IsStep(step, T)
  PROVE  \E f : Recurs(f, T, base, step)
  <1> DEFINE to(n) == CHOOSE f : GoesOn(f, n, T, base, step)
  <1>1. \A n \in Nat : GoesOn(to(n), n, T, base, step)
    BY GoesOnExists DEF IsStep
  <1> HIDE DEF to
  <1>2. PICK f : f = [n \in Nat |-> to(n)[n]]
    OBVIOUS
  <1>3. f \in [Nat -> T]
    <2>1. \A n \in Nat : to(n)[n] \in T
      BY <1>1 DEF GoesOn
    <2>2. QED BY <1>2, <2>1
  <1>4. f[0] = base
    BY <1>1, <1>2 DEF GoesOn
  <1>5. ASSUME NEW n \in Nat
        PROVE  f[n + 1] = step[<<n, f[n]>>]
    <2>1. n + 1 \in Nat /\ n \in 0 .. (n + 1) - 1
      OBVIOUS
    <2>2. PICK g : g = to(n + 1)
      OBVIOUS
    <2>3. PICK h : h = to(n)
      OBVIOUS
    <2>4. GoesOn(g, n + 1, T, base, step) /\ GoesOn(h, n, T, base, step)
      BY <1>1, <2>1, <2>2, <2>3
    <2>5. \A i \in 0 .. n : h[i] = g[i]
      BY <2>1, <2>4, GoesOnAgree DEF IsStep
    <2>6. g[n + 1] = step[<<n, g[n]>>]
      BY <2>1, <2>4 DEF GoesOn
    <2>7. f[n + 1] = g[n + 1] /\ f[n] = h[n]
      BY <1>2, <2>1, <2>2, <2>3
    <2>8. QED BY <2>5, <2>6, <2>7
  <1>6. QED BY <1>3, <1>4, <1>5 DEF Recurs

----------------------------------------------------------------------------
(* Powers of two.                                                           *)

\* TwoTo is what it is defined to be.
LEMMA TwoToIs ==
  /\ TwoTo[0] = 1
  /\ \A n \in Nat : TwoTo[n + 1] = 2 * TwoTo[n] /\ TwoTo[n] \in Nat \ {0}
  <1> DEFINE P == Nat \ {0}
  <1>1. PICK step : step = [p \in Nat \X P |-> 2 * p[2]]
    OBVIOUS
  <1>2. PICK one : one = 1
    OBVIOUS
  <1>3. IsStep(step, P) /\ one \in P
    BY <1>2, <1>1 DEF IsStep
  <1>4. PICK f : Recurs(f, P, one, step)
    <2> HIDE DEF P
    <2>1. QED BY <1>3, RecursionExists
  <1>5. \A n \in Nat : f[n + 1] = 2 * f[n]
    BY <1>1, <1>4 DEF Recurs
  <1>6. f = [n \in Nat |-> IF n = 0 THEN 1 ELSE 2 * f[n - 1]]
    <2>1. ASSUME NEW n \in Nat
          PROVE  f[n] = IF n = 0 THEN 1 ELSE 2 * f[n - 1]
      <3>1. CASE n # 0
        <4>1. n - 1 \in Nat /\ n = (n - 1) + 1
          BY <3>1
        <4>2. QED BY <1>5, <3>1, <4>1
      <3>2. QED BY <1>2, <1>4, <3>1 DEF Recurs
    <2>2. QED BY <1>4, <2>1 DEF Recurs
  <1>7. TwoTo = [n \in Nat |-> IF n = 0 THEN 1 ELSE 2 * TwoTo[n - 1]]
    BY <1>6 DEF TwoTo
  <1>8. ASSUME NEW n \in Nat
        PROVE  TwoTo[n] = f[n]
    <2> DEFINE N == {i \in Nat : TwoTo[i] = f[i]}
    <2>1. 0 \in N
      BY <1>2, <1>4, <1>7 DEF Recurs
    <2>2. ASSUME NEW i \in Nat, i \in N
          PROVE  i + 1 \in N
      <3>1. TwoTo[i + 1] = 2 * TwoTo[(i + 1) - 1]
        BY <1>7
      <3>2. (i + 1) - 1 = i
        OBVIOUS
      <3>3. QED BY <1>5, <2>2, <3>1, <3>2
    <2> HIDE DEF N
    <2>3. Nat \subseteq N
      BY <2>1, <2>2, AllNumbers
    <2>4. QED BY <2>3 DEF N
  <1>9. QED BY <1>2, <1>4, <1>5, <1>8 DEF Recurs

----------------------------------------------------------------------------
(* Bits of a byte.                                                          *)

\* A byte has two bits at least.
LEMMA WidthIs == Width \in Nat /\ Width > 1 /\ Width # 0
  BY StringsAssumption

\* Powers multiply.
LEMMA TwoToAdds ==
  ASSUME NEW n \in Nat, NEW d \in Nat
  PROVE  TwoTo[n + d] = TwoTo[n] * TwoTo[d]
  <1> DEFINE N == {i \in Nat : TwoTo[n + i] = TwoTo[n] * TwoTo[i]}
  <1>1. 0 \in N
    BY TwoToIs
  <1>2. ASSUME NEW i \in Nat, i \in N
        PROVE  i + 1 \in N
    <2>1. TwoTo[n + (i + 1)] = 2 * TwoTo[n + i]
      <3>1. n + (i + 1) = (n + i) + 1 /\ n + i \in Nat
        OBVIOUS
      <3>2. QED BY <3>1, TwoToIs
    <2>2. TwoTo[i + 1] = 2 * TwoTo[i] /\ TwoTo[i] \in Nat /\ TwoTo[n] \in Nat
      BY TwoToIs
    <2>3. TwoTo[n + i] = TwoTo[n] * TwoTo[i]
      BY <1>2
    <2>4. TwoTo[n] * (2 * TwoTo[i]) = 2 * (TwoTo[n] * TwoTo[i])
      BY <2>2
    <2>5. QED BY <2>1, <2>2, <2>3, <2>4
  <1> HIDE DEF N
  <1>3. Nat \subseteq N
    BY <1>1, <1>2, AllNumbers
  <1>4. QED BY <1>3 DEF N

\* Quotient and remainder are those of a number's parts.
LEMMA Divides ==
  ASSUME NEW p \in Nat \ {0}, NEW q \in Int, NEW r \in 0 .. p - 1
  PROVE  (p * q + r) \div p = q /\ (p * q + r) % p = r
  OBVIOUS

\* A number is made of its quotient and its remainder.
LEMMA Parts ==
  ASSUME NEW p \in Nat \ {0}, NEW x \in Int
  PROVE  x = p * (x \div p) + (x % p) /\ x % p \in 0 .. p - 1 /\ x \div p \in Int
  OBVIOUS

\* A bit is 0 or 1.
LEMMA BitIs ==
  ASSUME NEW x \in Int, NEW n \in Nat
  PROVE  Bit(x, n) \in {0, 1}
  <1>1. x \div TwoTo[n] \in Int
    BY TwoToIs
  <1>2. QED BY <1>1 DEF Bit

BitStrings == [0 .. Width - 1 -> {0, 1}]

\* u adds up the powers of two that bits selects, from the lowest.
SumsBits(u, bits) ==
  /\ u \in [0 .. Width -> Nat]
  /\ u[0] = 0
  /\ \A n \in 0 .. Width - 1 : u[n + 1] = u[n] + bits[n] * TwoTo[n]

\* ByteOf adds them up.
LEMMA ByteOfSums ==
  ASSUME NEW bits \in BitStrings
  PROVE  \E u : SumsBits(u, bits) /\ ByteOf(bits) = u[Width]
  <1> DEFINE T == Nat
  <1>1. PICK base : base = 0
    OBVIOUS
  <1>2. PICK step : step = [p \in Nat \X T |->
             IF p[1] < Width THEN p[2] + bits[p[1]] * TwoTo[p[1]] ELSE p[2]]
    OBVIOUS
  <1>3. \A n \in 0 .. Width - 1, a \in Nat : a + bits[n] * TwoTo[n] \in Nat
    <2> SUFFICES ASSUME NEW n \in 0 .. Width - 1, NEW a \in Nat
                 PROVE  a + bits[n] * TwoTo[n] \in Nat
      OBVIOUS
    <2>1. bits[n] \in {0, 1}
      BY DEF BitStrings
    <2>2. TwoTo[n] \in Nat
      <3>1. n \in Nat
        BY WidthIs
      <3>2. QED BY <3>1, TwoToIs
    <2>3. QED BY <2>1, <2>2
  <1>4. IsStep(step, T) /\ base \in T
    BY <1>1, <1>2, <1>3, WidthIs DEF IsStep
  <1>5. PICK u : GoesOn(u, Width, T, base, step)
    <2> HIDE DEF T
    <2>1. QED BY <1>4, WidthIs, GoesOnExists DEF IsStep
  <1>6. u \in [0 .. Width -> Nat] /\ u[0] = 0
    BY <1>1, <1>5 DEF GoesOn
  <1>7. \A n \in 0 .. Width - 1 : u[n + 1] = u[n] + bits[n] * TwoTo[n]
    <2> SUFFICES ASSUME NEW n \in 0 .. Width - 1
                 PROVE  u[n + 1] = u[n] + bits[n] * TwoTo[n]
      OBVIOUS
    <2>1. n \in Nat /\ n < Width /\ u[n] \in Nat
      BY <1>6, WidthIs
    <2>2. u[n + 1] = step[<<n, u[n]>>]
      BY <1>5 DEF GoesOn
    <2>3. QED BY <1>2, <2>1, <2>2
  <1>8. u = [n \in 0 .. Width |-> IF n = 0 THEN 0 ELSE u[n - 1] + bits[n - 1] * TwoTo[n - 1]]
    <2>1. ASSUME NEW n \in 0 .. Width
          PROVE  u[n] = IF n = 0 THEN 0 ELSE u[n - 1] + bits[n - 1] * TwoTo[n - 1]
      <3>1. CASE n # 0
        <4>1. n - 1 \in 0 .. Width - 1 /\ n = (n - 1) + 1
          BY <3>1, WidthIs
        <4>2. QED BY <1>7, <3>1, <4>1
      <3>2. QED BY <1>6, <3>1
    <2>2. QED BY <1>6, <2>1
  <1> DEFINE U == CHOOSE f : f = [n \in 0 .. Width |->
                    IF n = 0 THEN 0 ELSE f[n - 1] + bits[n - 1] * TwoTo[n - 1]]
  <1>9. U = [n \in 0 .. Width |-> IF n = 0 THEN 0 ELSE U[n - 1] + bits[n - 1] * TwoTo[n - 1]]
    BY <1>8
  <1>10. ByteOf(bits) = U[Width]
    BY DEF ByteOf
  <1> HIDE DEF U
  <1>11. U[Width] = u[Width]
    <2> DEFINE N == {i \in Nat : i <= Width => U[i] = u[i]}
    <2>1. 0 \in N
      <3>1. 0 \in 0 .. Width
        BY WidthIs
      <3>2. QED BY <1>6, <1>9, <3>1
    <2>2. ASSUME NEW i \in Nat, i \in N
          PROVE  i + 1 \in N
      <3> SUFFICES ASSUME i + 1 <= Width
                   PROVE  U[i + 1] = u[i + 1]
        OBVIOUS
      <3>1. i + 1 \in 0 .. Width /\ i \in 0 .. Width - 1 /\ (i + 1) - 1 = i /\ i + 1 # 0 /\ i <= Width
        BY WidthIs
      <3>2. U[i + 1] = U[i] + bits[i] * TwoTo[i]
        BY <1>9, <3>1
      <3>3. QED BY <1>7, <2>2, <3>1, <3>2
    <2> HIDE DEF N
    <2>3. Nat \subseteq N
      BY <2>1, <2>2, AllNumbers
    <2>4. QED BY <2>3, WidthIs DEF N
  <1>12. SumsBits(u, bits)
    BY <1>6, <1>7 DEF SumsBits
  <1>13. QED BY <1>10, <1>11, <1>12

\* A sum of lower powers is less than the next.
LEMMA SumsStayBelow ==
  ASSUME NEW bits \in BitStrings, NEW u, SumsBits(u, bits)
  PROVE  \A n \in 0 .. Width : u[n] < TwoTo[n]
  <1> DEFINE N == {i \in Nat : i <= Width => u[i] < TwoTo[i]}
  <1>1. 0 \in N
    BY TwoToIs DEF SumsBits
  <1>2. ASSUME NEW i \in Nat, i \in N
        PROVE  i + 1 \in N
    <2> SUFFICES ASSUME i + 1 <= Width
                 PROVE  u[i + 1] < TwoTo[i + 1]
      OBVIOUS
    <2>1. i \in 0 .. Width - 1 /\ i \in 0 .. Width /\ i <= Width
      BY WidthIs
    <2>2. u[i + 1] = u[i] + bits[i] * TwoTo[i] /\ u[i] < TwoTo[i] /\ u[i] \in Nat
      BY <1>2, <2>1 DEF SumsBits
    <2>3. bits[i] \in {0, 1}
      BY <2>1 DEF BitStrings
    <2>4. TwoTo[i + 1] = 2 * TwoTo[i] /\ TwoTo[i] \in Nat
      BY TwoToIs
    <2>5. bits[i] * TwoTo[i] <= TwoTo[i] /\ bits[i] * TwoTo[i] \in Nat
      BY <2>3, <2>4
    <2>6. QED BY <2>2, <2>4, <2>5
  <1> HIDE DEF N
  <1>3. Nat \subseteq N
    BY <1>1, <1>2, AllNumbers
  <1>4. QED BY <1>3, WidthIs DEF N

\* ByteOf makes a byte.
LEMMA ByteOfIs ==
  ASSUME NEW bits \in BitStrings
  PROVE  ByteOf(bits) \in Byte
  <1>1. PICK u : SumsBits(u, bits) /\ ByteOf(bits) = u[Width]
    BY ByteOfSums
  <1>2. u[Width] < TwoTo[Width] /\ u[Width] \in Nat
    <2>1. Width \in 0 .. Width
      BY WidthIs
    <2>2. \A n \in 0 .. Width : u[n] < TwoTo[n]
      BY <1>1, SumsStayBelow
    <2>3. QED BY <1>1, <2>1, <2>2 DEF SumsBits
  <1>3. QED BY <1>1, <1>2, TwoToIs, WidthIs DEF Byte

\* The bits of a byte that ByteOf makes are those it is made of.
LEMMA BitOfByteOf ==
  ASSUME NEW bits \in BitStrings, NEW n \in 0 .. Width - 1
  PROVE  Bit(ByteOf(bits), n) = bits[n]
  <1>1. PICK u : SumsBits(u, bits) /\ ByteOf(bits) = u[Width]
    BY ByteOfSums
  <1>2. n \in Nat /\ n + 1 \in Nat
    BY WidthIs
  <1> DEFINE P == TwoTo[n]
             N == {i \in Nat : (n + 1) + i <= Width =>
                     \E c \in Nat : u[(n + 1) + i] = u[n + 1] + (2 * P) * c}
  <1>3. P \in Nat \ {0} /\ TwoTo[n + 1] = 2 * P
    BY <1>2, TwoToIs
  <1>4. 0 \in N
    <2>1. n + 1 \in 0 .. Width
      BY WidthIs
    <2>2. u[(n + 1) + 0] = u[n + 1] + (2 * P) * 0
      BY <1>2, <1>1, <1>3, <2>1 DEF SumsBits
    <2>3. QED BY <2>2
  <1>5. ASSUME NEW i \in Nat, i \in N
        PROVE  i + 1 \in N
    <2> SUFFICES ASSUME (n + 1) + (i + 1) <= Width
                 PROVE  \E c \in Nat : u[(n + 1) + (i + 1)] = u[n + 1] + (2 * P) * c
      OBVIOUS
    <2>1. PICK m : m = (n + 1) + i
      OBVIOUS
    <2>2. m \in 0 .. Width - 1 /\ m + 1 = (n + 1) + (i + 1) /\ m <= Width /\ m \in Nat
      BY <1>2, <2>1, WidthIs
    <2>3. PICK c \in Nat : u[m] = u[n + 1] + (2 * P) * c
      BY <1>5, <2>1, <2>2
    <2>4. u[m + 1] = u[m] + bits[m] * TwoTo[m]
      BY <1>1, <2>2 DEF SumsBits
    <2>5. TwoTo[m] = (2 * P) * TwoTo[i] /\ TwoTo[i] \in Nat
      <3>1. TwoTo[(n + 1) + i] = TwoTo[n + 1] * TwoTo[i]
        BY <1>2, TwoToAdds
      <3>2. TwoTo[i] \in Nat
        BY TwoToIs
      <3>3. QED BY <1>3, <2>1, <3>1, <3>2
    <2>6. bits[m] \in {0, 1}
      BY <2>2 DEF BitStrings
    <2>7. u[n + 1] \in Nat
      <3>1. n + 1 \in 0 .. Width
        BY WidthIs
      <3>2. QED BY <1>1, <3>1 DEF SumsBits
    <2>8. CASE bits[m] = 0
      <3>1. u[m + 1] = u[n + 1] + (2 * P) * c
        <4>1. m \in 0 .. Width
          BY <2>2, WidthIs
        <4>2. u[m] \in Nat /\ TwoTo[m] \in Nat
          BY <1>1, <2>2, <4>1, TwoToIs DEF SumsBits
        <4>3. QED BY <2>3, <2>4, <2>8, <4>2
      <3>2. QED BY <2>2, <3>1
    <2>9. CASE bits[m] = 1
      <3>1. c + TwoTo[i] \in Nat
        BY <2>5
      <3>2. (2 * P) * (c + TwoTo[i]) = (2 * P) * c + (2 * P) * TwoTo[i]
        BY <1>3, <2>5
      <3>3. 1 * TwoTo[m] = (2 * P) * TwoTo[i]
        <4>1. TwoTo[m] \in Nat
          BY <2>2, TwoToIs
        <4>2. QED BY <2>5, <4>1
      <3>4. (2 * P) * c \in Nat /\ (2 * P) * TwoTo[i] \in Nat
        BY <1>3, <2>5
      <3>5. u[m + 1] = u[n + 1] + (2 * P) * (c + TwoTo[i])
        <4> HIDE DEF P
        <4>1. u[m + 1] = (u[n + 1] + (2 * P) * c) + (2 * P) * TwoTo[i]
          BY <2>3, <2>4, <2>9, <3>3
        <4>2. QED BY <2>7, <3>2, <3>4, <4>1
      <3>6. QED BY <2>2, <3>1, <3>5
    <2>10. QED BY <2>6, <2>8, <2>9
  <1>6. Nat \subseteq N
    <2> HIDE DEF N
    <2>1. QED BY <1>4, <1>5, AllNumbers
  <1>7. PICK c \in Nat : u[Width] = u[n + 1] + (2 * P) * c
    <2>1. Width - (n + 1) \in Nat /\ (n + 1) + (Width - (n + 1)) = Width
      BY WidthIs
    <2>2. QED BY <1>6, <2>1, WidthIs
  <1>8. u[n + 1] = u[n] + bits[n] * P /\ u[n] \in Nat /\ u[n] < P /\ bits[n] \in {0, 1}
    <2>1. n \in 0 .. Width
      BY WidthIs
    <2>2. QED BY <1>1, <2>1, SumsStayBelow DEF SumsBits, BitStrings
  <1> HIDE DEF P
  <1>9. u[Width] = P * (bits[n] + 2 * c) + u[n]
    <2>1. (2 * P) * c = P * (2 * c) /\ P * (bits[n] + 2 * c) = P * bits[n] + P * (2 * c)
      BY <1>3, <1>8
    <2>2. bits[n] * P = P * bits[n] /\ P * bits[n] \in Nat /\ P * (2 * c) \in Nat
      BY <1>3, <1>8
    <2>3. QED BY <1>7, <1>8, <2>1, <2>2
  <1>10. u[Width] \div P = bits[n] + 2 * c
    <2>1. bits[n] + 2 * c \in Int /\ u[n] \in 0 .. P - 1
      BY <1>3, <1>8
    <2>2. QED BY <1>3, <1>9, <2>1, Divides
  <1>11. (bits[n] + 2 * c) % 2 = bits[n]
    BY <1>8
  <1>12. QED BY <1>1, <1>10, <1>11 DEF Bit, P

\* A byte is a number below TwoTo[Width].
LEMMA ByteIsNat == \A x \in Byte : x \in Nat /\ x < TwoTo[Width]
  <1>1. TwoTo[Width] \in Nat
    BY TwoToIs, WidthIs
  <1>2. QED BY <1>1 DEF Byte

\* The remainder by the next power of two has one bit more, and the quotient one less.
LEMMA RemainderGrows ==
  ASSUME NEW p \in Nat \ {0}, NEW x \in Nat
  PROVE  /\ x % (2 * p) = (x % p) + p * ((x \div p) % 2)
         /\ x \div p = 2 * (x \div (2 * p)) + ((x \div p) % 2)
  <1> DEFINE q == x \div p
             r == x % p
             h == q \div 2
             b == q % 2
  <1>1. x = p * q + r /\ r \in 0 .. p - 1 /\ q \in Int
    BY Parts
  <1>2. q = 2 * h + b /\ b \in {0, 1} /\ h \in Int
    BY <1>1
  <1> HIDE DEF q, r, h, b
  <1>3. p * q = (2 * p) * h + p * b
    <2>1. p * (2 * h + b) = p * (2 * h) + p * b /\ p * (2 * h) = (2 * p) * h
      BY <1>2
    <2>2. QED BY <1>2, <2>1
  <1>4. p * b \in {0, p}
    BY <1>2
  <1>5. p * b + r \in 0 .. (2 * p) - 1
    BY <1>1, <1>4
  <1>6. x = (2 * p) * h + (p * b + r)
    <2>1. (2 * p) * h \in Int /\ p * b \in Int /\ r \in Int
      BY <1>1, <1>2, <1>4
    <2>2. QED BY <1>1, <1>3, <2>1
  <1>7. x % (2 * p) = p * b + r /\ x \div (2 * p) = h
    <2>1. 2 * p \in Nat \ {0}
      OBVIOUS
    <2>2. QED BY <1>2, <1>5, <1>6, <2>1, Divides
  <1>8. x % (2 * p) = r + p * b
    BY <1>1, <1>4, <1>7
  <1>9. q = 2 * (x \div (2 * p)) + b
    BY <1>2, <1>7
  <1>10. QED BY <1>8, <1>9 DEF q, r, b

BitsOf(x) == [n \in 0 .. Width - 1 |-> Bit(x, n)]

\* The bits of a byte are zeros and ones.
LEMMA BitsOfIs ==
  ASSUME NEW x \in Byte
  PROVE  BitsOf(x) \in BitStrings
  <1>1. \A n \in 0 .. Width - 1 : Bit(x, n) \in {0, 1}
    BY BitIs, ByteIsNat, WidthIs
  <1>2. QED BY <1>1 DEF BitsOf, BitStrings

\* A byte is made of its bits.
LEMMA ByteOfBitsOf ==
  ASSUME NEW x \in Byte
  PROVE  ByteOf(BitsOf(x)) = x
  <1>1. PICK u : SumsBits(u, BitsOf(x)) /\ ByteOf(BitsOf(x)) = u[Width]
    BY BitsOfIs, ByteOfSums
  <1>2. x \in Nat /\ x < TwoTo[Width] /\ Width \in Nat
    BY ByteIsNat, WidthIs
  <1> DEFINE N == {i \in Nat : i <= Width => u[i] = x % TwoTo[i]}
  <1>3. 0 \in N
    <2>1. x % 1 = 0
      BY <1>2
    <2>2. QED BY <1>1, <2>1, TwoToIs DEF SumsBits
  <1>4. ASSUME NEW i \in Nat, i \in N
        PROVE  i + 1 \in N
    <2> SUFFICES ASSUME i + 1 <= Width
                 PROVE  u[i + 1] = x % TwoTo[i + 1]
      OBVIOUS
    <2>1. i \in 0 .. Width - 1 /\ i <= Width
      BY <1>2
    <2>2. u[i + 1] = u[i] + Bit(x, i) * TwoTo[i]
      BY <1>1, <2>1 DEF SumsBits, BitsOf
    <2>3. PICK p : p = TwoTo[i]
      OBVIOUS
    <2>4. p \in Nat \ {0} /\ TwoTo[i + 1] = 2 * p
      BY <2>3, TwoToIs
    <2>5. x % (2 * p) = (x % p) + p * ((x \div p) % 2)
      BY <1>2, <2>4, RemainderGrows
    <2>6. (x \div p) % 2 \in {0, 1}
      <3>1. x \div p \in Int
        BY <1>2, <2>4
      <3>2. QED BY <3>1
    <2>7. p * ((x \div p) % 2) = ((x \div p) % 2) * p
      BY <2>4, <2>6
    <2>8. u[i] = x % p
      BY <1>4, <2>1, <2>3
    <2>9. QED BY <2>2, <2>3, <2>4, <2>5, <2>7, <2>8 DEF Bit
  <1> HIDE DEF N
  <1>5. Nat \subseteq N
    BY <1>3, <1>4, AllNumbers
  <1>6. u[Width] = x % TwoTo[Width]
    BY <1>2, <1>5 DEF N
  <1>7. x % TwoTo[Width] = x
    <2>1. PICK p : p = TwoTo[Width]
      OBVIOUS
    <2>2. p \in Nat \ {0} /\ x \in 0 .. p - 1 /\ x = p * 0 + x
      BY <1>2, <2>1, TwoToIs
    <2>3. (p * 0 + x) % p = x
      BY <2>2, Divides
    <2>4. QED BY <2>1, <2>2, <2>3
  <1>8. QED BY <1>1, <1>6, <1>7

\* Bytes of the same bits are the same.
LEMMA BitsTell ==
  ASSUME NEW x \in Byte, NEW y \in Byte, \A n \in 0 .. Width - 1 : Bit(x, n) = Bit(y, n)
  PROVE  x = y
  <1>1. BitsOf(x) = BitsOf(y)
    BY DEF BitsOf
  <1>2. QED BY <1>1, ByteOfBitsOf

\* More bits make a greater byte.
LEMMA BitsGrow ==
  ASSUME NEW x \in Byte, NEW y \in Byte, \A n \in 0 .. Width - 1 : Bit(x, n) <= Bit(y, n)
  PROVE  x <= y
  <1>1. PICK u : SumsBits(u, BitsOf(x)) /\ ByteOf(BitsOf(x)) = u[Width]
    BY BitsOfIs, ByteOfSums
  <1>2. PICK w : SumsBits(w, BitsOf(y)) /\ ByteOf(BitsOf(y)) = w[Width]
    BY BitsOfIs, ByteOfSums
  <1> DEFINE N == {i \in Nat : i <= Width => u[i] <= w[i]}
  <1>3. 0 \in N
    BY <1>1, <1>2 DEF SumsBits
  <1>4. ASSUME NEW i \in Nat, i \in N
        PROVE  i + 1 \in N
    <2> SUFFICES ASSUME i + 1 <= Width
                 PROVE  u[i + 1] <= w[i + 1]
      OBVIOUS
    <2>1. i \in 0 .. Width - 1 /\ i <= Width /\ i \in 0 .. Width
      BY WidthIs
    <2>2. u[i + 1] = u[i] + Bit(x, i) * TwoTo[i] /\ w[i + 1] = w[i] + Bit(y, i) * TwoTo[i]
      BY <1>1, <1>2, <2>1 DEF SumsBits, BitsOf
    <2>3. u[i] \in Nat /\ w[i] \in Nat /\ u[i] <= w[i]
      BY <1>1, <1>2, <1>4, <2>1 DEF SumsBits
    <2>4. Bit(x, i) \in {0, 1} /\ Bit(y, i) \in {0, 1} /\ Bit(x, i) <= Bit(y, i)
      BY <2>1, BitIs, ByteIsNat
    <2>5. TwoTo[i] \in Nat
      BY TwoToIs
    <2>6. Bit(x, i) * TwoTo[i] <= Bit(y, i) * TwoTo[i] /\ Bit(x, i) * TwoTo[i] \in Nat
          /\ Bit(y, i) * TwoTo[i] \in Nat
      BY <2>4, <2>5
    <2>7. QED BY <2>2, <2>3, <2>6
  <1> HIDE DEF N
  <1>5. Nat \subseteq N
    BY <1>3, <1>4, AllNumbers
  <1>6. u[Width] <= w[Width]
    BY <1>5, WidthIs DEF N
  <1>7. QED BY <1>1, <1>2, <1>6, ByteOfBitsOf

\* The byte without bits is 0, and the byte of all bits the greatest.
LEMMA NoBits ==
  /\ 0 \in Byte
  /\ \A n \in Nat : Bit(0, n) = 0
  <1>1. TwoTo[Width] \in Nat \ {0}
    BY WidthIs, TwoToIs
  <1>2. ASSUME NEW n \in Nat
        PROVE  Bit(0, n) = 0
    <2>1. PICK p : p = TwoTo[n]
      OBVIOUS
    <2>2. p \in Nat \ {0}
      BY <2>1, TwoToIs
    <2>3. (p * 0 + 0) \div p = 0 /\ p * 0 + 0 = 0
      BY <2>2
    <2>4. QED BY <2>1, <2>3 DEF Bit
  <1>3. QED BY <1>1, <1>2 DEF Byte

\* The greatest byte has every bit set.
LEMMA AllBits ==
  /\ TwoTo[Width] - 1 \in Byte
  /\ \A n \in 0 .. Width - 1 : Bit(TwoTo[Width] - 1, n) = 1
  <1>1. PICK bits : bits = [n \in 0 .. Width - 1 |-> 1]
    OBVIOUS
  <1>2. bits \in BitStrings
    BY <1>1 DEF BitStrings
  <1>3. PICK u : SumsBits(u, bits) /\ ByteOf(bits) = u[Width]
    BY <1>2, ByteOfSums
  <1> DEFINE N == {i \in Nat : i <= Width => u[i] = TwoTo[i] - 1}
  <1>4. 0 \in N
    BY <1>3, TwoToIs DEF SumsBits
  <1>5. ASSUME NEW i \in Nat, i \in N
        PROVE  i + 1 \in N
    <2> SUFFICES ASSUME i + 1 <= Width
                 PROVE  u[i + 1] = TwoTo[i + 1] - 1
      OBVIOUS
    <2>1. i \in 0 .. Width - 1 /\ i <= Width
      BY WidthIs
    <2>2. u[i + 1] = u[i] + 1 * TwoTo[i]
      BY <1>1, <1>3, <2>1 DEF SumsBits
    <2>3. TwoTo[i] \in Nat /\ TwoTo[i + 1] = 2 * TwoTo[i]
      BY TwoToIs
    <2>4. QED BY <1>5, <2>1, <2>2, <2>3
  <1> HIDE DEF N
  <1>6. Nat \subseteq N
    BY <1>4, <1>5, AllNumbers
  <1>7. ByteOf(bits) = TwoTo[Width] - 1
    BY <1>3, <1>6, WidthIs DEF N
  <1>8. \A n \in 0 .. Width - 1 : Bit(ByteOf(bits), n) = 1
    BY <1>1, <1>2, BitOfByteOf
  <1>9. QED BY <1>2, <1>7, <1>8, ByteOfIs

\* The digits and the sign of a numeral are bytes.
LEMMA DigitsAreBytes == {0, 1, 2, 3} \subseteq Byte
  <1>1. TwoTo[1] = 2 /\ TwoTo[2] = 4
    <2>1. TwoTo[0 + 1] = 2 * TwoTo[0] /\ TwoTo[1 + 1] = 2 * TwoTo[1]
      BY TwoToIs
    <2>2. QED BY <2>1, TwoToIs
  <1>2. PICK d \in Nat : Width = 2 + d
    <2>1. Width - 2 \in Nat /\ Width = 2 + (Width - 2)
      BY WidthIs
    <2>2. QED BY <2>1
  <1>3. TwoTo[Width] = 4 * TwoTo[d] /\ TwoTo[d] \in Nat \ {0}
    <2>1. PICK two : two = 2
      OBVIOUS
    <2>2. two \in Nat
      BY <2>1
    <2>3. TwoTo[two + d] = TwoTo[two] * TwoTo[d]
      BY <2>2, TwoToAdds
    <2>4. QED BY <1>1, <1>2, <2>1, <2>3, TwoToIs
  <1>4. TwoTo[Width] >= 4 /\ TwoTo[Width] \in Nat
    BY <1>3
  <1>5. QED BY <1>4 DEF Byte

----------------------------------------------------------------------------
(* Least and greatest members.                                              *)

\* A set of natural numbers has a least one.
LEMMA LeastExists ==
  ASSUME NEW B \in SUBSET Nat, B # {}
  PROVE  \E n \in B : \A m \in B : n <= m
  <1>1. PICK n \in B : \A m \in B : ~(<<m, n>> \in OpToRel(<, Nat))
    BY NatLessThanWellFounded, WFMin
  <1>2. \A m \in B : ~(m < n)
    BY <1>1 DEF OpToRel
  <1>3. QED BY <1>2

\* A set of numbers that is bounded has a greatest one.
LEMMA GreatestExists ==
  ASSUME NEW B \in SUBSET Int, B # {}, NEW b \in Int, \A x \in B : x <= b
  PROVE  \E n \in B : \A m \in B : m <= n
  <1> DEFINE D == {n \in Nat : b - n \in B}
  <1>1. D # {}
    <2>1. PICK x \in B : TRUE
      OBVIOUS
    <2>2. b - x \in Nat /\ b - (b - x) = x
      OBVIOUS
    <2>3. QED BY <2>2
  <1>2. PICK d \in D : \A e \in D : d <= e
    <2> HIDE DEF D
    <2>1. D \in SUBSET Nat
      BY DEF D
    <2>2. QED BY <1>1, <2>1, LeastExists
  <1>3. ASSUME NEW m \in B
        PROVE  m <= b - d
    <2>1. b - m \in Nat /\ b - (b - m) = m
      OBVIOUS
    <2>2. b - m \in D
      BY <2>1
    <2>3. QED BY <1>2, <2>2
  <1>4. QED BY <1>2, <1>3

\* One of finitely many numbers is the greatest.
LEMMA GreatestOfMany ==
  ASSUME NEW n \in Nat \ {0}, NEW f, \A i \in 1 .. n : f[i] \in Int
  PROVE  \E i \in 1 .. n : \A j \in 1 .. n : f[j] <= f[i]
  <1> DEFINE N == {m \in Nat : m + 1 <= n =>
                     \E i \in 1 .. m + 1 : \A j \in 1 .. m + 1 : f[j] <= f[i]}
  <1>1. 0 \in N
    OBVIOUS
  <1>2. ASSUME NEW m \in Nat, m \in N
        PROVE  m + 1 \in N
    <2> SUFFICES ASSUME (m + 1) + 1 <= n
                 PROVE  \E i \in 1 .. (m + 1) + 1 : \A j \in 1 .. (m + 1) + 1 : f[j] <= f[i]
      OBVIOUS
    <2>1. PICK i \in 1 .. m + 1 : \A j \in 1 .. m + 1 : f[j] <= f[i]
      BY <1>2
    <2>2. PICK k : k = (m + 1) + 1
      OBVIOUS
    <2>3. k \in 1 .. n /\ i \in 1 .. n /\ k \in 1 .. k /\ i \in 1 .. k
          /\ \A j \in 1 .. k : j = k \/ j \in 1 .. m + 1
      BY <2>2
    <2>4. f[k] \in Int /\ f[i] \in Int
      BY <2>3
    <2>5. CASE f[k] <= f[i]
      BY <2>1, <2>2, <2>3, <2>5
    <2>6. CASE f[k] > f[i]
      <3>1. ASSUME NEW j \in 1 .. k
            PROVE  f[j] <= f[k]
        <4>1. CASE j = k
          BY <2>4, <4>1
        <4>2. CASE j \in 1 .. m + 1
          <5>1. f[j] <= f[i] /\ f[j] \in Int
            <6>1. j \in 1 .. n
              BY <2>3
            <6>2. QED BY <2>1, <4>2, <6>1
          <5>2. QED BY <2>4, <2>6, <5>1
        <4>3. QED BY <2>3, <4>1, <4>2
      <3>2. QED BY <2>2, <2>3, <3>1
    <2>7. QED BY <2>4, <2>5, <2>6
  <1> HIDE DEF N
  <1>3. Nat \subseteq N
    BY <1>1, <1>2, AllNumbers
  <1>4. n - 1 \in N /\ (n - 1) + 1 = n
    BY <1>3
  <1>5. QED BY <1>4 DEF N

----------------------------------------------------------------------------
(* Strings.                                                                 *)

\* The domain and the members of a string of bytes.
LEMMA StringIs ==
  ASSUME NEW v \in Seq(Byte)
  PROVE  /\ Len(v) \in Nat
         /\ DOMAIN v = 1 .. Len(v)
         /\ \A i \in 1 .. Len(v) : v[i] \in Byte /\ v[i] \in Nat
         /\ v = <<>> <=> Len(v) = 0
  BY ByteIsNat

\* A function from 1 .. n to bytes is a string of n bytes.
LEMMA MakesString ==
  ASSUME NEW n \in Nat, NEW f \in [1 .. n -> Byte]
  PROVE  f \in Seq(Byte) /\ Len(f) = n
  OBVIOUS

\* Zeros(n) is a string of n zeros, empty below 0.
LEMMA ZerosAre ==
  ASSUME NEW n \in Int
  PROVE  /\ Zeros(n) \in Seq(Byte)
         /\ Len(Zeros(n)) = IF n > 0 THEN n ELSE 0
         /\ \A i \in 1 .. n : Zeros(n)[i] = 0
  <1>1. CASE n > 0
    <2>1. Zeros(n) \in [1 .. n -> Byte] /\ n \in Nat
      BY <1>1, NoBits DEF Zeros
    <2>2. QED BY <1>1, <2>1, MakesString DEF Zeros
  <1>2. CASE ~(n > 0)
    <2>1. PICK m : m = 0
      OBVIOUS
    <2>2. 1 .. n = 1 .. m
      BY <1>2, <2>1
    <2>3. Zeros(n) \in [1 .. m -> Byte] /\ m \in Nat
      BY <2>1, <2>2 DEF Zeros
    <2>4. Zeros(n) \in Seq(Byte) /\ Len(Zeros(n)) = m
      BY <2>3, MakesString
    <2>5. QED BY <1>2, <2>1, <2>4
  <1>3. QED BY <1>1, <1>2

\* What strlen finds is the beginning of a string.
LEMMA UpToNulIs ==
  ASSUME NEW v \in Seq(Byte)
  PROVE  UpToNul(v) \in Seq(Byte)
  <1> DEFINE nuls == {i \in DOMAIN v : v[i] = 0}
  <1>1. CASE nuls = {}
    BY <1>1 DEF UpToNul
  <1>2. CASE nuls # {}
    <2> DEFINE first == CHOOSE i \in nuls : \A j \in nuls : i <= j
    <2>1. nuls \in SUBSET Nat
      BY StringIs
    <2>2. first \in nuls
      <3> HIDE DEF nuls
      <3>1. \E i \in nuls : \A j \in nuls : i <= j
        BY <1>2, <2>1, LeastExists
      <3>2. QED BY <3>1
    <2>3. UpToNul(v) = SubSeq(v, 1, first - 1)
      BY <1>2 DEF UpToNul
    <2> HIDE DEF first
    <2>4. first \in 1 .. Len(v)
      BY <2>2, StringIs
    <2>5. SubSeq(v, 1, first - 1) \in Seq(Byte)
      <3>1. \A i \in 1 .. first - 1 : v[i] \in Byte
        BY <2>4, StringIs
      <3>2. first - 1 \in Int /\ 1 \in Int
        BY <2>4, StringIs
      <3>3. QED BY <3>1, <3>2, SubSeqProperties
    <2>6. QED BY <2>3, <2>5
  <1>3. QED BY <1>1, <1>2

----------------------------------------------------------------------------
(* Numerals.                                                                *)

\* A power of two is greater than its exponent.
LEMMA TwoToGrows == \A n \in Nat : n < TwoTo[n]
  <1> DEFINE N == {n \in Nat : n < TwoTo[n]}
  <1>1. 0 \in N
    BY TwoToIs
  <1>2. ASSUME NEW n \in Nat, n \in N
        PROVE  n + 1 \in N
    BY <1>2, TwoToIs
  <1> HIDE DEF N
  <1>3. Nat \subseteq N
    BY <1>1, <1>2, AllNumbers
  <1>4. QED BY <1>3 DEF N

\* d are the digits of m.
IsSize(d, m) == m < TwoTo[d] /\ (d = 1 \/ TwoTo[d - 1] <= m)

SizeOf(m) == CHOOSE d \in 1 .. m + 1 : IsSize(d, m)

DigitsOf(m) == [i \in 1 .. SizeOf(m) |-> Bit(m, SizeOf(m) - i) + 1]

\* Numeral writes a sign for a negative number, and the digits of its size.
LEMMA NumeralIs == \A n : Numeral(n) = IF n < 0 THEN <<Minus>> \o DigitsOf(-n) ELSE DigitsOf(n)
  BY DEF Numeral, DigitsOf, SizeOf, IsSize

\* Every number has a size: the digits that hold it.
LEMMA SizeIs ==
  ASSUME NEW m \in Nat
  PROVE  SizeOf(m) \in Nat \ {0} /\ IsSize(SizeOf(m), m)
  <1> DEFINE D == {d \in 1 .. m + 1 : m < TwoTo[d]}
  <1>1. m + 1 \in D
    BY TwoToGrows, TwoToIs
  <1>2. PICK d \in D : \A e \in D : d <= e
    <2> HIDE DEF D
    <2>1. D \in SUBSET Nat
      BY DEF D
    <2>2. QED BY <1>1, <2>1, LeastExists
  <1>3. IsSize(d, m)
    <2>1. CASE d = 1
      BY <1>2, <2>1 DEF IsSize
    <2>2. CASE d # 1
      <3>1. d - 1 \in 1 .. m + 1 /\ d - 1 \in Nat /\ ~(d <= d - 1)
        BY <2>2
      <3>2. ~(m < TwoTo[d - 1]) /\ TwoTo[d - 1] \in Nat
        BY <1>2, <3>1, TwoToIs
      <3>3. QED BY <1>2, <3>2 DEF IsSize
    <2>3. QED BY <2>1, <2>2
  <1>4. \E e \in 1 .. m + 1 : IsSize(e, m)
    BY <1>2, <1>3
  <1>5. SizeOf(m) \in 1 .. m + 1 /\ IsSize(SizeOf(m), m)
    BY <1>4 DEF SizeOf
  <1>6. QED BY <1>5

\* The digits of a number are as many as its size, and each is a byte that stands for 0
\* or 1.
LEMMA DigitsOfAre ==
  ASSUME NEW m \in Nat
  PROVE  /\ DigitsOf(m) \in Seq(Byte)
         /\ Len(DigitsOf(m)) = SizeOf(m)
         /\ \A i \in 1 .. SizeOf(m) :
              DigitsOf(m)[i] = Bit(m, SizeOf(m) - i) + 1 /\ DigitsOf(m)[i] \in {1, 2}
  <1>1. PICK n : n = SizeOf(m)
    OBVIOUS
  <1>2. n \in Nat
    BY <1>1, SizeIs
  <1>3. \A i \in 1 .. n : Bit(m, n - i) + 1 \in {1, 2}
    <2> SUFFICES ASSUME NEW i \in 1 .. n
                 PROVE  Bit(m, n - i) + 1 \in {1, 2}
      OBVIOUS
    <2>1. n - i \in Nat /\ m \in Int
      BY <1>2
    <2>2. Bit(m, n - i) \in {0, 1}
      BY <2>1, BitIs
    <2>3. QED BY <2>2
  <1>4. DigitsOf(m) = [i \in 1 .. n |-> Bit(m, n - i) + 1]
    BY <1>1 DEF DigitsOf
  <1>5. DigitsOf(m) \in [1 .. n -> Byte]
    BY <1>3, <1>4, DigitsAreBytes
  <1>6. DigitsOf(m) \in Seq(Byte) /\ Len(DigitsOf(m)) = n
    BY <1>2, <1>5, MakesString
  <1>7. QED BY <1>1, <1>3, <1>4, <1>6

\* A numeral is a string.
LEMMA NumeralIsString ==
  ASSUME NEW n \in Int
  PROVE  Numeral(n) \in Seq(Byte)
  <1>1. CASE n < 0
    <2>1. PICK m : m = -n
      OBVIOUS
    <2>2. <<Minus>> \in Seq(Byte)
      BY DigitsAreBytes DEF Minus
    <2>3. DigitsOf(m) \in Seq(Byte)
      BY <1>1, <2>1, DigitsOfAre
    <2>4. Numeral(n) = <<Minus>> \o DigitsOf(m)
      BY <1>1, <2>1, NumeralIs
    <2>5. QED BY <2>2, <2>3, <2>4, ConcatProperties
  <1>2. CASE ~(n < 0)
    <2>1. n \in Nat
      BY <1>2
    <2>2. Numeral(n) = DigitsOf(n)
      BY <1>2, NumeralIs
    <2>3. QED BY <2>1, <2>2, DigitsOfAre
  <1>3. QED BY <1>1, <1>2

----------------------------------------------------------------------------
(* Operations on bytes.                                                     *)

BitsAt(bytes, n) == [i \in DOMAIN bytes |-> Bit(bytes[i], n)]

\* What BitOp makes of bits is a bit.
LEMMA CombineIs ==
  ASSUME NEW op \in BitOperations, NEW m \in Nat \ {0}, NEW bits \in [1 .. m -> {0, 1}]
  PROVE  Combine(op, bits) \in {0, 1}
  <1> DEFINE ones == {i \in DOMAIN bits : bits[i] = 1}
  <1>1. Cardinality(ones) \in Nat
    <2>1. IsFiniteSet(1 .. m)
      BY FS_Interval
    <2>2. ones \in SUBSET (1 .. m)
      OBVIOUS
    <2> HIDE DEF ones
    <2>3. QED BY <2>1, <2>2, FS_Subset, FS_CardinalityType
  <1>2. Cardinality(ones) % 2 \in {0, 1}
    BY <1>1
  <1>3. 1 - bits[1] \in {0, 1}
    <2>1. bits[1] \in {0, 1}
      OBVIOUS
    <2>2. QED BY <2>1
  <1>4. op = "NOT" => Combine(op, bits) = 1 - bits[1]
    BY DEF Combine
  <1>5. op = "AND" => Combine(op, bits) \in {0, 1}
    BY DEF Combine
  <1>6. op = "OR" => Combine(op, bits) \in {0, 1}
    BY DEF Combine
  <1>7. op = "XOR" => Combine(op, bits) = Cardinality(ones) % 2
    BY DEF Combine
  <1>8. QED BY <1>2, <1>3, <1>4, <1>5, <1>6, <1>7 DEF BitOperations

\* A bit of the result is the combination of those of the operands.
LEMMA OperateByteIs ==
  ASSUME NEW op \in BitOperations, NEW m \in Nat \ {0}, NEW bytes \in [1 .. m -> Byte]
  PROVE  /\ OperateByte(op, bytes) \in Byte
         /\ \A n \in 0 .. Width - 1 :
              Bit(OperateByte(op, bytes), n) = Combine(op, BitsAt(bytes, n))
  <1> DEFINE one(n) == {Bit(bytes[i], n) : i \in DOMAIN bytes}
             ones(n) == Cardinality({i \in DOMAIN bytes : Bit(bytes[i], n) = 1})
             bit(n) == CASE op = "NOT" -> 1 - Bit(bytes[1], n)
                         [] op = "AND" -> IF one(n) = {1} THEN 1 ELSE 0
                         [] op = "OR"  -> IF 1 \in one(n) THEN 1 ELSE 0
                         [] op = "XOR" -> ones(n) % 2
             bits == [n \in 0 .. Width - 1 |-> bit(n)]
  <1>1. OperateByte(op, bytes) = ByteOf(bits)
    BY DEF OperateByte
  <1>2. ASSUME NEW n \in 0 .. Width - 1
        PROVE  bit(n) = Combine(op, BitsAt(bytes, n)) /\ bit(n) \in {0, 1}
    <2>1. PICK b : b = BitsAt(bytes, n)
      OBVIOUS
    <2>2. b \in [1 .. m -> {0, 1}] /\ \A i \in 1 .. m : b[i] = Bit(bytes[i], n)
      <3>1. \A i \in 1 .. m : Bit(bytes[i], n) \in {0, 1}
        BY BitIs, ByteIsNat, WidthIs
      <3>2. QED BY <2>1, <3>1 DEF BitsAt
    <2>3. DOMAIN b = 1 .. m /\ DOMAIN bytes = 1 .. m /\ 1 \in 1 .. m
      BY <2>2
    <2>4. {i \in DOMAIN b : b[i] = 1} = {i \in DOMAIN bytes : Bit(bytes[i], n) = 1}
      BY <2>2, <2>3
    <2>5. one(n) = {b[i] : i \in 1 .. m}
      BY <2>2, <2>3
    <2>6. op = "NOT" => bit(n) = Combine(op, b)
      BY <2>2, <2>3 DEF Combine
    <2>7. op = "AND" => bit(n) = Combine(op, b)
      <3>1. one(n) = {1} <=> {i \in DOMAIN b : b[i] = 1} = DOMAIN b
        <4>1. one(n) = {1} <=> \A i \in 1 .. m : b[i] = 1
          BY <2>3, <2>5
        <4>2. QED BY <2>3, <4>1
      <3> HIDE DEF one, ones
      <3>2. QED BY <3>1 DEF Combine
    <2>8. op = "OR" => bit(n) = Combine(op, b)
      <3>1. 1 \in one(n) <=> {i \in DOMAIN b : b[i] = 1} # {}
        BY <2>3, <2>5
      <3> HIDE DEF one, ones
      <3>2. QED BY <3>1 DEF Combine
    <2>9. op = "XOR" => bit(n) = Combine(op, b)
      BY <2>4 DEF Combine
    <2>10. bit(n) = Combine(op, b)
      <3> HIDE DEF bit
      <3>1. QED BY <2>6, <2>7, <2>8, <2>9 DEF BitOperations
    <2>11. Combine(op, b) \in {0, 1}
      BY <2>2, CombineIs
    <2> HIDE DEF bit
    <2>12. QED BY <2>1, <2>10, <2>11
  <1> HIDE DEF bit
  <1>3. bits \in BitStrings
    BY <1>2 DEF BitStrings
  <1>4. QED BY <1>1, <1>2, <1>3, ByteOfIs, BitOfByteOf

\* The bytes of v as far as it goes, then zeros.
ByteAt(v, j) == IF j <= Len(v) THEN v[j] ELSE 0

\* What a source has at a place, zero behind its end, is a byte.
LEMMA ByteAtIs ==
  ASSUME NEW v \in Seq(Byte), NEW j \in Nat \ {0}
  PROVE  ByteAt(v, j) \in Byte
  <1>1. CASE j <= Len(v)
    <2>1. j \in 1 .. Len(v)
      BY <1>1, StringIs
    <2>2. QED BY <1>1, <2>1, StringIs DEF ByteAt
  <1>2. CASE ~(j <= Len(v))
    BY <1>2, NoBits DEF ByteAt
  <1>3. QED BY <1>1, <1>2

\* LongestOf is the length of one source and no less than that of any.
LEMMA LongestOfIs ==
  ASSUME NEW m \in Nat \ {0}, NEW src \in [1 .. m -> Seq(Byte)]
  PROVE  /\ LongestOf(src) \in Nat
         /\ \A i \in 1 .. m : Len(src[i]) <= LongestOf(src)
         /\ \E i \in 1 .. m : Len(src[i]) = LongestOf(src)
  <1>1. PICK f : f = [i \in 1 .. m |-> Len(src[i])]
    OBVIOUS
  <1>2. \A i \in 1 .. m : f[i] \in Int /\ f[i] \in Nat /\ f[i] = Len(src[i])
    BY <1>1, StringIs
  <1>3. PICK i \in 1 .. m : \A j \in 1 .. m : f[j] <= f[i]
    BY <1>2, GreatestOfMany
  <1> DEFINE lengths == {Len(src[j]) : j \in DOMAIN src}
  <1>4. f[i] \in lengths /\ \A j \in DOMAIN src : Len(src[j]) <= f[i]
    BY <1>2, <1>3
  <1>5. LongestOf(src) \in lengths /\ \A j \in DOMAIN src : Len(src[j]) <= LongestOf(src)
    <2>1. \E n \in lengths : \A j \in DOMAIN src : Len(src[j]) <= n
      BY <1>4
    <2>2. QED BY <2>1 DEF LongestOf
  <1>6. QED BY <1>2, <1>5

\* What BitOp writes.
LEMMA BitOpOperateIs ==
  ASSUME NEW op \in BitOperations, NEW m \in Nat \ {0}, NEW src \in [1 .. m -> Seq(Byte)]
  PROVE  /\ BitOpOperate(op, src) \in Seq(Byte)
         /\ Len(BitOpOperate(op, src)) = LongestOf(src)
         /\ \A j \in 1 .. LongestOf(src) :
              BitOpOperate(op, src)[j] = OperateByte(op, [i \in 1 .. m |-> ByteAt(src[i], j)])
  <1>1. PICK n : n = LongestOf(src)
    OBVIOUS
  <1>2. n \in Nat
    BY <1>1, LongestOfIs
  <1>3. BitOpOperate(op, src) =
          [j \in 1 .. n |-> OperateByte(op, [i \in 1 .. m |-> ByteAt(src[i], j)])]
    <2>1. DOMAIN src = 1 .. m
      OBVIOUS
    <2>2. QED BY <1>1, <2>1 DEF BitOpOperate, ByteAt
  <1>4. ASSUME NEW j \in 1 .. n
        PROVE  OperateByte(op, [i \in 1 .. m |-> ByteAt(src[i], j)]) \in Byte
    <2>1. PICK bytes : bytes = [i \in 1 .. m |-> ByteAt(src[i], j)]
      OBVIOUS
    <2>2. bytes \in [1 .. m -> Byte]
      <3>1. j \in Nat \ {0}
        BY <1>2
      <3>2. QED BY <2>1, <3>1, ByteAtIs
    <2>3. QED BY <2>1, <2>2, OperateByteIs
  <1>5. BitOpOperate(op, src) \in [1 .. n -> Byte]
    BY <1>3, <1>4
  <1>6. BitOpOperate(op, src) \in Seq(Byte) /\ Len(BitOpOperate(op, src)) = n
    BY <1>2, <1>5, MakesString
  <1>7. QED BY <1>1, <1>3, <1>6

----------------------------------------------------------------------------
(* Sketches.                                                                *)

Sketch == [1 .. Registers -> Byte]

\* A sketch is a string with a byte for each register.
LEMMA SketchIsString ==
  ASSUME NEW r \in Sketch
  PROVE  r \in Seq(Byte) /\ Len(r) = Registers
  BY StringsAssumption, MakesString DEF Sketch

\* What RegistersOf reads is a sketch.
LEMMA RegistersAre ==
  ASSUME NEW v, NEW r \in RegistersOf(v)
  PROVE  r \in Sketch
  <1>1. CASE v = <<>>
    <2>1. r = Zeros(Registers)
      BY <1>1 DEF RegistersOf
    <2>2. QED BY <2>1, NoBits DEF Zeros, Sketch
  <1>2. CASE v # <<>>
    BY <1>2 DEF RegistersOf, Sketch
  <1>3. QED BY <1>1, <1>2

\* A register after Add is the greatest of what it was and what is observed.
LEMMA AddIs ==
  ASSUME NEW r \in Sketch, NEW hashes \in SUBSET ((1 .. Registers) \X Byte)
  PROVE  /\ Add(r, hashes) \in Sketch
         /\ \A i \in 1 .. Registers :
              LET ranks == {h[2] : h \in {h \in hashes : h[1] = i}} \cup {r[i]}
              IN  Add(r, hashes)[i] \in ranks /\ \A rank \in ranks : rank <= Add(r, hashes)[i]
  <1> DEFINE ranks(i) == {h[2] : h \in {h \in hashes : h[1] = i}} \cup {r[i]}
             top(i) == CHOOSE rank \in ranks(i) : \A other \in ranks(i) : other <= rank
  <1>1. ASSUME NEW i \in 1 .. Registers
        PROVE  top(i) \in ranks(i) /\ (\A rank \in ranks(i) : rank <= top(i)) /\ top(i) \in Byte
    <2>1. r[i] \in Byte
      BY DEF Sketch
    <2>2. ranks(i) \in SUBSET Byte
      BY <2>1
    <2>3. ranks(i) # {}
      OBVIOUS
    <2> HIDE DEF ranks
    <2>4. ranks(i) \in SUBSET Int /\ (\A x \in ranks(i) : x <= TwoTo[Width]) /\ TwoTo[Width] \in Int
      BY <2>2, ByteIsNat, TwoToIs, WidthIs
    <2>5. \E rank \in ranks(i) : \A other \in ranks(i) : other <= rank
      BY <2>3, <2>4, GreatestExists
    <2>6. QED BY <2>2, <2>5
  <1>2. Add(r, hashes) = [i \in 1 .. Registers |-> top(i)]
    BY DEF Add
  <1> HIDE DEF top, ranks
  <1>3. Add(r, hashes) \in Sketch
    BY <1>1, <1>2 DEF Sketch
  <1>4. QED BY <1>1, <1>2, <1>3 DEF ranks

\* The OR of two registers.
LEMMA OrIs ==
  ASSUME NEW x \in Byte, NEW y \in Byte
  PROVE  LET z == OperateByte("OR", <<x, y>>)
         IN  /\ z \in Byte /\ x <= z /\ y <= z
             /\ \A n \in 0 .. Width - 1 :
                  Bit(z, n) = IF Bit(x, n) = 1 \/ Bit(y, n) = 1 THEN 1 ELSE 0
  <1>1. PICK b : b = <<x, y>>
    OBVIOUS
  <1>2. PICK m : m = 2
    OBVIOUS
  <1>3. PICK op : op = "OR"
    OBVIOUS
  <1>4. b \in [1 .. m -> Byte] /\ DOMAIN b = {1, 2} /\ b[1] = x /\ b[2] = y
    BY <1>1, <1>2
  <1>5. m \in Nat \ {0} /\ op \in BitOperations
    BY <1>2, <1>3 DEF BitOperations
  <1>6. PICK z : z = OperateByte(op, b)
    OBVIOUS
  <1>7. z \in Byte /\ \A n \in 0 .. Width - 1 : Bit(z, n) = Combine(op, BitsAt(b, n))
    BY <1>4, <1>5, <1>6, OperateByteIs
  <1>8. ASSUME NEW n \in 0 .. Width - 1
        PROVE  Bit(z, n) = IF Bit(x, n) = 1 \/ Bit(y, n) = 1 THEN 1 ELSE 0
    <2>1. PICK bits : bits = BitsAt(b, n)
      OBVIOUS
    <2>2. DOMAIN bits = {1, 2} /\ bits[1] = Bit(x, n) /\ bits[2] = Bit(y, n)
      BY <1>4, <2>1 DEF BitsAt
    <2>3. {i \in DOMAIN bits : bits[i] = 1} # {} <=> Bit(x, n) = 1 \/ Bit(y, n) = 1
      BY <2>2
    <2>4. Bit(z, n) = Combine(op, bits)
      BY <1>7, <2>1
    <2>5. QED BY <1>3, <2>3, <2>4 DEF Combine
  <1>9. \A n \in 0 .. Width - 1 : Bit(x, n) \in {0, 1} /\ Bit(y, n) \in {0, 1}
    BY BitIs, ByteIsNat, WidthIs
  <1>10. x <= z
    <2>1. \A n \in 0 .. Width - 1 : Bit(x, n) <= Bit(z, n)
      BY <1>8, <1>9
    <2>2. QED BY <1>7, <2>1, BitsGrow
  <1>11. y <= z
    <2>1. \A n \in 0 .. Width - 1 : Bit(y, n) <= Bit(z, n)
      BY <1>8, <1>9
    <2>2. QED BY <1>7, <2>1, BitsGrow
  <1>12. z = OperateByte("OR", <<x, y>>)
    BY <1>1, <1>3, <1>6
  <1>13. QED BY <1>7, <1>8, <1>10, <1>11, <1>12

\* Merge makes a sketch of two.
LEMMA MergeIs ==
  ASSUME NEW r \in Sketch, NEW other \in Sketch
  PROVE  Merge(r, other) \in Sketch
  <1>1. \A i \in 1 .. Registers : r[i] \in Byte /\ other[i] \in Byte
    BY DEF Sketch
  <1>2. \A i \in 1 .. Registers : OperateByte("OR", <<r[i], other[i]>>) \in Byte
    BY <1>1, OrIs
  <1>3. QED BY <1>1, <1>2 DEF Merge, Sketch

----------------------------------------------------------------------------
(* What is stored.                                                          *)

\* What Get, Old and Live say of a record that is stored.
LEMMA StoredIs ==
  ASSUME StringsInv, NEW k \in Keys
  PROVE  /\ strings[k] # NoValue =>
              /\ strings[k].value \in Seq(Byte)
              /\ strings[k].timestamp \in Int
         /\ Get(k) \in Seq(Byte) \cup {NoValue}
         /\ Live(k) <=> Get(k) # NoValue
         /\ Live(k) => Get(k) = strings[k].value /\ Old(k) = strings[k].value
         /\ ~Live(k) => Get(k) = NoValue /\ Old(k) = <<>>
         /\ Old(k) \in Seq(Byte)
         /\ OldTimestamp(k) \in Int
  <1>1. strings[k] \in Value \cup {NoValue} /\ NoValue \notin Value /\ NoValue \notin Seq(Byte)
    BY StringsAssumption DEF StringsInv, StringsTypeOK
  <1>2. strings[k] # NoValue => strings[k].value \in Seq(Byte) /\ strings[k].timestamp \in Int
    BY <1>1 DEF Value
  <1>3. CASE Live(k)
    <2>1. strings[k] # NoValue
      BY <1>3 DEF Live
    <2>2. strings[k].value \in Seq(Byte) /\ strings[k].value # NoValue
      BY <1>1, <1>2, <2>1
    <2>3. Get(k) = strings[k].value /\ Old(k) = strings[k].value
      BY <1>3, <2>2 DEF Get, Old, OrEmpty
    <2>4. OldTimestamp(k) \in Int
      BY <1>2, <1>3, <2>1 DEF OldTimestamp
    <2>5. QED BY <1>2, <1>3, <2>2, <2>3, <2>4
  <1>4. CASE ~Live(k)
    <2>1. Get(k) = NoValue
      BY <1>4 DEF Get
    <2>2. Old(k) = <<>>
      BY <2>1 DEF Old, OrEmpty
    <2>3. OldTimestamp(k) \in Int
      BY <1>4 DEF OldTimestamp
    <2>4. <<>> \in Seq(Byte)
      OBVIOUS
    <2>5. QED BY <1>2, <1>4, <2>1, <2>2, <2>3, <2>4
  <1>5. QED BY <1>3, <1>4

\* All bytes that are stored, whatever their string.
Places == UNION {{k} \X DOMAIN strings[k].value : k \in {k \in Keys : strings[k] # NoValue}}

\* All strings together have finitely many bytes.
LEMMA PlacesAre ==
  ASSUME StringsTypeOK
  PROVE  IsFiniteSet(Places) /\ TotalLength = Cardinality(Places) /\ TotalLength \in Nat
  <1> DEFINE held == {k \in Keys : strings[k] # NoValue}
             parts == {{k} \X DOMAIN strings[k].value : k \in held}
  <1>1. IsFiniteSet(held)
    <2>1. held \in SUBSET Keys
      OBVIOUS
    <2>2. QED BY <2>1, StringsAssumption, FS_Subset
  <1>2. ASSUME NEW k \in held
        PROVE  IsFiniteSet({k} \X DOMAIN strings[k].value)
    <2>1. strings[k].value \in Seq(Byte)
      BY DEF StringsTypeOK, Value
    <2>2. IsFiniteSet(DOMAIN strings[k].value)
      <3>1. PICK n \in Nat : DOMAIN strings[k].value = 1 .. n
        BY <2>1
      <3>2. QED BY <3>1, FS_Interval
    <2>3. QED BY <2>2, FS_Singleton, FS_Product
  <1>3. IsFiniteSet(parts)
    <2>1. PICK f : f = [k \in held |-> {k} \X DOMAIN strings[k].value]
      OBVIOUS
    <2> HIDE DEF held
    <2>2. f \in Surjection(held, parts)
      BY <2>1 DEF Surjection
    <2> HIDE DEF parts
    <2>3. QED BY <1>1, <2>2, FS_Surjection
  <1>4. \A p \in parts : IsFiniteSet(p)
    BY <1>2
  <1>5. Places = UNION parts
    BY DEF Places
  <1> HIDE DEF parts
  <1>6. IsFiniteSet(Places)
    BY <1>3, <1>4, <1>5, FS_UNION
  <1>7. TotalLength = Cardinality(Places)
    BY DEF TotalLength, Places
  <1>8. QED BY <1>6, <1>7, FS_CardinalityType

\* Each string is no longer than all together.
LEMMA LengthIs ==
  ASSUME StringsTypeOK, NEW k \in Keys, strings[k] # NoValue
  PROVE  Len(strings[k].value) <= TotalLength
  <1>1. PICK n : n = Len(strings[k].value)
    OBVIOUS
  <1>2. n \in Nat /\ DOMAIN strings[k].value = 1 .. n
    <2>1. strings[k].value \in Seq(Byte)
      BY DEF StringsTypeOK, Value
    <2>2. QED BY <1>1, <2>1, StringIs
  <1>3. Cardinality({k} \X (1 .. n)) = n
    <2>1. PICK S : S = {k}
      OBVIOUS
    <2>2. PICK T : T = 1 .. n
      OBVIOUS
    <2>3. IsFiniteSet(S) /\ Cardinality(S) = 1
      BY <2>1, FS_Singleton
    <2>4. IsFiniteSet(T) /\ Cardinality(T) = n
      BY <1>2, <2>2, FS_Interval
    <2>5. Cardinality(S \X T) = Cardinality(S) * Cardinality(T)
      BY <2>3, <2>4, FS_Product
    <2>6. Cardinality(S \X T) = n
      BY <1>2, <2>3, <2>4, <2>5
    <2>7. QED BY <2>1, <2>2, <2>6
  <1>4. {k} \X (1 .. n) \in SUBSET Places
    BY <1>2 DEF Places
  <1>5. QED BY <1>1, <1>3, <1>4, PlacesAre, FS_Subset

\* What a handler reads is no longer than the bound.
LEMMA OldIsShort ==
  ASSUME StringsInv, NEW k \in Keys
  PROVE  Len(Old(k)) <= MaxBytes /\ MaxBytes < Modulus
  <1>1. TotalLength \in Nat /\ TotalLength <= MaxBytes /\ MaxBytes \in Nat
    BY PlacesAre, StringsAssumption DEF StringsInv
  <1>2. CASE Live(k)
    <2>1. strings[k] # NoValue /\ Old(k) = strings[k].value
      BY <1>2, StoredIs DEF Live
    <2>2. Len(strings[k].value) <= TotalLength /\ Len(strings[k].value) \in Nat
      BY <2>1, LengthIs, StoredIs, StringIs DEF StringsInv
    <2>3. QED BY <1>1, <2>1, <2>2, StringsAssumption
  <1>3. CASE ~Live(k)
    <2>1. Old(k) = <<>> /\ Len(<<>>) = 0
      BY <1>3, StoredIs
    <2>2. QED BY <1>1, <2>1, StringsAssumption
  <1>4. QED BY <1>2, <1>3

----------------------------------------------------------------------------
(* Writes.                                                                  *)

\* The column family is as it should be after a write.
Kept ==
  /\ strings' \in [Keys -> Value \cup {NoValue}]
  /\ now' = now
  /\ TotalLength' <= MaxBytes

\* A write of strings keeps the column family as StringsInv has it.
LEMMA PutAllKeeps ==
  ASSUME StringsInv, NEW put, NEW ts \in Int, \A k \in DOMAIN put : put[k] \in Seq(Byte),
         PutAll(put, ts)
  PROVE  Kept
  <1>1. strings' = [k \in Keys |-> IF k \in DOMAIN put THEN [value |-> put[k], timestamp |-> ts]
                                                       ELSE strings[k]]
    BY DEF PutAll
  <1>2. \A k \in DOMAIN put : [value |-> put[k], timestamp |-> ts] \in Value
    BY DEF Value
  <1>3. \A k \in Keys : strings[k] \in Value \cup {NoValue}
    BY DEF StringsInv, StringsTypeOK
  <1>4. strings' \in [Keys -> Value \cup {NoValue}]
    BY <1>1, <1>2, <1>3
  <1>5. QED BY <1>4 DEF Kept, PutAll

\* So does a write of one.
LEMMA PutKeeps ==
  ASSUME StringsInv, NEW k, NEW v \in Seq(Byte), NEW ts \in Int, Put(k, v, ts)
  PROVE  Kept
  <1>1. PICK put : put = [j \in {k} |-> v]
    OBVIOUS
  <1>2. PutAll(put, ts)
    BY <1>1 DEF Put, PutAll
  <1>3. \A j \in DOMAIN put : put[j] \in Seq(Byte)
    BY <1>1
  <1>4. QED BY <1>2, <1>3, PutAllKeeps

\* So does a delete, which makes no string longer.
LEMMA DeleteKeeps ==
  ASSUME StringsInv, NEW D, Delete(D)
  PROVE  Kept
  <1>1. strings' = [k \in Keys |-> IF k \in D THEN NoValue ELSE strings[k]] /\ now' = now
    BY DEF Delete
  <1>2. \A k \in Keys : strings[k] \in Value \cup {NoValue}
    BY DEF StringsInv, StringsTypeOK
  <1>3. strings' \in [Keys -> Value \cup {NoValue}]
    BY <1>1, <1>2
  <1>4. Places' \in SUBSET Places
    BY <1>1 DEF Places
  <1>5. TotalLength' = Cardinality(Places')
    BY DEF TotalLength, Places
  <1>6. IsFiniteSet(Places) /\ TotalLength = Cardinality(Places) /\ TotalLength \in Nat
    BY PlacesAre DEF StringsInv
  <1>7. Cardinality(Places') <= Cardinality(Places) /\ Cardinality(Places') \in Nat
    BY <1>4, <1>6, FS_Subset, FS_CardinalityType
  <1>8. TotalLength <= MaxBytes /\ MaxBytes \in Nat
    BY StringsAssumption DEF StringsInv
  <1>9. TotalLength' <= MaxBytes
    BY <1>5, <1>6, <1>7, <1>8
  <1>10. QED BY <1>1, <1>3, <1>9 DEF Kept

----------------------------------------------------------------------------
(* The strings that the handlers write.                                     *)

\* The bytes of SubSeq, from a to b.
LEMMA PartIs ==
  ASSUME NEW v \in Seq(Byte), NEW a \in Nat \ {0}, NEW b \in Int, b <= Len(v)
  PROVE  /\ SubSeq(v, a, b) \in Seq(Byte)
         /\ Len(SubSeq(v, a, b)) = IF a <= b THEN b - a + 1 ELSE 0
         /\ \A i \in 1 .. b - a + 1 : SubSeq(v, a, b)[i] = v[a + i - 1]
  <1>1. \A i \in a .. b : v[i] \in Byte
    BY StringIs
  <1>2. a \in Int
    OBVIOUS
  <1>3. QED BY <1>1, <1>2, SubSeqProperties

\* An offset is what its byte and its place in it say.
LEMMA OffsetIs ==
  ASSUME NEW offset \in Nat
  PROVE  /\ ByteOffset(offset) \in Nat \ {0}
         /\ BitOffset(offset) \in 0 .. Width - 1
         /\ offset = Width * (ByteOffset(offset) - 1) + (Width - 1 - BitOffset(offset))
  <1>1. Width \in Nat \ {0} /\ offset \in Int
    BY WidthIs
  <1>2. /\ offset = Width * (offset \div Width) + (offset % Width)
        /\ offset % Width \in 0 .. Width - 1
        /\ offset \div Width \in Int
    BY <1>1, Parts
  <1>3. PICK q : q = offset \div Width
    OBVIOUS
  <1>4. PICK r : r = offset % Width
    OBVIOUS
  <1>5. q >= 0
    <2>1. q \in Int /\ r \in 0 .. Width - 1 /\ offset = Width * q + r
      BY <1>2, <1>3, <1>4
    <2>2. q < 0 => Width * q <= -Width
      BY <1>1, <2>1
    <2>3. QED BY <1>1, <2>1, <2>2
  <1>6. ByteOffset(offset) = q + 1 /\ BitOffset(offset) = Width - 1 - r
    BY <1>3, <1>4 DEF ByteOffset, BitOffset
  <1>7. Width - 1 - (Width - 1 - r) = r /\ (q + 1) - 1 = q
    BY <1>1, <1>2, <1>3, <1>4
  <1>8. q \in Int /\ r \in 0 .. Width - 1 /\ offset = Width * q + r
    BY <1>2, <1>3, <1>4
  <1>9. q + 1 \in Nat \ {0} /\ Width - 1 - r \in 0 .. Width - 1
    BY <1>1, <1>5, <1>8
  <1>10. QED BY <1>6, <1>7, <1>8, <1>9

\* A byte with one bit set.
BytePut(byte, n, on) == ByteOf([m \in 0 .. Width - 1 |-> IF m = n THEN on ELSE Bit(byte, m)])

\* BytePut changes the bit it is told and no other.
LEMMA BytePutIs ==
  ASSUME NEW byte \in Byte, NEW n \in 0 .. Width - 1, NEW on \in {0, 1}
  PROVE  /\ BytePut(byte, n, on) \in Byte
         /\ \A m \in 0 .. Width - 1 :
              Bit(BytePut(byte, n, on), m) = IF m = n THEN on ELSE Bit(byte, m)
  <1>1. PICK bits : bits = [m \in 0 .. Width - 1 |-> IF m = n THEN on ELSE Bit(byte, m)]
    OBVIOUS
  <1>2. \A m \in 0 .. Width - 1 : Bit(byte, m) \in {0, 1}
    BY BitIs, ByteIsNat, WidthIs
  <1>3. bits \in BitStrings
    BY <1>1, <1>2 DEF BitStrings
  <1>4. BytePut(byte, n, on) = ByteOf(bits)
    BY <1>1 DEF BytePut
  <1>5. QED BY <1>1, <1>3, <1>4, ByteOfIs, BitOfByteOf

\* A string with one bit set.
WithBit(old, offset, on) ==
  LET at  == ByteOffset(offset)
      new == BytePut(ByteAt(old, at), BitOffset(offset), on)
  IN  IF at <= Len(old) THEN [old EXCEPT ![at] = new]
      ELSE old \o Zeros(at - Len(old) - 1) \o <<new>>

\* WithBit changes one byte, and pads with zeros to reach it.
LEMMA WithBitIs ==
  ASSUME NEW old \in Seq(Byte), NEW offset \in Nat, NEW on \in {0, 1}
  PROVE  LET at  == ByteOffset(offset)
             new == WithBit(old, offset, on)
         IN  /\ new \in Seq(Byte)
             /\ Len(new) = IF at <= Len(old) THEN Len(old) ELSE at
             /\ \A j \in 1 .. Len(new) :
                  new[j] = IF j = at THEN BytePut(ByteAt(old, at), BitOffset(offset), on)
                                     ELSE ByteAt(old, j)
  <1>1. PICK at : at = ByteOffset(offset)
    OBVIOUS
  <1>2. PICK n : n = Len(old)
    OBVIOUS
  <1>3. PICK byte : byte = BytePut(ByteAt(old, at), BitOffset(offset), on)
    OBVIOUS
  <1>4. PICK new : new = WithBit(old, offset, on)
    OBVIOUS
  <1>5. at \in Nat \ {0} /\ n \in Nat /\ \A i \in 1 .. n : old[i] \in Byte
    BY <1>1, <1>2, OffsetIs, StringIs
  <1>6. byte \in Byte
    <2>1. PICK b : b = ByteAt(old, at)
      OBVIOUS
    <2>2. PICK m : m = BitOffset(offset)
      OBVIOUS
    <2>3. b \in Byte /\ m \in 0 .. Width - 1
      BY <1>5, <2>1, <2>2, OffsetIs, ByteAtIs
    <2>4. QED BY <1>3, <2>1, <2>2, <2>3, BytePutIs
  <1>7. new = IF at <= n THEN [old EXCEPT ![at] = byte] ELSE old \o Zeros(at - n - 1) \o <<byte>>
    BY <1>1, <1>2, <1>3, <1>4 DEF WithBit
  <1>8. CASE at <= n
    <2>1. at \in 1 .. Len(old)
      BY <1>2, <1>5, <1>8
    <2>2. new = [old EXCEPT ![at] = byte]
      BY <1>7, <1>8
    <2>3. /\ new \in Seq(Byte) /\ Len(new) = n
          /\ \A j \in 1 .. n : new[j] = IF j = at THEN byte ELSE old[j]
      BY <1>2, <1>6, <2>1, <2>2, ExceptSeq
    <2>4. \A j \in 1 .. n : new[j] = IF j = at THEN byte ELSE ByteAt(old, j)
      BY <1>2, <1>5, <2>3 DEF ByteAt
    <2>5. QED BY <1>1, <1>2, <1>3, <1>4, <1>8, <2>3, <2>4
  <1>9. CASE ~(at <= n)
    <2>1. PICK zeros : zeros = Zeros(at - n - 1)
      OBVIOUS
    <2>2. PICK padded : padded = old \o zeros
      OBVIOUS
    <2>3. PICK last : last = <<byte>>
      OBVIOUS
    <2>4. new = padded \o last
      BY <1>7, <1>9, <2>1, <2>2, <2>3
    <2>5. at - n - 1 \in Int /\ at - n - 1 >= 0
      BY <1>5, <1>9
    <2>6. /\ zeros \in Seq(Byte) /\ Len(zeros) = at - n - 1
          /\ \A i \in 1 .. at - n - 1 : zeros[i] = 0
      <3>1. PICK gap : gap = at - n - 1
        OBVIOUS
      <3>2. gap \in Int /\ gap >= 0
        BY <2>5, <3>1
      <3>3. zeros \in Seq(Byte) /\ Len(zeros) = IF gap > 0 THEN gap ELSE 0
        BY <2>1, <3>1, <3>2, ZerosAre
      <3>4. \A i \in 1 .. gap : zeros[i] = 0
        BY <2>1, <3>1, <3>2, ZerosAre
      <3>5. Len(zeros) = gap
        BY <3>2, <3>3
      <3>6. QED BY <3>1, <3>3, <3>4, <3>5
    <2>7. /\ padded \in Seq(Byte) /\ Len(padded) = at - 1
          /\ \A i \in 1 .. at - 1 : padded[i] = IF i <= n THEN old[i] ELSE zeros[i - n]
      <3>1. padded \in Seq(Byte) /\ Len(padded) = Len(old) + Len(zeros)
        BY <2>2, <2>6, ConcatProperties
      <3>2. Len(old) + Len(zeros) = at - 1
        BY <1>2, <1>5, <2>6
      <3>3. \A i \in 1 .. Len(old) + Len(zeros) :
              padded[i] = IF i <= Len(old) THEN old[i] ELSE zeros[i - Len(old)]
        BY <2>2, <2>6, ConcatProperties
      <3>4. QED BY <1>2, <3>1, <3>2, <3>3
    <2>8. last \in Seq(Byte) /\ Len(last) = 1 /\ last[1] = byte
      BY <1>6, <2>3
    <2>9. /\ new \in Seq(Byte) /\ Len(new) = at
          /\ \A i \in 1 .. at : new[i] = IF i <= at - 1 THEN padded[i] ELSE last[i - (at - 1)]
      <3>1. new \in Seq(Byte) /\ Len(new) = Len(padded) + Len(last)
        BY <2>4, <2>7, <2>8, ConcatProperties
      <3>2. Len(padded) + Len(last) = at
        BY <1>5, <2>7, <2>8
      <3>3. \A i \in 1 .. Len(padded) + Len(last) :
              new[i] = IF i <= Len(padded) THEN padded[i] ELSE last[i - Len(padded)]
        BY <2>4, <2>7, <2>8, ConcatProperties
      <3>4. QED BY <2>7, <3>1, <3>2, <3>3
    <2>10. \A j \in 1 .. at : new[j] = IF j = at THEN byte ELSE ByteAt(old, j)
      <3> SUFFICES ASSUME NEW j \in 1 .. at
                   PROVE  new[j] = IF j = at THEN byte ELSE ByteAt(old, j)
        OBVIOUS
      <3>1. CASE j = at
        BY <1>5, <2>8, <2>9, <3>1
      <3>2. CASE j # at /\ j <= n
        BY <1>2, <1>5, <2>7, <2>9, <3>2 DEF ByteAt
      <3>3. CASE j # at /\ ~(j <= n)
        <4>1. j - n \in 1 .. at - n - 1 /\ j \in 1 .. at - 1 /\ j <= at - 1
          BY <1>5, <3>3
        <4>2. new[j] = zeros[j - n] /\ zeros[j - n] = 0
          BY <2>6, <2>7, <2>9, <3>3, <4>1
        <4>3. QED BY <1>2, <3>3, <4>2 DEF ByteAt
      <3>4. QED BY <3>1, <3>2, <3>3
    <2>11. QED BY <1>1, <1>2, <1>3, <1>4, <1>9, <2>9, <2>10
  <1>10. QED BY <1>8, <1>9

\* What SetBit writes.
LEMMA SetBitWrites ==
  ASSUME StringsInv, NEW k \in Keys, NEW offset \in Nat, NEW on, SetBit(k, offset, on)
  PROVE  Put(k, WithBit(Old(k), offset, on), 0)
  <1>1. PICK old : old = Old(k)
    OBVIOUS
  <1>2. PICK at : at = ByteOffset(offset)
    OBVIOUS
  <1>3. PICK bit : bit = BitOffset(offset)
    OBVIOUS
  <1>4. Len(old) \in Nat /\ at \in Nat
    BY <1>1, <1>2, StoredIs, StringIs, OffsetIs
  <1>5. PICK byte : byte = IF at > Len(old) THEN 0 ELSE old[at]
    OBVIOUS
  <1>6. byte = ByteAt(old, at)
    BY <1>4, <1>5 DEF ByteAt
  <1>7. PICK new : new = ByteOf([n \in 0 .. Width - 1 |-> IF n = bit THEN on ELSE Bit(byte, n)])
    OBVIOUS
  <1>8. Put(k, IF at <= Len(old) THEN [old EXCEPT ![at] = new]
               ELSE old \o Zeros(at - Len(old) - 1) \o <<new>>, 0)
    BY <1>1, <1>2, <1>3, <1>5, <1>7 DEF SetBit
  <1>9. new = BytePut(ByteAt(old, at), bit, on)
    BY <1>6, <1>7 DEF BytePut
  <1>10. WithBit(old, offset, on) = IF at <= Len(old) THEN [old EXCEPT ![at] = new]
                                    ELSE old \o Zeros(at - Len(old) - 1) \o <<new>>
    BY <1>2, <1>3, <1>9 DEF WithBit
  <1>11. QED BY <1>1, <1>8, <1>10

\* What the pending call makes of its sketches: the first, and each other merged into it.
Merges(rs, others, m) ==
  LET upTo[i \in m] ==
        IF i = 1 THEN rs[1]
        ELSE IF i \in others THEN Merge(upTo[i - 1], rs[i]) ELSE upTo[i - 1]
  IN  upTo

\* u is that, place by place.
MergesUp(u, rs, others, m) ==
  /\ u \in [1 .. m -> Sketch]
  /\ u[1] = rs[1]
  /\ \A i \in 1 .. m - 1 :
       u[i + 1] = IF i + 1 \in others THEN Merge(u[i], rs[i + 1]) ELSE u[i]

\* The recursion of PfMerge merges the others one after the other.
LEMMA MergesAre ==
  ASSUME NEW m \in Nat \ {0}, NEW others, NEW rs \in [{1} \cup others -> Sketch]
  PROVE  MergesUp(Merges(rs, others, 1 .. m), rs, others, m)
  <1> DEFINE T == Sketch
             U == Merges(rs, others, 1 .. m)
  <1>1. PICK base : base = rs[1]
    OBVIOUS
  <1>2. PICK step : step = [p \in Nat \X T |->
             IF p[1] + 2 \in others THEN Merge(p[2], rs[p[1] + 2]) ELSE p[2]]
    OBVIOUS
  <1>3. \A i \in others, r \in T : Merge(r, rs[i]) \in T
    BY MergeIs
  <1>4. IsStep(step, T) /\ base \in T
    <2> HIDE DEF T
    <2>1. base \in T
      BY <1>1 DEF T
    <2>2. QED BY <1>2, <1>3, <2>1 DEF IsStep
  <1>5. PICK w : GoesOn(w, m - 1, T, base, step)
    <2> HIDE DEF T
    <2>1. m - 1 \in Nat
      OBVIOUS
    <2>2. QED BY <1>4, <2>1, GoesOnExists DEF IsStep
  <1>6. PICK u : u = [i \in 1 .. m |-> w[i - 1]]
    OBVIOUS
  <1>7. \A i \in 1 .. m : i - 1 \in 0 .. m - 1 /\ u[i] = w[i - 1] /\ u[i] \in T
    BY <1>5, <1>6 DEF GoesOn
  <1>8. u[1] = rs[1]
    <2>1. 1 \in 1 .. m /\ 1 - 1 = 0
      OBVIOUS
    <2>2. QED BY <1>1, <1>5, <1>7, <2>1 DEF GoesOn
  <1>9. \A i \in 1 .. m - 1 :
          u[i + 1] = IF i + 1 \in others THEN Merge(u[i], rs[i + 1]) ELSE u[i]
    <2> SUFFICES ASSUME NEW i \in 1 .. m - 1
                 PROVE  u[i + 1] = IF i + 1 \in others THEN Merge(u[i], rs[i + 1]) ELSE u[i]
      OBVIOUS
    <2>1. PICK j : j = i - 1
      OBVIOUS
    <2>2. /\ j \in 0 .. (m - 1) - 1 /\ j \in Nat /\ j + 1 = i /\ j + 2 = i + 1
          /\ i \in 1 .. m /\ i + 1 \in 1 .. m /\ (i + 1) - 1 = i
      BY <2>1
    <2>3. u[i] = w[j] /\ u[i + 1] = w[j + 1] /\ w[j] \in T
      BY <1>7, <2>1, <2>2
    <2>4. w[j + 1] = step[<<j, w[j]>>]
      BY <1>5, <2>2 DEF GoesOn
    <2> HIDE DEF T
    <2>5. QED BY <1>2, <2>2, <2>3, <2>4
  <1>10. u = [i \in 1 .. m |-> IF i = 1 THEN rs[1]
             ELSE IF i \in others THEN Merge(u[i - 1], rs[i]) ELSE u[i - 1]]
    <2>1. ASSUME NEW i \in 1 .. m
          PROVE  u[i] = IF i = 1 THEN rs[1]
                        ELSE IF i \in others THEN Merge(u[i - 1], rs[i]) ELSE u[i - 1]
      <3>1. CASE i # 1
        <4>1. i - 1 \in 1 .. m - 1 /\ i = (i - 1) + 1
          BY <3>1
        <4>2. QED BY <1>9, <3>1, <4>1
      <3>2. QED BY <1>8, <3>1
    <2>2. QED BY <1>6, <2>1
  <1>11. U = [i \in 1 .. m |-> IF i = 1 THEN rs[1]
             ELSE IF i \in others THEN Merge(U[i - 1], rs[i]) ELSE U[i - 1]]
    BY <1>10 DEF Merges
  <1> HIDE DEF U
  <1>12. \A i \in 1 .. m : U[i] = u[i]
    <2> DEFINE N == {i \in Nat : i + 1 \in 1 .. m => U[i + 1] = u[i + 1]}
    <2>1. 0 \in N
      BY <1>8, <1>11
    <2>2. ASSUME NEW i \in Nat, i \in N
          PROVE  i + 1 \in N
      <3> SUFFICES ASSUME (i + 1) + 1 \in 1 .. m
                   PROVE  U[(i + 1) + 1] = u[(i + 1) + 1]
        OBVIOUS
      <3>1. PICK n : n = i + 1
        OBVIOUS
      <3>2. n \in 1 .. m /\ n + 1 \in 1 .. m /\ (n + 1) - 1 = n /\ n + 1 # 1 /\ n \in 1 .. m - 1
        BY <3>1
      <3>3. U[n + 1] = IF n + 1 \in others THEN Merge(U[n], rs[n + 1]) ELSE U[n]
        BY <1>11, <3>2
      <3>4. U[n] = u[n]
        BY <2>2, <3>1, <3>2
      <3>5. QED BY <1>9, <3>1, <3>2, <3>3, <3>4
    <2> HIDE DEF N
    <2>3. Nat \subseteq N
      BY <2>1, <2>2, AllNumbers
    <2>4. \A i \in 1 .. m : i - 1 \in Nat /\ (i - 1) + 1 = i
      OBVIOUS
    <2>5. QED BY <2>3, <2>4 DEF N
  <1>13. U = u
    BY <1>6, <1>11, <1>12
  <1>14. u \in [1 .. m -> Sketch]
    BY <1>6, <1>7
  <1>15. QED BY <1>8, <1>9, <1>13, <1>14 DEF MergesUp, U

\* What Setrange keeps behind the new bytes is a string.
LEMMA TailBehindIs ==
  ASSUME NEW old \in Seq(Byte), NEW offset \in Nat, NEW v \in Seq(Byte)
  PROVE  TailBehind(old, offset, v) \in Seq(Byte)
  <1>1. offset + Len(v) + 1 \in Nat \ {0} /\ Len(old) \in Int /\ Len(old) <= Len(old)
    BY StringIs
  <1>2. PICK a : a = offset + Len(v) + 1
    OBVIOUS
  <1>3. SubSeq(old, a, Len(old)) \in Seq(Byte)
    BY <1>1, <1>2, PartIs
  <1>4. <<>> \in Seq(Byte)
    OBVIOUS
  <1>5. QED BY <1>2, <1>3, <1>4 DEF TailBehind

\* A timestamp that wraps is a number.
LEMMA TimestampIs ==
  ASSUME StringsInv, NEW ttl \in Int
  PROVE  RelativeTimestamp(ttl) \in Int /\ TtlOrNone(ttl) \in Int
  <1>1. now \in Int /\ MaxTimestamp \in Int
    BY StringsAssumption DEF StringsInv, StringsTypeOK
  <1>2. RelativeTimestamp(ttl) \in Int
    BY <1>1 DEF RelativeTimestamp, Wrapped
  <1>3. QED BY <1>2 DEF TtlOrNone

\* What strtoll reads is a number.
LEMMA IntegerIs ==
  ASSUME NEW v \in Seq(Byte), NumberOf(UpToNul(v)) \in Int
  PROVE  Integer(v) \in Int
  BY StringsAssumption DEF Integer

\* n is what the first digits of d stand for, u[i] what the first i of them do.
CountsDigits(u, d) ==
  /\ u \in [0 .. Len(d) -> Int]
  /\ u[0] = 0
  /\ \A i \in 0 .. Len(d) - 1 : u[i + 1] = 2 * u[i] + d[i + 1] - 1

\* NumberOf doubles for each digit of the numeral and adds it.
LEMMA NumberOfCounts ==
  ASSUME NEW v \in Seq(Byte)
  PROVE  /\ Digits(v) \in Seq(Byte)
         /\ \E u : /\ CountsDigits(u, Digits(v))
                   /\ NumberOf(v) = IF Digits(v) = v THEN u[Len(Digits(v))]
                                                     ELSE -u[Len(Digits(v))]
  <1>1. PICK d : d = Digits(v)
    OBVIOUS
  <1>2. d \in Seq(Byte)
    <2>1. v # <<>> => Tail(v) \in Seq(Byte)
      BY HeadTailProperties
    <2>2. QED BY <1>1, <2>1 DEF Digits
  <1>3. PICK m : m = Len(d)
    OBVIOUS
  <1>4. m \in Nat /\ \A i \in 1 .. m : d[i] \in Int
    BY <1>2, <1>3, StringIs
  <1>5. PICK base : base = 0
    OBVIOUS
  <1>6. PICK step : step = [p \in Nat \X Int |->
                              IF p[1] < m THEN 2 * p[2] + d[p[1] + 1] - 1 ELSE p[2]]
    OBVIOUS
  <1>7. IsStep(step, Int) /\ base \in Int
    <2>1. \A i \in Nat : i < m => i + 1 \in 1 .. m
      BY <1>4
    <2>2. \A i \in Nat, a \in Int : i < m => 2 * a + d[i + 1] - 1 \in Int
      BY <1>4, <2>1
    <2>3. QED BY <1>5, <1>6, <2>2 DEF IsStep
  <1>8. PICK u : GoesOn(u, m, Int, base, step)
    BY <1>4, <1>7, GoesOnExists DEF IsStep
  <1>9. u \in [0 .. m -> Int] /\ u[0] = 0
    BY <1>5, <1>8 DEF GoesOn
  <1>10. \A i \in 0 .. m - 1 : u[i + 1] = 2 * u[i] + d[i + 1] - 1
    <2> SUFFICES ASSUME NEW i \in 0 .. m - 1
                 PROVE  u[i + 1] = 2 * u[i] + d[i + 1] - 1
      OBVIOUS
    <2>1. i \in Nat /\ i < m /\ u[i] \in Int
      BY <1>4, <1>9
    <2>2. u[i + 1] = step[<<i, u[i]>>]
      BY <1>8 DEF GoesOn
    <2>3. QED BY <1>6, <2>1, <2>2
  <1>11. u = [i \in 0 .. m |-> IF i = 0 THEN 0 ELSE 2 * u[i - 1] + d[i] - 1]
    <2>1. ASSUME NEW i \in 0 .. m
          PROVE  u[i] = IF i = 0 THEN 0 ELSE 2 * u[i - 1] + d[i] - 1
      <3>1. CASE i # 0
        <4>1. i - 1 \in 0 .. m - 1 /\ i = (i - 1) + 1
          BY <1>4, <3>1
        <4>2. QED BY <1>10, <3>1, <4>1
      <3>2. QED BY <1>9, <3>1
    <2>2. QED BY <1>9, <2>1
  <1> DEFINE U == CHOOSE f : f = [i \in 0 .. m |-> IF i = 0 THEN 0 ELSE 2 * f[i - 1] + d[i] - 1]
  <1>12. U = [i \in 0 .. m |-> IF i = 0 THEN 0 ELSE 2 * U[i - 1] + d[i] - 1]
    BY <1>11
  <1>13. NumberOf(v) = IF d = v THEN U[m] ELSE -U[m]
    BY <1>1, <1>3 DEF NumberOf
  <1> HIDE DEF U
  <1>14. U[m] = u[m]
    <2> DEFINE N == {i \in Nat : i <= m => U[i] = u[i]}
    <2>1. 0 \in N
      <3>1. 0 \in 0 .. m
        BY <1>4
      <3>2. QED BY <1>9, <1>12, <3>1
    <2>2. ASSUME NEW i \in Nat, i \in N
          PROVE  i + 1 \in N
      <3> SUFFICES ASSUME i + 1 <= m
                   PROVE  U[i + 1] = u[i + 1]
        OBVIOUS
      <3>1. i + 1 \in 0 .. m /\ i \in 0 .. m - 1 /\ (i + 1) - 1 = i /\ i + 1 # 0 /\ i <= m
        BY <1>4
      <3>2. U[i + 1] = 2 * U[i] + d[i + 1] - 1
        BY <1>12, <3>1
      <3>3. QED BY <1>10, <2>2, <3>1, <3>2
    <2> HIDE DEF N
    <2>3. Nat \subseteq N
      BY <2>1, <2>2, AllNumbers
    <2>4. QED BY <1>4, <2>3 DEF N
  <1>15. CountsDigits(u, d)
    BY <1>3, <1>9, <1>10 DEF CountsDigits
  <1>16. QED BY <1>1, <1>2, <1>3, <1>13, <1>14, <1>15

\* A string reads as a number.
LEMMA NumberIs ==
  ASSUME NEW v \in Seq(Byte)
  PROVE  NumberOf(v) \in Int /\ Integer(v) \in Int
  <1>1. ASSUME NEW w \in Seq(Byte)
        PROVE  NumberOf(w) \in Int
    <2>1. PICK d : d = Digits(w)
      OBVIOUS
    <2>2. PICK u : /\ CountsDigits(u, d)
                   /\ NumberOf(w) = IF d = w THEN u[Len(d)] ELSE -u[Len(d)]
      BY <2>1, NumberOfCounts
    <2>3. Len(d) \in 0 .. Len(d)
      BY <2>1, NumberOfCounts, StringIs
    <2>4. u[Len(d)] \in Int
      BY <2>2, <2>3 DEF CountsDigits
    <2>5. QED BY <2>2, <2>4
  <1>2. PICK w : w = UpToNul(v)
    OBVIOUS
  <1>3. NumberOf(w) \in Int
    BY <1>1, <1>2, UpToNulIs
  <1>4. QED BY <1>1, <1>2, <1>3, IntegerIs

----------------------------------------------------------------------------
(* Every write keeps the column family as it should be.                     *)

\* Each write of one key keeps the column family as StringsInv has it.
LEMMA WriteKeeps ==
  ASSUME StringsInv, NEW k \in Keys, Write(k)
  PROVE  Kept
  <1>1. /\ Texts \subseteq Seq(Byte) /\ Offsets \subseteq Nat /\ Numbers \subseteq Int
        /\ Ttls \subseteq Int /\ Timestamps \subseteq Int
    BY StringsAssumption
  <1>2. Old(k) \in Seq(Byte) /\ OldTimestamp(k) \in Int
    BY StoredIs
  <1>3. ASSUME NEW n \in Int
        PROVE  Numeral(n) \in Seq(Byte)
    BY NumeralIsString
  <1>4. CASE \E v \in Texts : Set(k, v) \/ StringAppend(k, v) \/ Delvx(k, v)
    <2>1. PICK v \in Texts : Set(k, v) \/ StringAppend(k, v) \/ Delvx(k, v)
      BY <1>4
    <2>2. v \in Seq(Byte) /\ 0 \in Int
      BY <1>1
    <2>3. CASE Set(k, v)
      BY <2>2, <2>3, PutKeeps DEF Set
    <2>4. CASE StringAppend(k, v)
      <3>1. Old(k) \o v \in Seq(Byte)
        BY <1>2, <2>2, ConcatProperties
      <3>2. Put(k, Old(k) \o v, OldTimestamp(k))
        BY <2>4 DEF StringAppend
      <3>3. QED BY <1>2, <3>1, <3>2, PutKeeps
    <2>5. CASE Delvx(k, v)
      BY <2>5, DeleteKeeps DEF Delvx
    <2>6. QED BY <2>1, <2>3, <2>4, <2>5
  <1>5. CASE \E v \in Texts, ttl \in Ttls : Setxx(k, v, ttl) \/ Setnx(k, v, ttl) \/ Setex(k, v, ttl)
    <2>1. PICK v \in Texts, ttl \in Ttls : Setxx(k, v, ttl) \/ Setnx(k, v, ttl) \/ Setex(k, v, ttl)
      BY <1>5
    <2>2. v \in Seq(Byte) /\ RelativeTimestamp(ttl) \in Int /\ TtlOrNone(ttl) \in Int
      BY <1>1, TimestampIs
    <2>3. Put(k, v, TtlOrNone(ttl)) \/ Put(k, v, RelativeTimestamp(ttl))
      BY <2>1 DEF Setxx, Setnx, Setex
    <2>4. QED BY <2>2, <2>3, PutKeeps
  <1>6. CASE \E v, new \in Texts, ttl \in Ttls : Setvx(k, v, new, ttl)
    <2>1. PICK v \in Texts, new \in Texts, ttl \in Ttls : Setvx(k, v, new, ttl)
      BY <1>6
    <2>2. new \in Seq(Byte) /\ TtlOrNone(ttl) \in Int
      BY <1>1, TimestampIs
    <2>3. Put(k, new, TtlOrNone(ttl))
      BY <2>1 DEF Setvx
    <2>4. QED BY <2>2, <2>3, PutKeeps
  <1>7. CASE \E v \in Texts, ts \in Timestamps : PKSetexAt(k, v, ts)
    <2>1. PICK v \in Texts, ts \in Timestamps : PKSetexAt(k, v, ts)
      BY <1>7
    <2>2. v \in Seq(Byte) /\ ts \in Int
      BY <1>1
    <2>3. QED BY <2>1, <2>2, PutKeeps DEF PKSetexAt
  <1>8. CASE \E n \in Numbers : Incrby(k, n) \/ Decrby(k, n) \/ Incrbyfloat(k, n)
    <2>1. PICK n \in Numbers : Incrby(k, n) \/ Decrby(k, n) \/ Incrbyfloat(k, n)
      BY <1>8
    <2>2. n \in Int /\ 0 \in Int
      BY <1>1
    <2>3. Integer(Old(k)) \in Int /\ NumberOf(Old(k)) \in Int
      BY <1>2, NumberIs
    <2>4. \E m \in Int, ts \in Int : Put(k, Numeral(m), ts)
      <3>1. CASE Incrby(k, n)
        BY <1>2, <2>2, <2>3, <3>1 DEF Incrby
      <3>2. CASE Decrby(k, n)
        BY <1>2, <2>2, <2>3, <3>2, StringsAssumption DEF Decrby, Negations
      <3>3. CASE Incrbyfloat(k, n)
        BY <1>2, <2>2, <2>3, <3>3 DEF Incrbyfloat
      <3>4. QED BY <2>1, <3>1, <3>2, <3>3
    <2>5. QED BY <1>3, <2>4, PutKeeps
  <1>9. CASE \E offset \in Offsets, on \in {0, 1} : SetBit(k, offset, on)
    <2>1. PICK offset \in Offsets, on \in {0, 1} : SetBit(k, offset, on)
      BY <1>9
    <2>2. offset \in Nat /\ 0 \in Int
      BY <1>1
    <2>3. WithBit(Old(k), offset, on) \in Seq(Byte)
      BY <1>2, <2>2, WithBitIs
    <2>4. Put(k, WithBit(Old(k), offset, on), 0)
      BY <2>1, <2>2, SetBitWrites
    <2>5. QED BY <2>2, <2>3, <2>4, PutKeeps
  <1>10. CASE \E offset \in Offsets, v \in Texts : Setrange(k, offset, v)
    <2>1. PICK offset \in Offsets, v \in Texts : Setrange(k, offset, v)
      BY <1>10
    <2>2. offset \in Nat /\ v \in Seq(Byte) /\ 0 \in Int
      BY <1>1
    <2>3. PICK old : old = Old(k)
      OBVIOUS
    <2>4. PICK w : w = UpToNul(v)
      OBVIOUS
    <2>5. old \in Seq(Byte) /\ w \in Seq(Byte) /\ Len(old) \in Nat
      BY <1>2, <2>2, <2>3, <2>4, UpToNulIs, StringIs
    <2>6. CASE offset > Len(old) \/ ~Live(k)
      <3>1. PICK zeros : zeros = Zeros(offset - Len(old))
        OBVIOUS
      <3>2. zeros \in Seq(Byte)
        BY <2>2, <2>5, <3>1, ZerosAre
      <3>3. old \o zeros \o w \in Seq(Byte)
        BY <2>5, <3>2, ConcatProperties
      <3>4. Put(k, old \o zeros \o w, 0)
        <4>1. CASE Live(k) /\ offset <= Len(old)
          BY <2>2, <2>5, <2>6, <4>1
        <4>2. CASE ~(Live(k) /\ offset <= Len(old))
          BY <2>1, <2>3, <2>4, <3>1, <4>2 DEF Setrange
        <4>3. QED BY <4>1, <4>2
      <3>5. QED BY <2>2, <3>3, <3>4, PutKeeps
    <2>7. CASE ~(offset > Len(old) \/ ~Live(k))
      <3>1. PICK front : front = SubSeq(old, 1, offset)
        OBVIOUS
      <3>2. PICK back : back = TailBehind(old, offset, v)
        OBVIOUS
      <3>3. front \in Seq(Byte)
        <4>1. PICK one : one = 1
          OBVIOUS
        <4>2. one \in Nat \ {0} /\ offset \in Int /\ offset <= Len(old)
          BY <2>2, <2>5, <2>7, <4>1
        <4>3. QED BY <2>5, <3>1, <4>1, <4>2, PartIs
      <3>4. back \in Seq(Byte)
        BY <2>2, <2>5, <3>2, TailBehindIs
      <3>5. front \o w \o back \in Seq(Byte)
        BY <2>5, <3>3, <3>4, ConcatProperties
      <3>6. Put(k, front \o w \o back, 0)
        BY <2>1, <2>3, <2>4, <2>7, <3>1, <3>2 DEF Setrange
      <3>7. QED BY <2>2, <3>5, <3>6, PutKeeps
    <2>8. QED BY <2>6, <2>7
  <1>11. QED BY <1>4, <1>5, <1>6, <1>7, <1>8, <1>9, <1>10 DEF Write

\* So does each handler of one key.
LEMMA KeyHandlerKeeps ==
  ASSUME StringsInv, NEW k \in Keys, KeyHandler(k)
  PROVE  Kept
  <1>1. Ttls \subseteq Int /\ Timestamps \subseteq Int /\ 0 \in Int
    BY StringsAssumption
  <1>2. Old(k) \in Seq(Byte)
    BY StoredIs
  <1>3. \A ttl \in Ttls : RelativeTimestamp(ttl) \in Int
    BY <1>1, TimestampIs
  <1>4. Delete({k}) \/ \E ts \in Int : Put(k, Old(k), ts)
    BY <1>1, <1>3 DEF KeyHandler, Del, Expire, Expireat, Persist
  <1>5. QED BY <1>2, <1>4, PutKeeps, DeleteKeeps

\* So does MSet.
LEMMA MSetKeeps ==
  ASSUME StringsInv, NEW put, \A k \in DOMAIN put : put[k] \in Seq(Byte), MSet(put)
  PROVE  Kept
  <1>1. PICK ts : ts = 0
    OBVIOUS
  <1>2. ts \in Int /\ PutAll(put, ts)
    BY <1>1 DEF MSet
  <1>3. QED BY <1>2, PutAllKeeps

----------------------------------------------------------------------------
(* Calls in several steps.                                                  *)

\* What a call sees of a key is its string or NoValue.
LEMMA SeenIs ==
  ASSUME StringsInv, NEW op, NEW k \in Keys
  PROVE  /\ Seen(op, k) \in Seq(Byte) \cup {NoValue}
         /\ Seen(op, k) = NoValue <=> Get(k) = NoValue
         /\ op \notin {"MSetnx", "PKPatternMatchDel"} => Seen(op, k) = Get(k)
  <1>1. Get(k) \in Seq(Byte) \cup {NoValue} /\ (Live(k) <=> Get(k) # NoValue)
    BY StoredIs
  <1>2. NoValue \notin Seq(Byte) /\ <<>> \in Seq(Byte)
    BY StringsAssumption
  <1>3. QED BY <1>1, <1>2 DEF Seen

\* The pending call, n its keys and m those it has looked at.
LEMMA PendingIs ==
  ASSUME StringsInv, pending # NoCall
  PROVE  /\ pending = [call |-> pending.call, read |-> pending.read]
         /\ pending.call \in Calls
         /\ pending.call.keys \in Seq(Keys)
         /\ Len(pending.call.keys) \in Nat \ {0}
         /\ DOMAIN pending.call.keys = 1 .. Len(pending.call.keys)
         /\ \A i \in 1 .. Len(pending.call.keys) : pending.call.keys[i] \in Keys
         /\ pending.read \in Seq(Seq(Byte) \cup {NoValue})
         /\ Len(pending.read) \in 1 .. Len(pending.call.keys)
         /\ DOMAIN pending.read = 1 .. Len(pending.read)
         /\ \A i \in 1 .. Len(pending.read) : pending.read[i] \in Seq(Byte) \cup {NoValue}
  <1>1. pending \in PendingCall /\ Len(pending.read) \in 1 .. Len(pending.call.keys)
    BY DEF StringsInv, StringsTypeOK
  <1>2. /\ pending = [call |-> pending.call, read |-> pending.read]
        /\ pending.call \in Calls
        /\ pending.read \in Seq(Seq(Byte) \cup {NoValue})
    BY <1>1 DEF PendingCall
  <1>3. pending.call.keys \in Seq(Keys) \ {<<>>}
    BY <1>2, CallsAssumption
  <1>4. PICK keys : keys = pending.call.keys
    OBVIOUS
  <1>5. PICK read : read = pending.read
    OBVIOUS
  <1>6. /\ Len(keys) \in Nat \ {0} /\ DOMAIN keys = 1 .. Len(keys)
        /\ \A i \in 1 .. Len(keys) : keys[i] \in Keys
    <2>1. keys \in Seq(Keys) /\ keys # <<>>
      BY <1>3, <1>4
    <2>2. QED BY <2>1, EmptySeq
  <1>7. PICK R : R = Seq(Byte) \cup {NoValue}
    OBVIOUS
  <1>8. DOMAIN read = 1 .. Len(read) /\ \A i \in 1 .. Len(read) : read[i] \in R
    <2>1. read \in Seq(R)
      BY <1>2, <1>5, <1>7
    <2>2. QED BY <2>1
  <1>9. QED BY <1>1, <1>2, <1>3, <1>4, <1>5, <1>6, <1>7, <1>8

\* StringsInv after a step: the column family as it should be, and a pending call too.
LEMMA KeptIsInv ==
  ASSUME StringsInv, Kept, pending' \in PendingCall \cup {NoCall},
         pending' # NoCall => Len(pending'.read) \in 1 .. Len(pending'.call.keys)
  PROVE  StringsInv'
  BY DEF Kept, StringsInv, StringsTypeOK

\* The column family as a call that writes nothing leaves it.
LEMMA UnchangedIsKept ==
  ASSUME StringsInv, strings' = strings, now' = now
  PROVE  Kept
  <1>1. TotalLength' = TotalLength
    BY DEF TotalLength
  <1>2. QED BY <1>1 DEF Kept, StringsInv, StringsTypeOK

\* MSetnx, after its Gets, keeps the column family as it should be.
LEMMA MSetnxKeeps ==
  ASSUME StringsInv, NEW call \in Calls, call.op = "MSetnx", NEW read, MSetnx(call, read)
  PROVE  Kept
  <1>1. \A k \in DOMAIN call.put : call.put[k] \in Seq(Byte)
    BY CallsAssumption
  <1>2. PICK put : put = call.put
    OBVIOUS
  <1>3. MSet(put) => Kept
    BY <1>1, <1>2, MSetKeeps
  <1>4. MSet(put) \/ (strings' = strings /\ now' = now)
    BY <1>2 DEF MSetnx
  <1>5. QED BY <1>3, <1>4, UnchangedIsKept

\* What a call has found of its keys, as strings.
Sources(read) == [i \in DOMAIN read |-> OrEmpty(read[i])]

\* The sources of a call are strings.
LEMMA SourcesAre ==
  ASSUME NEW m \in Nat, NEW read, DOMAIN read = 1 .. m,
         \A i \in 1 .. m : read[i] \in Seq(Byte) \cup {NoValue}
  PROVE  Sources(read) \in [1 .. m -> Seq(Byte)]
  <1>1. <<>> \in Seq(Byte)
    OBVIOUS
  <1>2. \A i \in 1 .. m : OrEmpty(read[i]) \in Seq(Byte)
    BY <1>1 DEF OrEmpty
  <1>3. QED BY <1>2 DEF Sources

\* BitOp keeps it so too.
LEMMA BitOpKeeps ==
  ASSUME StringsInv, NEW call \in Calls, call.op = "BitOp",
         NEW m \in Nat \ {0}, NEW read, DOMAIN read = 1 .. m,
         \A i \in 1 .. m : read[i] \in Seq(Byte) \cup {NoValue}, BitOp(call, read)
  PROVE  Kept
  <1>1. call.how \in BitOperations
    BY CallsAssumption
  <1>2. PICK src : src = Sources(read)
    OBVIOUS
  <1>3. PICK how : how = call.how
    OBVIOUS
  <1>4. src \in [1 .. m -> Seq(Byte)]
    BY <1>2, SourcesAre
  <1>5. BitOpOperate(how, src) \in Seq(Byte)
    BY <1>1, <1>3, <1>4, BitOpOperateIs
  <1>6. Put(call.dst, BitOpOperate(how, src), 0)
    BY <1>2, <1>3 DEF BitOp, Set, Sources
  <1>7. PICK v \in Seq(Byte) : \E k : Put(k, v, 0)
    BY <1>5, <1>6
  <1>8. PICK ts : ts = 0
    OBVIOUS
  <1>9. ts \in Int /\ \E k : Put(k, v, ts)
    BY <1>7, <1>8
  <1>10. QED BY <1>9, PutKeeps

\* And PfAdd.
LEMMA PfAddKeeps ==
  ASSUME StringsInv, NEW call \in Calls, call.op = "PfAdd", NEW read, PfAdd(call, read)
  PROVE  Kept
  <1>1. call.hashes \in SUBSET ((1 .. Registers) \X Byte)
    BY CallsAssumption
  <1>2. PICK r \in RegistersOf(OrEmpty(read[1])) :
          Set(call.keys[1], IF call.hashes = {} THEN <<>> ELSE Add(r, call.hashes))
    BY DEF PfAdd
  <1>3. PICK hashes : hashes = call.hashes
    OBVIOUS
  <1>4. r \in Sketch
    BY RegistersAre
  <1>5. Add(r, hashes) \in Sketch
    BY <1>1, <1>3, <1>4, AddIs
  <1>6. PICK v : v = IF hashes = {} THEN <<>> ELSE Add(r, hashes)
    OBVIOUS
  <1>7. v \in Seq(Byte)
    <2>1. Add(r, hashes) \in Seq(Byte)
      BY <1>5, SketchIsString
    <2>2. <<>> \in Seq(Byte)
      OBVIOUS
    <2>3. QED BY <1>6, <2>1, <2>2
  <1>8. PICK k : Set(k, v)
    BY <1>2, <1>3, <1>6
  <1>9. PICK ts : ts = 0
    OBVIOUS
  <1>10. ts \in Int /\ Put(k, v, ts)
    BY <1>8, <1>9 DEF Set
  <1>11. QED BY <1>7, <1>10, PutKeeps

\* The other sketches that PfMerge found.
AreOthers(others, read, m) ==
  others = {i \in 1 .. m : i # 1 /\ read[i] # NoValue}

\* u is what PfMerge makes of what it found, rs.
IsMerged(u, rs, others, read, m) ==
  /\ rs \in [{1} \cup others -> Sketch]
  /\ \A i \in {1} \cup others : rs[i] \in RegistersOf(OrEmpty(read[i]))
  /\ MergesUp(u, rs, others, m)

\* PfMerge writes the merge of the registers of the first key and of those that are.
LEMMA PfMergeWrites ==
  ASSUME NEW call, NEW m \in Nat \ {0}, NEW read, DOMAIN read = 1 .. m, Len(read) = m,
         NEW others, AreOthers(others, read, m), PfMerge(call, read)
  PROVE  /\ others = {} => Set(call.keys[1], OrEmpty(read[1]))
         /\ others # {} => \E rs, u : /\ IsMerged(u, rs, others, read, m)
                                      /\ Set(call.keys[1], u[m])
  <1> DEFINE found == {i \in DOMAIN read \ {1} : read[i] # NoValue}
  <1>1. found = others
    BY DEF AreOthers
  <1>2. found = {} => Set(call.keys[1], OrEmpty(read[1]))
    BY DEF PfMerge
  <1>3. found # {} => \E rs \in [{1} \cup found -> Sketch] :
                        /\ \A i \in DOMAIN rs : rs[i] \in RegistersOf(OrEmpty(read[i]))
                        /\ Set(call.keys[1], Merges(rs, found, DOMAIN read)[Len(read)])
    BY Zenon DEF PfMerge, Merges, Sketch
  <1> HIDE DEF found
  <1>4. CASE others # {}
    <2>1. PICK rs \in [{1} \cup others -> Sketch] :
            /\ \A i \in DOMAIN rs : rs[i] \in RegistersOf(OrEmpty(read[i]))
            /\ Set(call.keys[1], Merges(rs, others, 1 .. m)[m])
      BY <1>1, <1>3, <1>4
    <2>2. MergesUp(Merges(rs, others, 1 .. m), rs, others, m)
      BY MergesAre
    <2>3. PICK u : u = Merges(rs, others, 1 .. m)
      OBVIOUS
    <2>4. IsMerged(u, rs, others, read, m) /\ Set(call.keys[1], u[m])
      BY <2>1, <2>2, <2>3 DEF IsMerged
    <2>5. QED BY <1>4, <2>4
  <1>5. QED BY <1>1, <1>2, <1>4

\* And PfMerge.
LEMMA PfMergeKeeps ==
  ASSUME StringsInv, NEW call,
         NEW m \in Nat \ {0}, NEW read, DOMAIN read = 1 .. m, Len(read) = m,
         \A i \in 1 .. m : read[i] \in Seq(Byte) \cup {NoValue}, PfMerge(call, read)
  PROVE  Kept
  <1>1. \E v \in Seq(Byte) : Set(call.keys[1], v)
    <2>1. PICK others : AreOthers(others, read, m)
      BY DEF AreOthers
    <2>2. CASE others = {}
      <3>1. Set(call.keys[1], OrEmpty(read[1]))
        BY <2>1, <2>2, PfMergeWrites
      <3>2. Sources(read)[1] \in Seq(Byte) /\ Sources(read)[1] = OrEmpty(read[1])
        <4>1. m \in Nat /\ 1 \in 1 .. m
          OBVIOUS
        <4>2. Sources(read) \in [1 .. m -> Seq(Byte)]
          BY <4>1, SourcesAre
        <4>3. QED BY <4>1, <4>2 DEF Sources
      <3>3. QED BY <3>1, <3>2
    <2>3. CASE others # {}
      <3>1. PICK rs, u : IsMerged(u, rs, others, read, m) /\ Set(call.keys[1], u[m])
        BY <2>1, <2>3, PfMergeWrites
      <3>2. m \in 1 .. m
        OBVIOUS
      <3>3. u[m] \in Sketch
        BY <3>1, <3>2 DEF IsMerged, MergesUp
      <3>4. QED BY <3>1, <3>3, SketchIsString
    <2>4. QED BY <2>2, <2>3
  <1>2. PICK v \in Seq(Byte) : \E k : Set(k, v)
    BY <1>1
  <1>3. PICK ts : ts = 0
    OBVIOUS
  <1>4. ts \in Int /\ \E k : Put(k, v, ts)
    BY <1>2, <1>3 DEF Set
  <1>5. QED BY <1>4, PutKeeps

\* A call keeps StringsInv as it finishes.
LEMMA FinishKeeps ==
  ASSUME StringsInv, pending # NoCall, Finish
  PROVE  StringsInv'
  <1>1. PICK call : call = pending.call
    OBVIOUS
  <1>2. PICK read : read = pending.read
    OBVIOUS
  <1>3. PICK m : m = Len(read)
    OBVIOUS
  <1>4. /\ call \in Calls /\ m \in Nat \ {0} /\ DOMAIN read = 1 .. m
        /\ \A i \in 1 .. m : read[i] \in Seq(Byte) \cup {NoValue}
    BY <1>1, <1>2, <1>3, PendingIs
  <1>5. pending' = NoCall
    BY DEF Finish
  <1>6. Kept
    <2>1. CASE call.op = "MSetnx" /\ MSetnx(call, read)
      BY <1>4, <2>1, MSetnxKeeps
    <2>2. CASE call.op = "BitOp" /\ BitOp(call, read)
      BY <1>4, <2>2, BitOpKeeps
    <2>3. CASE call.op = "PfAdd" /\ PfAdd(call, read)
      BY <1>4, <2>3, PfAddKeeps
    <2>4. CASE call.op = "PfMerge" /\ PfMerge(call, read)
      BY <1>3, <1>4, <2>4, PfMergeKeeps
    <2>5. CASE call.op = "PKPatternMatchDel" /\ PKPatternMatchDel(call, read)
      BY <2>5, DeleteKeeps DEF PKPatternMatchDel
    <2>6. QED BY <1>1, <1>2, <2>1, <2>2, <2>3, <2>4, <2>5 DEF Finish
  <1>7. QED BY <1>5, <1>6, KeptIsInv

\* PKPatternMatchDel keeps StringsInv as it writes a batch.
LEMMA DeleteBatchKeeps ==
  ASSUME StringsInv, pending # NoCall, DeleteBatch
  PROVE  StringsInv' /\ pending' \in PendingCall
  <1>1. PICK read : read = [i \in DOMAIN pending.read |->
                              IF i \in Batch THEN NoValue ELSE pending.read[i]]
    OBVIOUS
  <1>2. PICK m : m = Len(pending.read)
    OBVIOUS
  <1>3. PICK R : R = Seq(Byte) \cup {NoValue}
    OBVIOUS
  <1>4. /\ pending = [call |-> pending.call, read |-> pending.read]
        /\ pending.call \in Calls
        /\ m \in 1 .. Len(pending.call.keys) /\ Len(pending.call.keys) \in Nat
        /\ DOMAIN pending.read = 1 .. m
        /\ \A i \in 1 .. m : pending.read[i] \in R
    BY <1>2, <1>3, PendingIs
  <1>5. m \in Nat /\ NoValue \in R
    BY <1>3, <1>4
  <1>6. read \in [1 .. m -> R]
    BY <1>1, <1>4, <1>5
  <1>7. read \in Seq(R) /\ Len(read) = m
    BY <1>5, <1>6
  <1>8. pending' = [call |-> pending.call, read |-> read]
    <2>1. pending' = [pending EXCEPT !.read = read]
      BY <1>1 DEF DeleteBatch
    <2>2. PICK p : p = pending
      OBVIOUS
    <2>3. p = [call |-> p.call, read |-> p.read] /\ pending' = [p EXCEPT !.read = read]
      BY <1>4, <2>1, <2>2
    <2>4. QED BY <2>2, <2>3
  <1>9. pending' \in PendingCall
    BY <1>3, <1>4, <1>7, <1>8 DEF PendingCall
  <1>10. Len(pending'.read) \in 1 .. Len(pending'.call.keys)
    BY <1>4, <1>7, <1>8
  <1>11. Kept
    BY DeleteKeeps DEF DeleteBatch
  <1>12. QED BY <1>9, <1>10, <1>11, KeptIsInv

\* A call keeps StringsInv as it looks at its first key.
LEMMA BeginKeeps ==
  ASSUME StringsInv, NEW call \in Calls, Begin(call)
  PROVE  StringsInv'
  <1>1. PICK n : n = IF call.op = "PKPatternMatchDel" THEN Len(call.keys) ELSE 1
    OBVIOUS
  <1>2. PICK read : read = [i \in 1 .. n |-> Seen(call.op, call.keys[i])]
    OBVIOUS
  <1>3. pending' = [call |-> call, read |-> read]
    BY <1>1, <1>2 DEF Begin
  <1>4. PICK keys : keys = call.keys
    OBVIOUS
  <1>5. Len(keys) \in Nat \ {0} /\ \A i \in 1 .. Len(keys) : keys[i] \in Keys
    <2>1. keys \in Seq(Keys) /\ keys # <<>>
      BY <1>4, CallsAssumption
    <2>2. QED BY <2>1, EmptySeq
  <1>6. n \in 1 .. Len(keys)
    BY <1>1, <1>4, <1>5
  <1>7. \A i \in 1 .. n : keys[i] \in Keys
    BY <1>5, <1>6
  <1>8. PICK R : R = Seq(Byte) \cup {NoValue}
    OBVIOUS
  <1>9. \A i \in 1 .. n : Seen(call.op, keys[i]) \in R
    BY <1>7, <1>8, SeenIs
  <1>10. read \in Seq(R) /\ Len(read) = n
    <2>1. read \in [1 .. n -> R] /\ n \in Nat
      BY <1>2, <1>4, <1>5, <1>6, <1>9
    <2>2. QED BY <2>1, SeqDef
  <1>11. pending' \in PendingCall
    BY <1>3, <1>8, <1>10 DEF PendingCall
  <1>12. Len(pending'.read) \in 1 .. Len(pending'.call.keys)
    BY <1>3, <1>4, <1>6, <1>10
  <1>13. strings' = strings /\ now' = now
    BY DEF Begin
  <1>14. QED BY <1>11, <1>12, <1>13, UnchangedIsKept, KeptIsInv

\* A call keeps StringsInv as it looks at its next key.
LEMMA ReadNextKeeps ==
  ASSUME StringsInv, pending # NoCall, ReadNext
  PROVE  StringsInv'
  <1>1. PICK call : call = pending.call
    OBVIOUS
  <1>2. PICK read : read = pending.read
    OBVIOUS
  <1>3. PICK m : m = Len(read)
    OBVIOUS
  <1>4. PICK R : R = Seq(Byte) \cup {NoValue}
    OBVIOUS
  <1>5. PICK v : v = Seen(call.op, call.keys[m + 1])
    OBVIOUS
  <1>6. /\ pending = [call |-> call, read |-> read] /\ call \in Calls /\ read \in Seq(R)
        /\ m \in 1 .. Len(call.keys) /\ Len(call.keys) \in Nat
        /\ \A i \in 1 .. Len(call.keys) : call.keys[i] \in Keys
    BY <1>1, <1>2, <1>3, <1>4, PendingIs
  <1>7. m + 1 \in 1 .. Len(call.keys)
    <2>1. Len(call.keys) - m > 0
      BY <1>1, <1>2, <1>3, Zenon DEF ReadNext, Unread
    <2>2. QED BY <1>6, <2>1
  <1>8. v \in R
    BY <1>4, <1>5, <1>6, <1>7, SeenIs
  <1>9. pending' = [call |-> call, read |-> Append(read, v)]
    <2>1. pending' = [pending EXCEPT !.read = Append(read, Seen(call.op, call.keys[Len(read) + 1]))]
      BY <1>1, <1>2, Zenon DEF ReadNext
    <2>2. pending' = [pending EXCEPT !.read = Append(read, v)]
      BY <1>3, <1>5, <2>1
    <2>3. PICK p : p = pending
      OBVIOUS
    <2>4. PICK w : w = Append(read, v)
      OBVIOUS
    <2>5. pending' = [p EXCEPT !.read = w] /\ p = [call |-> call, read |-> read]
      BY <1>6, <2>2, <2>3, <2>4
    <2>6. QED BY <2>4, <2>5
  <1>10. Append(read, v) \in Seq(R) /\ Len(Append(read, v)) = m + 1
    BY <1>3, <1>6, <1>8, AppendProperties
  <1>11. pending' \in PendingCall
    BY <1>4, <1>6, <1>9, <1>10 DEF PendingCall
  <1>12. Len(pending'.read) \in 1 .. Len(pending'.call.keys)
    BY <1>7, <1>9, <1>10
  <1>13. strings' = strings /\ now' = now
    BY DEF ReadNext
  <1>14. QED BY <1>11, <1>12, <1>13, UnchangedIsKept, KeptIsInv

----------------------------------------------------------------------------
(* The invariant.                                                           *)

\* StringsInv holds of the empty column family.
LEMMA StringsInvHoldsAtFirst ==
  ASSUME StringsInit
  PROVE  StringsInv
  <1>1. StringsTypeOK
    BY StringsAssumption DEF StringsInit, StringsTypeOK
  <1>2. Places = {}
    BY DEF StringsInit, Places
  <1>3. TotalLength = 0
    BY <1>1, <1>2, PlacesAre, FS_EmptySet
  <1>4. QED BY <1>1, <1>3, StringsAssumption DEF StringsInit, StringsInv

\* Every step keeps StringsInv.
LEMMA NextKeepsStringsInv ==
  ASSUME StringsInv, Next
  PROVE  StringsInv'
  <1>1. /\ pending \in PendingCall \cup {NoCall}
        /\ (pending # NoCall => Len(pending.read) \in 1 .. Len(pending.call.keys))
    BY DEF StringsInv, StringsTypeOK
  <1>2. CASE Handlers
    <2>1. Kept
      <3>1. ASSUME NEW k \in Keys, Write(k) \/ KeyHandler(k)
            PROVE  Kept
        BY <3>1, WriteKeeps, KeyHandlerKeeps
      <3>2. ASSUME NEW put \in [Keys -> Texts], MSet(put)
            PROVE  Kept
        <4>1. \A k \in DOMAIN put : put[k] \in Seq(Byte)
          BY StringsAssumption
        <4>2. QED BY <3>2, <4>1, MSetKeeps
      <3>3. QED BY <1>2, <3>1, <3>2 DEF Handlers
    <2>2. pending' = pending
      BY <1>2 DEF Handlers
    <2>3. QED BY <1>1, <2>1, <2>2, KeptIsInv
  <1>3. CASE Call
    BY <1>3, BeginKeeps, ReadNextKeeps, DeleteBatchKeeps, FinishKeeps DEF Call
  <1>4. CASE Tick
    <2>1. now' \in 1 .. MaxTime /\ strings' = strings /\ pending' = pending
      BY <1>4, StringsAssumption DEF Tick, StringsInv, StringsTypeOK
    <2>2. TotalLength' = TotalLength
      BY <2>1 DEF TotalLength
    <2>3. QED BY <1>1, <2>1, <2>2 DEF StringsInv, StringsTypeOK
  <1>5. ASSUME NEW k \in Keys, Compact(k)
        PROVE  StringsInv'
    <2>1. Kept
      BY <1>5, DeleteKeeps DEF Compact
    <2>2. pending' = pending
      BY <1>5 DEF Compact
    <2>3. QED BY <1>1, <2>1, <2>2, KeptIsInv
  <1>6. CASE Reopen
    <2>1. pending' = NoCall /\ strings' = strings /\ now' = now
      BY <1>6 DEF Reopen
    <2>2. QED BY <2>1, UnchangedIsKept, KeptIsInv
  <1>7. QED BY <1>2, <1>3, <1>4, <1>5, <1>6 DEF Next

\* So does a step that changes nothing.
LEMMA StutterKeepsStringsInv ==
  ASSUME StringsInv, UNCHANGED stringsVars
  PROVE  StringsInv'
  BY DEF StringsInv, StringsTypeOK, TotalLength, stringsVars

\* Every reachable state has its shapes, no string is longer than a size_t can count
\* and a pending call has looked at its first key and no more than it names.
THEOREM StringsInvHolds == Spec => []StringsInv
  <1>1. StringsInit => StringsInv
    BY StringsInvHoldsAtFirst
  <1>2. StringsInv /\ [Next]_stringsVars => StringsInv'
    BY NextKeepsStringsInv, StutterKeepsStringsInv
  <1>3. QED BY <1>1, <1>2, PTL DEF Spec

----------------------------------------------------------------------------
(* What the column family stands for.                                       *)

Deadline(k) == IF Live(k) THEN strings[k].timestamp ELSE 0

Contents == [k \in Keys |-> Get(k)]

Deadlines == [k \in Keys |-> Deadline(k)]

\* A timestamp that has not passed.
Ahead(ts) == ts \in Int /\ (ts = 0 \/ ts >= now)

\* The timestamp that a modified string keeps is its deadline.
LEMMA OldTimestampIs ==
  ASSUME StringsInv, NEW k \in Keys
  PROVE  OldTimestamp(k) = Deadline(k) /\ Ahead(OldTimestamp(k))
  <1>1. now \in Int
    BY StringsAssumption DEF StringsInv, StringsTypeOK
  <1>2. strings[k] # NoValue => strings[k].timestamp \in Int
    BY StoredIs
  <1>3. QED BY <1>1, <1>2 DEF OldTimestamp, Deadline, Ahead, Live, IsStale

\* What the keys stand for after a write.
LEMMA PutAllBecomes ==
  ASSUME StringsInv, NEW put, \A k \in DOMAIN put : put[k] \in Seq(Byte),
         NEW ts, Ahead(ts), PutAll(put, ts)
  PROVE  /\ Contents' = [k \in Keys |-> IF k \in DOMAIN put THEN put[k] ELSE Get(k)]
         /\ Deadlines' = [k \in Keys |-> IF k \in DOMAIN put THEN ts ELSE Deadline(k)]
         /\ now' = now
  <1>1. /\ strings' = [k \in Keys |-> IF k \in DOMAIN put
                                      THEN [value |-> put[k], timestamp |-> ts]
                                      ELSE strings[k]]
        /\ now' = now
    BY DEF PutAll
  <1>2. ASSUME NEW k \in Keys, k \in DOMAIN put
        PROVE  Get(k)' = put[k] /\ Deadline(k)' = ts
    <2>1. strings'[k] = [value |-> put[k], timestamp |-> ts]
      BY <1>1, <1>2
    <2>2. put[k] \in Seq(Byte) /\ ts \in Int
      BY <1>2 DEF Ahead
    <2>3. strings'[k] \in Value
      BY <2>1, <2>2 DEF Value
    <2>4. strings'[k] # NoValue
      BY <2>3, StringsAssumption
    <2>5. now \in Int
      BY StringsAssumption DEF StringsInv, StringsTypeOK
    <2>6. strings'[k].timestamp = ts /\ strings'[k].value = put[k]
      BY <2>1
    <2>7. Live(k)'
      BY <1>1, <2>4, <2>5, <2>6 DEF Live, IsStale, Ahead
    <2>8. QED BY <2>6, <2>7 DEF Get, Deadline
  <1>3. ASSUME NEW k \in Keys, k \notin DOMAIN put
        PROVE  Get(k)' = Get(k) /\ Deadline(k)' = Deadline(k)
    <2>1. strings'[k] = strings[k] /\ now' = now
      BY <1>1, <1>3
    <2>2. QED BY <2>1 DEF Get, Deadline, Live, IsStale
  <1>4. QED BY <1>1, <1>2, <1>3 DEF Contents, Deadlines

\* The same, of one key.
LEMMA PutBecomes ==
  ASSUME StringsInv, NEW k \in Keys, NEW v \in Seq(Byte), NEW ts, Ahead(ts), Put(k, v, ts)
  PROVE  /\ Promise!Become(k, v, ts)
         /\ Get(k)' = v /\ Old(k)' = v
  <1>1. PICK put : put = [j \in {k} |-> v]
    OBVIOUS
  <1>2. PutAll(put, ts)
    BY <1>1, Zenon DEF Put
  <1>3. \A j \in DOMAIN put : put[j] \in Seq(Byte)
    BY <1>1
  <1>4. /\ Contents' = [j \in Keys |-> IF j \in DOMAIN put THEN put[j] ELSE Get(j)]
        /\ Deadlines' = [j \in Keys |-> IF j \in DOMAIN put THEN ts ELSE Deadline(j)]
        /\ now' = now
    BY <1>2, <1>3, PutAllBecomes
  <1>5. Promise!BecomeAll(put, ts)
    BY <1>4 DEF Promise!BecomeAll, Contents, Deadlines, Deadline
  <1>6. Promise!Become(k, v, ts)
    BY <1>1, <1>5, Zenon DEF Promise!Become
  <1>7. Get(k)' = v
    BY <1>1, <1>4 DEF Contents
  <1>8. Old(k)' = v
    <2>1. v # NoValue
      BY StringsAssumption
    <2>2. QED BY <1>7, <2>1 DEF Old, OrEmpty
  <1>9. QED BY <1>6, <1>7, <1>8

\* A delete takes the strings and their deadlines.
LEMMA DeleteBecomes ==
  ASSUME StringsInv, NEW D, Delete(D)
  PROVE  /\ now' = now
         /\ \A k \in Keys : k \in D => Get(k)' = NoValue /\ Deadline(k)' = 0
         /\ \A k \in Keys : k \notin D => Get(k)' = Get(k) /\ Deadline(k)' = Deadline(k)
  <1>1. /\ strings' = [k \in Keys |-> IF k \in D THEN NoValue ELSE strings[k]]
        /\ now' = now
    BY DEF Delete
  <1>2. QED BY <1>1 DEF Get, Deadline, Live, IsStale

\* The text that ExpiringStrings sees is what the handlers read.
LEMMA TextIs ==
  ASSUME NEW k \in Keys
  PROVE  Promise!Text(k) = Old(k) /\ (Promise!Held(k) <=> Get(k) # NoValue)
  BY DEF Promise!Text, Promise!Held, Old, OrEmpty

----------------------------------------------------------------------------
(* Time and compaction.                                                     *)

\* As the clock goes on, those strings are gone whose deadline is behind.
LEMMA TickAsPromised ==
  ASSUME StringsInv, Tick
  PROVE  Promise!Tick
  <1>1. now \in Int /\ now' = now + 1 /\ strings' = strings
    BY StringsAssumption DEF StringsInv, StringsTypeOK, Tick
  <1>2. ASSUME NEW k \in Keys
        PROVE  LET over == Deadline(k) # 0 /\ Deadline(k) < now + 1
               IN  /\ Get(k)' = IF over THEN NoValue ELSE Get(k)
                   /\ Deadline(k)' = IF over THEN 0 ELSE Deadline(k)
    <2>1. strings[k] # NoValue => strings[k].timestamp \in Int
      BY StoredIs
    <2>2. Live(k)' <=> strings[k] # NoValue /\ ~(strings[k].timestamp # 0
                                                  /\ strings[k].timestamp < now + 1)
      BY <1>1 DEF Live, IsStale
    <2>3. Live(k) <=> strings[k] # NoValue /\ ~(strings[k].timestamp # 0
                                                  /\ strings[k].timestamp < now)
      BY DEF Live, IsStale
    <2>4. CASE Live(k)'
      <3>1. Live(k)
        BY <1>1, <2>1, <2>2, <2>3, <2>4
      <3>2. QED BY <1>1, <2>1, <2>2, <2>4, <3>1 DEF Get, Deadline
    <2>5. CASE ~Live(k)' /\ Live(k)
      BY <1>1, <2>1, <2>2, <2>3, <2>5 DEF Get, Deadline
    <2>6. CASE ~Live(k)' /\ ~Live(k)
      BY <2>6 DEF Get, Deadline
    <2>7. QED BY <2>4, <2>5, <2>6
  <1>3. PICK D : D = {k \in Keys : Deadline(k) # 0 /\ Deadline(k) < now + 1}
    OBVIOUS
  <1>4. Contents' = [k \in Keys |-> IF k \in D THEN NoValue ELSE Get(k)]
    BY <1>2, <1>3 DEF Contents
  <1>5. Deadlines' = [k \in Keys |-> IF k \in D THEN 0 ELSE Deadline(k)]
    BY <1>2, <1>3 DEF Deadlines
  <1>6. D = {k \in Keys : Deadlines[k] # 0 /\ Deadlines[k] < now + 1}
    BY <1>3 DEF Deadlines
  <1>7. QED BY <1>1, <1>4, <1>5, <1>6 DEF Promise!Tick, Contents, Deadlines, Deadline

\* Compaction drops a record that is as good as none already.
LEMMA CompactAsPromised ==
  ASSUME StringsInv, NEW k \in Keys, Compact(k)
  PROVE  UNCHANGED Promise!expiringStrings
  <1>1. strings[k] # NoValue /\ IsStale(strings[k]) /\ Delete({k})
    BY DEF Compact
  <1>2. Get(k) = NoValue /\ Deadline(k) = 0
    BY <1>1 DEF Get, Deadline, Live
  <1>3. \A j \in Keys : Get(j)' = Get(j) /\ Deadline(j)' = Deadline(j)
    BY <1>1, <1>2, DeleteBecomes
  <1>4. now' = now
    BY <1>1, DeleteBecomes
  <1>5. QED BY <1>3, <1>4 DEF Promise!expiringStrings, Deadline

----------------------------------------------------------------------------
(* Handlers of one key.                                                     *)

\* Append extends the string and keeps its deadline.
LEMMA ExtendAsPromised ==
  ASSUME StringsInv, NEW k \in Keys, NEW v \in Seq(Byte), StringAppend(k, v)
  PROVE  Promise!Extend(k, v)
  <1>1. PICK w : w = Old(k) \o v
    OBVIOUS
  <1>2. w \in Seq(Byte)
    BY <1>1, StoredIs, ConcatProperties
  <1>3. PICK ts : ts = OldTimestamp(k)
    OBVIOUS
  <1>4. Ahead(ts) /\ ts = Deadline(k)
    BY <1>3, OldTimestampIs
  <1>5. Put(k, w, ts)
    BY <1>1, <1>3 DEF StringAppend
  <1>6. Promise!Become(k, w, ts)
    BY <1>2, <1>4, <1>5, PutBecomes
  <1>7. w = Promise!Text(k) \o v
    BY <1>1, TextIs
  <1>8. ts = [j \in Keys |-> IF Live(j) THEN strings[j].timestamp ELSE 0][k]
    BY <1>4 DEF Deadline
  <1>9. QED BY <1>6, <1>7, <1>8, Zenon DEF Promise!Extend

\* A deadline ahead does not wrap.
LEMMA AheadOfNow ==
  ASSUME StringsInv, NEW ttl \in Int, ttl > 0, now + ttl <= MaxTimestamp
  PROVE  Ahead(now + ttl) /\ RelativeTimestamp(ttl) = now + ttl /\ Ahead(0)
  <1>1. now \in Int /\ MaxTimestamp \in Int
    BY StringsAssumption DEF StringsInv, StringsTypeOK
  <1>2. QED BY <1>1 DEF Ahead, RelativeTimestamp, Wrapped

\* Setex sets the string and its deadline.
LEMMA SetexAsPromised ==
  ASSUME StringsInv, NEW k \in Keys, NEW v \in Seq(Byte), NEW ttl \in Int, ttl > 0,
         now + ttl <= MaxTimestamp, Setex(k, v, ttl)
  PROVE  Promise!Become(k, v, now + ttl)
  <1>1. PICK ts : ts = now + ttl
    OBVIOUS
  <1>2. Ahead(ts) /\ Put(k, v, ts)
    BY <1>1, AheadOfNow DEF Setex
  <1>3. Promise!Become(k, v, ts)
    BY <1>2, PutBecomes
  <1>4. QED BY <1>1, <1>3

\* Expire moves the deadline and leaves the string alone.
LEMMA ExpireAsPromised ==
  ASSUME StringsInv, NEW k \in Keys, NEW ttl \in Int, ttl > 0,
         now + ttl <= MaxTimestamp, Expire(k, ttl)
  PROVE  Promise!SetDeadline(k, now + ttl)
  <1>1. PICK ts : ts = now + ttl
    OBVIOUS
  <1>2. PICK v : v = Old(k)
    OBVIOUS
  <1>3. PICK put : put = [j \in {k} |-> v]
    OBVIOUS
  <1>4. Ahead(ts) /\ Live(k) /\ PutAll(put, ts)
    <2>1. Live(k) /\ Put(k, v, ts)
      BY <1>1, <1>2, AheadOfNow DEF Expire
    <2>2. QED BY <1>1, <1>3, <2>1, AheadOfNow, Zenon DEF Put
  <1>5. v \in Seq(Byte) /\ v = Get(k) /\ Get(k) # NoValue
    BY <1>2, <1>4, StoredIs
  <1>6. \A j \in DOMAIN put : put[j] \in Seq(Byte)
    BY <1>3, <1>5
  <1>7. /\ Contents' = [j \in Keys |-> IF j \in DOMAIN put THEN put[j] ELSE Get(j)]
        /\ Deadlines' = [j \in Keys |-> IF j \in DOMAIN put THEN ts ELSE Deadline(j)]
        /\ now' = now
    BY <1>4, <1>6, PutAllBecomes
  <1>8. Contents' = Contents
    BY <1>3, <1>5, <1>7 DEF Contents
  <1>9. Deadlines' = [Deadlines EXCEPT ![k] = ts]
    BY <1>3, <1>7 DEF Deadlines
  <1>10. Promise!Held(k)
    BY <1>5, TextIs
  <1>11. QED BY <1>1, <1>7, <1>8, <1>9, <1>10 DEF Promise!SetDeadline, Contents, Deadlines, Deadline

----------------------------------------------------------------------------
(* Bits of a string.                                                        *)

\* A product grows with its factor.
LEMMA Grows ==
  ASSUME NEW c \in Nat, NEW a \in Int, NEW b \in Int, a <= b
  PROVE  c * a <= c * b
  <1>1. PICK d \in Nat : b = a + d
    <2>1. b - a \in Nat /\ b = a + (b - a)
      OBVIOUS
    <2>2. QED BY <2>1
  <1>2. c * d \in Nat /\ c * a \in Int
    OBVIOUS
  <1>3. c * b = c * a + c * d
    BY <1>1
  <1>4. QED BY <1>2, <1>3

\* The byte that an offset is in is one of the first n.
LEMMA WithinIs ==
  ASSUME NEW j \in Nat, NEW n \in Nat
  PROVE  j \in 0 .. Width * n - 1 <=> ByteOffset(j) <= n
  <1>1. PICK q : q = ByteOffset(j) - 1
    OBVIOUS
  <1>2. PICK b : b = Width - 1 - BitOffset(j)
    OBVIOUS
  <1>3. Width \in Nat /\ q \in Nat /\ b \in 0 .. Width - 1 /\ j = Width * q + b /\ ByteOffset(j) = q + 1
    <2>1. PICK at : at = ByteOffset(j)
      OBVIOUS
    <2>2. PICK c : c = BitOffset(j)
      OBVIOUS
    <2>3. at \in Nat \ {0} /\ c \in 0 .. Width - 1 /\ j = Width * (at - 1) + (Width - 1 - c)
      BY <2>1, <2>2, OffsetIs
    <2>4. q = at - 1 /\ b = Width - 1 - c /\ Width \in Nat
      BY <1>1, <1>2, <2>1, <2>2, WidthIs
    <2>5. q \in Nat /\ b \in 0 .. Width - 1 /\ at = q + 1
      BY <2>3, <2>4
    <2>6. QED BY <2>1, <2>3, <2>4, <2>5
  <1>4. Width * q \in Nat /\ Width * n \in Nat
    BY <1>3
  <1>5. CASE q + 1 <= n
    <2>1. q + 1 \in Int /\ n \in Int
      BY <1>3
    <2>2. Width * (q + 1) <= Width * n
      BY <1>3, <1>5, <2>1, Grows
    <2>3. Width * (q + 1) = Width * q + Width
      BY <1>3
    <2>4. QED BY <1>3, <1>4, <1>5, <2>2, <2>3
  <1>6. CASE ~(q + 1 <= n)
    <2>1. q \in Int /\ n \in Int /\ n <= q
      BY <1>3, <1>6
    <2>2. Width * n <= Width * q
      BY <1>3, <2>1, Grows
    <2>3. QED BY <1>3, <1>4, <1>6, <2>2
  <1>7. QED BY <1>5, <1>6

\* ExpiringStrings counts the same powers of two.
LEMMA SameTwoTo == Promise!TwoTo = TwoTo
  BY DEF Promise!TwoTo, TwoTo

\* The bit that ExpiringStrings finds at an offset is the one at its byte and its place
\* in it.
LEMMA BitAtIs ==
  ASSUME NEW v \in Seq(Byte), NEW j \in Nat
  PROVE  /\ Promise!BitAt(v, j) = Bit(ByteAt(v, ByteOffset(j)), BitOffset(j))
         /\ Promise!BitAt(v, j) \in {0, 1}
         /\ j \in Promise!Bits(v) <=> ByteOffset(j) <= Len(v)
  <1>1. PICK at : at = ByteOffset(j)
    OBVIOUS
  <1>2. PICK b : b = BitOffset(j)
    OBVIOUS
  <1>3. at \in Nat \ {0} /\ b \in Nat
    BY <1>1, <1>2, OffsetIs, WidthIs
  <1>4. j \in Promise!Bits(v) <=> at <= Len(v)
    BY <1>1, WithinIs, StringIs DEF Promise!Bits
  <1>5. Promise!BitAt(v, j) = IF at <= Len(v) THEN Bit(v[at], b) ELSE 0
    <2>1. Promise!BitAt(v, j) = IF j \in Promise!Bits(v)
            THEN (v[(j \div Width) + 1] \div TwoTo[Width - 1 - (j % Width)]) % 2 ELSE 0
      BY SameTwoTo DEF Promise!BitAt
    <2>2. at = (j \div Width) + 1 /\ b = Width - 1 - (j % Width)
      BY <1>1, <1>2 DEF ByteOffset, BitOffset
    <2>3. Bit(v[at], b) = (v[at] \div TwoTo[b]) % 2
      BY DEF Bit
    <2>4. QED BY <1>4, <2>1, <2>2, <2>3
  <1>6. Promise!BitAt(v, j) = Bit(ByteAt(v, at), b)
    <2>1. CASE at <= Len(v)
      BY <1>5, <2>1 DEF ByteAt
    <2>2. CASE ~(at <= Len(v))
      BY <1>3, <1>5, <2>2, NoBits DEF ByteAt
    <2>3. QED BY <2>1, <2>2
  <1>7. Bit(ByteAt(v, at), b) \in {0, 1}
    BY <1>3, ByteAtIs, ByteIsNat, BitIs
  <1>8. QED BY <1>1, <1>2, <1>4, <1>6, <1>7

\* Offsets of the same byte and bit are the same.
LEMMA OffsetTells ==
  ASSUME NEW i \in Nat, NEW j \in Nat
  PROVE  i = j <=> ByteOffset(i) = ByteOffset(j) /\ BitOffset(i) = BitOffset(j)
  BY OffsetIs

\* WithBit changes one bit of the string.
LEMMA WithBitBits ==
  ASSUME NEW old \in Seq(Byte), NEW i \in Nat, NEW on \in {0, 1},
         NEW new, new = WithBit(old, i, on)
  PROVE  /\ Len(new) = IF i \in Promise!Bits(old) THEN Len(old) ELSE ByteOffset(i)
         /\ \A j \in Promise!Bits(new) :
              Promise!BitAt(new, j) = IF j = i THEN on ELSE Promise!BitAt(old, j)
  <1>1. PICK at : at = ByteOffset(i)
    OBVIOUS
  <1>2. PICK b : b = BitOffset(i)
    OBVIOUS
  <1>3. PICK byte : byte = BytePut(ByteAt(old, at), b, on)
    OBVIOUS
  <1>4. /\ new \in Seq(Byte) /\ Len(new) = IF at <= Len(old) THEN Len(old) ELSE at
        /\ \A j \in 1 .. Len(new) : new[j] = IF j = at THEN byte ELSE ByteAt(old, j)
    BY <1>1, <1>2, <1>3, WithBitIs
  <1>5. at \in Nat \ {0} /\ b \in 0 .. Width - 1 /\ ByteAt(old, at) \in Byte
    BY <1>1, <1>2, OffsetIs, ByteAtIs
  <1>6. \A m \in 0 .. Width - 1 : Bit(byte, m) = IF m = b THEN on ELSE Bit(ByteAt(old, at), m)
    BY <1>3, <1>5, BytePutIs
  <1>7. i \in Promise!Bits(old) <=> at <= Len(old)
    BY <1>1, BitAtIs
  <1>8. ASSUME NEW j \in Promise!Bits(new)
        PROVE  Promise!BitAt(new, j) = IF j = i THEN on ELSE Promise!BitAt(old, j)
    <2>1. j \in Nat
      BY <1>4, StringIs DEF Promise!Bits
    <2>2. PICK atj : atj = ByteOffset(j)
      OBVIOUS
    <2>3. PICK bj : bj = BitOffset(j)
      OBVIOUS
    <2>4. /\ Promise!BitAt(new, j) = Bit(ByteAt(new, atj), bj)
          /\ atj <= Len(new) /\ atj \in 1 .. Len(new)
      <3>1. Promise!BitAt(new, j) = Bit(ByteAt(new, atj), bj) /\ atj <= Len(new)
        BY <1>4, <2>1, <2>2, <2>3, BitAtIs
      <3>2. atj \in Nat \ {0} /\ Len(new) \in Nat
        BY <1>4, <2>1, <2>2, OffsetIs, StringIs
      <3>3. QED BY <3>1, <3>2
    <2>5. Promise!BitAt(old, j) = Bit(ByteAt(old, atj), bj)
      BY <2>1, <2>2, <2>3, BitAtIs
    <2>6. bj \in 0 .. Width - 1
      BY <2>1, <2>3, OffsetIs
    <2>7. ByteAt(new, atj) = IF atj = at THEN byte ELSE ByteAt(old, atj)
      BY <1>4, <2>4 DEF ByteAt
    <2>8. j = i <=> atj = at /\ bj = b
      BY <1>1, <1>2, <2>1, <2>2, <2>3, OffsetTells
    <2>9. QED BY <1>6, <2>4, <2>5, <2>6, <2>7, <2>8
  <1>9. QED BY <1>1, <1>4, <1>7, <1>8

\* SetBit changes only its bit, and grows the string with zeros.
LEMMA SetBitAsPromised ==
  ASSUME StringsInv, NEW k \in Keys, NEW i \in Nat, NEW on \in {0, 1}, SetBit(k, i, on)
  PROVE  Promise!SetBit(k, i, on)
  <1>1. PICK old : old = Old(k)
    OBVIOUS
  <1>2. PICK new : new = WithBit(old, i, on)
    OBVIOUS
  <1>3. old \in Seq(Byte) /\ new \in Seq(Byte)
    BY <1>1, <1>2, StoredIs, WithBitIs
  <1>4. PICK ts : ts = 0
    OBVIOUS
  <1>5. Put(k, new, ts) /\ Ahead(ts)
    BY <1>1, <1>2, <1>4, SetBitWrites DEF Ahead
  <1>6. Promise!Become(k, new, ts) /\ Get(k)' = new
    BY <1>3, <1>5, PutBecomes
  <1>7. /\ Len(new) = IF i \in Promise!Bits(old) THEN Len(old) ELSE ByteOffset(i)
        /\ \A j \in Promise!Bits(new) :
              Promise!BitAt(new, j) = IF j = i THEN on ELSE Promise!BitAt(old, j)
    BY <1>2, <1>3, WithBitBits
  <1>8. Promise!Text(k) = old
    BY <1>1, TextIs
  <1>9. [j \in Keys |-> Get(j)]'[k] = new
    BY <1>6
  <1>10. ByteOffset(i) = (i \div Width) + 1
    BY DEF ByteOffset
  <1>11. /\ Len(new) = IF i \in Promise!Bits(Promise!Text(k)) THEN Len(Promise!Text(k))
                                                             ELSE (i \div Width) + 1
         /\ \A j \in Promise!Bits(new) :
              Promise!BitAt(new, j) = IF j = i THEN on ELSE Promise!BitAt(Promise!Text(k), j)
         /\ Promise!Become(k, new, 0)
    BY <1>4, <1>6, <1>7, <1>8, <1>10
  <1>12. QED BY <1>9, <1>11, Zenon DEF Promise!SetBit

----------------------------------------------------------------------------
(* Setrange.                                                                *)

\* What a string is with v over its bytes from offset on.
Overlaid(old, offset, v) ==
  LET end == IF offset + Len(v) > Len(old) THEN offset + Len(v) ELSE Len(old)
  IN  [i \in 1 .. end |-> IF i \in offset + 1 .. offset + Len(v) THEN v[i - offset]
                          ELSE IF i <= Len(old) THEN old[i] ELSE 0]

\* A string is known by its length and its bytes.
LEMMA OverlaidIs ==
  ASSUME NEW old \in Seq(Byte), NEW offset \in Nat, NEW v \in Seq(Byte),
         NEW end, end = (IF offset + Len(v) > Len(old) THEN offset + Len(v) ELSE Len(old)),
         NEW w \in Seq(Byte), Len(w) = end,
         \A i \in 1 .. end :
           w[i] = IF i \in offset + 1 .. offset + Len(v) THEN v[i - offset]
                  ELSE IF i <= Len(old) THEN old[i] ELSE 0
  PROVE  w = Overlaid(old, offset, v)
  <1>1. w = [i \in 1 .. end |-> w[i]]
    BY StringIs
  <1>2. QED BY <1>1 DEF Overlaid

\* Behind the end.
LEMMA PaddedIs ==
  ASSUME NEW old \in Seq(Byte), NEW offset \in Nat, NEW v \in Seq(Byte), Len(old) <= offset
  PROVE  /\ old \o Zeros(offset - Len(old)) \o v \in Seq(Byte)
         /\ v # <<>> => old \o Zeros(offset - Len(old)) \o v = Overlaid(old, offset, v)
  <1>1. PICK n : n = Len(old)
    OBVIOUS
  <1>2. PICK m : m = Len(v)
    OBVIOUS
  <1>3. PICK zeros : zeros = Zeros(offset - n)
    OBVIOUS
  <1>4. PICK padded : padded = old \o zeros
    OBVIOUS
  <1>5. PICK w : w = padded \o v
    OBVIOUS
  <1>6. n \in Nat /\ m \in Nat /\ n <= offset
    BY <1>1, <1>2, StringIs
  <1>7. zeros \in Seq(Byte) /\ Len(zeros) = offset - n /\ \A i \in 1 .. offset - n : zeros[i] = 0
    <2>1. PICK d : d = offset - n
      OBVIOUS
    <2>2. d \in Int /\ d >= 0
      BY <1>6, <2>1
    <2>3. /\ zeros \in Seq(Byte) /\ Len(zeros) = IF d > 0 THEN d ELSE 0
          /\ \A i \in 1 .. d : zeros[i] = 0
      BY <1>3, <2>1, <2>2, ZerosAre
    <2>4. QED BY <2>1, <2>2, <2>3
  <1>8. /\ padded \in Seq(Byte) /\ Len(padded) = Len(old) + Len(zeros)
        /\ \A i \in 1 .. Len(old) + Len(zeros) :
             padded[i] = IF i <= Len(old) THEN old[i] ELSE zeros[i - Len(old)]
    BY <1>4, <1>7, ConcatProperties
  <1>9. Len(padded) = offset
    BY <1>1, <1>6, <1>7, <1>8
  <1>10. /\ w \in Seq(Byte) /\ Len(w) = Len(padded) + Len(v)
         /\ \A i \in 1 .. Len(padded) + Len(v) :
              w[i] = IF i <= Len(padded) THEN padded[i] ELSE v[i - Len(padded)]
    <2>1. padded \in Seq(Byte)
      BY <1>8
    <2>2. QED BY <1>5, <2>1, ConcatProperties
  <1>11. Len(w) = offset + m
    BY <1>2, <1>9, <1>10
  <1>12. \A i \in 1 .. offset : padded[i] = IF i <= n THEN old[i] ELSE 0
    <2> SUFFICES ASSUME NEW i \in 1 .. offset
                 PROVE  padded[i] = IF i <= n THEN old[i] ELSE 0
      OBVIOUS
    <2>1. padded[i] = IF i <= n THEN old[i] ELSE zeros[i - n]
      BY <1>1, <1>6, <1>7, <1>8
    <2>2. CASE ~(i <= n)
      <3>1. i - n \in 1 .. offset - n
        BY <1>6, <2>2
      <3>2. QED BY <1>7, <2>1, <2>2, <3>1
    <2>3. QED BY <2>1, <2>2
  <1>13. ASSUME NEW i \in 1 .. offset + m
         PROVE  w[i] = IF i \in offset + 1 .. offset + m THEN v[i - offset]
                       ELSE IF i <= n THEN old[i] ELSE 0
    <2>1. w[i] = IF i <= offset THEN padded[i] ELSE v[i - offset]
      BY <1>2, <1>6, <1>9, <1>10
    <2>2. QED BY <1>6, <1>12, <2>1
  <1>14. ASSUME v # <<>>
         PROVE  w = Overlaid(old, offset, v)
    <2>1. PICK end : end = offset + m
      OBVIOUS
    <2>2. m > 0
      BY <1>2, <1>6, <1>14, StringIs
    <2>3. end = (IF offset + Len(v) > Len(old) THEN offset + Len(v) ELSE Len(old))
      BY <1>1, <1>2, <1>6, <2>1, <2>2
    <2>4. w \in Seq(Byte) /\ Len(w) = end
      BY <1>10, <1>11, <2>1
    <2>5. \A i \in 1 .. end :
            w[i] = IF i \in offset + 1 .. offset + Len(v) THEN v[i - offset]
                   ELSE IF i <= Len(old) THEN old[i] ELSE 0
      BY <1>1, <1>2, <1>13, <2>1
    <2>6. QED BY <2>3, <2>4, <2>5, OverlaidIs
  <1>15. QED BY <1>1, <1>3, <1>4, <1>5, <1>10, <1>14

\* Within the string.
LEMMA OverwrittenIs ==
  ASSUME NEW old \in Seq(Byte), NEW offset \in Nat, NEW v \in Seq(Byte),
         offset <= Len(old), old # <<>>, v # <<>>,
         Len(old) < Modulus, offset + Len(v) - 1 < Modulus
  PROVE  SubSeq(old, 1, offset) \o v \o TailBehind(old, offset, v) = Overlaid(old, offset, v)
  <1>1. PICK n : n = Len(old)
    OBVIOUS
  <1>2. PICK m : m = Len(v)
    OBVIOUS
  <1>3. PICK front : front = SubSeq(old, 1, offset)
    OBVIOUS
  <1>4. PICK back : back = TailBehind(old, offset, v)
    OBVIOUS
  <1>5. PICK head : head = front \o v
    OBVIOUS
  <1>6. PICK w : w = head \o back
    OBVIOUS
  <1>7. n \in Nat \ {0} /\ m \in Nat \ {0} /\ offset <= n /\ Modulus \in Nat
    BY <1>1, <1>2, StringIs, StringsAssumption
  <1>8. /\ front \in Seq(Byte) /\ Len(front) = offset
        /\ \A i \in 1 .. offset : front[i] = old[i]
    <2>1. PICK one : one = 1
      OBVIOUS
    <2>2. one \in Nat \ {0} /\ offset \in Int /\ offset <= Len(old)
      BY <2>1
    <2>3. /\ front \in Seq(Byte)
          /\ Len(front) = IF one <= offset THEN offset - one + 1 ELSE 0
          /\ \A i \in 1 .. offset - one + 1 : front[i] = old[one + i - 1]
      BY <1>3, <2>1, <2>2, PartIs
    <2>4. QED BY <2>1, <2>3
  <1>9. /\ back \in Seq(Byte)
        /\ Len(back) = IF offset + m < n THEN n - (offset + m) ELSE 0
        /\ \A i \in 1 .. n - (offset + m) : back[i] = old[offset + m + i]
    <2>1. (offset + m - 1) % Modulus = offset + m - 1 /\ (n - 1) % Modulus = n - 1
      BY <1>1, <1>2, <1>7
    <2>2. back = IF offset + m < n THEN SubSeq(old, offset + m + 1, n) ELSE <<>>
      BY <1>1, <1>2, <1>4, <1>7, <2>1 DEF TailBehind
    <2>3. CASE offset + m < n
      <3>1. PICK a : a = offset + m + 1
        OBVIOUS
      <3>2. a \in Nat \ {0} /\ n \in Int /\ n <= Len(old)
        BY <1>1, <1>7, <3>1
      <3>3. /\ back \in Seq(Byte)
            /\ Len(back) = IF a <= n THEN n - a + 1 ELSE 0
            /\ \A i \in 1 .. n - a + 1 : back[i] = old[a + i - 1]
        BY <2>2, <2>3, <3>1, <3>2, PartIs
      <3>4. QED BY <1>7, <2>3, <3>1, <3>3
    <2>4. CASE ~(offset + m < n)
      <3>1. back = <<>>
        BY <2>2, <2>4
      <3>2. back \in Seq(Byte) /\ Len(back) = 0
        BY <3>1
      <3>3. QED BY <1>7, <2>4, <3>2
    <2>5. QED BY <2>3, <2>4
  <1>10. /\ head \in Seq(Byte) /\ Len(head) = Len(front) + Len(v)
         /\ \A i \in 1 .. Len(front) + Len(v) :
              head[i] = IF i <= Len(front) THEN front[i] ELSE v[i - Len(front)]
    BY <1>5, <1>8, ConcatProperties
  <1>11. Len(head) = offset + m
    BY <1>2, <1>8, <1>10
  <1>12. /\ w \in Seq(Byte) /\ Len(w) = Len(head) + Len(back)
         /\ \A i \in 1 .. Len(head) + Len(back) :
              w[i] = IF i <= Len(head) THEN head[i] ELSE back[i - Len(head)]
    <2>1. head \in Seq(Byte) /\ back \in Seq(Byte)
      BY <1>9, <1>10
    <2>2. QED BY <1>6, <2>1, ConcatProperties
  <1>13. PICK end : end = IF offset + m > n THEN offset + m ELSE n
    OBVIOUS
  <1>14. Len(w) = end /\ end \in Nat
    BY <1>7, <1>9, <1>11, <1>12, <1>13
  <1>15. ASSUME NEW i \in 1 .. end
         PROVE  w[i] = IF i \in offset + 1 .. offset + m THEN v[i - offset]
                       ELSE IF i <= n THEN old[i] ELSE 0
    <2>1. w[i] = IF i <= offset + m THEN head[i] ELSE back[i - (offset + m)]
      BY <1>11, <1>12, <1>14
    <2>2. CASE i <= offset
      <3>1. i \in 1 .. Len(front) + Len(v) /\ i <= Len(front) /\ i \in 1 .. offset /\ i <= n
        BY <1>2, <1>7, <1>8, <2>2
      <3>2. head[i] = front[i] /\ front[i] = old[i]
        BY <1>8, <1>10, <3>1
      <3>3. QED BY <1>7, <2>1, <2>2, <3>1, <3>2
    <2>3. CASE ~(i <= offset) /\ i <= offset + m
      <3>1. i \in 1 .. Len(front) + Len(v) /\ ~(i <= Len(front)) /\ i \in offset + 1 .. offset + m
        BY <1>2, <1>7, <1>8, <2>3
      <3>2. head[i] = v[i - offset]
        BY <1>8, <1>10, <3>1
      <3>3. QED BY <2>1, <2>3, <3>1, <3>2
    <2>4. CASE ~(i <= offset + m)
      <3>1. end = n /\ i - (offset + m) \in 1 .. n - (offset + m) /\ i <= n
            /\ i \notin offset + 1 .. offset + m
        BY <1>7, <1>13, <1>14, <2>4
      <3>2. back[i - (offset + m)] = old[offset + m + (i - (offset + m))]
        BY <1>9, <3>1
      <3>3. offset + m + (i - (offset + m)) = i
        BY <1>7
      <3>4. QED BY <2>1, <2>4, <3>1, <3>2, <3>3
    <2>5. QED BY <1>7, <2>2, <2>3, <2>4
  <1>16. w = Overlaid(old, offset, v)
    <2>1. w \in Seq(Byte) /\ Len(w) = end
      BY <1>12, <1>14
    <2>2. end = (IF offset + Len(v) > Len(old) THEN offset + Len(v) ELSE Len(old))
      BY <1>1, <1>2, <1>13
    <2>3. \A i \in 1 .. end :
            w[i] = IF i \in offset + 1 .. offset + Len(v) THEN v[i - offset]
                   ELSE IF i <= Len(old) THEN old[i] ELSE 0
      BY <1>1, <1>2, <1>15
    <2>4. PICK u \in Seq(Byte) : u = w
      BY <2>1
    <2>5. Len(u) = end /\ \A i \in 1 .. end :
            u[i] = IF i \in offset + 1 .. offset + Len(v) THEN v[i - offset]
                   ELSE IF i <= Len(old) THEN old[i] ELSE 0
      BY <2>1, <2>3, <2>4
    <2>6. u = Overlaid(old, offset, v)
      BY <2>2, <2>5, OverlaidIs
    <2>7. QED BY <2>4, <2>6
  <1>17. QED BY <1>3, <1>4, <1>5, <1>6, <1>16

\* What is stored is shorter than a size_t can count, now and after a step.
LEMMA AllOldAreShort == StringsInv => \A k \in Keys : Len(Old(k)) < Modulus
  <1>1. ASSUME StringsInv, NEW k \in Keys
        PROVE  Len(Old(k)) < Modulus
    <2>1. Len(Old(k)) \in Nat /\ MaxBytes \in Nat /\ Modulus \in Nat
      BY <1>1, StoredIs, StringIs, StringsAssumption
    <2>2. Len(Old(k)) <= MaxBytes /\ MaxBytes < Modulus
      BY <1>1, OldIsShort
    <2>3. QED BY <2>1, <2>2
  <1>2. QED BY <1>1

\* And what it writes is.
LEMMA NewAreShort == StringsInv' => \A k \in Keys : Len(Old(k)') < Modulus
  <1>1. (StringsInv => \A k \in Keys : Len(Old(k)) < Modulus)'
    BY AllOldAreShort, PTL
  <1>2. QED BY <1>1

\* Setrange writes over the bytes from its offset on, and pads with zeros to reach it.
LEMMA OverwriteAsPromised ==
  ASSUME StringsInv, StringsInv', NEW k \in Keys, NEW offset \in Nat, NEW v \in Seq(Byte),
         v # <<>>, UpToNul(v) = v, Setrange(k, offset, v)
  PROVE  Promise!Overwrite(k, offset, v)
  <1>1. PICK old : old = Old(k)
    OBVIOUS
  <1>2. PICK ts : ts = 0
    OBVIOUS
  <1>3. old \in Seq(Byte) /\ Len(old) \in Nat /\ Len(v) \in Nat \ {0} /\ Ahead(ts)
    BY <1>1, <1>2, StoredIs, StringIs DEF Ahead
  <1>4. \E w \in Seq(Byte) : Put(k, w, ts) /\ w = Overlaid(old, offset, v)
    <2>1. CASE ~Live(k) \/ offset > Len(old)
      <3>1. Len(old) <= offset
        <4>1. CASE ~Live(k)
          <5>1. old = <<>>
            BY <1>1, <4>1, StoredIs
          <5>2. Len(old) = 0
            BY <5>1
          <5>3. QED BY <5>2
        <4>2. CASE offset > Len(old)
          BY <1>3, <4>2
        <4>3. QED BY <2>1, <4>1, <4>2
      <3>2. PICK w : w = old \o Zeros(offset - Len(old)) \o v
        OBVIOUS
      <3>3. w \in Seq(Byte) /\ w = Overlaid(old, offset, v)
        BY <1>3, <3>1, <3>2, PaddedIs
      <3>4. Put(k, w, ts)
        <4>1. CASE Live(k) /\ offset <= Len(old)
          BY <1>3, <2>1, <4>1
        <4>2. CASE ~(Live(k) /\ offset <= Len(old))
          BY <1>1, <1>2, <3>2, <4>2 DEF Setrange
        <4>3. QED BY <4>1, <4>2
      <3>5. QED BY <3>3, <3>4
    <2>2. CASE Live(k) /\ ~(offset > Len(old))
      <3>1. PICK front : front = SubSeq(old, 1, offset)
        OBVIOUS
      <3>2. PICK back : back = TailBehind(old, offset, v)
        OBVIOUS
      <3>3. PICK head : head = front \o v
        OBVIOUS
      <3>4. PICK w : w = head \o back
        OBVIOUS
      <3>5. offset <= Len(old)
        BY <1>3, <2>2
      <3>6. old # <<>> /\ Put(k, w, ts)
        BY <1>1, <1>2, <2>2, <3>1, <3>2, <3>3, <3>4 DEF Setrange
      <3>7. front \in Seq(Byte) /\ Len(front) = offset
        <4>1. PICK one : one = 1
          OBVIOUS
        <4>2. one \in Nat \ {0} /\ offset \in Int
          BY <4>1
        <4>3. front \in Seq(Byte) /\ Len(front) = IF one <= offset THEN offset - one + 1 ELSE 0
          BY <1>3, <3>1, <3>5, <4>1, <4>2, PartIs
        <4>4. QED BY <4>1, <4>3
      <3>8. back \in Seq(Byte) /\ Len(back) \in Nat
        BY <1>3, <3>2, TailBehindIs, StringIs
      <3>9. head \in Seq(Byte) /\ Len(head) = offset + Len(v)
        <4>1. head \in Seq(Byte) /\ Len(head) = Len(front) + Len(v)
          BY <3>3, <3>7, ConcatProperties
        <4>2. QED BY <3>7, <4>1
      <3>10. w \in Seq(Byte) /\ Len(w) = Len(head) + Len(back)
        BY <3>4, <3>8, <3>9, ConcatProperties
      <3>11. Old(k)' = w
        BY <1>3, <3>6, <3>10, PutBecomes
      <3>12. Len(w) < Modulus
        BY <3>11, NewAreShort
      <3>13. Len(old) < Modulus
        BY <1>1, AllOldAreShort
      <3>14. offset + Len(v) - 1 < Modulus
        BY <1>3, <3>8, <3>9, <3>10, <3>12, StringsAssumption
      <3>15. w = Overlaid(old, offset, v)
        BY <1>3, <3>1, <3>2, <3>3, <3>4, <3>5, <3>6, <3>13, <3>14, OverwrittenIs
      <3>16. QED BY <3>6, <3>10, <3>15
    <2>3. QED BY <2>1, <2>2
  <1>5. PICK w \in Seq(Byte) : Put(k, w, ts) /\ w = Overlaid(old, offset, v)
    BY <1>4
  <1>6. Promise!Become(k, w, ts)
    BY <1>3, <1>5, PutBecomes
  <1>7. Promise!Become(k, Overlaid(Promise!Text(k), offset, v), 0)
    BY <1>1, <1>2, <1>5, <1>6, TextIs
  <1>8. QED BY <1>7, Zenon DEF Promise!Overwrite, Overlaid

----------------------------------------------------------------------------
(* Numbers.                                                                 *)

\* The digits of a number stand for it.
LEMMA DigitsCount ==
  ASSUME NEW n \in Nat, NEW u, CountsDigits(u, DigitsOf(n))
  PROVE  u[Len(DigitsOf(n))] = n
  <1>1. PICK d : d = DigitsOf(n)
    OBVIOUS
  <1>2. PICK s : s = SizeOf(n)
    OBVIOUS
  <1>3. s \in Nat \ {0} /\ n < TwoTo[s]
    BY <1>2, SizeIs DEF IsSize
  <1>4. d \in Seq(Byte) /\ Len(d) = s /\ \A i \in 1 .. s : d[i] = Bit(n, s - i) + 1
    BY <1>1, <1>2, DigitsOfAre
  <1>5. /\ u \in [0 .. s -> Int] /\ u[0] = 0
        /\ \A i \in 0 .. s - 1 : u[i + 1] = 2 * u[i] + d[i + 1] - 1
    BY <1>1, <1>4 DEF CountsDigits
  <1> DEFINE N == {i \in Nat : i <= s => u[i] = n \div TwoTo[s - i]}
  <1>6. 0 \in N
    <2>1. PICK p : p = TwoTo[s]
      OBVIOUS
    <2>2. p \in Nat \ {0} /\ n < p
      BY <1>3, <2>1, TwoToIs
    <2>3. n \div p = 0
      <3>1. PICK q : q = 0
        OBVIOUS
      <3>2. q \in Int /\ n \in 0 .. p - 1 /\ p * q + n = n
        BY <2>2, <3>1
      <3>3. (p * q + n) \div p = q
        BY <2>2, <3>2, Divides
      <3>4. QED BY <3>1, <3>2, <3>3
    <2>4. s - 0 = s
      BY <1>3
    <2>5. QED BY <1>5, <2>1, <2>3, <2>4
  <1>7. ASSUME NEW i \in Nat, i \in N
        PROVE  i + 1 \in N
    <2> SUFFICES ASSUME i + 1 <= s
                 PROVE  u[i + 1] = n \div TwoTo[s - (i + 1)]
      OBVIOUS
    <2>1. PICK j : j = s - (i + 1)
      OBVIOUS
    <2>2. j \in Nat /\ i \in 0 .. s - 1 /\ i <= s /\ i + 1 \in 1 .. s /\ s - i = j + 1
      BY <1>3, <2>1
    <2>3. PICK p : p = TwoTo[j]
      OBVIOUS
    <2>4. p \in Nat \ {0} /\ TwoTo[s - i] = 2 * p
      BY <2>2, <2>3, TwoToIs
    <2>5. u[i] = n \div (2 * p)
      BY <1>7, <2>2, <2>4
    <2>6. d[i + 1] = ((n \div p) % 2) + 1
      BY <1>4, <2>1, <2>2, <2>3 DEF Bit
    <2>7. n \div p = 2 * (n \div (2 * p)) + ((n \div p) % 2)
      BY <2>4, RemainderGrows
    <2>8. PICK a : a = n \div (2 * p)
      OBVIOUS
    <2>9. PICK b : b = (n \div p) % 2
      OBVIOUS
    <2>10. a \in Int /\ b \in Int
      <3>1. n \div p \in Int /\ n \div (2 * p) \in Int
        <4>1. n \in Int /\ 2 * p \in Nat \ {0}
          BY <2>4
        <4>2. QED BY <2>4, <4>1, Parts
      <3>2. QED BY <2>8, <2>9, <3>1
    <2>11. u[i + 1] = 2 * a + (b + 1) - 1
      BY <1>5, <2>2, <2>5, <2>6, <2>8, <2>9
    <2>12. n \div p = 2 * a + b
      BY <2>7, <2>8, <2>9
    <2>13. u[i + 1] = n \div p
      BY <2>10, <2>11, <2>12
    <2>14. QED BY <2>1, <2>3, <2>13
  <1> HIDE DEF N
  <1>8. Nat \subseteq N
    BY <1>6, <1>7, AllNumbers
  <1>9. u[s] = n \div TwoTo[s - s]
    BY <1>3, <1>8 DEF N
  <1>10. TwoTo[s - s] = 1
    BY <1>3, TwoToIs
  <1>11. QED BY <1>1, <1>4, <1>9, <1>10

\* A numeral stands for the number that it is of.
LEMMA NumeralCounts ==
  ASSUME NEW n \in Int
  PROVE  NumberOf(Numeral(n)) = n
  <1>1. CASE ~(n < 0)
    <2>1. n \in Nat
      BY <1>1
    <2>2. PICK d : d = DigitsOf(n)
      OBVIOUS
    <2>3. Numeral(n) = d
      BY <1>1, <2>2, NumeralIs
    <2>4. d \in Seq(Byte) /\ d # <<>> /\ d[1] \in {1, 2}
      <3>1. d \in Seq(Byte) /\ Len(d) = SizeOf(n) /\ SizeOf(n) \in Nat \ {0}
            /\ \A i \in 1 .. SizeOf(n) : d[i] \in {1, 2}
        BY <2>1, <2>2, DigitsOfAre, SizeIs
      <3>2. 1 \in 1 .. SizeOf(n)
        BY <3>1
      <3>3. QED BY <3>1, <3>2, StringIs
    <2>5. Digits(d) = d
      BY <2>4 DEF Digits, Minus
    <2>6. PICK u : /\ CountsDigits(u, Digits(d))
                   /\ NumberOf(d) = IF Digits(d) = d THEN u[Len(Digits(d))]
                                                     ELSE -u[Len(Digits(d))]
      BY <2>4, NumberOfCounts
    <2>7. NumberOf(d) = u[Len(d)] /\ CountsDigits(u, d)
      BY <2>5, <2>6
    <2>8. u[Len(d)] = n
      BY <2>1, <2>2, <2>7, DigitsCount
    <2>9. QED BY <2>3, <2>7, <2>8
  <1>2. CASE n < 0
    <2>1. PICK m : m = -n
      OBVIOUS
    <2>2. m \in Nat
      BY <1>2, <2>1
    <2>3. PICK d : d = DigitsOf(m)
      OBVIOUS
    <2>4. PICK v : v = <<Minus>> \o d
      OBVIOUS
    <2>5. Numeral(n) = v
      BY <1>2, <2>1, <2>3, <2>4, NumeralIs
    <2>6. d \in Seq(Byte)
      BY <2>2, <2>3, DigitsOfAre
    <2>7. <<Minus>> \in Seq(Byte) /\ Len(<<Minus>>) = 1 /\ <<Minus>>[1] = Minus
      BY DigitsAreBytes DEF Minus
    <2>8. PICK sign : sign = <<Minus>>
      OBVIOUS
    <2>9. /\ v \in Seq(Byte) /\ Len(v) = Len(sign) + Len(d)
          /\ \A i \in 1 .. Len(sign) + Len(d) :
               v[i] = IF i <= Len(sign) THEN sign[i] ELSE d[i - Len(sign)]
      BY <2>4, <2>6, <2>7, <2>8, ConcatProperties
    <2>10. Len(d) \in Nat /\ Len(sign) = 1 /\ sign[1] = Minus
      BY <2>6, <2>7, <2>8, StringIs
    <2>11. v # <<>> /\ v[1] = Minus
      <3>1. 1 \in 1 .. Len(sign) + Len(d) /\ 1 <= Len(sign) /\ Len(v) # 0
        BY <2>9, <2>10
      <3>2. QED BY <2>9, <2>10, <3>1, StringIs
    <2>12. Tail(v) = d
      <3>1. /\ Tail(v) \in Seq(Byte) /\ Len(Tail(v)) = Len(v) - 1
            /\ \A i \in 1 .. Len(Tail(v)) : Tail(v)[i] = v[i + 1]
        BY <2>9, <2>11, HeadTailProperties
      <3>2. Len(Tail(v)) = Len(d)
        BY <2>9, <2>10, <3>1
      <3>3. ASSUME NEW i \in 1 .. Len(d)
            PROVE  Tail(v)[i] = d[i]
        <4>1. i + 1 \in 1 .. Len(sign) + Len(d) /\ ~(i + 1 <= Len(sign)) /\ i + 1 - Len(sign) = i
          BY <2>10
        <4>2. QED BY <2>9, <3>1, <3>2, <4>1
      <3>4. QED BY <2>6, <3>1, <3>2, <3>3, SeqEqual
    <2>13. Digits(v) = d /\ d # v
      <3>1. Digits(v) = d
        BY <2>11, <2>12 DEF Digits
      <3>2. Len(d) # Len(v)
        BY <2>9, <2>10
      <3>3. QED BY <3>1, <3>2
    <2>14. PICK u : /\ CountsDigits(u, Digits(v))
                    /\ NumberOf(v) = IF Digits(v) = v THEN u[Len(Digits(v))]
                                                      ELSE -u[Len(Digits(v))]
      BY <2>9, NumberOfCounts
    <2>15. NumberOf(v) = -u[Len(d)] /\ CountsDigits(u, d)
      BY <2>13, <2>14
    <2>16. u[Len(d)] = m
      BY <2>2, <2>3, <2>15, DigitsCount
    <2>17. QED BY <2>1, <2>5, <2>15, <2>16
  <1>3. QED BY <1>1, <1>2

\* No string counts as 0, and none as more than an int64_t holds.
LEMMA IntegerRange ==
  ASSUME NEW v \in Seq(Byte)
  PROVE  /\ Integer(v) \in -MaxInt - 1 .. MaxInt
         /\ v = <<>> => Integer(v) = 0
  <1>1. MaxInt \in Nat
    BY StringsAssumption
  <1>2. PICK w : w = UpToNul(v)
    OBVIOUS
  <1>3. NumberOf(w) \in Int
    BY <1>2, UpToNulIs, NumberIs
  <1>4. Integer(v) \in -MaxInt - 1 .. MaxInt
    BY <1>1, <1>2, <1>3 DEF Integer
  <1>5. ASSUME v = <<>>
        PROVE  Integer(v) = 0
    <2>1. {i \in DOMAIN v : v[i] = 0} = {}
      BY <1>5
    <2>2. w = v
      BY <1>2, <2>1 DEF UpToNul
    <2>3. Digits(v) = v /\ Len(v) = 0
      BY <1>5 DEF Digits
    <2>4. PICK u : /\ CountsDigits(u, Digits(v))
                   /\ NumberOf(v) = IF Digits(v) = v THEN u[Len(Digits(v))]
                                                     ELSE -u[Len(Digits(v))]
      BY NumberOfCounts
    <2>5. NumberOf(w) = 0
      BY <2>2, <2>3, <2>4 DEF CountsDigits
    <2>6. QED BY <1>1, <1>2, <2>5 DEF Integer
  <1>6. QED BY <1>4, <1>5

\* Incrby and Decrby leave the numeral of the sum, which is in range, and keep the
\* deadline.
LEMMA IncrAsPromised ==
  ASSUME StringsInv, NEW k \in Keys, NEW n \in Int, NEW by \in {-1, 1},
         Live(k) \/ by * n <= MaxInt,
         (by = 1 /\ Incrby(k, n)) \/ (by = -1 /\ Decrby(k, n)),
         NEW sum, sum = Integer(Old(k)) + by * n
  PROVE  /\ NumberOf(Old(k)') = sum
         /\ Get(k) # NoValue => sum \in -MaxInt - 1 .. MaxInt
         /\ Promise!Become(k, Old(k)', OldTimestamp(k))
  <1>1. PICK x : x = Integer(Old(k))
    OBVIOUS
  <1>2. PICK ts : ts = OldTimestamp(k)
    OBVIOUS
  <1>3. /\ x \in -MaxInt - 1 .. MaxInt /\ MaxInt \in Nat
        /\ ~Live(k) => x = 0 /\ ts = 0
        /\ Live(k) <=> Get(k) # NoValue
        /\ Ahead(ts)
    <2>1. Old(k) \in Seq(Byte) /\ (~Live(k) => Old(k) = <<>>) /\ (Live(k) <=> Get(k) # NoValue)
      BY StoredIs
    <2>2. x \in -MaxInt - 1 .. MaxInt /\ (~Live(k) => x = 0)
      BY <1>1, <2>1, IntegerRange
    <2>3. ~Live(k) => ts = 0
      BY <1>2 DEF OldTimestamp
    <2>4. QED BY <1>2, <2>1, <2>2, <2>3, OldTimestampIs, StringsAssumption
  <1>4. sum \in Int
    BY <1>1, <1>3
  <1>5. Put(k, Numeral(sum), ts) /\ (Live(k) => sum \in -MaxInt - 1 .. MaxInt)
    <2>1. CASE by = 1 /\ Incrby(k, n)
      <3>1. sum = x + n
        BY <1>1, <1>3, <2>1
      <3>2. CASE ~Live(k)
        <4>1. sum = n
          BY <1>3, <3>1, <3>2
        <4>2. QED BY <1>3, <2>1, <3>2, <4>1 DEF Incrby
      <3>3. CASE Live(k)
        <4>1. /\ n >= 0 => MaxInt - n >= x
              /\ n < 0  => -MaxInt - 1 - n <= x
              /\ Put(k, Numeral(x + n), ts)
          BY <1>1, <1>2, <2>1, <3>3 DEF Incrby
        <4>2. QED BY <1>3, <3>1, <4>1
      <3>4. QED BY <3>2, <3>3
    <2>2. CASE by = -1 /\ Decrby(k, n)
      <3>1. sum = x - n
        BY <1>1, <1>3, <2>2
      <3>2. CASE ~Live(k)
        <4>1. sum = -n
          <5>1. x = 0
            BY <1>3, <3>2
          <5>2. 0 - n = -n
            OBVIOUS
          <5>3. QED BY <3>1, <5>1, <5>2
        <4>2. n # -MaxInt - 1
          BY <1>3, <2>2, <3>2
        <4>3. QED BY <1>3, <2>2, <3>2, <4>1, <4>2 DEF Decrby, Negations
      <3>3. CASE Live(k)
        <4>1. /\ n >= 0 => -MaxInt - 1 + n <= x
              /\ n < 0  => MaxInt + n >= x
              /\ Put(k, Numeral(x - n), ts)
          BY <1>1, <1>2, <2>2, <3>3 DEF Decrby
        <4>2. QED BY <1>3, <3>1, <4>1
      <3>4. QED BY <3>2, <3>3
    <2>3. QED BY <2>1, <2>2
  <1>6. PICK w : w = Numeral(sum)
    OBVIOUS
  <1>7. w \in Seq(Byte) /\ NumberOf(w) = sum
    BY <1>4, <1>6, NumeralIsString, NumeralCounts
  <1>8. Promise!Become(k, w, ts) /\ Old(k)' = w
    BY <1>3, <1>5, <1>6, <1>7, PutBecomes
  <1>9. QED BY <1>2, <1>3, <1>5, <1>7, <1>8

----------------------------------------------------------------------------
(* What calls in several steps promise.                                     *)

\* A step that ends a call and changes a string is its last.
LEMMA FinishIs ==
  ASSUME StringsInv, Next, pending # NoCall, pending' = NoCall, strings' # strings
  PROVE  Finish
  <1>1. ~DeleteBatch
    BY DeleteBatchKeeps, StringsAssumption
  <1>2. QED BY <1>1 DEF Next, Handlers, Call, Begin, ReadNext, Tick, Compact, Reopen

\* What a call that still is true has read: what Seen finds at each of its keys.
SawAll(call, m, read) ==
  /\ call \in Calls
  /\ m \in Nat \ {0}
  /\ Len(read) = m /\ DOMAIN read = 1 .. m
  /\ Len(call.keys) = m /\ DOMAIN call.keys = 1 .. m
  /\ \A i \in 1 .. m : call.keys[i] \in Keys /\ read[i] = Seen(call.op, call.keys[i])

\* A call that finishes has looked at all its keys.
LEMMA SawAllIs ==
  ASSUME StringsInv, pending # NoCall, Finish, StillTrue,
         NEW call, call = pending.call, NEW read, read = pending.read
  PROVE  SawAll(call, Len(read), read)
  <1>1. PICK n : n = Len(call.keys)
    OBVIOUS
  <1>2. PICK m : m = Len(read)
    OBVIOUS
  <1>3. /\ call \in Calls /\ n \in Nat \ {0} /\ DOMAIN call.keys = 1 .. n
        /\ \A i \in 1 .. n : call.keys[i] \in Keys
        /\ m \in 1 .. n /\ DOMAIN read = 1 .. m
    BY <1>1, <1>2, PendingIs
  <1>4. n - m = 0
    BY <1>1, <1>2, Zenon DEF Finish, Unread
  <1>5. m = n
    BY <1>3, <1>4
  <1>6. \A i \in DOMAIN read : read[i] = Seen(call.op, call.keys[i])
    BY DEF StillTrue
  <1>7. QED BY <1>1, <1>2, <1>3, <1>5, <1>6 DEF SawAll

\* Where its reads still hold, they are what the keys hold now.
LEMMA SourcesSeen ==
  ASSUME StringsInv, NEW call, NEW m, NEW read, SawAll(call, m, read),
         call.op \notin {"MSetnx", "PKPatternMatchDel"}
  PROVE  /\ \A i \in 1 .. m : /\ call.keys[i] \in Keys
                              /\ read[i] = Get(call.keys[i])
                              /\ OrEmpty(read[i]) = Old(call.keys[i])
                              /\ Promise!Text(call.keys[i]) = Old(call.keys[i])
                              /\ Old(call.keys[i]) \in Seq(Byte)
                              /\ read[i] \in Seq(Byte) \cup {NoValue}
         /\ Sources(read) = [i \in 1 .. m |-> Old(call.keys[i])]
         /\ Sources(read) \in [1 .. m -> Seq(Byte)]
  <1>1. \A i \in 1 .. m : call.keys[i] \in Keys /\ read[i] = Get(call.keys[i])
    BY SeenIs DEF SawAll
  <1>2. \A i \in 1 .. m : OrEmpty(read[i]) = Old(call.keys[i])
    BY <1>1 DEF Old
  <1>3. \A i \in 1 .. m : /\ Promise!Text(call.keys[i]) = Old(call.keys[i])
                          /\ Old(call.keys[i]) \in Seq(Byte)
                          /\ read[i] \in Seq(Byte) \cup {NoValue}
    BY <1>1, TextIs, StoredIs
  <1>4. Sources(read) = [i \in 1 .. m |-> Old(call.keys[i])]
    BY <1>2 DEF Sources, SawAll
  <1>5. QED BY <1>1, <1>2, <1>3, <1>4

\* MSetnx sets all its keys if none of them holds a string.
LEMMA MSetnxAsPromised ==
  ASSUME StringsInv, NEW call, NEW m, NEW read, SawAll(call, m, read), call.op = "MSetnx",
         MSetnx(call, read), strings' # strings
  PROVE  Promise!SetAllIfNone(call.put)
  <1>1. PICK put : put = call.put
    OBVIOUS
  <1>2. PICK keys : keys = call.keys
    OBVIOUS
  <1>3. /\ DOMAIN put = {keys[i] : i \in 1 .. m}
        /\ \A k \in DOMAIN put : put[k] \in Seq(Byte)
    BY <1>1, <1>2, CallsAssumption DEF SawAll
  <1>4. PICK ts : ts = 0
    OBVIOUS
  <1>5. (\A i \in 1 .. m : read[i] = NoValue) /\ PutAll(put, ts)
    BY <1>1, <1>4 DEF MSetnx, MSet, SawAll
  <1>6. \A i \in 1 .. m : keys[i] \in Keys /\ Get(keys[i]) = NoValue
    BY <1>2, <1>5, SeenIs DEF SawAll
  <1>7. \A k \in DOMAIN put : ~Promise!Held(k)
    BY <1>3, <1>6, TextIs
  <1>8. Ahead(ts)
    BY <1>4 DEF Ahead
  <1>9. /\ Contents' = [j \in Keys |-> IF j \in DOMAIN put THEN put[j] ELSE Get(j)]
        /\ Deadlines' = [j \in Keys |-> IF j \in DOMAIN put THEN ts ELSE Deadline(j)]
        /\ now' = now
    BY <1>3, <1>5, <1>8, PutAllBecomes
  <1>10. Promise!BecomeAll(put, ts)
    BY <1>9 DEF Promise!BecomeAll, Contents, Deadlines, Deadline
  <1>11. QED BY <1>1, <1>4, <1>7, <1>10, Zenon DEF Promise!SetAllIfNone, Promise!SetAll

\* A batch of PKPatternMatchDel deletes the keys that fill it.
LEMMA DeleteBatchAsPromised ==
  ASSUME StringsInv, pending # NoCall, DeleteBatch
  PROVE  Promise!Delete({pending.call.keys[i] : i \in Batch})
  <1>1. PICK D : D = {pending.call.keys[i] : i \in Batch}
    OBVIOUS
  <1>2. Delete(D)
    BY <1>1 DEF DeleteBatch
  <1>3. /\ now' = now
        /\ \A k \in Keys : k \in D => Get(k)' = NoValue /\ Deadline(k)' = 0
        /\ \A k \in Keys : k \notin D => Get(k)' = Get(k) /\ Deadline(k)' = Deadline(k)
    BY <1>2, DeleteBecomes
  <1>4. QED BY <1>1, <1>3 DEF Promise!Delete, Deadline

\* PKPatternMatchDel deletes the keys that matched.
LEMMA PKPatternMatchDelAsPromised ==
  ASSUME StringsInv, NEW call, NEW m, NEW read, SawAll(call, m, read),
         PKPatternMatchDel(call, read)
  PROVE  Promise!Delete({call.keys[i] : i \in DOMAIN call.keys})
  <1>1. PICK D : D = {call.keys[i] : i \in {i \in DOMAIN read : read[i] # NoValue}}
    OBVIOUS
  <1>2. PICK E : E = {call.keys[i] : i \in DOMAIN call.keys}
    OBVIOUS
  <1>3. \A i \in 1 .. m : read[i] = NoValue => Get(call.keys[i]) = NoValue
    BY SeenIs DEF SawAll
  <1>4. D \subseteq E
    BY <1>1, <1>2 DEF SawAll
  <1>5. \A k \in E : k \in Keys /\ (k \in D \/ Get(k) = NoValue)
    BY <1>1, <1>2, <1>3 DEF SawAll
  <1>6. \A k \in Keys : Get(k) = NoValue => Deadline(k) = 0
    BY StoredIs DEF Deadline
  <1>7. Delete(D)
    BY <1>1 DEF PKPatternMatchDel
  <1>8. /\ now' = now
        /\ \A k \in Keys : k \in D => Get(k)' = NoValue /\ Deadline(k)' = 0
        /\ \A k \in Keys : k \notin D => Get(k)' = Get(k) /\ Deadline(k)' = Deadline(k)
    BY <1>7, DeleteBecomes
  <1>9. \A k \in Keys : /\ Get(k)' = IF k \in E THEN NoValue ELSE Get(k)
                        /\ Deadline(k)' = IF k \in E THEN 0 ELSE Deadline(k)
    BY <1>4, <1>5, <1>6, <1>8
  <1>10. Promise!Delete(E)
    BY <1>8, <1>9 DEF Promise!Delete, Deadline
  <1>11. QED BY <1>2, <1>10

\* A set of one key's string, and no deadline.
LEMMA SetBecomes ==
  ASSUME StringsInv, NEW k \in Keys, NEW v \in Seq(Byte), Set(k, v)
  PROVE  Promise!Become(k, v, 0) /\ Get(k)' = v
  <1>1. PICK ts : ts = 0
    OBVIOUS
  <1>2. Ahead(ts) /\ Put(k, v, ts)
    BY <1>1 DEF Ahead, Set
  <1>3. Promise!Become(k, v, ts) /\ Get(k)' = v
    BY <1>2, PutBecomes
  <1>4. QED BY <1>1, <1>3

\* The bits at offset j of the m sources.
ColumnOf(src, m, j) == [i \in 1 .. m |-> Promise!BitAt(src[i], j)]

\* Each bit of BitOpOperate is what Combine makes of those of the sources.
LEMMA BitOpBits ==
  ASSUME NEW how \in BitOperations, NEW m \in Nat \ {0}, NEW src \in [1 .. m -> Seq(Byte)],
         NEW new, new = BitOpOperate(how, src), NEW j \in Promise!Bits(new)
  PROVE  Promise!BitAt(new, j) = Combine(how, ColumnOf(src, m, j))
  <1>1. /\ new \in Seq(Byte) /\ Len(new) = LongestOf(src)
        /\ \A i \in 1 .. LongestOf(src) :
             new[i] = OperateByte(how, [n \in 1 .. m |-> ByteAt(src[n], i)])
    BY BitOpOperateIs
  <1>2. PICK at : at = ByteOffset(j)
    OBVIOUS
  <1>3. PICK b : b = BitOffset(j)
    OBVIOUS
  <1>4. j \in Nat
    BY <1>1, StringIs DEF Promise!Bits
  <1>5. at \in Nat \ {0} /\ b \in 0 .. Width - 1
    BY <1>2, <1>3, <1>4, OffsetIs
  <1>6. Promise!BitAt(new, j) = Bit(ByteAt(new, at), b) /\ at <= Len(new) /\ at \in 1 .. Len(new)
    <2>1. Promise!BitAt(new, j) = Bit(ByteAt(new, at), b) /\ at <= Len(new)
      BY <1>1, <1>2, <1>3, <1>4, BitAtIs
    <2>2. Len(new) \in Nat
      BY <1>1, StringIs
    <2>3. QED BY <1>5, <2>1, <2>2
  <1>7. PICK bytes : bytes = [n \in 1 .. m |-> ByteAt(src[n], at)]
    OBVIOUS
  <1>8. bytes \in [1 .. m -> Byte]
    <2>1. \A n \in 1 .. m : ByteAt(src[n], at) \in Byte
      BY <1>5, ByteAtIs
    <2>2. QED BY <1>7, <2>1
  <1>9. ByteAt(new, at) = OperateByte(how, bytes)
    BY <1>1, <1>6, <1>7 DEF ByteAt
  <1>10. Bit(OperateByte(how, bytes), b) = Combine(how, BitsAt(bytes, b))
    BY <1>5, <1>8, OperateByteIs
  <1>11. BitsAt(bytes, b) = ColumnOf(src, m, j)
    <2>1. \A i \in 1 .. m : Promise!BitAt(src[i], j) = Bit(ByteAt(src[i], at), b)
      BY <1>2, <1>3, <1>4, BitAtIs
    <2>2. QED BY <1>7, <2>1 DEF BitsAt, ColumnOf
  <1>12. QED BY <1>6, <1>9, <1>10, <1>11

\* dst comes to hold what BitOp makes of the strings at keys.
BitOpPromised(dst, keys, how) ==
  Promise!BitOp(dst, keys, LAMBDA bits : Combine(how, bits))

\* BitOp stores the combination of its sources.
LEMMA BitOpAsPromised ==
  ASSUME StringsInv, NEW call, NEW m, NEW read, SawAll(call, m, read), call.op = "BitOp",
         BitOp(call, read)
  PROVE  BitOpPromised(call.dst, call.keys, call.how)
  <1>1. PICK src : src = Sources(read)
    OBVIOUS
  <1>2. PICK how : how = call.how
    OBVIOUS
  <1>3. PICK keys : keys = call.keys
    OBVIOUS
  <1>4. PICK dst : dst = call.dst
    OBVIOUS
  <1>5. PICK new : new = BitOpOperate(how, src)
    OBVIOUS
  <1>6. /\ how \in BitOperations /\ dst \in Keys /\ m \in Nat \ {0} /\ DOMAIN keys = 1 .. m
    BY <1>2, <1>3, <1>4, CallsAssumption DEF SawAll
  <1>7. /\ src \in [1 .. m -> Seq(Byte)]
        /\ \A i \in 1 .. m : src[i] = Promise!Text(keys[i])
    <2>1. call.op \notin {"MSetnx", "PKPatternMatchDel"}
      OBVIOUS
    <2>2. /\ \A i \in 1 .. m : Promise!Text(call.keys[i]) = Old(call.keys[i])
          /\ Sources(read) = [i \in 1 .. m |-> Old(call.keys[i])]
          /\ Sources(read) \in [1 .. m -> Seq(Byte)]
      BY <2>1, SourcesSeen
    <2>3. QED BY <1>1, <1>3, <2>2
  <1>8. new \in Seq(Byte) /\ Len(new) = LongestOf(src)
    BY <1>5, <1>6, <1>7, BitOpOperateIs
  <1>9. Set(dst, new)
    BY <1>1, <1>2, <1>4, <1>5 DEF BitOp, Sources
  <1>10. Promise!Become(dst, new, 0) /\ Get(dst)' = new
    BY <1>6, <1>8, <1>9, SetBecomes
  <1>11. /\ \A n \in DOMAIN keys : Len(Promise!Text(keys[n])) <= Len(new)
         /\ \E n \in DOMAIN keys : Len(Promise!Text(keys[n])) = Len(new)
    BY <1>6, <1>7, <1>8, LongestOfIs
  <1>12. ASSUME NEW j \in Promise!Bits(new)
         PROVE  Promise!BitAt(new, j) = Combine(how, ColumnOf(src, m, j))
    <2>1. how \in BitOperations /\ m \in Nat \ {0} /\ src \in [1 .. m -> Seq(Byte)]
      BY <1>6, <1>7
    <2>2. QED BY <1>5, <2>1, BitOpBits
  <1>13. ASSUME NEW j \in Promise!Bits(new)
         PROVE  Promise!BitAt(new, j)
                  = Combine(how, [n \in DOMAIN keys |-> Promise!BitAt(Promise!Text(keys[n]), j)])
    <2>1. [n \in DOMAIN keys |-> Promise!BitAt(Promise!Text(keys[n]), j)]
            = ColumnOf(src, m, j)
      BY <1>6, <1>7 DEF ColumnOf
    <2>2. QED BY <1>12, <2>1
  <1>14. [k \in Keys |-> Get(k)]'[dst] = new
    BY <1>6, <1>10
  <1>15. BitOpPromised(dst, keys, how)
    BY <1>10, <1>11, <1>13, <1>14, Zenon DEF BitOpPromised, Promise!BitOp
  <1>16. QED BY <1>2, <1>3, <1>4, <1>15

----------------------------------------------------------------------------
(* What sketches promise.                                                   *)

\* The registers of a sketch are the ranks that it holds.
LEMMA RegistersHold ==
  ASSUME NEW v \in Seq(Byte), IsSketch(v), NEW r \in RegistersOf(v)
  PROVE  r \in Sketch /\ \A i \in 1 .. Registers : r[i] = Promise!RankAt(v, i)
  <1>1. r \in Sketch
    BY RegistersAre
  <1>2. CASE v = <<>>
    <2>1. r = Zeros(Registers)
      BY <1>2 DEF RegistersOf
    <2>2. DOMAIN v = {}
      BY <1>2
    <2>3. QED BY <1>1, <2>1, <2>2 DEF Zeros, Promise!RankAt
  <1>3. CASE v # <<>>
    <2>1. DOMAIN v = 1 .. Registers
      BY <1>3, StringIs DEF IsSketch
    <2>2. \A i \in DOMAIN v \cap 1 .. Registers : r[i] = v[i]
      BY <1>3 DEF RegistersOf
    <2>3. QED BY <1>1, <2>1, <2>2 DEF Promise!RankAt
  <1>4. QED BY <1>2, <1>3

\* There is one greatest member.
LEMMA GreatestIs ==
  ASSUME NEW B \in SUBSET Int, NEW b \in B, \A x \in B : x <= b
  PROVE  Promise!Greatest(B) = b
  <1>1. PICK g : g = Promise!Greatest(B)
    OBVIOUS
  <1>2. g \in B /\ \A x \in B : x <= g
    BY <1>1 DEF Promise!Greatest
  <1>3. QED BY <1>1, <1>2

\* PfAdd raises each register to the greatest rank observed.
LEMMA PfAddAsPromised ==
  ASSUME StringsInv, NEW call, NEW m, NEW read, SawAll(call, m, read), call.op = "PfAdd",
         call.hashes # {}, IsSketch(Old(call.keys[1])), PfAdd(call, read)
  PROVE  Promise!Observe(call.keys[1], Registers, call.hashes)
  <1>1. PICK k : k = call.keys[1]
    OBVIOUS
  <1>2. PICK hashes : hashes = call.hashes
    OBVIOUS
  <1>3. PICK old : old = Old(k)
    OBVIOUS
  <1>4. hashes \in SUBSET ((1 .. Registers) \X Byte) /\ 1 \in 1 .. m
    BY <1>2, CallsAssumption DEF SawAll
  <1>5. k \in Keys /\ OrEmpty(read[1]) = old /\ Promise!Text(k) = old /\ old \in Seq(Byte)
    <2>1. call.op \notin {"MSetnx", "PKPatternMatchDel"}
      OBVIOUS
    <2>2. \A i \in 1 .. m : /\ call.keys[i] \in Keys
                            /\ OrEmpty(read[i]) = Old(call.keys[i])
                            /\ Promise!Text(call.keys[i]) = Old(call.keys[i])
                            /\ Old(call.keys[i]) \in Seq(Byte)
      BY <2>1, SourcesSeen
    <2>3. QED BY <1>1, <1>3, <1>4, <2>2
  <1>6. PICK r \in RegistersOf(old) : Set(k, Add(r, hashes))
    BY <1>1, <1>2, <1>5 DEF PfAdd
  <1>7. r \in Sketch /\ \A i \in 1 .. Registers : r[i] = Promise!RankAt(old, i)
    BY <1>1, <1>3, <1>5, RegistersHold
  <1>8. PICK new : new = Add(r, hashes)
    OBVIOUS
  <1>9. /\ new \in Sketch
        /\ \A i \in 1 .. Registers :
             LET ranks == {h[2] : h \in {h \in hashes : h[1] = i}} \cup {r[i]}
             IN  new[i] \in ranks /\ \A rank \in ranks : rank <= new[i]
    BY <1>4, <1>7, <1>8, AddIs
  <1>10. ASSUME NEW i \in 1 .. Registers
         PROVE  new[i] = Promise!Greatest({Promise!RankAt(old, i)}
                                            \cup {h[2] : h \in {h \in hashes : h[1] = i}})
    <2>1. PICK B : B = {Promise!RankAt(old, i)} \cup {h[2] : h \in {h \in hashes : h[1] = i}}
      OBVIOUS
    <2>2. PICK A : A = {h[2] : h \in {h \in hashes : h[1] = i}} \cup {r[i]}
      OBVIOUS
    <2>3. A = B
      BY <1>7, <2>1, <2>2
    <2>4. new[i] \in A /\ \A rank \in A : rank <= new[i]
      BY <1>9, <2>2
    <2>5. A \in SUBSET Int
      <3>1. r[i] \in Int
        BY <1>7, ByteIsNat DEF Sketch
      <3>2. \A h \in hashes : h[2] \in Int
        BY <1>4, ByteIsNat
      <3>3. QED BY <2>2, <3>1, <3>2
    <2>6. QED BY <2>1, <2>3, <2>4, <2>5, GreatestIs
  <1>11. new = [i \in 1 .. Registers |-> Promise!Greatest({Promise!RankAt(old, i)}
                  \cup {h[2] : h \in {h \in hashes : h[1] = i}})]
    BY <1>9, <1>10 DEF Sketch
  <1>12. Promise!Become(k, new, 0)
    BY <1>5, <1>6, <1>8, <1>9, SketchIsString, SetBecomes
  <1>13. Promise!Observe(k, Registers, hashes)
    BY <1>5, <1>11, <1>12, Zenon DEF Promise!Observe
  <1>14. QED BY <1>1, <1>2, <1>13

\* ORed with 0 a register is what it is.
LEMMA OrZero ==
  ASSUME NEW y \in Byte
  PROVE  OperateByte("OR", <<0, y>>) = y
  <1>1. PICK z : z = OperateByte("OR", <<0, y>>)
    OBVIOUS
  <1>2. /\ z \in Byte
        /\ \A n \in 0 .. Width - 1 : Bit(z, n) = IF Bit(0, n) = 1 \/ Bit(y, n) = 1 THEN 1 ELSE 0
    BY <1>1, NoBits, OrIs
  <1>3. \A n \in 0 .. Width - 1 : Bit(0, n) = 0 /\ Bit(y, n) \in {0, 1}
    BY NoBits, BitIs, ByteIsNat, WidthIs
  <1>4. \A n \in 0 .. Width - 1 : Bit(z, n) = Bit(y, n)
    BY <1>2, <1>3
  <1>5. QED BY <1>1, <1>2, <1>4, BitsTell

\* The rank that the i-th of the texts holds at a place.
RankOf(texts, i, place) == Promise!RankAt(texts[i], place)

\* The rank that a sketch has at a place is a byte.
LEMMA RankIs ==
  ASSUME NEW v \in Seq(Byte), NEW place \in 1 .. Registers
  PROVE  /\ Promise!RankAt(v, place) \in Byte
         /\ v = <<>> => Promise!RankAt(v, place) = 0
         /\ IsSketch(v) /\ v # <<>> => Promise!RankAt(v, place) = v[place]
  <1>1. Promise!RankAt(v, place) \in Byte
    BY StringIs, NoBits DEF Promise!RankAt
  <1>2. ASSUME v = <<>>
        PROVE  Promise!RankAt(v, place) = 0
    <2>1. DOMAIN v = {}
      BY <1>2
    <2>2. QED BY <2>1 DEF Promise!RankAt
  <1>3. ASSUME IsSketch(v), v # <<>>
        PROVE  Promise!RankAt(v, place) = v[place]
    BY <1>3, StringIs DEF IsSketch, Promise!RankAt
  <1>4. QED BY <1>1, <1>2, <1>3

\* Where bits are nested, the OR of two ranks is the greater.
LEMMA NestedOr ==
  ASSUME NEW m \in Nat, NEW texts \in [1 .. m -> Seq(Byte)],
         NEW vs, BitsNested(vs), \A n \in 1 .. m : IsSketch(texts[n]) /\ texts[n] \in vs,
         NEW a \in 1 .. m, NEW b \in 1 .. m, NEW place \in 1 .. Registers,
         RankOf(texts, a, place) < RankOf(texts, b, place)
  PROVE  OperateByte("OR", <<RankOf(texts, a, place), RankOf(texts, b, place)>>)
           = RankOf(texts, b, place)
  <1>1. PICK x : x = RankOf(texts, a, place)
    OBVIOUS
  <1>2. PICK y : y = RankOf(texts, b, place)
    OBVIOUS
  <1>3. x \in Byte /\ y \in Byte /\ x \in Nat /\ y \in Nat
    BY <1>1, <1>2, RankIs, ByteIsNat DEF RankOf
  <1>4. x < y /\ (OperateByte("OR", <<x, y>>) = y =>
          OperateByte("OR", <<RankOf(texts, a, place), RankOf(texts, b, place)>>)
            = RankOf(texts, b, place))
    BY <1>1, <1>2
  <1> SUFFICES OperateByte("OR", <<x, y>>) = y
    BY <1>4
  <1>5. CASE texts[a] = <<>>
    <2>1. x = 0
      BY <1>5, <1>1, RankIs DEF RankOf
    <2>2. QED BY <1>3, <2>1, OrZero
  <1>6. CASE texts[a] # <<>>
    <2>1. texts[b] # <<>>
      <3>1. ASSUME texts[b] = <<>>
            PROVE  FALSE
        <4>1. y = 0
          BY <3>1, <1>2, RankIs DEF RankOf
        <4>2. QED BY <1>3, <1>4, <4>1
      <3>2. QED BY <3>1
    <2>2. x = texts[a][place] /\ y = texts[b][place]
      BY <1>6, <1>1, <1>2, <2>1, RankIs DEF RankOf
    <2>3. OperateByte("OR", <<x, y>>) \in {x, y}
      <3>1. PICK v : v = texts[a]
        OBVIOUS
      <3>2. PICK w : w = texts[b]
        OBVIOUS
      <3>3. v \in vs /\ w \in vs /\ v # <<>> /\ w # <<>> /\ BitsNested(vs)
        BY <1>6, <2>1, <3>1, <3>2
      <3>4. OperateByte("OR", <<v[place], w[place]>>) \in {v[place], w[place]}
        BY <3>3, Zenon DEF BitsNested
      <3>5. QED BY <2>2, <3>1, <3>2, <3>4
    <2>4. PICK z : z = OperateByte("OR", <<x, y>>)
      OBVIOUS
    <2>5. y <= z
      BY <1>3, <2>4, OrIs
    <2>6. QED BY <1>3, <1>4, <2>3, <2>4, <2>5
  <1>7. QED BY <1>5, <1>6

\* Merged place by place, sketches hold the greatest rank of each place.
LEMMA MergesGreatest ==
  ASSUME NEW m \in Nat \ {0}, NEW texts \in [1 .. m -> Seq(Byte)],
         NEW vs, BitsNested(vs), \A n \in 1 .. m : IsSketch(texts[n]) /\ texts[n] \in vs,
         NEW others \in SUBSET (2 .. m), \A n \in 2 .. m : n \notin others => texts[n] = <<>>,
         NEW rs, \A n \in {1} \cup others : rs[n] \in RegistersOf(texts[n]),
         NEW u, MergesUp(u, rs, others, m), NEW place \in 1 .. Registers
  PROVE  /\ \E n \in 1 .. m : u[m][place] = RankOf(texts, n, place)
         /\ \A n \in 1 .. m : RankOf(texts, n, place) <= u[m][place]
  <1>1. \A n \in 1 .. m : RankOf(texts, n, place) \in Nat
    BY RankIs, ByteIsNat DEF RankOf
  <1>2. \A n \in {1} \cup others : n \in 1 .. m /\ rs[n][place] = RankOf(texts, n, place)
    BY RegistersHold DEF RankOf
  <1> DEFINE rank(n) == RankOf(texts, n, place)
             N == {i \in Nat : i + 1 \in 1 .. m =>
                     /\ \E n \in 1 .. i + 1 : u[i + 1][place] = rank(n)
                     /\ \A n \in 1 .. i + 1 : rank(n) <= u[i + 1][place]}
  <1>3. 0 \in N
    <2>1. u[1] = rs[1]
      BY DEF MergesUp
    <2>2. u[1][place] = rank(1) /\ 1 \in 1 .. m
      BY <1>2, <2>1
    <2>3. rank(1) \in Nat
      BY <1>1, <2>2
    <2> HIDE DEF rank
    <2>4. \A n \in 1 .. 0 + 1 : n = 1
      OBVIOUS
    <2>5. 1 \in 1 .. 0 + 1 /\ 0 + 1 = 1
      OBVIOUS
    <2>6. (\E n \in 1 .. 0 + 1 : u[0 + 1][place] = rank(n))
      BY <2>2, <2>5
    <2>7. \A n \in 1 .. 0 + 1 : rank(n) <= u[0 + 1][place]
      BY <2>2, <2>3, <2>4, <2>5
    <2>8. QED BY <2>6, <2>7
  <1>4. ASSUME NEW i \in Nat, i \in N
        PROVE  i + 1 \in N
    <2> SUFFICES ASSUME (i + 1) + 1 \in 1 .. m
                 PROVE  /\ \E n \in 1 .. (i + 1) + 1 : u[(i + 1) + 1][place] = rank(n)
                        /\ \A n \in 1 .. (i + 1) + 1 : rank(n) <= u[(i + 1) + 1][place]
      OBVIOUS
    <2>1. PICK j : j = i + 1
      OBVIOUS
    <2>2. j \in 1 .. m /\ j + 1 \in 1 .. m /\ j \in 1 .. m - 1 /\ j + 1 \in 2 .. m
      BY <2>1
    <2>3. PICK a \in 1 .. j : u[j][place] = rank(a)
      BY <1>4, <2>1, <2>2
    <2>4. \A n \in 1 .. j : rank(n) <= u[j][place]
      BY <1>4, <2>1, <2>2
    <2>5. PICK x : x = u[j][place]
      OBVIOUS
    <2>6. PICK y : y = rank(j + 1)
      OBVIOUS
    <2>7. a \in 1 .. m /\ x \in Nat /\ y \in Nat
      BY <1>1, <2>2, <2>3, <2>5, <2>6
    <2>8. u[j + 1] = IF j + 1 \in others THEN Merge(u[j], rs[j + 1]) ELSE u[j]
      BY <2>2 DEF MergesUp
    <2>9. u[j + 1][place] = IF x < y THEN y ELSE x
      <3>1. CASE j + 1 \in others
        <4>1. rs[j + 1][place] = y
          BY <1>2, <2>6, <3>1
        <4>2. u[j + 1][place] = IF x < y THEN OperateByte("OR", <<x, y>>) ELSE x
          BY <2>5, <2>8, <3>1, <4>1 DEF Merge
        <4>3. x < y => OperateByte("OR", <<x, y>>) = y
          <5>1. x = RankOf(texts, a, place) /\ y = RankOf(texts, j + 1, place)
            BY <2>3, <2>5, <2>6
          <5> HIDE DEF rank
          <5>2. PICK b : b = j + 1
            OBVIOUS
          <5>3. b \in 1 .. m /\ y = RankOf(texts, b, place) /\ m \in Nat
            BY <2>2, <5>1, <5>2
          <5>4. x = RankOf(texts, a, place) /\ a \in 1 .. m
            BY <2>7, <5>1
          <5>5. ASSUME x < y
                PROVE  OperateByte("OR", <<x, y>>) = y
            <6>1. RankOf(texts, a, place) < RankOf(texts, b, place)
              BY <5>3, <5>4, <5>5
            <6>2. OperateByte("OR", <<RankOf(texts, a, place), RankOf(texts, b, place)>>)
                    = RankOf(texts, b, place)
              BY <5>3, <5>4, <6>1, NestedOr
            <6>3. QED BY <5>3, <5>4, <6>2
          <5>6. QED BY <5>5
        <4>4. QED BY <4>2, <4>3
      <3>2. CASE j + 1 \notin others
        <4>1. y = 0
          BY <2>2, <2>6, <3>2, RankIs DEF RankOf
        <4>2. QED BY <2>5, <2>7, <2>8, <3>2, <4>1
      <3>3. QED BY <3>1, <3>2
    <2> HIDE DEF rank
    <2>10. \A n \in 1 .. j + 1 : n \in 1 .. j \/ n = j + 1
      BY <2>2
    <2>11. a \in 1 .. j + 1 /\ j + 1 \in 1 .. j + 1
      BY <2>2
    <2>12. \E n \in 1 .. j + 1 : u[j + 1][place] = rank(n)
      BY <2>3, <2>5, <2>6, <2>9, <2>11
    <2>13. \A n \in 1 .. j + 1 : rank(n) <= u[j + 1][place]
      <3>1. ASSUME NEW n \in 1 .. j + 1
            PROVE  rank(n) <= u[j + 1][place]
        <4>1. CASE n \in 1 .. j
          <5>1. rank(n) <= x /\ rank(n) \in Nat
            BY <1>1, <2>2, <2>4, <2>5, <4>1 DEF rank
          <5>2. QED BY <2>7, <2>9, <5>1
        <4>2. CASE n = j + 1
          BY <2>6, <2>7, <2>9, <4>2
        <4>3. QED BY <2>10, <4>1, <4>2
      <3>2. QED BY <3>1
    <2>14. QED BY <2>1, <2>12, <2>13
  <1> HIDE DEF N
  <1>5. Nat \subseteq N
    BY <1>3, <1>4, AllNumbers
  <1>6. m - 1 \in N /\ (m - 1) + 1 = m /\ m \in 1 .. m
    BY <1>5
  <1>7. QED BY <1>6 DEF N

\* PfMerge stores the greatest rank of all sketches at each place.
LEMMA PfMergeAsPromised ==
  ASSUME StringsInv, NEW call, NEW m, NEW read, SawAll(call, m, read), call.op = "PfMerge",
         \E i \in DOMAIN call.keys : i > 1 /\ Get(call.keys[i]) # NoValue,
         NEW held, \A i \in DOMAIN call.keys : Old(call.keys[i]) \in held,
         \A v \in held : IsSketch(v), BitsNested(held), PfMerge(call, read)
  PROVE  Promise!Merge(call.keys[1], call.keys, Registers)
  <1>1. PICK keys : keys = call.keys
    OBVIOUS
  <1>2. PICK k : k = keys[1]
    OBVIOUS
  <1>3. PICK texts : texts = Sources(read)
    OBVIOUS
  <1>4. PICK others : AreOthers(others, read, m)
    BY DEF AreOthers
  <1>5. /\ m \in Nat \ {0} /\ DOMAIN keys = 1 .. m /\ DOMAIN read = 1 .. m /\ Len(read) = m
        /\ 1 \in 1 .. m
    BY <1>1 DEF SawAll
  <1>6. /\ texts \in [1 .. m -> Seq(Byte)]
        /\ \A i \in 1 .. m : /\ texts[i] = Old(keys[i]) /\ texts[i] = Promise!Text(keys[i])
                             /\ texts[i] = OrEmpty(read[i]) /\ keys[i] \in Keys
                             /\ read[i] = Get(keys[i])
    <2>1. call.op \notin {"MSetnx", "PKPatternMatchDel"}
      OBVIOUS
    <2>2. /\ \A i \in 1 .. m : /\ call.keys[i] \in Keys
                               /\ read[i] = Get(call.keys[i])
                               /\ OrEmpty(read[i]) = Old(call.keys[i])
                               /\ Promise!Text(call.keys[i]) = Old(call.keys[i])
          /\ Sources(read) = [i \in 1 .. m |-> Old(call.keys[i])]
          /\ Sources(read) \in [1 .. m -> Seq(Byte)]
      BY <2>1, SourcesSeen
    <2>3. QED BY <1>1, <1>3, <2>2
  <1>7. \A i \in 1 .. m : IsSketch(texts[i]) /\ texts[i] \in held
    BY <1>1, <1>5, <1>6
  <1>8. others # {}
    <2>1. PICK i \in 1 .. m : i > 1 /\ Get(keys[i]) # NoValue
      BY <1>1, <1>5
    <2>2. i \in others
      BY <1>4, <1>6, <2>1 DEF AreOthers
    <2>3. QED BY <2>2
  <1>9. \E rs, u : IsMerged(u, rs, others, read, m) /\ Set(k, u[m])
    BY <1>1, <1>2, <1>4, <1>5, <1>8, PfMergeWrites
  <1>10. PICK rs, u : IsMerged(u, rs, others, read, m) /\ Set(k, u[m])
    BY <1>9
  <1>11. /\ \A i \in {1} \cup others : rs[i] \in RegistersOf(OrEmpty(read[i]))
         /\ MergesUp(u, rs, others, m)
    BY <1>10 DEF IsMerged
  <1>12. /\ others \in SUBSET (2 .. m)
         /\ \A n \in 2 .. m : n \notin others => texts[n] = <<>>
         /\ \A n \in {1} \cup others : rs[n] \in RegistersOf(texts[n])
    <2>1. others \in SUBSET (2 .. m)
      BY <1>4, <1>5 DEF AreOthers
    <2>2. \A n \in 2 .. m : n \notin others => texts[n] = <<>>
      <3>1. ASSUME NEW n \in 2 .. m, n \notin others
            PROVE  texts[n] = <<>>
        <4>1. n \in 1 .. m /\ n # 1
          BY <1>5
        <4>2. read[n] = NoValue
          BY <1>4, <3>1, <4>1 DEF AreOthers
        <4>3. QED BY <1>6, <4>1, <4>2 DEF OrEmpty
      <3>2. QED BY <3>1
    <2>3. \A n \in {1} \cup others : n \in 1 .. m
      BY <1>5, <2>1
    <2>4. QED BY <1>6, <1>11, <2>1, <2>2, <2>3
  <1>13. PICK new : new = u[m]
    OBVIOUS
  <1>14. new \in Sketch
    BY <1>5, <1>11, <1>13 DEF MergesUp
  <1>15. ASSUME NEW i \in 1 .. Registers
         PROVE  new[i] = Promise!Greatest({Promise!RankAt(Promise!Text(keys[n]), i) : n \in DOMAIN keys})
    <2>1. PICK B : B = {Promise!RankAt(Promise!Text(keys[n]), i) : n \in DOMAIN keys}
      OBVIOUS
    <2>2. /\ \E n \in 1 .. m : u[m][i] = RankOf(texts, n, i)
          /\ \A n \in 1 .. m : RankOf(texts, n, i) <= u[m][i]
      <3>1. /\ m \in Nat \ {0} /\ texts \in [1 .. m -> Seq(Byte)] /\ BitsNested(held)
            /\ others \in SUBSET (2 .. m) /\ MergesUp(u, rs, others, m)
        BY <1>5, <1>6, <1>11, <1>12
      <3>2. /\ \A n \in 1 .. m : IsSketch(texts[n]) /\ texts[n] \in held
            /\ \A n \in 2 .. m : n \notin others => texts[n] = <<>>
            /\ \A n \in {1} \cup others : rs[n] \in RegistersOf(texts[n])
        BY <1>7, <1>12
      <3>3. QED BY <3>1, <3>2, MergesGreatest
    <2>3. \A n \in 1 .. m : Promise!RankAt(Promise!Text(keys[n]), i) = RankOf(texts, n, i)
      BY <1>6 DEF RankOf
    <2>4. \A n \in 1 .. m : RankOf(texts, n, i) \in Int
      BY <1>6, RankIs, ByteIsNat DEF RankOf
    <2>5. B \in SUBSET Int /\ new[i] \in B /\ \A x \in B : x <= new[i]
      BY <1>5, <1>13, <2>1, <2>2, <2>3, <2>4
    <2>6. QED BY <2>1, <2>5, GreatestIs
  <1>16. new = [i \in 1 .. Registers |->
           Promise!Greatest({Promise!RankAt(Promise!Text(keys[n]), i) : n \in DOMAIN keys})]
    BY <1>14, <1>15 DEF Sketch
  <1>17. k \in Keys
    BY <1>2, <1>5, <1>6
  <1>18. Promise!Become(k, new, 0)
    BY <1>10, <1>13, <1>14, <1>17, SketchIsString, SetBecomes
  <1>19. Promise!Merge(k, keys, Registers)
    BY <1>16, <1>18, Zenon DEF Promise!Merge
  <1>20. QED BY <1>1, <1>2, <1>19

----------------------------------------------------------------------------
(* The handlers do as promised.                                             *)

\* What a handler of key k does.
DoesAsPromised(k) ==
  /\ \A v \in Texts : StringAppend(k, v) => Promise!Extend(k, v)
  /\ \A offset \in Offsets, on \in {0, 1} :
       SetBit(k, offset, on) => Promise!SetBit(k, offset, on)
  /\ \A offset \in Offsets, v \in Texts :
       v # <<>> /\ UpToNul(v) = v /\ Setrange(k, offset, v)
         => Promise!Overwrite(k, offset, v)
  /\ \A n \in Numbers, by \in {-1, 1} :
       (Live(k) \/ by * n <= MaxInt) /\
       ((by = 1 /\ Incrby(k, n)) \/ (by = -1 /\ Decrby(k, n))) =>
         LET sum == Integer(Old(k)) + by * n
         IN  /\ NumberOf(Old(k)') = sum
             /\ Get(k) # NoValue => sum \in -MaxInt - 1 .. MaxInt
             /\ Promise!Become(k, Old(k)', OldTimestamp(k))
  /\ \A ttl \in Ttls : ttl > 0 /\ now + ttl <= MaxTimestamp =>
       /\ Expire(k, ttl) => Promise!SetDeadline(k, now + ttl)
       /\ \A v \in Texts : Setex(k, v, ttl) => Promise!Become(k, v, now + ttl)

\* Each handler of one key does.
LEMMA HandlerDoesAsPromised ==
  ASSUME StringsInv, StringsInv', NEW k \in Keys
  PROVE  DoesAsPromised(k)
  <1>1. /\ Texts \subseteq Seq(Byte) /\ Offsets \subseteq Nat /\ Numbers \subseteq Int
        /\ Ttls \subseteq Int
    BY StringsAssumption
  <1>2. ASSUME NEW v \in Texts, StringAppend(k, v)
        PROVE  Promise!Extend(k, v)
    BY <1>1, <1>2, ExtendAsPromised
  <1>3. ASSUME NEW offset \in Offsets, NEW on \in {0, 1}, SetBit(k, offset, on)
        PROVE  Promise!SetBit(k, offset, on)
    BY <1>1, <1>3, SetBitAsPromised
  <1>4. ASSUME NEW offset \in Offsets, NEW v \in Texts,
               v # <<>>, UpToNul(v) = v, Setrange(k, offset, v)
        PROVE  Promise!Overwrite(k, offset, v)
    BY <1>1, <1>4, OverwriteAsPromised
  <1>5. ASSUME NEW n \in Numbers, NEW by \in {-1, 1}, Live(k) \/ by * n <= MaxInt,
               (by = 1 /\ Incrby(k, n)) \/ (by = -1 /\ Decrby(k, n))
        PROVE  LET sum == Integer(Old(k)) + by * n
               IN  /\ NumberOf(Old(k)') = sum
                   /\ Get(k) # NoValue => sum \in -MaxInt - 1 .. MaxInt
                   /\ Promise!Become(k, Old(k)', OldTimestamp(k))
    <2>1. PICK sum : sum = Integer(Old(k)) + by * n
      OBVIOUS
    <2>2. n \in Int
      BY <1>1
    <2>3. /\ NumberOf(Old(k)') = sum
          /\ Get(k) # NoValue => sum \in -MaxInt - 1 .. MaxInt
          /\ Promise!Become(k, Old(k)', OldTimestamp(k))
      BY <1>5, <2>1, <2>2, IncrAsPromised
    <2>4. QED BY <2>1, <2>3
  <1>6. ASSUME NEW ttl \in Ttls, ttl > 0, now + ttl <= MaxTimestamp, Expire(k, ttl)
        PROVE  Promise!SetDeadline(k, now + ttl)
    BY <1>1, <1>6, ExpireAsPromised
  <1>7. ASSUME NEW ttl \in Ttls, ttl > 0, now + ttl <= MaxTimestamp,
               NEW v \in Texts, Setex(k, v, ttl)
        PROVE  Promise!Become(k, v, now + ttl)
    BY <1>1, <1>7, SetexAsPromised
  <1>8. QED BY <1>2, <1>3, <1>4, <1>5, <1>6, <1>7, Zenon DEF DoesAsPromised

\* What a call does that has looked at all its keys; held are the strings it found.
CallDoesAsPromised(call, held) ==
  /\ call.op = "MSetnx" => Promise!SetAllIfNone(call.put)
  /\ call.op = "BitOp" => BitOpPromised(call.dst, call.keys, call.how)
  /\ call.op = "PfAdd" /\ call.hashes # {} /\ (\A v \in held : IsSketch(v)) =>
       Promise!Observe(call.keys[1], Registers, call.hashes)
  /\ (/\ call.op = "PfMerge"
      /\ \E i \in DOMAIN call.keys : i > 1 /\ Get(call.keys[i]) # NoValue
      /\ \A v \in held : IsSketch(v)
      /\ BitsNested(held)) => Promise!Merge(call.keys[1], call.keys, Registers)
  /\ call.op = "PKPatternMatchDel" =>
       Promise!Delete({call.keys[i] : i \in DOMAIN call.keys})

CallAsPromised ==
  \A call \in Calls :
    pending # NoCall /\ pending.call = call /\ pending' = NoCall /\ StillTrue =>
      CallDoesAsPromised(call, {Old(call.keys[i]) : i \in DOMAIN call.keys})

\* Each call in several steps does, where its reads still hold.
LEMMA FinishDoesAsPromised ==
  ASSUME StringsInv, NEW call \in Calls, pending.call = call,
         Finish, pending # NoCall, StillTrue, strings' # strings
  PROVE  CallDoesAsPromised(call, {Old(call.keys[i]) : i \in DOMAIN call.keys})
  <1>1. PICK read : read = pending.read
    OBVIOUS
  <1>2. PICK m : m = Len(read)
    OBVIOUS
  <1>3. PICK held : held = {Old(call.keys[i]) : i \in DOMAIN call.keys}
    OBVIOUS
  <1>4. SawAll(call, m, read)
    BY <1>1, <1>2, SawAllIs
  <1>5. /\ call.op = "MSetnx" => MSetnx(call, read)
        /\ call.op = "BitOp" => BitOp(call, read)
        /\ call.op = "PfAdd" => PfAdd(call, read)
        /\ call.op = "PfMerge" => PfMerge(call, read)
        /\ call.op = "PKPatternMatchDel" => PKPatternMatchDel(call, read)
    BY <1>1 DEF Finish
  <1>6. \A i \in DOMAIN call.keys : Old(call.keys[i]) \in held
    BY <1>3
  <1>7. ASSUME call.op = "MSetnx"
        PROVE  Promise!SetAllIfNone(call.put)
    BY <1>4, <1>5, <1>7, MSetnxAsPromised
  <1>8. ASSUME call.op = "BitOp"
        PROVE  BitOpPromised(call.dst, call.keys, call.how)
    BY <1>4, <1>5, <1>8, BitOpAsPromised
  <1>9. ASSUME call.op = "PfAdd", call.hashes # {}, \A v \in held : IsSketch(v)
        PROVE  Promise!Observe(call.keys[1], Registers, call.hashes)
    <2>1. IsSketch(Old(call.keys[1]))
      BY <1>4, <1>6, <1>9 DEF SawAll
    <2>2. QED BY <1>4, <1>5, <1>9, <2>1, PfAddAsPromised
  <1>10. ASSUME call.op = "PfMerge", \E i \in DOMAIN call.keys : i > 1 /\ Get(call.keys[i]) # NoValue,
                \A v \in held : IsSketch(v), BitsNested(held)
         PROVE  Promise!Merge(call.keys[1], call.keys, Registers)
    BY <1>4, <1>5, <1>6, <1>10, PfMergeAsPromised
  <1>11. ASSUME call.op = "PKPatternMatchDel"
         PROVE  Promise!Delete({call.keys[i] : i \in DOMAIN call.keys})
    BY <1>4, <1>5, <1>11, PKPatternMatchDelAsPromised
  <1>12. CallDoesAsPromised(call, held)
    BY <1>7, <1>8, <1>9, <1>10, <1>11 DEF CallDoesAsPromised
  <1>13. QED BY <1>3, <1>12 DEF CallDoesAsPromised

\* Each command makes of the strings, and of the deadlines, what ExpiringStrings says;
\* those in several steps unless what they read is no longer true.
THEOREM StringsDoAsPromised == Spec => HandlersDoAsPromised
  <1>1. ASSUME StringsInv, StringsInv', [Next]_stringsVars
        PROVE  \/ UNCHANGED stringsVars
               \/ /\ Tick => Promise!Tick
                  /\ \A k \in Keys : Compact(k) => UNCHANGED Promise!expiringStrings
                  /\ pending # NoCall /\ DeleteBatch =>
                       Promise!Delete({pending.call.keys[i] : i \in Batch})
                  /\ strings' # strings =>
                       /\ pending = NoCall =>
                            \A k \in {k \in Keys : strings'[k] # strings[k]} : DoesAsPromised(k)
                       /\ CallAsPromised
    <2>1. Tick => Promise!Tick
      BY <1>1, TickAsPromised
    <2>2. \A k \in Keys : Compact(k) => UNCHANGED Promise!expiringStrings
      BY <1>1, CompactAsPromised
    <2>3. \A k \in Keys : DoesAsPromised(k)
      BY <1>1, HandlerDoesAsPromised
    <2>4. ASSUME strings' # strings, NEW call \in Calls,
                 pending # NoCall, pending.call = call, pending' = NoCall, StillTrue
          PROVE  CallDoesAsPromised(call, {Old(call.keys[i]) : i \in DOMAIN call.keys})
      <3>1. Next
        BY <1>1, <2>4 DEF stringsVars
      <3>2. Finish
        BY <1>1, <2>4, <3>1, FinishIs
      <3>3. QED BY <1>1, <2>4, <3>2, FinishDoesAsPromised
    <2>5. pending # NoCall /\ DeleteBatch =>
            Promise!Delete({pending.call.keys[i] : i \in Batch})
      BY <1>1, DeleteBatchAsPromised
    <2>6. QED BY <2>1, <2>2, <2>3, <2>4, <2>5 DEF CallAsPromised
  <1>2. Spec => []StringsInv
    BY StringsInvHolds
  <1>3. QED BY <1>1, <1>2, PTL DEF Spec, HandlersDoAsPromised, DoesAsPromised,
                          CallAsPromised, CallDoesAsPromised, BitOpPromised

----------------------------------------------------------------------------
(* Reads.                                                                   *)

\* The bits of v that are b and whose byte is one of I.
Hits(v, I, b) ==
  {i \in Promise!Bits(v) : (i \div Width) + 1 \in I /\ Promise!BitAt(v, i) = b}

\* A bit is where its byte and its place in it say.
LEMMA HitsAre ==
  ASSUME NEW v \in Seq(Byte), NEW I \in SUBSET (1 .. Len(v)), NEW b
  PROVE  /\ Hits(v, I, b) \subseteq Nat
         /\ \A i \in Nat : i \in Hits(v, I, b) <=>
              ByteOffset(i) \in I /\ Bit(v[ByteOffset(i)], BitOffset(i)) = b
  <1>1. \A i \in Promise!Bits(v) : i \in Nat
    <2>1. Width * Len(v) - 1 \in Int
      BY WidthIs, StringIs
    <2>2. QED BY <2>1 DEF Promise!Bits
  <1>2. ASSUME NEW i \in Nat
        PROVE  i \in Hits(v, I, b) <=>
                 ByteOffset(i) \in I /\ Bit(v[ByteOffset(i)], BitOffset(i)) = b
    <2>1. /\ Promise!BitAt(v, i) = Bit(ByteAt(v, ByteOffset(i)), BitOffset(i))
          /\ i \in Promise!Bits(v) <=> ByteOffset(i) <= Len(v)
      BY BitAtIs
    <2>2. ByteOffset(i) = (i \div Width) + 1
      BY DEF ByteOffset
    <2>3. ByteOffset(i) \in I =>
            ByteOffset(i) <= Len(v) /\ ByteAt(v, ByteOffset(i)) = v[ByteOffset(i)]
      <3>1. Len(v) \in Nat
        BY StringIs
      <3>2. \A j \in I : j <= Len(v)
        BY <3>1
      <3>3. QED BY <3>2 DEF ByteAt
    <2>4. QED BY <2>1, <2>2, <2>3 DEF Hits
  <1>3. QED BY <1>1, <1>2 DEF Hits

\* The offset of bit n of byte m.
OffsetOf(m, n) == Width * (m - 1) + (Width - 1 - n)

\* That offset has this byte and this place in it.
LEMMA OffsetOfIs ==
  ASSUME NEW m \in Nat \ {0}, NEW n \in 0 .. Width - 1
  PROVE  /\ OffsetOf(m, n) \in Nat
         /\ ByteOffset(OffsetOf(m, n)) = m
         /\ BitOffset(OffsetOf(m, n)) = n
  <1>1. Width \in Nat \ {0} /\ m - 1 \in Nat /\ Width - 1 - n \in 0 .. Width - 1
    BY WidthIs
  <1>2. Width * (m - 1) \in Nat
    BY <1>1
  <1>3. /\ (Width * (m - 1) + (Width - 1 - n)) \div Width = m - 1
        /\ (Width * (m - 1) + (Width - 1 - n)) % Width = Width - 1 - n
    <2>1. PICK q : q = m - 1
      OBVIOUS
    <2>2. PICK r : r = Width - 1 - n
      OBVIOUS
    <2>3. PICK p : p = Width
      OBVIOUS
    <2>4. p \in Nat \ {0} /\ q \in Int /\ r \in 0 .. p - 1
      BY <1>1, <2>1, <2>2, <2>3
    <2>5. (p * q + r) \div p = q /\ (p * q + r) % p = r
      BY <2>4, Divides
    <2>6. QED BY <2>1, <2>2, <2>3, <2>5
  <1>4. QED BY <1>1, <1>2, <1>3 DEF OffsetOf, ByteOffset, BitOffset

\* A byte has as many bits set as Ones counts.
LEMMA OnesAre ==
  ASSUME NEW v \in Seq(Byte), NEW m \in 1 .. Len(v)
  PROVE  /\ IsFiniteSet(Hits(v, {m}, 1))
         /\ Cardinality(Hits(v, {m}, 1)) = Ones(v[m])
  <1>1. PICK A : A = {n \in 0 .. Width - 1 : Bit(v[m], n) = 1}
    OBVIOUS
  <1>2. IsFiniteSet(A) /\ Ones(v[m]) = Cardinality(A)
    <2>1. IsFiniteSet(0 .. Width - 1) /\ A \in SUBSET (0 .. Width - 1)
      <3>1. 0 \in Int /\ Width - 1 \in Int
        BY WidthIs
      <3>2. QED BY <1>1, <3>1, FS_Interval
    <2>2. QED BY <1>1, <2>1, FS_Subset DEF Ones
  <1>3. PICK B : B = Hits(v, {m}, 1)
    OBVIOUS
  <1>4. /\ B \subseteq Nat /\ m \in Nat \ {0}
        /\ \A i \in Nat : i \in B <=> ByteOffset(i) = m /\ Bit(v[m], BitOffset(i)) = 1
    <2>1. {m} \in SUBSET (1 .. Len(v))
      OBVIOUS
    <2>2. /\ Hits(v, {m}, 1) \subseteq Nat
          /\ \A i \in Nat : i \in Hits(v, {m}, 1) <=>
               ByteOffset(i) \in {m} /\ Bit(v[ByteOffset(i)], BitOffset(i)) = 1
      BY <2>1, HitsAre
    <2>3. m \in Nat \ {0}
      <3>1. Len(v) \in Nat
        BY StringIs
      <3>2. QED BY <3>1
    <2>4. QED BY <1>3, <2>2, <2>3
  <1>5. PICK f : f = [n \in A |-> OffsetOf(m, n)]
    OBVIOUS
  <1>6. \A n \in A : /\ f[n] \in B /\ BitOffset(f[n]) = n
    BY <1>1, <1>4, <1>5, OffsetOfIs
  <1>7. \A i \in B : BitOffset(i) \in A /\ f[BitOffset(i)] = i
    <2>1. ASSUME NEW i \in B
          PROVE  BitOffset(i) \in A /\ f[BitOffset(i)] = i
      <3>1. /\ i \in Nat /\ BitOffset(i) \in 0 .. Width - 1
            /\ i = Width * (ByteOffset(i) - 1) + (Width - 1 - BitOffset(i))
            /\ ByteOffset(i) = m /\ Bit(v[m], BitOffset(i)) = 1
        BY <1>4, OffsetIs
      <3>2. QED BY <1>1, <1>5, <3>1 DEF OffsetOf
    <2>2. QED BY <2>1
  <1>8. f \in Bijection(A, B)
    <2>1. f \in [A -> B]
      BY <1>5, <1>6
    <2>2. f \in Injection(A, B)
      BY <2>1, <1>6 DEF Injection, IsInjective
    <2>3. f \in Surjection(A, B)
      BY <2>1, <1>7 DEF Surjection
    <2>4. QED BY <2>2, <2>3 DEF Bijection
  <1>9. IsFiniteSet(B) /\ Cardinality(B) = Cardinality(A)
    BY <1>2, <1>8, FS_Bijection DEF ExistsBijection
  <1>10. QED BY <1>2, <1>3, <1>9

\* w is what of v lies behind its first s bytes.
IsPart(w, v, s) ==
  /\ w \in Seq(Byte) /\ v \in Seq(Byte) /\ s \in Nat
  /\ s + Len(w) <= Len(v)
  /\ \A i \in 1 .. Len(w) : w[i] = v[s + i]

\* The bits that are set in a part are those of its bytes, one byte at a time.
BitsUpTo(u, w, v, s) == u = [i \in 0 .. Len(w) |-> Cardinality(Hits(v, s + 1 .. s + i, 1))]

\* u counts them from one byte to the next.
LEMMA HitsCount ==
  ASSUME NEW w, NEW v, NEW s, IsPart(w, v, s), NEW u, BitsUpTo(u, w, v, s)
  PROVE  /\ u[0] = 0
         /\ \A i \in 1 .. Len(w) : u[i] = u[i - 1] + Ones(w[i])
  <1>1. /\ v \in Seq(Byte) /\ s \in Nat /\ Len(w) \in Nat /\ Len(v) \in Nat
        /\ s + Len(w) <= Len(v) /\ \A i \in 1 .. Len(w) : w[i] = v[s + i]
    BY StringIs DEF IsPart
  <1>2. ASSUME NEW i \in 0 .. Len(w)
        PROVE  /\ IsFiniteSet(Hits(v, s + 1 .. s + i, 1))
               /\ Cardinality(Hits(v, s + 1 .. s + i, 1)) \in Nat
    <2>1. s + 1 .. s + i \in SUBSET (1 .. Len(v))
      BY <1>1
    <2>2. /\ Hits(v, s + 1 .. s + i, 1) \subseteq Nat
          /\ \A j \in Hits(v, s + 1 .. s + i, 1) : j \in Promise!Bits(v)
      BY <1>1, <2>1, HitsAre DEF Hits
    <2>3. PICK last : last = Width * Len(v) - 1
      OBVIOUS
    <2>4. last \in Int /\ Promise!Bits(v) = 0 .. last
      BY <1>1, <2>3, WidthIs DEF Promise!Bits
    <2>5. IsFiniteSet(0 .. last)
      BY <2>4, FS_Interval
    <2>6. Hits(v, s + 1 .. s + i, 1) \in SUBSET (0 .. last)
      BY <2>2, <2>4
    <2>7. IsFiniteSet(Hits(v, s + 1 .. s + i, 1))
      BY <2>5, <2>6, FS_Subset
    <2>8. QED BY <2>7, FS_CardinalityType
  <1>3. u[0] = 0
    <2>1. s + 1 .. s + 0 = {}
      BY <1>1
    <2>2. Hits(v, s + 1 .. s + 0, 1) = {}
      BY <2>1 DEF Hits
    <2>3. 0 \in 0 .. Len(w)
      BY <1>1
    <2>4. u[0] = Cardinality(Hits(v, s + 1 .. s + 0, 1))
      BY <2>3 DEF BitsUpTo
    <2>5. QED BY <2>2, <2>4, FS_EmptySet
  <1>4. ASSUME NEW i \in 1 .. Len(w)
        PROVE  u[i] = u[i - 1] + Ones(w[i])
    <2>1. PICK A : A = Hits(v, s + 1 .. s + (i - 1), 1)
      OBVIOUS
    <2>2. PICK B : B = Hits(v, {s + i}, 1)
      OBVIOUS
    <2>3. /\ i \in 0 .. Len(w) /\ i - 1 \in 0 .. Len(w) /\ s + i \in 1 .. Len(v)
          /\ w[i] = v[s + i]
      BY <1>1
    <2>4. IsFiniteSet(A) /\ Cardinality(A) \in Nat /\ u[i - 1] = Cardinality(A)
      BY <1>2, <2>1, <2>3 DEF BitsUpTo
    <2>5. IsFiniteSet(B) /\ Cardinality(B) = Ones(w[i])
      BY <1>1, <2>2, <2>3, OnesAre
    <2>6. \A j : j \in s + 1 .. s + i <=> j \in s + 1 .. s + (i - 1) \/ j = s + i
      BY <1>1, <2>3
    <2>7. ~(s + i \in s + 1 .. s + (i - 1))
      BY <1>1, <2>3
    <2>8. A \cup B = Hits(v, s + 1 .. s + i, 1) /\ A \cap B = {}
      BY <2>1, <2>2, <2>6, <2>7 DEF Hits
    <2>9. u[i] = Cardinality(A \cup B)
      BY <2>3, <2>8 DEF BitsUpTo
    <2>10. Cardinality(A \cup B) = Cardinality(A) + Cardinality(B) - Cardinality(A \cap B)
      BY <2>4, <2>5, FS_Union
    <2>11. Cardinality(A \cap B) = 0
      BY <2>8, FS_EmptySet
    <2>12. Cardinality(B) \in Nat
      BY <2>5, FS_CardinalityType
    <2>13. QED BY <2>4, <2>5, <2>9, <2>10, <2>11, <2>12
  <1>5. QED BY <1>3, <1>4

\* GetBitCount counts them.
LEMMA GetBitCountIs ==
  ASSUME NEW w, NEW v, NEW s, IsPart(w, v, s)
  PROVE  GetBitCount(w) = Cardinality(Hits(v, s + 1 .. s + Len(w), 1))
  <1>1. PICK m : m = Len(w)
    OBVIOUS
  <1>2. m \in Nat
    BY <1>1, StringIs DEF IsPart
  <1>3. PICK u : BitsUpTo(u, w, v, s)
    BY DEF BitsUpTo
  <1>4. u[0] = 0 /\ \A i \in 1 .. m : u[i] = u[i - 1] + Ones(w[i])
    BY <1>1, <1>3, HitsCount
  <1>5. u = [i \in 0 .. m |-> IF i = 0 THEN 0 ELSE u[i - 1] + Ones(w[i])]
    <2>1. \A i \in 0 .. m : u[i] = IF i = 0 THEN 0 ELSE u[i - 1] + Ones(w[i])
      BY <1>2, <1>4
    <2>2. \E f : u = [i \in 0 .. m |-> f[i]]
      BY <1>1, <1>3 DEF BitsUpTo
    <2>3. QED BY <2>1, <2>2
  <1> DEFINE U == CHOOSE f : f = [i \in 0 .. m |-> IF i = 0 THEN 0 ELSE f[i - 1] + Ones(w[i])]
  <1>6. U = [i \in 0 .. m |-> IF i = 0 THEN 0 ELSE U[i - 1] + Ones(w[i])]
    BY <1>5
  <1>7. GetBitCount(w) = U[m]
    BY <1>1 DEF GetBitCount
  <1> HIDE DEF U
  <1>8. U[m] = u[m]
    <2> DEFINE N == {i \in Nat : i <= m => U[i] = u[i]}
    <2>1. 0 \in N
      BY <1>2, <1>4, <1>6
    <2>2. ASSUME NEW i \in Nat, i \in N
          PROVE  i + 1 \in N
      <3> SUFFICES ASSUME i + 1 <= m
                   PROVE  U[i + 1] = u[i + 1]
        OBVIOUS
      <3>1. i + 1 \in 1 .. m /\ i + 1 \in 0 .. m /\ i + 1 # 0 /\ (i + 1) - 1 = i /\ U[i] = u[i]
        BY <1>2, <2>2
      <3>2. U[i + 1] = U[i] + Ones(w[i + 1])
        BY <1>6, <3>1
      <3>3. u[i + 1] = u[i] + Ones(w[i + 1])
        BY <1>4, <3>1
      <3>4. QED BY <3>1, <3>2, <3>3
    <2> HIDE DEF N
    <2>3. Nat \subseteq N
      BY <2>1, <2>2, AllNumbers
    <2>4. QED BY <1>2, <2>3 DEF N
  <1>9. u[m] = Cardinality(Hits(v, s + 1 .. s + Len(w), 1))
    BY <1>1, <1>2, <1>3 DEF BitsUpTo
  <1>10. QED BY <1>7, <1>8, <1>9

\* What lies Width * g bits behind has its byte g bytes behind and its place the same.
LEMMA ShiftIs ==
  ASSUME NEW g \in Nat, NEW i \in Nat
  PROVE  /\ Width * g + i \in Nat
         /\ ByteOffset(Width * g + i) = g + ByteOffset(i)
         /\ BitOffset(Width * g + i) = BitOffset(i)
  <1>1. PICK m : m = g + ByteOffset(i)
    OBVIOUS
  <1>2. PICK n : n = BitOffset(i)
    OBVIOUS
  <1>3. /\ ByteOffset(i) \in Nat \ {0} /\ n \in 0 .. Width - 1
        /\ i = Width * (ByteOffset(i) - 1) + (Width - 1 - n)
    BY <1>2, OffsetIs
  <1>4. m \in Nat \ {0}
    BY <1>1, <1>3
  <1>5. Width * (m - 1) = Width * g + Width * (ByteOffset(i) - 1)
    BY <1>1, <1>3, WidthIs
  <1>6. Width * g \in Nat /\ Width * (ByteOffset(i) - 1) \in Nat
    BY <1>3, WidthIs
  <1>7. OffsetOf(m, n) = Width * g + i
    <2>1. PICK a : a = Width * g
      OBVIOUS
    <2>2. PICK c : c = Width * (ByteOffset(i) - 1)
      OBVIOUS
    <2>3. PICK d : d = Width - 1 - n
      OBVIOUS
    <2>4. a \in Nat /\ c \in Nat /\ d \in Int
      BY <1>3, <1>6, <2>1, <2>2, <2>3, WidthIs
    <2>5. OffsetOf(m, n) = (a + c) + d
      BY <1>5, <2>1, <2>2, <2>3 DEF OffsetOf
    <2>6. i = c + d
      BY <1>3, <2>2, <2>3
    <2>7. QED BY <2>1, <2>4, <2>5, <2>6
  <1>8. OffsetOf(m, n) \in Nat /\ ByteOffset(OffsetOf(m, n)) = m /\ BitOffset(OffsetOf(m, n)) = n
    BY <1>3, <1>4, OffsetOfIs
  <1>9. QED BY <1>1, <1>2, <1>7, <1>8

\* What lies in a byte behind lies behind.
LEMMA BytesInOrder ==
  ASSUME NEW i \in Nat, NEW j \in Nat, ByteOffset(i) < ByteOffset(j)
  PROVE  i < j
  <1>1. PICK n : n = ByteOffset(i)
    OBVIOUS
  <1>2. n \in Nat /\ ByteOffset(j) \in Nat
    BY <1>1, OffsetIs
  <1>3. i \in 0 .. Width * n - 1
    BY <1>1, <1>2, WithinIs
  <1>4. ~(j \in 0 .. Width * n - 1)
    BY <1>1, <1>2, WithinIs
  <1>5. Width * n \in Nat
    BY <1>2, WidthIs
  <1>6. QED BY <1>3, <1>4, <1>5

\* A byte of words that GetBitPos skips.
SkipByte(b) == IF b = 0 THEN TwoTo[Width] - 1 ELSE 0

\* It is the one byte without b.
LEMMA SkipByteIs ==
  ASSUME NEW b \in {0, 1}
  PROVE  /\ SkipByte(b) \in Byte
         /\ \A n \in 0 .. Width - 1 : Bit(SkipByte(b), n) # b
         /\ \A x \in Byte : x # SkipByte(b) => \E n \in 0 .. Width - 1 : Bit(x, n) = b
  <1>1. \A n \in 0 .. Width - 1 : n \in Nat
    BY WidthIs
  <1>2. SkipByte(b) \in Byte
    BY NoBits, AllBits DEF SkipByte
  <1>3. \A n \in 0 .. Width - 1 : Bit(SkipByte(b), n) = 1 - b
    BY <1>1, NoBits, AllBits DEF SkipByte
  <1>4. ASSUME NEW x \in Byte, \A n \in 0 .. Width - 1 : Bit(x, n) # b
        PROVE  x = SkipByte(b)
    <2>1. \A n \in 0 .. Width - 1 : Bit(x, n) \in {0, 1}
      BY <1>1, BitIs, ByteIsNat
    <2>2. \A n \in 0 .. Width - 1 : Bit(x, n) = 1 - b
      BY <1>4, <2>1
    <2>3. PICK y \in Byte : y = SkipByte(b)
      BY <1>2
    <2>4. \A n \in 0 .. Width - 1 : Bit(x, n) = Bit(y, n)
      BY <1>3, <2>2, <2>3
    <2>5. x = y
      BY <2>4, BitsTell
    <2>6. QED BY <2>3, <2>5
  <1>5. QED BY <1>2, <1>3, <1>4

\* The words without b end behind gone bytes, and word comes next.
Skipped(v, b, gone, word) ==
  /\ gone \in Nat /\ gone <= Len(v)
  /\ \A j \in 1 .. gone : v[j] = SkipByte(b)
  /\ word \in [1 .. WordBytes -> Byte]
  /\ \A i \in 1 .. WordBytes : word[i] = ByteAt(v, gone + i)
  /\ gone + WordBytes <= Len(v) => \E i \in 1 .. WordBytes : word[i] # SkipByte(b)

Found(word, b) ==
  {i \in 0 .. WordBytes * Width - 1 : Bit(word[ByteOffset(i)], BitOffset(i)) = b}

PosIn(gone, word, b) ==
  IF b = 1 /\ word = Zeros(WordBytes) THEN -1
  ELSE Width * gone + (IF Found(word, b) = {} THEN WordBytes * Width
                       ELSE CHOOSE i \in Found(word, b) : \A j \in Found(word, b) : i <= j)

WordIs(v, i) == SubSeq(v, (i - 1) * WordBytes + 1, i * WordBytes)

SkipWord(b) == [i \in 1 .. WordBytes |-> SkipByte(b)]

Words(v, b) == {n \in 0 .. Len(v) \div WordBytes : \A i \in 1 .. n : WordIs(v, i) = SkipWord(b)}

WordAt(v, gone) == [i \in 1 .. WordBytes |-> IF gone + i <= Len(v) THEN v[gone + i] ELSE 0]

\* GetBitPos looks through the word behind the last that it skips.
LEMMA GetBitPosIn ==
  ASSUME NEW v, NEW b
  PROVE  LET gone == WordBytes * (CHOOSE n \in Words(v, b) : \A m \in Words(v, b) : m <= n)
         IN  GetBitPos(v, b) = PosIn(gone, WordAt(v, gone), b)
  BY Zenon DEF GetBitPos, PosIn, Found, WordAt, Words, WordIs, SkipWord, SkipByte

\* GetBitPos skips as many words as it can.
LEMMA SkipsWords ==
  ASSUME NEW v \in Seq(Byte), NEW b \in {0, 1}
  PROVE  \E gone, word : Skipped(v, b, gone, word) /\ GetBitPos(v, b) = PosIn(gone, word, b)
  <1>1. WordBytes \in Nat \ {0} /\ Len(v) \in Nat
    BY StringsAssumption, StringIs
  <1>2. PICK most : most = Len(v) \div WordBytes
    OBVIOUS
  <1>3. /\ most \in Nat /\ WordBytes * most <= Len(v) /\ Len(v) < WordBytes * most + WordBytes
    <2>1. /\ Len(v) = WordBytes * most + (Len(v) % WordBytes)
          /\ Len(v) % WordBytes \in 0 .. WordBytes - 1 /\ most \in Int
      BY <1>1, <1>2, Parts
    <2>2. most \in Nat
      BY <1>1, <1>2
    <2>3. WordBytes * most \in Nat
      BY <1>1, <2>2
    <2>4. QED BY <1>1, <2>1, <2>2, <2>3
  <1>4. PICK words : words = Words(v, b)
    OBVIOUS
  <1>5. /\ words \in SUBSET (0 .. most)
        /\ \A n \in 0 .. most : n \in words <=> \A i \in 1 .. n : WordIs(v, i) = SkipWord(b)
    BY <1>2, <1>4 DEF Words
  <1>6. words \in SUBSET Int /\ words # {} /\ \A n \in words : n <= most
    <2>1. 0 \in 0 .. most
      BY <1>3
    <2>2. 0 \in words
      BY <1>5, <2>1
    <2>3. QED BY <1>3, <1>5, <2>2
  <1>7. PICK g : g = CHOOSE n \in words : \A m \in words : m <= n
    OBVIOUS
  <1>8. g \in words /\ \A m \in words : m <= g
    <2>1. most \in Int
      BY <1>3
    <2>2. \E n \in words : \A m \in words : m <= n
      BY <1>6, <2>1, GreatestExists
    <2>3. QED BY <1>7, <2>2
  <1>9. PICK gone : gone = WordBytes * g
    OBVIOUS
  <1>10. PICK word : word = WordAt(v, gone)
    OBVIOUS
  <1>11. GetBitPos(v, b) = PosIn(gone, word, b)
    BY <1>4, <1>7, <1>9, <1>10, GetBitPosIn
  <1>12. /\ g \in Nat /\ g <= most /\ gone \in Nat /\ gone <= Len(v)
         /\ \A i \in 1 .. g : WordIs(v, i) = SkipWord(b)
    <2>1. g \in 0 .. most
      BY <1>5, <1>8
    <2>2. g \in Nat /\ g <= most
      BY <1>3, <2>1
    <2>3. WordBytes * g <= WordBytes * most
      BY <1>1, <1>3, <2>2, Grows
    <2>4. gone \in Nat
      BY <1>1, <1>9, <2>2
    <2>5. WordBytes * most \in Nat
      BY <1>1, <1>3
    <2>6. QED BY <1>1, <1>3, <1>5, <1>8, <1>9, <2>1, <2>2, <2>3, <2>4, <2>5
  <1>13. ASSUME NEW n \in Nat, n < most
         PROVE  /\ WordBytes * n \in Nat /\ WordBytes * n + WordBytes <= Len(v)
                /\ WordIs(v, n + 1) \in Seq(Byte) /\ Len(WordIs(v, n + 1)) = WordBytes
                /\ \A i \in 1 .. WordBytes : WordIs(v, n + 1)[i] = v[WordBytes * n + i]
    <2>1. PICK a : a = WordBytes * n
      OBVIOUS
    <2>2. a \in Nat /\ a + WordBytes = WordBytes * (n + 1)
      BY <1>1, <2>1
    <2>3. WordBytes * (n + 1) <= WordBytes * most
      <3>1. n + 1 \in Int /\ n + 1 <= most
        BY <1>3, <1>13
      <3>2. QED BY <1>1, <1>3, <3>1, Grows
    <2>4. a + WordBytes <= Len(v)
      <3>1. WordBytes * most \in Nat
        BY <1>1, <1>3
      <3>2. QED BY <1>1, <1>3, <2>2, <2>3, <3>1
    <2>5. WordIs(v, n + 1) = SubSeq(v, a + 1, a + WordBytes)
      <3>1. (n + 1) - 1 = n /\ n * WordBytes = a /\ (n + 1) * WordBytes = a + WordBytes
        BY <1>1, <2>1
      <3>2. QED BY <3>1 DEF WordIs
    <2>6. PICK from : from = a + 1
      OBVIOUS
    <2>7. PICK to : to = a + WordBytes
      OBVIOUS
    <2>8. /\ SubSeq(v, from, to) \in Seq(Byte)
          /\ Len(SubSeq(v, from, to)) = IF from <= to THEN to - from + 1 ELSE 0
          /\ \A i \in 1 .. to - from + 1 : SubSeq(v, from, to)[i] = v[from + i - 1]
      <3>1. from \in Nat \ {0} /\ to \in Int /\ to <= Len(v)
        BY <1>1, <2>2, <2>4, <2>6, <2>7
      <3>2. QED BY <3>1, PartIs
    <2>9. /\ from <= to /\ to - from + 1 = WordBytes
          /\ \A i \in 1 .. WordBytes : from + i - 1 = a + i
      BY <1>1, <2>2, <2>6, <2>7
    <2>10. QED BY <2>1, <2>2, <2>4, <2>5, <2>6, <2>7, <2>8, <2>9
  <1>14. ASSUME NEW j \in 1 .. gone
         PROVE  v[j] = SkipByte(b)
    <2>1. PICK n : n = (j - 1) \div WordBytes
      OBVIOUS
    <2>2. PICK r : r = (j - 1) % WordBytes
      OBVIOUS
    <2>3. j - 1 \in Nat /\ j <= gone
      BY <1>12
    <2>4. j - 1 = WordBytes * n + r /\ r \in 0 .. WordBytes - 1 /\ n \in Nat
      <3>1. PICK x : x = j - 1
        OBVIOUS
      <3>2. x \in Int /\ x \in Nat
        BY <2>3, <3>1
      <3>3. x = WordBytes * (x \div WordBytes) + (x % WordBytes) /\ x % WordBytes \in 0 .. WordBytes - 1
        BY <1>1, <3>2, Parts
      <3>4. x \div WordBytes \in Nat
        BY <1>1, <3>2
      <3>5. QED BY <2>1, <2>2, <3>1, <3>3, <3>4
    <2>5. n < g
      <3>1. SUFFICES ASSUME g <= n
                     PROVE  FALSE
        BY <1>12, <2>4
      <3>2. WordBytes * g <= WordBytes * n
        BY <1>1, <1>12, <2>4, <3>1, Grows
      <3>3. WordBytes * n \in Nat
        BY <1>1, <2>4
      <3>4. QED BY <1>1, <1>9, <1>12, <2>3, <2>4, <3>2, <3>3
    <2>6. n < most /\ n + 1 \in 1 .. g
      BY <1>3, <1>12, <2>4, <2>5
    <2>7. r + 1 \in 1 .. WordBytes
      BY <1>1, <2>4
    <2>8. /\ WordBytes * n \in Nat
          /\ WordIs(v, n + 1)[r + 1] = v[WordBytes * n + (r + 1)]
      BY <1>13, <2>4, <2>6, <2>7
    <2>9. WordIs(v, n + 1)[r + 1] = SkipByte(b)
      BY <1>12, <2>6, <2>7 DEF SkipWord
    <2>10. WordBytes * n + (r + 1) = j
      BY <1>1, <2>4, <2>8
    <2>11. QED BY <2>8, <2>9, <2>10
  <1>15. /\ word \in [1 .. WordBytes -> Byte]
         /\ \A i \in 1 .. WordBytes : word[i] = ByteAt(v, gone + i)
    <2>1. \A i \in 1 .. WordBytes : word[i] = ByteAt(v, gone + i)
      BY <1>10 DEF WordAt, ByteAt
    <2>2. \A i \in 1 .. WordBytes : gone + i \in Nat \ {0}
      BY <1>1, <1>12
    <2>3. \A i \in 1 .. WordBytes : word[i] \in Byte
      BY <2>1, <2>2, ByteAtIs
    <2>4. QED BY <1>10, <2>1, <2>3 DEF WordAt
  <1>16. ASSUME gone + WordBytes <= Len(v)
         PROVE  \E i \in 1 .. WordBytes : word[i] # SkipByte(b)
    <2>1. g < most
      <3>1. SUFFICES ASSUME most <= g
                     PROVE  FALSE
        BY <1>3, <1>12
      <3>2. g = most
        BY <1>3, <1>12, <3>1
      <3>3. QED BY <1>1, <1>3, <1>9, <1>12, <1>16, <3>2
    <2>2. g + 1 \in 0 .. most /\ ~(g + 1 \in words)
      BY <1>3, <1>8, <1>12, <2>1
    <2>3. PICK i \in 1 .. g + 1 : WordIs(v, i) # SkipWord(b)
      BY <1>5, <2>2
    <2>4. i = g + 1
      BY <1>12, <2>3
    <2>5. /\ WordIs(v, g + 1) \in Seq(Byte) /\ Len(WordIs(v, g + 1)) = WordBytes
          /\ \A n \in 1 .. WordBytes : WordIs(v, g + 1)[n] = v[gone + n]
      BY <1>9, <1>12, <1>13, <2>1
    <2>6. \E n \in 1 .. WordBytes : v[gone + n] # SkipByte(b)
      <3>1. SUFFICES ASSUME \A n \in 1 .. WordBytes : v[gone + n] = SkipByte(b)
                     PROVE  FALSE
        OBVIOUS
      <3>2. DOMAIN WordIs(v, g + 1) = 1 .. WordBytes
        BY <2>5, StringIs
      <3>3. WordIs(v, g + 1) = [n \in 1 .. WordBytes |-> WordIs(v, g + 1)[n]]
        BY <2>5, <3>2
      <3>4. WordIs(v, g + 1) = SkipWord(b)
        BY <2>5, <3>1, <3>3 DEF SkipWord
      <3>5. QED BY <2>3, <2>4, <3>4
    <2>7. PICK n \in 1 .. WordBytes : v[gone + n] # SkipByte(b)
      BY <2>6
    <2>8. gone + n <= Len(v)
      BY <1>1, <1>12, <1>16
    <2>9. word[n] = v[gone + n]
      BY <1>15, <2>8 DEF ByteAt
    <2>10. QED BY <2>7, <2>9
  <1>17. Skipped(v, b, gone, word)
    BY <1>12, <1>14, <1>15, <1>16 DEF Skipped
  <1>18. QED BY <1>11, <1>17

\* p is the least number of B.
IsLeast(p, B) == p \in B /\ \A j \in B : p <= j

\* A position that is found in word is the first of its bits that is b.
IsThere(word, b) == Found(word, b) # {} /\ ~(b = 1 /\ word = Zeros(WordBytes))

PosIs(f, gone, word, b) ==
  IsLeast(f, Found(word, b)) /\ PosIn(gone, word, b) = Width * gone + f

\* Where a bit is found, the least of them makes the position.
LEMMA LeastFound ==
  ASSUME NEW word, NEW b, NEW gone, IsThere(word, b)
  PROVE  \E f : PosIs(f, gone, word, b)
  <1>1. PICK B : B = Found(word, b)
    OBVIOUS
  <1>2. B \in SUBSET Nat /\ B # {}
    <2>1. WordBytes * Width - 1 \in Int
      BY WidthIs, StringsAssumption
    <2>2. QED BY <1>1, <2>1 DEF Found, IsThere
  <1>3. PICK f : f = CHOOSE i \in B : \A j \in B : i <= j
    OBVIOUS
  <1>4. f \in B /\ \A j \in B : f <= j
    BY <1>2, <1>3, LeastExists
  <1>5. PosIn(gone, word, b) = Width * gone + f
    BY <1>1, <1>2, <1>3 DEF PosIn, IsThere
  <1>6. QED BY <1>1, <1>4, <1>5 DEF IsLeast, PosIs

\* A bit is found where its byte in the word says.
LEMMA FoundAre ==
  ASSUME NEW word, NEW b, NEW i \in Nat
  PROVE  i \in Found(word, b) <=>
           ByteOffset(i) \in 1 .. WordBytes /\ Bit(word[ByteOffset(i)], BitOffset(i)) = b
  <1>1. PICK n : n = WordBytes
    OBVIOUS
  <1>2. n \in Nat
    BY <1>1, StringsAssumption
  <1>3. i \in 0 .. Width * n - 1 <=> ByteOffset(i) <= n
    BY <1>2, WithinIs
  <1>4. Width * n = WordBytes * Width
    BY <1>1, <1>2, WidthIs
  <1>5. ByteOffset(i) \in 1 .. WordBytes <=> ByteOffset(i) <= n
    BY <1>1, <1>2, OffsetIs
  <1>6. QED BY <1>3, <1>4, <1>5 DEF Found

\* GetBitPos finds the first bit that is b; where there is none it returns -1 for 1,
\* and for 0 the number of bits.
LEMMA GetBitPosIs ==
  ASSUME NEW v \in Seq(Byte), NEW b \in {0, 1}
  PROVE  LET H == Hits(v, 1 .. Len(v), b)
         IN  /\ H # {} => IsLeast(GetBitPos(v, b), H)
             /\ H = {} => GetBitPos(v, b) = IF b = 1 THEN -1 ELSE Width * Len(v)
  <1>1. PICK H : H = Hits(v, 1 .. Len(v), b)
    OBVIOUS
  <1>2. PICK gone, word : Skipped(v, b, gone, word) /\ GetBitPos(v, b) = PosIn(gone, word, b)
    BY SkipsWords
  <1>3. WordBytes \in Nat \ {0} /\ Len(v) \in Nat
    BY StringsAssumption, StringIs
  <1>4. /\ gone \in Nat /\ gone <= Len(v)
        /\ \A j \in 1 .. gone : v[j] = SkipByte(b)
        /\ word \in [1 .. WordBytes -> Byte]
        /\ \A i \in 1 .. WordBytes : word[i] = ByteAt(v, gone + i)
        /\ gone + WordBytes <= Len(v) => \E i \in 1 .. WordBytes : word[i] # SkipByte(b)
    BY <1>2 DEF Skipped
  <1>5. /\ H \subseteq Nat
        /\ \A i \in Nat : i \in H <=>
             ByteOffset(i) \in 1 .. Len(v) /\ Bit(v[ByteOffset(i)], BitOffset(i)) = b
    <2>1. PICK I : I = 1 .. Len(v)
      OBVIOUS
    <2>2. I \in SUBSET (1 .. Len(v))
      BY <2>1
    <2>3. /\ Hits(v, I, b) \subseteq Nat
          /\ \A i \in Nat : i \in Hits(v, I, b) <=>
               ByteOffset(i) \in I /\ Bit(v[ByteOffset(i)], BitOffset(i)) = b
      BY <2>2, HitsAre
    <2>4. QED BY <1>1, <2>1, <2>3
  \* A bit of the word that lies in the string is one of the string.
  <1>6. ASSUME NEW f \in Nat, ByteOffset(f) \in 1 .. WordBytes
        PROVE  /\ Width * gone + f \in Nat
               /\ gone + ByteOffset(f) <= Len(v) =>
                    (f \in Found(word, b) <=> Width * gone + f \in H)
               /\ gone + ByteOffset(f) > Len(v) => (f \in Found(word, b) <=> b = 0)
    <2>1. PICK i : i = Width * gone + f
      OBVIOUS
    <2>2. i \in Nat /\ ByteOffset(i) = gone + ByteOffset(f) /\ BitOffset(i) = BitOffset(f)
      BY <1>4, <2>1, ShiftIs
    <2>3. f \in Found(word, b) <=> Bit(word[ByteOffset(f)], BitOffset(f)) = b
      BY <1>6, FoundAre
    <2>4. word[ByteOffset(f)] = ByteAt(v, ByteOffset(i))
      BY <1>4, <1>6, <2>2
    <2>5. ByteOffset(i) \in Nat \ {0} /\ BitOffset(f) \in Nat
      BY <2>2, OffsetIs, WidthIs
    <2>6. ASSUME ByteOffset(i) <= Len(v)
          PROVE  f \in Found(word, b) <=> i \in H
      <3>1. ByteOffset(i) \in 1 .. Len(v)
        BY <1>3, <2>5, <2>6
      <3>2. word[ByteOffset(f)] = v[ByteOffset(i)]
        BY <2>4, <2>6 DEF ByteAt
      <3>3. QED BY <1>5, <2>2, <2>3, <3>1, <3>2
    <2>7. ASSUME ~(ByteOffset(i) <= Len(v))
          PROVE  f \in Found(word, b) <=> b = 0
      <3>1. word[ByteOffset(f)] = 0
        BY <2>4, <2>7 DEF ByteAt
      <3>2. Bit(0, BitOffset(f)) = 0
        BY <2>5, NoBits
      <3>3. QED BY <2>3, <3>1, <3>2
    <2>8. QED BY <1>3, <1>4, <2>1, <2>2, <2>5, <2>6, <2>7
  \* No bit of the string lies before the word.
  <1>7. ASSUME NEW j \in H
        PROVE  /\ j \in Nat /\ ByteOffset(j) \in 1 .. Len(v) /\ ByteOffset(j) > gone
               /\ \E f \in Nat : j = Width * gone + f /\ ByteOffset(j) = gone + ByteOffset(f)
    <2>1. /\ j \in Nat /\ ByteOffset(j) \in 1 .. Len(v)
          /\ Bit(v[ByteOffset(j)], BitOffset(j)) = b /\ BitOffset(j) \in 0 .. Width - 1
      BY <1>5, OffsetIs
    <2>2. ByteOffset(j) > gone
      <3>1. SUFFICES ASSUME ~(ByteOffset(j) > gone)
                     PROVE  FALSE
        OBVIOUS
      <3>2. ByteOffset(j) \in 1 .. gone
        BY <1>3, <1>4, <2>1, <3>1
      <3>3. v[ByteOffset(j)] = SkipByte(b)
        BY <1>4, <3>2
      <3>4. Bit(SkipByte(b), BitOffset(j)) # b
        BY <2>1, SkipByteIs
      <3>5. QED BY <2>1, <3>3, <3>4
    <2>3. PICK m : m = ByteOffset(j) - gone
      OBVIOUS
    <2>4. PICK n : n = BitOffset(j)
      OBVIOUS
    <2>5. m \in Nat \ {0} /\ n \in 0 .. Width - 1 /\ ByteOffset(j) = gone + m
      BY <1>3, <1>4, <2>1, <2>2, <2>3, <2>4
    <2>6. PICK f : f = OffsetOf(m, n)
      OBVIOUS
    <2>7. f \in Nat /\ ByteOffset(f) = m /\ BitOffset(f) = n
      BY <2>5, <2>6, OffsetOfIs
    <2>8. PICK i : i = Width * gone + f
      OBVIOUS
    <2>9. i \in Nat /\ ByteOffset(i) = gone + m /\ BitOffset(i) = n
      BY <1>4, <2>7, <2>8, ShiftIs
    <2>10. i = j
      BY <2>1, <2>4, <2>5, <2>9, OffsetTells
    <2>11. QED BY <2>1, <2>2, <2>5, <2>7, <2>8, <2>10
  <1>8. Found(word, b) \subseteq Nat /\ \A f \in Found(word, b) : ByteOffset(f) \in 1 .. WordBytes
    <2>1. Found(word, b) \subseteq Nat
      <3>1. WordBytes * Width - 1 \in Int
        BY <1>3, WidthIs
      <3>2. QED BY <3>1 DEF Found
    <2>2. QED BY <2>1, FoundAre
  <1>9. ASSUME NEW i \in 1 .. WordBytes, word[i] # SkipByte(b)
        PROVE  Found(word, b) # {}
    <2>1. word[i] \in Byte
      BY <1>4
    <2>2. PICK n \in 0 .. Width - 1 : Bit(word[i], n) = b
      BY <1>9, <2>1, SkipByteIs
    <2>3. i \in Nat \ {0}
      BY <1>3
    <2>4. OffsetOf(i, n) \in Nat /\ ByteOffset(OffsetOf(i, n)) = i /\ BitOffset(OffsetOf(i, n)) = n
      BY <2>3, OffsetOfIs
    <2>5. OffsetOf(i, n) \in Found(word, b)
      BY <2>2, <2>4, FoundAre
    <2>6. QED BY <2>5
  <1>10. CASE b = 1 /\ word = Zeros(WordBytes)
    <2>1. GetBitPos(v, b) = -1
      BY <1>2, <1>10 DEF PosIn
    <2>2. \A i \in 1 .. WordBytes : word[i] = 0
      <3>1. PICK n : n = WordBytes
        OBVIOUS
      <3>2. n \in Int
        BY <1>3, <3>1
      <3>3. \A i \in 1 .. n : Zeros(n)[i] = 0
        BY <3>2, ZerosAre
      <3>4. QED BY <1>10, <3>1, <3>3
    <2>3. gone + WordBytes > Len(v)
      BY <1>3, <1>4, <1>10, <2>2 DEF SkipByte
    <2>4. H = {}
      <3>1. SUFFICES ASSUME NEW j \in H
                     PROVE  FALSE
        OBVIOUS
      <3>2. PICK f \in Nat : j = Width * gone + f /\ ByteOffset(j) = gone + ByteOffset(f)
        BY <1>7
      <3>3. ByteOffset(f) \in Nat /\ ByteOffset(j) \in 1 .. Len(v) /\ ByteOffset(j) > gone
        BY <1>7, <3>2, OffsetIs
      <3>4. ByteOffset(f) \in 1 .. WordBytes /\ gone + ByteOffset(f) <= Len(v)
        BY <1>3, <1>4, <2>3, <3>2, <3>3
      <3>5. f \in Found(word, b)
        BY <1>6, <3>2, <3>4
      <3>6. Bit(word[ByteOffset(f)], BitOffset(f)) = b
        BY <3>5, FoundAre
      <3>7. Bit(0, BitOffset(f)) = 0
        BY OffsetIs, WidthIs, NoBits
      <3>8. QED BY <1>10, <2>2, <3>4, <3>6, <3>7
    <2>5. QED BY <1>1, <1>10, <2>1, <2>4
  <1>11. CASE ~(b = 1 /\ word = Zeros(WordBytes))
    <2>1. Found(word, b) # {}
      <3>1. CASE b = 1
        <4>1. \E i \in 1 .. WordBytes : word[i] # 0
          <5>1. SUFFICES ASSUME \A i \in 1 .. WordBytes : word[i] = 0
                         PROVE  FALSE
            OBVIOUS
          <5>2. word = [i \in 1 .. WordBytes |-> 0]
            BY <1>4, <5>1
          <5>3. QED BY <1>11, <3>1, <5>2 DEF Zeros
        <4>2. PICK i \in 1 .. WordBytes : word[i] # SkipByte(b)
          BY <3>1, <4>1 DEF SkipByte
        <4>3. QED BY <1>9, <4>2
      <3>2. CASE b = 0
        <4>1. CASE gone + WordBytes <= Len(v)
          BY <1>4, <1>9, <4>1
        <4>2. CASE gone + WordBytes > Len(v)
          <5>1. PICK i : i = Len(v) - gone + 1
            OBVIOUS
          <5>2. i \in 1 .. WordBytes /\ gone + i > Len(v)
            BY <1>3, <1>4, <4>2, <5>1
          <5>3. word[i] = 0
            BY <1>3, <1>4, <5>2 DEF ByteAt
          <5>4. SkipByte(b) # 0
            <6>1. PICK zero \in Byte : zero = 0
              BY NoBits
            <6>2. Width - 1 \in 0 .. Width - 1 /\ Width - 1 \in Nat
              BY WidthIs
            <6>3. Bit(0, Width - 1) = 0
              BY <6>2, NoBits
            <6>4. QED BY <3>2, <6>2, <6>3, SkipByteIs
          <5>5. QED BY <1>9, <5>2, <5>3, <5>4
        <4>3. QED BY <1>3, <1>4, <4>1, <4>2
      <3>3. QED BY <3>1, <3>2
    <2>2. PICK f : IsLeast(f, Found(word, b)) /\ PosIn(gone, word, b) = Width * gone + f
      <3>1. IsThere(word, b)
        BY <1>11, <2>1 DEF IsThere
      <3>2. \E f : PosIs(f, gone, word, b)
        BY <3>1, LeastFound
      <3>3. QED BY <3>2 DEF PosIs
    <2>3. /\ f \in Found(word, b) /\ \A g \in Found(word, b) : f <= g
          /\ f \in Nat /\ ByteOffset(f) \in 1 .. WordBytes
      BY <1>8, <2>2 DEF IsLeast
    <2>4. PICK pos : pos = Width * gone + f
      OBVIOUS
    <2>5. GetBitPos(v, b) = pos /\ pos \in Nat
      BY <1>2, <1>6, <2>2, <2>3, <2>4
    <2>6. ASSUME NEW j \in H
          PROVE  pos <= j
      <3>1. PICK g \in Nat : j = Width * gone + g /\ ByteOffset(j) = gone + ByteOffset(g)
        BY <1>7
      <3>2. ByteOffset(g) \in Nat /\ ByteOffset(j) \in 1 .. Len(v) /\ ByteOffset(j) > gone
        BY <1>7, <3>1, OffsetIs
      <3>3. f <= g
        <4>1. CASE ByteOffset(g) \in 1 .. WordBytes
          <5>1. gone + ByteOffset(g) <= Len(v)
            BY <1>3, <3>1, <3>2
          <5>2. g \in Found(word, b)
            BY <1>6, <3>1, <4>1, <5>1
          <5>3. QED BY <2>3, <5>2
        <4>2. CASE ~(ByteOffset(g) \in 1 .. WordBytes)
          <5>1. ByteOffset(f) < ByteOffset(g)
            BY <1>3, <1>4, <2>3, <3>1, <3>2, <4>2
          <5>2. f < g
            BY <2>3, <5>1, BytesInOrder
          <5>3. QED BY <2>3, <5>2
        <4>3. QED BY <4>1, <4>2
      <3>4. Width * gone \in Nat
        BY <1>4, WidthIs
      <3>5. QED BY <2>3, <2>4, <3>1, <3>3, <3>4
    <2>7. CASE gone + ByteOffset(f) <= Len(v)
      <3>1. pos \in H
        BY <1>6, <2>3, <2>4, <2>7
      <3>2. QED BY <1>1, <2>5, <2>6, <3>1 DEF IsLeast
    <2>8. CASE gone + ByteOffset(f) > Len(v)
      <3>1. b = 0
        BY <1>6, <2>3, <2>8
      <3>2. H = {}
        <4>1. SUFFICES ASSUME NEW j \in H
                       PROVE  FALSE
          OBVIOUS
        <4>2. PICK g \in Nat : j = Width * gone + g /\ ByteOffset(j) = gone + ByteOffset(g)
          BY <1>7
        <4>3. ByteOffset(g) \in Nat /\ ByteOffset(j) \in 1 .. Len(v) /\ ByteOffset(f) \in Nat
          BY <1>7, <2>3, <4>2, OffsetIs
        <4>4. ByteOffset(g) < ByteOffset(f)
          BY <1>3, <1>4, <2>8, <4>2, <4>3
        <4>5. g < f
          BY <2>3, <4>4, BytesInOrder
        <4>6. Width * gone \in Nat
          BY <1>4, WidthIs
        <4>7. pos <= j
          BY <2>6
        <4>8. QED BY <2>3, <2>4, <4>2, <4>5, <4>6, <4>7
      <3>3. pos = Width * Len(v)
        <4>1. PICK m : m = Len(v) - gone
          OBVIOUS
        <4>2. m \in Nat /\ ByteOffset(f) > m /\ m + 1 \in 1 .. WordBytes
          BY <1>3, <1>4, <2>3, <2>8, <4>1
        <4>3. PICK a : a = Width * m
          OBVIOUS
        <4>4. a \in Nat
          BY <4>2, <4>3, WidthIs
        <4>5. ~(f \in 0 .. a - 1)
          <5>1. f \in 0 .. Width * m - 1 <=> ByteOffset(f) <= m
            BY <2>3, <4>2, WithinIs
          <5>2. QED BY <2>3, <4>2, <4>3, <5>1, OffsetIs
        <4>6. a <= f
          BY <2>3, <4>4, <4>5
        <4>7. PICK g : g = OffsetOf(m + 1, Width - 1)
          OBVIOUS
        <4>8. g \in Nat /\ ByteOffset(g) = m + 1
          <5>1. m + 1 \in Nat \ {0} /\ Width - 1 \in 0 .. Width - 1
            BY <4>2, WidthIs
          <5>2. QED BY <4>7, <5>1, OffsetOfIs
        <4>9. g = a
          <5>1. (m + 1) - 1 = m /\ Width - 1 - (Width - 1) = 0
            BY <4>2, WidthIs
          <5>2. QED BY <4>3, <4>4, <4>7, <5>1 DEF OffsetOf
        <4>10. g \in Found(word, b)
          <5>1. ByteOffset(g) \in 1 .. WordBytes /\ gone + ByteOffset(g) > Len(v)
            BY <1>3, <1>4, <4>1, <4>2, <4>8
          <5>2. QED BY <1>6, <3>1, <4>8, <5>1
        <4>11. f = a
          BY <2>3, <4>4, <4>6, <4>9, <4>10
        <4>12. Width * gone + Width * m = Width * Len(v)
          <5>1. Width * (gone + m) = Width * gone + Width * m
            BY <1>4, <4>2, WidthIs
          <5>2. gone + m = Len(v)
            BY <1>3, <1>4, <4>1
          <5>3. QED BY <5>1, <5>2
        <4>13. QED BY <2>4, <4>3, <4>11, <4>12
      <3>4. QED BY <1>1, <2>5, <3>1, <3>2, <3>3
    <2>9. QED BY <1>3, <1>4, <2>3, <2>7, <2>8
  <1>12. QED BY <1>10, <1>11

FirstOf(B) == IF B = {} THEN -1 ELSE CHOOSE i \in B : \A j \in B : i <= j

\* FirstBit is the least of the hits, -1 if there are none.
LEMMA FirstBitIs ==
  ASSUME NEW v, NEW I, NEW b
  PROVE  /\ Hits(v, I, b) = {} => Promise!FirstBit(v, I, b) = -1
         /\ \A p : IsLeast(p, Hits(v, I, b)) /\ Hits(v, I, b) \subseteq Nat =>
              Promise!FirstBit(v, I, b) = p
  <1>1. PICK B : B = Hits(v, I, b)
    OBVIOUS
  <1>2. Promise!FirstBit(v, I, b) = IF B = {} THEN -1 ELSE CHOOSE i \in B : \A j \in B : i <= j
    <2>1. Promise!FirstBit(v, I, b) = FirstOf(Hits(v, I, b))
      BY DEF Promise!FirstBit, Hits, FirstOf
    <2>2. QED BY <1>1, <2>1 DEF FirstOf
  <1>3. ASSUME NEW p, IsLeast(p, B), B \subseteq Nat
        PROVE  Promise!FirstBit(v, I, b) = p
    <2>1. PICK q : q = CHOOSE i \in B : \A j \in B : i <= j
      OBVIOUS
    <2>2. p \in B /\ \A j \in B : p <= j
      BY <1>3 DEF IsLeast
    <2>3. q \in B /\ \A j \in B : q <= j
      BY <2>1, <2>2
    <2>4. p = q
      BY <1>3, <2>2, <2>3
    <2>5. QED BY <1>2, <2>1, <2>2, <2>4
  <1>4. QED BY <1>1, <1>2, <1>3

\* The bits of a part are those of the string behind its first s bytes.
LEMMA PartHits ==
  ASSUME NEW w, NEW v, NEW s, IsPart(w, v, s), NEW b
  PROVE  /\ Hits(w, 1 .. Len(w), b) \subseteq Nat
         /\ Hits(v, s + 1 .. s + Len(w), b) \subseteq Nat
         /\ \A i \in Nat :
              i \in Hits(w, 1 .. Len(w), b) <=> Width * s + i \in Hits(v, s + 1 .. s + Len(w), b)
         /\ \A j \in Hits(v, s + 1 .. s + Len(w), b) : \E i \in Nat : j = Width * s + i
  <1>1. /\ w \in Seq(Byte) /\ v \in Seq(Byte) /\ s \in Nat /\ Len(w) \in Nat /\ Len(v) \in Nat
        /\ s + Len(w) <= Len(v) /\ \A i \in 1 .. Len(w) : w[i] = v[s + i]
    BY StringIs DEF IsPart
  <1>2. PICK J : J = 1 .. Len(w)
    OBVIOUS
  <1>3. PICK I : I = s + 1 .. s + Len(w)
    OBVIOUS
  <1>4. /\ J \in SUBSET (1 .. Len(w)) /\ I \in SUBSET (1 .. Len(v))
        /\ \A i \in Nat \ {0} : i \in J <=> s + i \in I
        /\ \A i \in I : i > s
    BY <1>1, <1>2, <1>3
  <1>5. /\ Hits(w, J, b) \subseteq Nat
        /\ \A i \in Nat : i \in Hits(w, J, b) <=>
             ByteOffset(i) \in J /\ Bit(w[ByteOffset(i)], BitOffset(i)) = b
    BY <1>1, <1>4, HitsAre
  <1>6. /\ Hits(v, I, b) \subseteq Nat
        /\ \A i \in Nat : i \in Hits(v, I, b) <=>
             ByteOffset(i) \in I /\ Bit(v[ByteOffset(i)], BitOffset(i)) = b
    BY <1>1, <1>4, HitsAre
  <1>7. ASSUME NEW i \in Nat
        PROVE  i \in Hits(w, J, b) <=> Width * s + i \in Hits(v, I, b)
    <2>1. PICK j : j = Width * s + i
      OBVIOUS
    <2>2. j \in Nat /\ ByteOffset(j) = s + ByteOffset(i) /\ BitOffset(j) = BitOffset(i)
      BY <1>1, <2>1, ShiftIs
    <2>3. ByteOffset(i) \in Nat \ {0}
      BY OffsetIs
    <2>4. ByteOffset(i) \in J <=> ByteOffset(j) \in I
      BY <1>4, <2>2, <2>3
    <2>5. ByteOffset(i) \in J => w[ByteOffset(i)] = v[ByteOffset(j)]
      BY <1>1, <1>2, <2>2
    <2>6. QED BY <1>5, <1>6, <2>1, <2>2, <2>4, <2>5
  <1>8. ASSUME NEW j \in Hits(v, I, b)
        PROVE  \E i \in Nat : j = Width * s + i
    <2>1. j \in Nat /\ ByteOffset(j) \in I
      BY <1>6
    <2>2. ByteOffset(j) > s
      BY <1>4, <2>1
    <2>3. PICK a : a = Width * s
      OBVIOUS
    <2>4. a \in Nat
      BY <1>1, <2>3, WidthIs
    <2>5. j \in 0 .. Width * s - 1 <=> ByteOffset(j) <= s
      BY <1>1, <2>1, WithinIs
    <2>6. ~(ByteOffset(j) <= s)
      BY <1>1, <2>1, <2>2, OffsetIs
    <2>7. j - a \in Nat /\ j = a + (j - a)
      BY <2>1, <2>3, <2>4, <2>5, <2>6
    <2>8. QED BY <2>3, <2>7
  <1>9. QED BY <1>2, <1>3, <1>5, <1>6, <1>7, <1>8

\* Bytes takes a part.
LEMMA BytesIs ==
  ASSUME NEW v \in Seq(Byte), NEW s \in Nat, NEW e \in Nat, s <= e, e < Len(v)
  PROVE  IsPart(Bytes(v, s, e), v, s) /\ Len(Bytes(v, s, e)) = e - s + 1
  <1>1. Len(v) \in Nat
    BY StringIs
  <1>2. PICK a : a = s + 1
    OBVIOUS
  <1>3. PICK b : b = e + 1
    OBVIOUS
  <1>4. a \in Nat \ {0} /\ b \in Int /\ b <= Len(v) /\ a <= b
    BY <1>1, <1>2, <1>3
  <1>5. Bytes(v, s, e) = SubSeq(v, a, b)
    BY <1>1, <1>2, <1>3, <1>4 DEF Bytes, NotAbove
  <1>6. /\ SubSeq(v, a, b) \in Seq(Byte)
        /\ Len(SubSeq(v, a, b)) = IF a <= b THEN b - a + 1 ELSE 0
        /\ \A i \in 1 .. b - a + 1 : SubSeq(v, a, b)[i] = v[a + i - 1]
    BY <1>4, PartIs
  <1>7. PICK n : n = b - a + 1
    OBVIOUS
  <1>8. n = e - s + 1 /\ n \in Nat /\ s + n <= Len(v) /\ \A i \in 1 .. n : a + i - 1 = s + i
    BY <1>1, <1>2, <1>3, <1>7
  <1>9. QED BY <1>4, <1>5, <1>6, <1>7, <1>8 DEF IsPart

\* PosWithin finds the first bit of bytes s to e.
LEMMA PosWithinIs ==
  ASSUME NEW v \in Seq(Byte), NEW s \in Nat, NEW e \in Nat, s <= e, e < Len(v), NEW b \in {0, 1}
  PROVE  PosWithin(v, b, s, e) = Promise!FirstBit(v, s + 1 .. e + 1, b)
  <1>1. PICK w : w = Bytes(v, s, e)
    OBVIOUS
  <1>2. IsPart(w, v, s) /\ Len(w) = e - s + 1 /\ w \in Seq(Byte)
    BY <1>1, BytesIs DEF IsPart
  <1>3. PICK I : I = s + 1 .. e + 1
    OBVIOUS
  <1>4. I = s + 1 .. s + Len(w) /\ Len(w) \in Nat
    BY <1>2, <1>3
  <1>5. PICK H : H = Hits(w, 1 .. Len(w), b)
    OBVIOUS
  <1>6. PICK G : G = Hits(v, I, b)
    OBVIOUS
  <1>7. /\ H \subseteq Nat /\ G \subseteq Nat
        /\ \A i \in Nat : i \in H <=> Width * s + i \in G
        /\ \A j \in G : \E i \in Nat : j = Width * s + i
    BY <1>2, <1>4, <1>5, <1>6, PartHits
  <1>8. PICK pos : pos = GetBitPos(w, b)
    OBVIOUS
  <1>9. /\ H # {} => IsLeast(pos, H)
        /\ H = {} => pos = IF b = 1 THEN -1 ELSE Width * Len(w)
    BY <1>2, <1>5, <1>8, GetBitPosIs
  <1>10. PosWithin(v, b, s, e) =
           IF pos = -1 \/ (b = 0 /\ pos = Width * (e - s + 1)) THEN -1 ELSE pos + Width * s
    BY <1>1, <1>8 DEF PosWithin
  <1>11. CASE H = {}
    <2>1. PosWithin(v, b, s, e) = -1
      BY <1>2, <1>9, <1>10, <1>11
    <2>2. G = {}
      BY <1>7, <1>11
    <2>3. QED BY <1>3, <1>6, <2>1, <2>2, FirstBitIs
  <1>12. CASE H # {}
    <2>1. pos \in H /\ pos \in Nat /\ \A i \in H : pos <= i
      BY <1>7, <1>9, <1>12 DEF IsLeast
    <2>2. pos \in 0 .. Width * Len(w) - 1
      BY <1>5, <2>1 DEF Hits, Promise!Bits
    <2>3. PosWithin(v, b, s, e) = pos + Width * s
      <3>1. PICK n : n = Width * Len(w)
        OBVIOUS
      <3>2. n \in Nat /\ pos < n
        BY <1>4, <2>1, <2>2, <3>1, WidthIs
      <3>3. pos # -1 /\ pos # n /\ n = Width * (e - s + 1)
        BY <1>2, <2>1, <3>1, <3>2
      <3>4. QED BY <1>10, <3>3
    <2>4. PICK a : a = Width * s
      OBVIOUS
    <2>5. a \in Nat
      BY <2>4, WidthIs
    <2>6. IsLeast(a + pos, G)
      <3>1. a + pos \in G
        BY <1>7, <2>1, <2>4
      <3>2. ASSUME NEW j \in G
            PROVE  a + pos <= j
        <4>1. PICK i \in Nat : j = a + i
          BY <1>7, <2>4
        <4>2. i \in H
          BY <1>7, <2>4, <4>1
        <4>3. QED BY <2>1, <2>5, <4>1, <4>2
      <3>3. QED BY <3>1, <3>2 DEF IsLeast
    <2>7. Promise!FirstBit(v, I, b) = a + pos
      BY <1>6, <1>7, <2>6, FirstBitIs
    <2>8. QED BY <1>3, <2>1, <2>3, <2>4, <2>5, <2>7
  <1>13. QED BY <1>11, <1>12

\* Where a range begins and ends in a string of n bytes.
From(i, n) == NotBelow(FromEnd(i, n), 0)

To(i, n) == NotAbove(FromEnd(i, n), n - 1)

\* A range clamped to the string has the same bytes of it.
LEMMA FromToAre ==
  ASSUME NEW i \in Int, NEW n \in Nat
  PROVE  /\ FromEnd(i, n) \in Int /\ From(i, n) \in Nat /\ To(i, n) \in Int /\ To(i, n) < n
         /\ \A j \in Nat : FromEnd(i, n) <= j <=> From(i, n) <= j
         /\ \A j \in 0 .. n - 1 : j <= FromEnd(i, n) <=> j <= To(i, n)
  BY DEF From, To, NotBelow, NotAbove, FromEnd

\* The bytes between two indices.
LEMMA SliceIs ==
  ASSUME NEW v \in Seq(Byte), NEW start \in Int, NEW stop \in Int
  PROVE  Promise!Slice(v, start, stop) = From(start, Len(v)) + 1 .. To(stop, Len(v)) + 1
  <1>1. PICK n : n = Len(v)
    OBVIOUS
  <1>2. n \in Nat
    BY <1>1, StringIs
  <1>3. Promise!Place(v, start) = FromEnd(start, n) /\ Promise!Place(v, stop) = FromEnd(stop, n)
    BY <1>1, <1>2 DEF Promise!Place, FromEnd
  <1>4. Promise!Slice(v, start, stop) =
          {i \in 1 .. n : FromEnd(start, n) <= i - 1 /\ i - 1 <= FromEnd(stop, n)}
    BY <1>1, <1>3 DEF Promise!Slice
  <1>5. /\ From(start, n) \in Nat /\ To(stop, n) \in Int /\ To(stop, n) < n
        /\ \A j \in Nat : FromEnd(start, n) <= j <=> From(start, n) <= j
        /\ \A j \in 0 .. n - 1 : j <= FromEnd(stop, n) <=> j <= To(stop, n)
    BY <1>2, FromToAre
  <1>6. ASSUME NEW i
        PROVE  i \in Promise!Slice(v, start, stop) <=> i \in From(start, n) + 1 .. To(stop, n) + 1
    <2>1. ASSUME i \in 1 .. n
          PROVE  FromEnd(start, n) <= i - 1 /\ i - 1 <= FromEnd(stop, n)
                   <=> i \in From(start, n) + 1 .. To(stop, n) + 1
      <3>1. i - 1 \in Nat /\ i - 1 \in 0 .. n - 1 /\ i \in Int
        BY <1>2, <2>1
      <3>2. QED BY <1>5, <3>1
    <2>2. i \in From(start, n) + 1 .. To(stop, n) + 1 => i \in 1 .. n
      BY <1>2, <1>5
    <2>3. QED BY <1>4, <2>1, <2>2
  <1>7. QED BY <1>1, <1>6

\* ExpiringStrings counts as RedisStrings does.
LEMMA SameCardinality == \A S : Promise!Cardinality(S) = Cardinality(S)
  BY DEF Promise!Cardinality, Cardinality

InOrder(v, I) ==
  [n \in 1 .. Promise!Cardinality(I) |-> v[CHOOSE i \in I : Promise!Cardinality({j \in I : j <= i}) = n]]

\* The bytes of an interval in their order.
LEMMA SubstringIs ==
  ASSUME NEW v \in Seq(Byte), NEW start, NEW stop, NEW s \in Nat, NEW e \in Int, e < Len(v),
         Promise!Slice(v, start, stop) = s + 1 .. e + 1
  PROVE  Promise!Substring(v, start, stop) = IF s <= e THEN Bytes(v, s, e) ELSE <<>>
  <1>1. PICK I : I = s + 1 .. e + 1
    OBVIOUS
  <1>2. PICK c : c = Promise!Cardinality(I)
    OBVIOUS
  <1>3. c = IF s <= e THEN e - s + 1 ELSE 0
    <2>1. PICK a, b : a = s + 1 /\ b = e + 1
      OBVIOUS
    <2>2. a \in Int /\ b \in Int
      BY <2>1
    <2>3. Cardinality(a .. b) = IF a > b THEN 0 ELSE b - a + 1
      BY <2>2, FS_Interval
    <2>4. QED BY <1>1, <1>2, <2>1, <2>3, SameCardinality
  <1>4. Promise!Substring(v, start, stop) =
          [n \in 1 .. c |-> v[CHOOSE i \in I : Promise!Cardinality({j \in I : j <= i}) = n]]
    <2>1. Promise!Substring(v, start, stop) = InOrder(v, Promise!Slice(v, start, stop))
      BY Zenon DEF Promise!Substring, InOrder
    <2>2. QED BY <1>1, <1>2, <2>1 DEF InOrder
  <1>5. ASSUME NEW n \in 1 .. c
        PROVE  (CHOOSE i \in I : Promise!Cardinality({j \in I : j <= i}) = n) = s + n
    <2>1. c \in Nat /\ s <= e /\ n \in Nat
      BY <1>3, <1>5
    <2>2. ASSUME NEW i \in I
          PROVE  Promise!Cardinality({j \in I : j <= i}) = i - s
      <3>1. PICK a : a = s + 1
        OBVIOUS
      <3>2. i \in Int /\ a \in Int /\ a <= i
        BY <1>1, <3>1
      <3>3. {j \in I : j <= i} = a .. i
        BY <1>1, <3>1, <3>2
      <3>4. Cardinality(a .. i) = i - a + 1
        BY <3>2, FS_Interval
      <3>5. i - a + 1 = i - s
        BY <3>1, <3>2
      <3>6. QED BY <3>3, <3>4, <3>5, SameCardinality
    <2>3. s + n \in I /\ \A i \in I : i - s = n <=> i = s + n
      BY <1>1, <1>3, <2>1
    <2>4. \A i \in I : Promise!Cardinality({j \in I : j <= i}) = n <=> i = s + n
      BY <2>2, <2>3
    <2>5. QED BY <2>3, <2>4
  <1>6. Promise!Substring(v, start, stop) = [n \in 1 .. c |-> v[s + n]]
    BY <1>4, <1>5
  <1>7. CASE s <= e
    <2>1. PICK w : w = Bytes(v, s, e)
      OBVIOUS
    <2>2. e \in Nat
      BY <1>7
    <2>3. IsPart(w, v, s) /\ Len(w) = e - s + 1
      BY <1>7, <2>1, <2>2, BytesIs
    <2>4. w \in Seq(Byte) /\ Len(w) = c /\ \A n \in 1 .. c : w[n] = v[s + n]
      BY <1>3, <1>7, <2>3 DEF IsPart
    <2>5. w = [n \in 1 .. c |-> v[s + n]]
      <3>1. w = [n \in 1 .. Len(w) |-> w[n]]
        BY <2>4
      <3>2. QED BY <2>4, <3>1
    <2>6. QED BY <1>6, <1>7, <2>1, <2>5
  <1>8. CASE ~(s <= e)
    <2>1. 1 .. c = {}
      BY <1>3, <1>8
    <2>2. [n \in 1 .. c |-> v[s + n]] = <<>>
      <3>1. [n \in {} |-> v[s + n]] = <<>>
        OBVIOUS
      <3>2. QED BY <2>1, <3>1
    <2>3. QED BY <1>6, <1>8, <2>2
  <1>9. QED BY <1>7, <1>8

\* GetBit finds the bit at its offset, 0 behind the end.
LEMMA GetBitAsPromised ==
  ASSUME NEW k, Old(k) \in Seq(Byte), NEW offset \in Nat
  PROVE  GetBit(k, offset) = Promise!BitAt(Old(k), offset)
  <1>1. PICK v : v = Old(k)
    OBVIOUS
  <1>2. Promise!BitAt(v, offset) = Bit(ByteAt(v, ByteOffset(offset)), BitOffset(offset))
    BY <1>1, BitAtIs
  <1>3. Bit(0, BitOffset(offset)) = 0
    BY OffsetIs, WidthIs, NoBits
  <1>4. /\ Len(v) \in Nat /\ ByteOffset(offset) \in Nat
    BY <1>1, StringIs, OffsetIs
  <1>5. GetBit(k, offset) = IF ByteOffset(offset) > Len(v) THEN 0
                            ELSE Bit(v[ByteOffset(offset)], BitOffset(offset))
    BY <1>1 DEF GetBit
  <1>6. QED BY <1>1, <1>2, <1>3, <1>4, <1>5 DEF ByteAt

\* A string is a part of itself.
LEMMA WholeIsPart ==
  ASSUME NEW v \in Seq(Byte)
  PROVE  IsPart(v, v, 0)
  BY StringIs DEF IsPart

\* BitCount counts all bits that are set.
LEMMA BitCountAsPromised ==
  ASSUME NEW k, Old(k) \in Seq(Byte)
  PROVE  BitCount(k) = Cardinality(Promise!SetBits(Old(k), DOMAIN Old(k)))
  <1>1. PICK v : v = Old(k)
    OBVIOUS
  <1>2. v \in Seq(Byte) /\ DOMAIN v = 1 .. Len(v) /\ Len(v) \in Nat
    BY <1>1, StringIs
  <1>3. PICK s : s = 0
    OBVIOUS
  <1>4. IsPart(v, v, s)
    BY <1>2, <1>3, WholeIsPart
  <1>5. GetBitCount(v) = Cardinality(Hits(v, s + 1 .. s + Len(v), 1))
    BY <1>4, GetBitCountIs
  <1>6. s + 1 .. s + Len(v) = DOMAIN v
    BY <1>2, <1>3
  <1>7. Hits(v, DOMAIN v, 1) = Promise!SetBits(v, DOMAIN v)
    BY DEF Hits, Promise!SetBits
  <1>8. QED BY <1>1, <1>5, <1>6, <1>7 DEF BitCount

\* BitPos finds the first bit.
LEMMA BitPosAsPromised ==
  ASSUME NEW k, Old(k) \in Seq(Byte), Old(k) # <<>>, NEW b \in {0, 1}
  PROVE  BitPos(k, b) = Promise!FirstBit(Old(k), DOMAIN Old(k), b)
  <1>1. PICK v : v = Old(k)
    OBVIOUS
  <1>2. v \in Seq(Byte) /\ DOMAIN v = 1 .. Len(v) /\ Len(v) \in Nat /\ Len(v) > 0
    BY <1>1, StringIs
  <1>3. PICK s : s = 0
    OBVIOUS
  <1>4. PICK e : e = Len(v) - 1
    OBVIOUS
  <1>5. s \in Nat /\ e \in Nat /\ s <= e /\ e < Len(v) /\ s + 1 .. e + 1 = DOMAIN v
    BY <1>2, <1>3, <1>4
  <1>6. PosWithin(v, b, s, e) = Promise!FirstBit(v, s + 1 .. e + 1, b)
    BY <1>2, <1>5, PosWithinIs
  <1>7. BitPos(k, b) = PosWithin(v, b, s, e)
    BY <1>1, <1>3, <1>4 DEF BitPos
  <1>8. QED BY <1>1, <1>5, <1>6, <1>7

\* A range of the string v of n bytes goes from byte s to byte e, if it has any.
IsRange(v, n, start, end, s, e) ==
  /\ v \in Seq(Byte) /\ n = Len(v) /\ n \in Nat /\ start \in Int /\ end \in Int
  /\ FromEnd(start, n) \in Int /\ FromEnd(end, n) \in Int
  /\ s = From(start, n) /\ e = To(end, n)
  /\ s \in Nat /\ e \in Int /\ e < n
  /\ Promise!Slice(v, start, end) = s + 1 .. e + 1

\* Every two indices make a range.
LEMMA RangeIs ==
  ASSUME NEW v \in Seq(Byte), NEW start \in Int, NEW end \in Int
  PROVE  IsRange(v, Len(v), start, end, From(start, Len(v)), To(end, Len(v)))
  <1>1. PICK n : n = Len(v)
    OBVIOUS
  <1>2. n \in Nat
    BY <1>1, StringIs
  <1>3. /\ FromEnd(start, n) \in Int /\ FromEnd(end, n) \in Int
        /\ From(start, n) \in Nat /\ To(end, n) \in Int /\ To(end, n) < n
    BY <1>2, FromToAre
  <1>4. QED BY <1>1, <1>2, <1>3, SliceIs DEF IsRange

\* A range without bytes has no bits.
LEMMA EmptyRange ==
  ASSUME NEW v, NEW n, NEW start, NEW end, NEW s, NEW e, IsRange(v, n, start, end, s, e),
         ~(s <= e), NEW b
  PROVE  /\ Cardinality(Promise!SetBits(v, Promise!Slice(v, start, end))) = 0
         /\ Promise!FirstBit(v, Promise!Slice(v, start, end), b) = -1
  <1>1. PICK I : I = Promise!Slice(v, start, end)
    OBVIOUS
  <1>2. I = {}
    BY <1>1 DEF IsRange
  <1>3. Hits(v, I, b) = {} /\ Promise!SetBits(v, I) = {}
    BY <1>2 DEF Hits, Promise!SetBits
  <1>4. QED BY <1>1, <1>3, FirstBitIs, FS_EmptySet

\* BitCount of a range counts the bits set in its bytes.
LEMMA BitCountRangeAsPromised ==
  ASSUME NEW k, NEW v, v = Old(k), NEW n, NEW start, NEW end, NEW s, NEW e,
         IsRange(v, n, start, end, s, e), FromEnd(end, n) >= 0
  PROVE  BitCountRange(k, start, end) = Cardinality(Promise!SetBits(v, Promise!Slice(v, start, end)))
  <1>1. BitCountRange(k, start, end) = IF s > e THEN 0 ELSE GetBitCount(Bytes(v, s, e))
    <2>1. /\ s = NotBelow(FromEnd(start, n), 0)
          /\ e = NotAbove(NotBelow(FromEnd(end, n), 0), n - 1)
      BY DEF IsRange, From, To, NotBelow, NotAbove
    <2>2. n = Len(Old(k))
      BY DEF IsRange
    <2>3. QED BY <2>1, <2>2 DEF BitCountRange
  <1>2. CASE s <= e
    <2>1. /\ v \in Seq(Byte) /\ s \in Nat /\ e \in Nat /\ e < Len(v)
      BY <1>2 DEF IsRange
    <2>2. PICK w : w = Bytes(v, s, e)
      OBVIOUS
    <2>3. IsPart(w, v, s) /\ Len(w) = e - s + 1
      BY <1>2, <2>1, <2>2, BytesIs
    <2>4. PICK I : I = s + 1 .. e + 1
      OBVIOUS
    <2>5. s + 1 .. s + Len(w) = I
      BY <2>1, <2>3, <2>4
    <2>6. GetBitCount(w) = Cardinality(Hits(v, s + 1 .. s + Len(w), 1))
      BY <2>3, GetBitCountIs
    <2>7. Hits(v, I, 1) = Promise!SetBits(v, I)
      BY DEF Hits, Promise!SetBits
    <2>8. Promise!Slice(v, start, end) = I
      BY <2>4 DEF IsRange
    <2>9. BitCountRange(k, start, end) = GetBitCount(w)
      BY <1>1, <1>2, <2>1, <2>2
    <2>10. QED BY <2>5, <2>6, <2>7, <2>8, <2>9
  <1>3. CASE ~(s <= e)
    <2>1. s > e
      BY <1>3 DEF IsRange
    <2>2. QED BY <1>1, <1>3, <2>1, EmptyRange
  <1>4. QED BY <1>2, <1>3

\* Getrange returns its bytes.
LEMMA GetrangeAsPromised ==
  ASSUME NEW k, NEW v, v = Old(k), NEW n, NEW start, NEW end, NEW s, NEW e,
         IsRange(v, n, start, end, s, e), FromEnd(end, n) >= 0
  PROVE  Getrange(k, start, end) = Promise!Substring(v, start, end)
  <1>1. PICK f : f = FromEnd(start, n)
    OBVIOUS
  <1>2. PICK t : t = FromEnd(end, n)
    OBVIOUS
  <1>3. /\ v \in Seq(Byte) /\ n = Len(v) /\ n \in Nat /\ f \in Int /\ t \in Int /\ t >= 0
        /\ s = NotBelow(f, 0) /\ e = NotAbove(t, n - 1) /\ s \in Nat /\ e \in Int /\ e < n
        /\ Promise!Slice(v, start, end) = s + 1 .. e + 1
    BY <1>1, <1>2 DEF IsRange, From, To
  <1>4. Promise!Substring(v, start, end) = IF s <= e THEN Bytes(v, s, e) ELSE <<>>
    BY <1>3, SubstringIs
  <1>5. Getrange(k, start, end) =
          IF f > n - 1 \/ (f # 0 /\ f > t) \/ (f # 0 /\ t < 0) THEN <<>>
          ELSE Bytes(v, NotBelow(f, 0),
                     IF NotBelow(f, 0) = 0 /\ NotAbove(t, n - 1) < 0 THEN 0 ELSE NotAbove(t, n - 1))
    <2>1. n = Len(Old(k))
      BY <1>3
    <2>2. QED BY <1>1, <1>2, <2>1 DEF Getrange
  <1>6. CASE s <= e
    <2>1. ~(f > n - 1 \/ (f # 0 /\ f > t) \/ (f # 0 /\ t < 0)) /\ ~(NotAbove(t, n - 1) < 0)
      BY <1>3, <1>6 DEF NotBelow, NotAbove
    <2>2. Getrange(k, start, end) = Bytes(v, s, e)
      BY <1>3, <1>5, <2>1
    <2>3. QED BY <1>4, <1>6, <2>2
  <1>7. CASE ~(s <= e)
    <2>1. Getrange(k, start, end) = <<>>
      <3>1. CASE f > n - 1 \/ (f # 0 /\ f > t) \/ (f # 0 /\ t < 0)
        BY <1>5, <3>1
      <3>2. CASE ~(f > n - 1 \/ (f # 0 /\ f > t) \/ (f # 0 /\ t < 0))
        \* An empty string, and a start before its first byte.
        <4>1. n = 0 /\ f < 0 /\ NotBelow(f, 0) = 0 /\ NotAbove(t, n - 1) < 0
          BY <1>3, <1>7, <3>2 DEF NotBelow, NotAbove
        <4>2. Getrange(k, start, end) = Bytes(v, 0, 0)
          BY <1>5, <3>2, <4>1
        <4>3. Bytes(v, 0, 0) = SubSeq(v, 1, 0)
          BY <1>3, <4>1 DEF Bytes, NotAbove
        <4>4. SubSeq(v, 1, 0) = <<>>
          BY <1>3
        <4>5. QED BY <4>2, <4>3, <4>4
      <3>3. QED BY <3>1, <3>2
    <2>2. QED BY <1>4, <1>7, <2>1
  <1>8. QED BY <1>6, <1>7

\* BitPos of a range finds the first bit in its bytes.
LEMMA BitPosRangeAsPromised ==
  ASSUME NEW k, NEW v, v = Old(k), NEW n, NEW start, NEW end, NEW s, NEW e,
         IsRange(v, n, start, end, s, e), FromEnd(end, n) >= 0, NEW b \in {0, 1}
  PROVE  BitPosRange(k, b, start, end) = Promise!FirstBit(v, Promise!Slice(v, start, end), b)
  <1>1. PICK f : f = FromEnd(start, n)
    OBVIOUS
  <1>2. PICK t : t = FromEnd(end, n)
    OBVIOUS
  <1>3. /\ v \in Seq(Byte) /\ n = Len(v) /\ n \in Nat /\ f \in Int /\ t \in Int /\ t >= 0
        /\ s = NotBelow(f, 0) /\ e = NotAbove(t, n - 1) /\ s \in Nat /\ e \in Int /\ e < n
        /\ Promise!Slice(v, start, end) = s + 1 .. e + 1
    BY <1>1, <1>2 DEF IsRange, From, To
  <1>4. BitPosRange(k, b, start, end) =
          IF s > NotBelow(e, 0) \/ s > n - 1 THEN -1 ELSE PosWithin(v, b, s, NotBelow(e, 0))
    <2>1. n = Len(Old(k))
      BY <1>3
    <2>2. s = NotBelow(FromEnd(start, n), 0) /\ e = NotAbove(FromEnd(end, n), n - 1)
      BY <1>1, <1>2, <1>3
    <2>3. QED BY <2>1, <2>2 DEF BitPosRange
  <1>5. CASE s <= e
    <2>1. e \in Nat /\ NotBelow(e, 0) = e /\ ~(s > e) /\ ~(s > n - 1) /\ e < Len(v)
      BY <1>3, <1>5 DEF NotBelow
    <2>2. BitPosRange(k, b, start, end) = PosWithin(v, b, s, e)
      BY <1>4, <2>1
    <2>3. PosWithin(v, b, s, e) = Promise!FirstBit(v, s + 1 .. e + 1, b)
      BY <1>3, <1>5, <2>1, PosWithinIs
    <2>4. QED BY <1>3, <2>2, <2>3
  <1>6. CASE ~(s <= e)
    <2>1. s > NotBelow(e, 0) \/ s > n - 1
      BY <1>3, <1>6 DEF NotBelow, NotAbove
    <2>2. BitPosRange(k, b, start, end) = -1
      BY <1>4, <2>1
    <2>3. QED BY <1>6, <2>2, EmptyRange
  <1>7. QED BY <1>5, <1>6

\* BitPos from a start finds the first bit from there to the end.
LEMMA BitPosFromAsPromised ==
  ASSUME NEW k, NEW v, v = Old(k), NEW n, NEW start, NEW s, NEW e,
         IsRange(v, n, start, -1, s, e), NEW b \in {0, 1}
  PROVE  BitPosFrom(k, b, start) = Promise!FirstBit(v, Promise!Slice(v, start, -1), b)
  <1>1. PICK f : f = FromEnd(start, n)
    OBVIOUS
  <1>2. /\ v \in Seq(Byte) /\ n = Len(v) /\ n \in Nat /\ f \in Int
        /\ s = NotBelow(f, 0) /\ e = n - 1 /\ s \in Nat
        /\ Promise!Slice(v, start, -1) = s + 1 .. e + 1
    BY <1>1 DEF IsRange, From, To, FromEnd, NotAbove
  <1>3. BitPosFrom(k, b, start) =
          IF s > NotBelow(e, 0) \/ s > n - 1 THEN -1 ELSE PosWithin(v, b, s, NotBelow(e, 0))
    <2>1. n = Len(Old(k))
      BY <1>2
    <2>2. s = NotBelow(FromEnd(start, n), 0) /\ e = n - 1
      BY <1>1, <1>2
    <2>3. QED BY <2>1, <2>2 DEF BitPosFrom
  <1>4. CASE s <= e
    <2>1. e \in Nat /\ NotBelow(e, 0) = e /\ ~(s > e) /\ ~(s > n - 1) /\ e < Len(v)
      BY <1>2, <1>4 DEF NotBelow
    <2>2. BitPosFrom(k, b, start) = PosWithin(v, b, s, e)
      BY <1>3, <2>1
    <2>3. PosWithin(v, b, s, e) = Promise!FirstBit(v, s + 1 .. e + 1, b)
      BY <1>2, <1>4, <2>1, PosWithinIs
    <2>4. QED BY <1>2, <2>2, <2>3
  <1>5. CASE ~(s <= e)
    <2>1. s > n - 1
      BY <1>2, <1>5
    <2>2. BitPosFrom(k, b, start) = -1
      BY <1>3, <2>1
    <2>3. Promise!FirstBit(v, Promise!Slice(v, start, -1), b) = -1
      <3>1. PICK end : end = -1
        OBVIOUS
      <3>2. IsRange(v, n, start, end, s, e)
        BY <3>1
      <3>3. Promise!FirstBit(v, Promise!Slice(v, start, end), b) = -1
        BY <1>5, <3>2, EmptyRange
      <3>4. QED BY <3>1, <3>3
    <2>4. QED BY <2>2, <2>3
  <1>6. QED BY <1>4, <1>5

\* What the reads of key k return.
ReadsKeyAsPromised(k) ==
  LET v == Old(k)
      all == DOMAIN v
  IN  /\ BitCount(k) = Cardinality(Promise!SetBits(v, all))
      /\ \A offset \in Offsets : GetBit(k, offset) = Promise!BitAt(v, offset)
      /\ \A bit \in {0, 1} :
           Live(k) /\ v # <<>> => BitPos(k, bit) = Promise!FirstBit(v, all, bit)
      /\ \A start, end \in Indexes : Promise!Place(v, end) >= 0 =>
           LET I == Promise!Slice(v, start, end)
           IN  /\ BitCountRange(k, start, end) = Cardinality(Promise!SetBits(v, I))
               /\ Getrange(k, start, end) = Promise!Substring(v, start, end)
               /\ \A bit \in {0, 1} :
                    /\ BitPosRange(k, bit, start, end) = Promise!FirstBit(v, I, bit)
                    /\ BitPosFrom(k, bit, start) =
                         Promise!FirstBit(v, Promise!Slice(v, start, -1), bit)
      /\ TTL(k) >= -2 /\ (TTL(k) = -2 <=> Get(k) = NoValue)

\* TTL is -2 exactly of a key without a string.
LEMMA TTLAsPromised ==
  ASSUME StringsInv, NEW k \in Keys
  PROVE  TTL(k) >= -2 /\ (TTL(k) = -2 <=> Get(k) = NoValue)
  <1>1. now \in Int
    BY StringsAssumption DEF StringsInv, StringsTypeOK
  <1>2. CASE ~Live(k)
    BY <1>2, StoredIs DEF TTL
  <1>3. CASE Live(k)
    <2>1. PICK t : t = strings[k].timestamp
      OBVIOUS
    <2>2. t \in Int /\ (t = 0 \/ ~(t < now)) /\ Get(k) # NoValue
      BY <1>3, <2>1, StoredIs DEF Live, IsStale
    <2>3. TTL(k) = IF t = 0 THEN -1 ELSE t - now
      BY <1>3, <2>1 DEF TTL
    <2>4. QED BY <1>1, <2>2, <2>3
  <1>4. QED BY <1>2, <1>3

\* All reads of a key return what ExpiringStrings says.
LEMMA KeyReadsAsPromised ==
  ASSUME StringsInv, NEW k \in Keys
  PROVE  ReadsKeyAsPromised(k)
  <1>1. PICK v : v = Old(k)
    OBVIOUS
  <1>2. v \in Seq(Byte) /\ Old(k) \in Seq(Byte)
    <2>1. <<>> \in Seq(Byte)
      OBVIOUS
    <2>2. QED BY <1>1, <2>1, StoredIs DEF Live
  <1>3. Offsets \subseteq Nat /\ Indexes \subseteq Int
    BY StringsAssumption
  <1>4. BitCount(k) = Cardinality(Promise!SetBits(v, DOMAIN v))
    BY <1>1, <1>2, BitCountAsPromised
  <1>5. \A offset \in Offsets : GetBit(k, offset) = Promise!BitAt(v, offset)
    BY <1>1, <1>2, <1>3, GetBitAsPromised
  <1>6. \A b \in {0, 1} : v # <<>> => BitPos(k, b) = Promise!FirstBit(v, DOMAIN v, b)
    BY <1>1, <1>2, BitPosAsPromised
  <1>7. ASSUME NEW start \in Indexes, NEW end \in Indexes, Promise!Place(v, end) >= 0
        PROVE  /\ BitCountRange(k, start, end) =
                    Cardinality(Promise!SetBits(v, Promise!Slice(v, start, end)))
               /\ Getrange(k, start, end) = Promise!Substring(v, start, end)
               /\ \A b \in {0, 1} :
                    BitPosRange(k, b, start, end) =
                      Promise!FirstBit(v, Promise!Slice(v, start, end), b)
    <2>1. PICK n : n = Len(v)
      OBVIOUS
    <2>2. PICK s : s = From(start, n)
      OBVIOUS
    <2>3. PICK e : e = To(end, n)
      OBVIOUS
    <2>4. start \in Int /\ end \in Int /\ n \in Nat
      BY <1>2, <1>3, <2>1, StringIs
    <2>5. IsRange(v, n, start, end, s, e)
      BY <1>2, <2>1, <2>2, <2>3, <2>4, RangeIs
    <2>6. FromEnd(end, n) >= 0
      BY <1>7, <2>1, <2>4 DEF FromEnd, Promise!Place
    <2>7. BitCountRange(k, start, end) =
            Cardinality(Promise!SetBits(v, Promise!Slice(v, start, end)))
      BY <1>1, <2>5, <2>6, BitCountRangeAsPromised
    <2>8. Getrange(k, start, end) = Promise!Substring(v, start, end)
      BY <1>1, <2>5, <2>6, GetrangeAsPromised
    <2>9. \A b \in {0, 1} :
            BitPosRange(k, b, start, end) = Promise!FirstBit(v, Promise!Slice(v, start, end), b)
      BY <1>1, <2>5, <2>6, BitPosRangeAsPromised
    <2>10. QED BY <2>7, <2>8, <2>9
  <1>8. ASSUME NEW start \in Indexes, NEW b \in {0, 1}
        PROVE  BitPosFrom(k, b, start) = Promise!FirstBit(v, Promise!Slice(v, start, -1), b)
    <2>1. PICK last : last = -1
      OBVIOUS
    <2>2. start \in Int /\ last \in Int
      BY <1>3, <2>1
    <2>3. PICK n : n = Len(v)
      OBVIOUS
    <2>4. PICK s : s = From(start, n)
      OBVIOUS
    <2>5. PICK e : e = To(last, n)
      OBVIOUS
    <2>6. IsRange(v, n, start, last, s, e)
      BY <1>2, <2>2, <2>3, <2>4, <2>5, RangeIs
    <2>7. IsRange(v, n, start, -1, s, e)
      BY <2>1, <2>6
    <2>8. QED BY <1>1, <2>7, BitPosFromAsPromised
  <1>9. TTL(k) >= -2 /\ (TTL(k) = -2 <=> Get(k) = NoValue)
    BY TTLAsPromised
  <1>10. QED BY <1>1, <1>4, <1>5, <1>6, <1>7, <1>8, <1>9 DEF ReadsKeyAsPromised

\* The reads find in every reachable state the bytes and bits that ExpiringStrings says.
THEOREM StringsReadAsPromised == Spec => []ReadsAsPromised
  <1>1. StringsInv => ReadsAsPromised
    BY KeyReadsAsPromised, Zenon DEF ReadsAsPromised, ReadsKeyAsPromised
  <1>2. Spec => []StringsInv
    BY StringsInvHolds
  <1>3. QED BY <1>1, <1>2, PTL
===============================================================================
