-------------------------- MODULE Asn1TypesProofs --------------------------
(***************************************************************************)
(* The codecs of asn1_types.c read what they write and say what it means,  *)
(* for words of any size.  The octets of a number are its quotients by     *)
(* powers of 256; the octets that hold it are longer than a shortest form, *)
(* which is the only one that Minimal admits and the one that the          *)
(* serializers write.  An OBJECT IDENTIFIER is written component by        *)
(* component, and a scan of what was written finds each.  With that, a     *)
(* step of a caller is a read of a node or the write of a value, and       *)
(* CodecInv relates the node, the value, and what was sent and received.   *)
(***************************************************************************)
EXTENDS Asn1Types, Induction, SequenceTheorems, TLAPS

-----------------------------------------------------------------------------
(* Powers and quotients *)

(* Nothing multiplied.                                                     *)
LEMMA ZeroPowers == 256 ^ 0 = 1 /\ 2 ^ 0 = 1 /\ 128 ^ 0 = 1
  OBVIOUS

(* Multiples of a larger number are larger by a factor at least.           *)
LEMMA IntMultiples ==
  ASSUME NEW a \in Int, NEW b \in Int, NEW B \in Nat
  PROVE  a * B \in Int /\ (a + b) * B = a * B + b * B /\ (a < b => a * B + B <= b * B)
  <1>1. a * B \in Int /\ (a + b) * B = a * B + b * B
    OBVIOUS
  <1>2. ASSUME a < b
        PROVE  a * B + B <= b * B
    <2>1. PICK d \in Nat : b = a + 1 + d
      <3>1. b - a - 1 \in Nat /\ b = a + 1 + (b - a - 1)
        BY <1>2
      <3>. QED
        BY <3>1
    <2>2. b * B = a * B + B + d * B
      BY <2>1
    <2>3. d * B >= 0
      OBVIOUS
    <2>. QED
      BY <2>2, <2>3
  <1>. QED
    BY <1>1, <1>2

(* The remainder of a division is less than the divisor.                   *)
LEMMA IntDivision ==
  ASSUME NEW n \in Int, NEW B \in Nat \ {0}
  PROVE  /\ n \div B \in Int /\ (n \div B) * B <= n /\ n < (n \div B) * B + B
         /\ n % B \in 0 .. B - 1 /\ n = (n \div B) * B + (n % B)
  OBVIOUS

(* The quotient of a division is the only one with such a remainder.       *)
LEMMA IntQuotient ==
  ASSUME NEW n \in Int, NEW B \in Nat \ {0}, NEW q \in Int, q * B <= n, n < q * B + B
  PROVE  n \div B = q
  <1>1. PICK p \in Int : p = n \div B /\ p * B <= n /\ n < p * B + B
    BY IntDivision
  <1>2. (p < q => p * B + B <= q * B) /\ (q < p => q * B + B <= p * B)
    BY IntMultiples
  <1>3. ~(p < q) /\ ~(q < p)
    <2>1. p * B \in Int /\ q * B \in Int
      OBVIOUS
    <2>. QED
      BY <1>1, <1>2, <2>1
  <1>. QED
    BY <1>1, <1>3

(* Dividing twice.                                                         *)
LEMMA DivisionTwice ==
  ASSUME NEW n \in Int, NEW p \in Nat \ {0}, NEW b \in Nat \ {0}
  PROVE  n \div (b * p) = (n \div p) \div b
  <1>1. PICK q \in Int : q = n \div p /\ q * p <= n /\ n < q * p + p
    BY IntDivision
  <1>2. PICK r \in Int : r = q \div b /\ r * b <= q /\ q < r * b + b
    BY IntDivision
  <1>3. b * p \in Nat \ {0}
    OBVIOUS
  <1>4. r * (b * p) <= n
    <2>1. r * (b * p) = (r * b) * p /\ (r * b) * p <= q * p
      <3>1. r * b \in Int /\ r * (b * p) = (r * b) * p
        OBVIOUS
      <3>2. r * b < q => (r * b) * p + p <= q * p
        BY <3>1, IntMultiples
      <3>3. r * b = q => (r * b) * p = q * p
        OBVIOUS
      <3>. QED
        BY <1>2, <3>1, <3>2, <3>3
    <2>. QED
      BY <1>1, <2>1
  <1>5. n < r * (b * p) + b * p
    <2>1. r * (b * p) + b * p = (r * b + b) * p /\ r * b + b \in Int
      OBVIOUS
    <2>2. q < r * b + b => q * p + p <= (r * b + b) * p
      BY <2>1, IntMultiples
    <2>. QED
      BY <1>1, <1>2, <2>1, <2>2
  <1>6. r * (b * p) \in Int
    OBVIOUS
  <1>7. n \div (b * p) = r
    BY <1>3, <1>4, <1>5, IntQuotient
  <1>. QED
    BY <1>1, <1>2, <1>7

(* Powers are positive if each is the base times the one before.           *)
LEMMA PositivePowers ==
  ASSUME NEW b \in Nat \ {0}, NEW n \in Nat, b ^ 0 = 1, \A k \in 0 .. n : b ^ (k + 1) = b * b ^ k
  PROVE  \A k \in 0 .. n + 1 : b ^ k \in Nat \ {0}
  <1> DEFINE S == {k \in 0 .. n + 1 : b ^ k \in Nat \ {0}}
  <1>1. 0 \in S
    OBVIOUS
  <1>2. ASSUME NEW k \in 0 .. (n + 1) - 1, k \in S
        PROVE  k + 1 \in S
    <2>1. k \in 0 .. n /\ k + 1 \in 0 .. n + 1
      OBVIOUS
    <2>2. b ^ (k + 1) = b * b ^ k /\ b ^ k \in Nat \ {0}
      BY <1>2, <2>1
    <2>. QED
      BY <2>1, <2>2
  <1>3. 0 .. n + 1 \subseteq S
    <2> HIDE DEF S
    <2>. QED
      BY <1>1, <1>2, UpTo
  <1>. QED
    BY <1>3

(* Powers of 256 are positive.                                             *)
LEMMA PowersOf256 ==
  /\ \A k \in 0 .. IntOctets + 1 : 256 ^ k \in Nat \ {0}
  /\ \A k \in 0 .. IntOctets : 256 ^ (k + 1) = 256 * 256 ^ k
  <1>1. IntOctets \in Nat /\ \A k \in 0 .. IntOctets : 256 ^ (k + 1) = 256 * 256 ^ k
    BY Asn1TypesAssumption, PowersOfBases
  <1>2. 256 \in Nat \ {0} /\ 256 ^ 0 = 1
    BY ZeroPowers
  <1>. QED
    BY <1>1, <1>2, PositivePowers, ZenonT(60)

(* Powers of 128 are positive.                                             *)
LEMMA PowersOf128 ==
  /\ \A k \in 0 .. Septets + 1 : 128 ^ k \in Nat \ {0}
  /\ \A k \in 0 .. Septets : 128 ^ (k + 1) = 128 * 128 ^ k
  <1>1. Septets \in Nat /\ \A k \in 0 .. Septets : 128 ^ (k + 1) = 128 * 128 ^ k
    BY Asn1TypesAssumption, PowersOfBases
  <1>2. 128 \in Nat \ {0} /\ 128 ^ 0 = 1
    BY ZeroPowers
  <1>. QED
    BY <1>1, <1>2, PositivePowers, Zenon

(* Bits below those in use.                                                *)
LEMMA LowBits ==
  ASSUME NEW x \in Octet, NEW u \in 0 .. 7, NEW e \in 0 .. 7, e < u, x % 2 ^ u = 0
  PROVE  (x \div 2 ^ e) % 2 = 0
  <1>1. /\ 2 ^ 0 = 1 /\ 2 ^ 1 = 2 /\ 2 ^ 2 = 4 /\ 2 ^ 3 = 8
        /\ 2 ^ 4 = 16 /\ 2 ^ 5 = 32 /\ 2 ^ 6 = 64 /\ 2 ^ 7 = 128
    OBVIOUS
  <1>2. x \in Nat /\ x <= 255
    BY DEF Octet
  <1> DEFINE p == 2 ^ u
             q == 2 ^ e
  <1>3. /\ (u = 1 => p = 2)
        /\ (u = 2 => p = 4)
        /\ (u = 3 => p = 8)
        /\ (u = 4 => p = 16)
        /\ (u = 5 => p = 32)
        /\ (u = 6 => p = 64)
        /\ (u = 7 => p = 128)
    BY <1>1, ZenonT(60)
  <1>4. /\ (e = 0 => q = 1)
        /\ (e = 1 => q = 2)
        /\ (e = 2 => q = 4)
        /\ (e = 3 => q = 8)
        /\ (e = 4 => q = 16)
        /\ (e = 5 => q = 32)
        /\ (e = 6 => q = 64)
    BY <1>1
  <1>5. x % p = 0
    OBVIOUS
  <1> HIDE DEF p, q
  <1>6. ASSUME e = 0
        PROVE  (x \div q) % 2 = 0
    <2>1. u = 1 => (x \div 1) % 2 = 0
      BY <1>2, <1>3, <1>5
    <2>2. u = 2 => (x \div 1) % 2 = 0
      BY <1>2, <1>3, <1>5
    <2>3. u = 3 => (x \div 1) % 2 = 0
      BY <1>2, <1>3, <1>5
    <2>4. u = 4 => (x \div 1) % 2 = 0
      BY <1>2, <1>3, <1>5
    <2>5. u = 5 => (x \div 1) % 2 = 0
      BY <1>2, <1>3, <1>5
    <2>6. u = 6 => (x \div 1) % 2 = 0
      BY <1>2, <1>3, <1>5
    <2>7. u = 7 => (x \div 1) % 2 = 0
      BY <1>2, <1>3, <1>5
    <2>8. u = 1 \/ u = 2 \/ u = 3 \/ u = 4 \/ u = 5 \/ u = 6 \/ u = 7
      BY <1>6
    <2>. QED
      BY <2>1, <2>2, <2>3, <2>4, <2>5, <2>6, <2>7, <2>8, <1>4, <1>6
  <1>7. ASSUME e = 1
        PROVE  (x \div q) % 2 = 0
    <2>1. u = 2 => (x \div 2) % 2 = 0
      BY <1>2, <1>3, <1>5
    <2>2. u = 3 => (x \div 2) % 2 = 0
      BY <1>2, <1>3, <1>5
    <2>3. u = 4 => (x \div 2) % 2 = 0
      BY <1>2, <1>3, <1>5
    <2>4. u = 5 => (x \div 2) % 2 = 0
      BY <1>2, <1>3, <1>5
    <2>5. u = 6 => (x \div 2) % 2 = 0
      BY <1>2, <1>3, <1>5
    <2>6. u = 7 => (x \div 2) % 2 = 0
      BY <1>2, <1>3, <1>5
    <2>7. u = 2 \/ u = 3 \/ u = 4 \/ u = 5 \/ u = 6 \/ u = 7
      BY <1>7
    <2>. QED
      BY <2>1, <2>2, <2>3, <2>4, <2>5, <2>6, <2>7, <1>4, <1>7
  <1>8. ASSUME e = 2
        PROVE  (x \div q) % 2 = 0
    <2>1. u = 3 => (x \div 4) % 2 = 0
      BY <1>2, <1>3, <1>5
    <2>2. u = 4 => (x \div 4) % 2 = 0
      BY <1>2, <1>3, <1>5
    <2>3. u = 5 => (x \div 4) % 2 = 0
      BY <1>2, <1>3, <1>5
    <2>4. u = 6 => (x \div 4) % 2 = 0
      BY <1>2, <1>3, <1>5
    <2>5. u = 7 => (x \div 4) % 2 = 0
      BY <1>2, <1>3, <1>5
    <2>6. u = 3 \/ u = 4 \/ u = 5 \/ u = 6 \/ u = 7
      BY <1>8
    <2>. QED
      BY <2>1, <2>2, <2>3, <2>4, <2>5, <2>6, <1>4, <1>8
  <1>9. ASSUME e = 3
        PROVE  (x \div q) % 2 = 0
    <2>1. u = 4 => (x \div 8) % 2 = 0
      BY <1>2, <1>3, <1>5
    <2>2. u = 5 => (x \div 8) % 2 = 0
      BY <1>2, <1>3, <1>5
    <2>3. u = 6 => (x \div 8) % 2 = 0
      BY <1>2, <1>3, <1>5
    <2>4. u = 7 => (x \div 8) % 2 = 0
      BY <1>2, <1>3, <1>5
    <2>5. u = 4 \/ u = 5 \/ u = 6 \/ u = 7
      BY <1>9
    <2>. QED
      BY <2>1, <2>2, <2>3, <2>4, <2>5, <1>4, <1>9
  <1>10. ASSUME e = 4
        PROVE  (x \div q) % 2 = 0
    <2>1. u = 5 => (x \div 16) % 2 = 0
      BY <1>2, <1>3, <1>5
    <2>2. u = 6 => (x \div 16) % 2 = 0
      BY <1>2, <1>3, <1>5
    <2>3. u = 7 => (x \div 16) % 2 = 0
      BY <1>2, <1>3, <1>5
    <2>4. u = 5 \/ u = 6 \/ u = 7
      BY <1>10
    <2>. QED
      BY <2>1, <2>2, <2>3, <2>4, <1>4, <1>10
  <1>11. ASSUME e = 5
        PROVE  (x \div q) % 2 = 0
    <2>1. u = 6 => (x \div 32) % 2 = 0
      BY <1>2, <1>3, <1>5
    <2>2. u = 7 => (x \div 32) % 2 = 0
      BY <1>2, <1>3, <1>5
    <2>3. u = 6 \/ u = 7
      BY <1>11
    <2>. QED
      BY <2>1, <2>2, <2>3, <1>4, <1>11
  <1>12. ASSUME e = 6
        PROVE  (x \div q) % 2 = 0
    <2>1. u = 7 => (x \div 64) % 2 = 0
      BY <1>2, <1>3, <1>5
    <2>2. u = 7
      BY <1>12
    <2>. QED
      BY <2>1, <2>2, <1>4, <1>12
  <1>13. (x \div q) % 2 = 0
    BY <1>6, <1>7, <1>8, <1>9, <1>10, <1>11, <1>12
  <1>. QED
    BY <1>13 DEF q

(* The bits that the accessor can reach beyond the count.                  *)
LEMMA BitsAreClear ==
  ASSUME NEW v \in [bytes : Seq(Octet), unused : 0 .. 7], UnusedClear(v.bytes, v.unused)
  PROVE  /\ BitCount(v) \in 0 .. 8 * Len(v.bytes)
         /\ \A i \in BitCount(v) .. 8 * Len(v.bytes) + 8 : ~BitGet(v, i)
  <1> DEFINE L == Len(v.bytes)
             u == v.unused
  <1>1. v.bytes \in Seq(Octet) /\ L \in Nat /\ u \in 0 .. 7
    OBVIOUS
  <1>2. CASE v.bytes = <<>>
    <2>1. L = 0 /\ BitCount(v) = 0
      BY <1>2 DEF BitCount
    <2>2. \A i \in 0 .. 8 : ~(i \div 8 < 0)
      OBVIOUS
    <2>. QED
      BY <2>1, <2>2 DEF BitGet
  <1>3. CASE v.bytes # <<>>
    <2>1. L >= 1 /\ BitCount(v) = L * 8 - u /\ v.bytes[L] % 2 ^ u = 0 /\ v.bytes[L] \in Octet
      <3>1. L >= 1
        BY <1>1, <1>3
      <3>. QED
        BY <1>1, <1>3, <3>1, ElementOfSeq DEF BitCount, UnusedClear
    <2>2. BitCount(v) \in 0 .. 8 * L
      <3> HIDE DEF L, u
      <3>. QED
        BY <1>1, <2>1
    <2>3. ASSUME NEW i \in BitCount(v) .. 8 * L + 8, BitGet(v, i)
          PROVE  FALSE
      <3>1. i \in Nat /\ i >= L * 8 - u /\ i \div 8 < L
        <4>1. i \div 8 < Len(v.bytes)
          BY <2>3 DEF BitGet
        <4> HIDE DEF L, u
        <4>2. i \in Nat /\ i >= L * 8 - u
          BY <1>1, <2>1, <2>2
        <4>. QED
          BY <4>1, <4>2 DEF L
      <3> DEFINE e == 7 - (i % 8)
      <3>2. i \div 8 + 1 = L /\ e \in 0 .. 7 /\ e < u
        <4> HIDE DEF L, u
        <4>. QED
          BY <1>1, <2>1, <3>1
      <3>3. (v.bytes[L] \div 2 ^ e) % 2 = 0
        <4> HIDE DEF e, L, u
        <4>. QED
          BY <1>1, <2>1, <3>2, LowBits
      <3>4. (v.bytes[L] \div 2 ^ e) % 2 = 1
        BY <2>3, <3>2 DEF BitGet
      <3>. QED
        BY <3>3, <3>4
    <2>. QED
      BY <2>2, <2>3
  <1>. QED
    BY <1>2, <1>3

(* Powers grow, up to the largest of those given.                          *)
LEMMA PowersGrow ==
  ASSUME NEW b \in Nat \ {0}, NEW n \in Nat, b ^ 0 = 1, \A k \in 0 .. n : b ^ (k + 1) = b * b ^ k,
         NEW j \in 0 .. n + 1
  PROVE  \A i \in j .. n + 1 : b ^ j <= b ^ i
  <1> DEFINE S == {d \in 0 .. n + 1 - j : b ^ j <= b ^ (j + d)}
  <1>1. \A k \in 0 .. n + 1 : b ^ k \in Nat \ {0}
    BY PositivePowers
  <1>2. 0 \in S
    <2>1. b ^ j \in Nat /\ j + 0 = j
      BY <1>1
    <2>. QED
      BY <2>1
  <1>3. ASSUME NEW d \in 0 .. (n + 1 - j) - 1, d \in S
        PROVE  d + 1 \in S
    <2>1. j + d \in 0 .. n /\ j + (d + 1) = (j + d) + 1 /\ d + 1 \in 0 .. n + 1 - j
      OBVIOUS
    <2> DEFINE p == b ^ (j + d)
    <2>2. b ^ (j + (d + 1)) = b * p /\ p \in Nat \ {0} /\ b ^ j <= p
      BY <1>1, <1>3, <2>1
    <2>3. p <= b * p
      <3> HIDE DEF p
      <3>1. b * p = p + (b - 1) * p /\ (b - 1) * p >= 0
        BY <2>2
      <3>. QED
        BY <2>2, <3>1
    <2>4. b ^ j \in Nat /\ b * p \in Nat
      BY <1>1, <2>2
    <2>5. b ^ j <= b ^ (j + (d + 1))
      <3> HIDE DEF p
      <3>. QED
        BY <2>2, <2>3, <2>4
    <2>. QED
      BY <2>1, <2>5
  <1>4. 0 .. n + 1 - j \subseteq S
    <2> HIDE DEF S
    <2>. QED
      BY <1>2, <1>3, UpTo
  <1>5. ASSUME NEW i \in j .. n + 1
        PROVE  b ^ j <= b ^ i
    <2>1. i - j \in 0 .. n + 1 - j /\ j + (i - j) = i
      OBVIOUS
    <2>. QED
      BY <1>4, <2>1
  <1>. QED
    BY <1>5

(* The digits of a number are as many as its size calls for.               *)
LEMMA DigitsOfNumber ==
  ASSUME NEW b \in Nat \ {0}, NEW m \in Nat, b ^ 0 = 1, \A k \in 0 .. m : b ^ (k + 1) = b * b ^ k,
         NEW n \in Nat, n < b ^ m
  PROVE  /\ DigitCount(n, b, m) \in 0 .. m /\ n < b ^ DigitCount(n, b, m)
         /\ DigitCount(n, b, m) # 0 => b ^ (DigitCount(n, b, m) - 1) <= n
         /\ n # 0 => DigitCount(n, b, m) # 0
  <1> DEFINE T == {k \in 0 .. m : n < b ^ k}
  <1>1. \A k \in 0 .. m + 1 : b ^ k \in Nat \ {0}
    BY PositivePowers
  <1>2. m \in T /\ T \in SUBSET Nat /\ T # {}
    <2>1. m \in 0 .. m
      OBVIOUS
    <2>2. m \in T
      BY <2>1
    <2>3. T \in SUBSET Nat
      OBVIOUS
    <2> HIDE DEF T
    <2>. QED
      BY <2>2, <2>3
  <1>3. PICK k \in T : \A i \in T : k <= i
    <2> HIDE DEF T
    <2>. QED
      BY <1>2, LeastNatural
  <1>4. k \in 0 .. m /\ n < b ^ k
    BY <1>3
  <1>5. ASSUME NEW i \in 0 .. k - 1
        PROVE  b ^ i <= n /\ i \in 0 .. m - 1
    <2>1. i \in 0 .. m /\ i \in 0 .. m - 1 /\ i < k
      BY <1>4
    <2>2. i \notin T
      BY <1>3, <1>4, <2>1
    <2>3. ~(n < b ^ i) /\ b ^ i \in Nat
      BY <1>1, <2>1, <2>2
    <2>. QED
      BY <2>1, <2>3
  <1>6. ASSUME NEW i \in 0 .. m - 1, i >= k
        PROVE  n < b ^ i
    <2>1. k \in 0 .. m + 1 /\ i \in k .. m + 1 /\ i \in 0 .. m + 1
      BY <1>4, <1>6
    <2>2. b ^ k <= b ^ i
      BY <2>1, PowersGrow
    <2>3. b ^ k \in Nat /\ b ^ i \in Nat
      BY <1>1, <2>1
    <2>. QED
      BY <1>4, <2>2, <2>3
  <1>7. ASSUME NEW i \in 0 .. m - 1
        PROVE  n \div b ^ i > 0 <=> b ^ i <= n
    <2> DEFINE p == b ^ i
    <2>1. p \in Nat \ {0}
      BY <1>1
    <2> HIDE DEF p
    <2>2. PICK q \in Nat : q = n \div p /\ q * p <= n /\ n < q * p + p
      BY <2>1, Division
    <2>3. q > 0 => p <= q * p
      <3>1. q > 0 => q * p = p + (q - 1) * p /\ (q - 1) * p >= 0
        BY <2>1
      <3>. QED
        BY <2>1, <3>1
    <2>4. q = 0 => q * p = 0
      BY <2>1
    <2>5. q * p \in Nat
      BY <2>1
    <2>6. n \div p > 0 <=> p <= n
      BY <2>1, <2>2, <2>3, <2>4, <2>5
    <2>. QED
      BY <2>6 DEF p
  <1>8. {i \in 0 .. m - 1 : n \div b ^ i > 0} = 0 .. k - 1
    <2>1. ASSUME NEW i \in 0 .. m - 1
          PROVE  n \div b ^ i > 0 <=> i \in 0 .. k - 1
      <3>1. CASE i >= k
        <4>1. n < b ^ i /\ b ^ i \in Nat
          BY <1>1, <1>6, <3>1
        <4>2. ~(b ^ i <= n)
          BY <4>1
        <4>. QED
          BY <1>4, <1>7, <3>1, <4>2
      <3>2. CASE i < k
        <4>1. i \in 0 .. k - 1
          BY <1>4, <3>2
        <4>. QED
          BY <1>5, <1>7, <4>1
      <3>. QED
        BY <1>4, <3>1, <3>2
    <2>2. \A i \in 0 .. k - 1 : i \in 0 .. m - 1
      BY <1>5
    <2>. QED
      BY <2>1, <2>2
  <1>9. Cardinality(0 .. k - 1) = k
    <2>1. 0 \in Int /\ k - 1 \in Int
      BY <1>4
    <2>2. Cardinality(0 .. k - 1) = IF 0 > k - 1 THEN 0 ELSE (k - 1) - 0 + 1
      BY <2>1, FS_Interval
    <2>. QED
      BY <1>4, <2>2
  <1>10. DigitCount(n, b, m) = k
    BY <1>8, <1>9 DEF DigitCount
  <1>11. k # 0 => b ^ (k - 1) <= n
    <2>1. k # 0 => k - 1 \in 0 .. k - 1
      BY <1>4
    <2>. QED
      BY <1>5, <2>1
  <1>12. n # 0 => k # 0
    BY <1>4
  <1>. QED
    BY <1>4, <1>10, <1>11, <1>12

-----------------------------------------------------------------------------
(* Octets and the number that they spell                                   *)

(* Shifted is defined, and adds an octet at a time.                        *)
LEMMA ShiftedSteps ==
  ASSUME NEW start \in Int, NEW octets \in Seq(Octet)
  PROVE  /\ Shifted(start, octets) \in [0 .. Len(octets) -> Int]
         /\ Shifted(start, octets)[0] = start
         /\ \A i \in 1 .. Len(octets) :
              Shifted(start, octets)[i] = Shifted(start, octets)[i - 1] * 256 + octets[i]
  <1> DEFINE n == Len(octets)
             step == [i \in 1 .. n |-> [x \in Int |-> x * 256 + octets[i]]]
  <1>1. n \in Nat /\ \A i \in 1 .. n : octets[i] \in Octet /\ octets[i] \in Nat
    <2>1. n \in Nat
      BY LenProperties, octets \in Seq(Octet), Zenon
    <2>2. \A i \in 1 .. n : octets[i] \in Octet
      BY ElementOfSeq
    <2>3. Octet \subseteq Nat
      BY DEF Octet
    <2> HIDE DEF n, step
    <2>. QED
      BY <2>1, <2>2, <2>3
  <1>2. step \in [1 .. n -> [Int -> Int]]
    BY <1>1
  <1>3. PICK f \in [0 .. n -> Int] : Loop(f, n, start, step)
    <2> HIDE DEF step, n
    <2>. QED
      BY <1>1, <1>2, LoopExists
  <1> DEFINE Word(g) == g = [i \in 0 .. n |-> IF i = 0 THEN start ELSE g[i - 1] * 256 + octets[i]]
  <1>4. Word(f)
    <2>1. f = [i \in 0 .. n |-> IF i = 0 THEN start ELSE step[i][f[i - 1]]]
      BY <1>3 DEF Loop
    <2>2. \A i \in 1 .. n : step[i][f[i - 1]] = f[i - 1] * 256 + octets[i]
      <3>1. \A i \in 1 .. n : f[i - 1] \in Int
        <4> HIDE DEF step, n
        <4>. QED
          BY <1>1, <1>3
      <3>. QED
        BY <1>1, <3>1
    <2>3. \A i \in 0 .. n : f[i] = IF i = 0 THEN start ELSE f[i - 1] * 256 + octets[i]
      <3>1. \A i \in 0 .. n : f[i] = IF i = 0 THEN start ELSE step[i][f[i - 1]]
        <4> HIDE DEF step, n
        <4>. QED
          BY <2>1
      <3>2. \A i \in 0 .. n : i = 0 \/ i \in 1 .. n
        BY <1>1
      <3> HIDE DEF step, n
      <3>. QED
        BY <2>2, <3>1, <3>2
    <2> HIDE DEF n, step
    <2>. QED
      BY <1>3, <2>3
  <1>5. Word(Shifted(start, octets))
    <2>1. Shifted(start, octets) = CHOOSE g : Word(g)
      BY DEF Shifted
    <2> HIDE DEF Word
    <2>. QED
      BY <1>4, <2>1
  <1> DEFINE g == Shifted(start, octets)
  <1>6. g = [i \in 0 .. n |-> IF i = 0 THEN start ELSE g[i - 1] * 256 + octets[i]]
    BY <1>5
  <1>7. g[0] = start /\ \A i \in 1 .. n : g[i] = g[i - 1] * 256 + octets[i]
    <2> HIDE DEF n, g
    <2>. QED
      BY <1>1, <1>6
  <1>8. \A i \in 0 .. n : g[i] \in Int
    <2> DEFINE S == {i \in 0 .. n : g[i] \in Int}
    <2>1. 0 \in S
      BY <1>1, <1>7
    <2>2. ASSUME NEW i \in 0 .. n - 1, i \in S
          PROVE  i + 1 \in S
      <3>1. g[i] \in Int /\ i + 1 \in 1 .. n /\ (i + 1) - 1 = i
        BY <1>1, <2>2
      <3>2. g[i + 1] = g[i] * 256 + octets[i + 1] /\ octets[i + 1] \in Nat
        BY <1>1, <1>7, <3>1
      <3>. QED
        BY <3>1, <3>2
    <2>3. 0 .. n \subseteq S
      <3> HIDE DEF S, n
      <3>. QED
        BY <1>1, <2>1, <2>2, UpTo
    <2>. QED
      BY <2>3
  <1>9. g \in [0 .. n -> Int]
    <2> HIDE DEF n, g
    <2>. QED
      BY <1>6, <1>8
  <1>. QED
    BY <1>7, <1>9

(* Division by a product is division by its factors in turn.               *)
LEMMA DivisionBy256 ==
  ASSUME NEW n \in Int, NEW p \in Nat \ {0}
  PROVE  n \div (256 * p) = (n \div p) \div 256
  <1>1. PICK b \in Nat \ {0} : b = 256
    OBVIOUS
  <1>2. n \div (b * p) = (n \div p) \div b
    BY DivisionTwice
  <1>. QED
    BY <1>1, <1>2

(* The words on the way to a number are its quotients, and the octets their*)
(* remainders.                                                             *)
LEMMA WordsAreQuotients ==
  ASSUME NEW start \in Int, NEW octets \in Seq(Octet), Len(octets) <= IntOctets + 1
  PROVE  \A i \in 0 .. Len(octets) :
           /\ Shifted(start, octets)[Len(octets)] \div 256 ^ (Len(octets) - i) = Shifted(start, octets)[i]
           /\ i # 0 => octets[i] = Shifted(start, octets)[i] % 256
  <1> DEFINE L == Len(octets)
             f == Shifted(start, octets)
             n == f[L]
             S == {d \in 0 .. L : n \div 256 ^ d = f[L - d]}
  <1>1. L \in Nat /\ f \in [0 .. L -> Int] /\ n \in Int
    BY ShiftedSteps, LenProperties
  <1>2. \A i \in 1 .. L : f[i - 1] = f[i] \div 256 /\ octets[i] = f[i] % 256
    <2>1. ASSUME NEW i \in 1 .. L
          PROVE  f[i - 1] = f[i] \div 256 /\ octets[i] = f[i] % 256
      <3>1. f[i] = f[i - 1] * 256 + octets[i] /\ octets[i] \in Octet
        BY ShiftedSteps, ElementOfSeq
      <3>2. f[i] \in Int /\ f[i - 1] \in Int
        <4>1. i \in 0 .. L /\ i - 1 \in 0 .. L
          BY <1>1
        <4> HIDE DEF f, L
        <4>. QED
          BY <1>1, <4>1
      <3>3. octets[i] \in 0 .. 255
        BY <3>1 DEF Octet
      <3> HIDE DEF f, L, S, n
      <3>4. PICK q \in Int, r \in 0 .. 255, n0 \in Int :
              q = f[i - 1] /\ r = octets[i] /\ n0 = f[i]
        BY <3>2, <3>3
      <3>5. q = n0 \div 256 /\ r = n0 % 256
        <4>0. n0 = q * 256 + r
          BY <3>1, <3>4
        <4>1. n0 = q * 256 + r /\ q * 256 <= n0 /\ n0 < q * 256 + 256
          BY <4>0
        <4>2. PICK b \in Nat \ {0} : b = 256
          OBVIOUS
        <4>3. n0 \div 256 = q
          BY <4>1, <4>2, IntQuotient
        <4>4. n0 = (n0 \div 256) * 256 + (n0 % 256) /\ n0 % 256 \in 0 .. 255
          <5>1. n0 = (n0 \div b) * b + (n0 % b) /\ n0 % b \in 0 .. b - 1
            BY IntDivision
          <5>. QED
            BY <4>2, <5>1
        <4>. QED
          BY <4>1, <4>3, <4>4
      <3>. QED
        BY <3>4, <3>5
    <2>. QED
      BY <2>1
  <1>3. 0 \in S
    <2>1. 256 ^ 0 = 1 /\ L - 0 = L /\ 0 \in 0 .. L
      BY <1>1, ZeroPowers
    <2>2. n \div 1 = n
      <3> HIDE DEF n
      <3>. QED
        BY <1>1
    <2>. QED
      BY <2>1, <2>2
  <1>4. ASSUME NEW d \in 0 .. L - 1, d \in S
        PROVE  d + 1 \in S
    <2>1. d \in 0 .. IntOctets /\ d + 1 \in 0 .. L /\ L - d \in 1 .. L /\ L - (d + 1) = (L - d) - 1
      BY <1>1, Asn1TypesAssumption
    <2> DEFINE p == 256 ^ d
    <2>2. 256 ^ (d + 1) = 256 * p /\ p \in Nat \ {0}
      BY <2>1, PowersOf256, Asn1TypesAssumption
    <2>3. n \div (256 * p) = (n \div p) \div 256
      <3> HIDE DEF n, p
      <3>. QED
        BY <1>1, <2>2, DivisionBy256, ZenonT(60)
    <2>4. n \div p = f[L - d]
      BY <1>4
    <2>5. f[(L - d) - 1] = f[L - d] \div 256
      <3> HIDE DEF f, L
      <3>. QED
        BY <1>2, <2>1
    <2>6. n \div 256 ^ (d + 1) = f[L - (d + 1)]
      <3> HIDE DEF f, n, p
      <3>. QED
        BY <2>1, <2>2, <2>3, <2>4, <2>5
    <2>. QED
      BY <2>1, <2>6
  <1>5. 0 .. L \subseteq S
    <2> HIDE DEF S, L
    <2>. QED
      BY <1>1, <1>3, <1>4, UpTo
  <1>6. ASSUME NEW i \in 0 .. L
        PROVE  n \div 256 ^ (L - i) = f[i]
    <2>1. L - i \in 0 .. L /\ L - (L - i) = i
      BY <1>1
    <2>2. L - i \in S
      <3> HIDE DEF S
      <3>. QED
        BY <1>5, <2>1
    <2>3. n \div 256 ^ (L - i) = f[L - (L - i)]
      BY <2>2
    <2>. QED
      BY <2>1, <2>3
  <1>7. \A i \in 0 .. L : i # 0 => i \in 1 .. L
    BY <1>1
  <1>. QED
    BY <1>2, <1>6, <1>7

(* Octets are those of the number that they spell.                         *)
LEMMA OctetsOfNumber ==
  ASSUME NEW start \in Int, NEW octets \in Seq(Octet), Len(octets) <= IntOctets + 1
  PROVE  LET n == Shifted(start, octets)[Len(octets)]
         IN  n \in Int /\ octets = BigEndian(n, Len(octets)) /\ n \div 256 ^ Len(octets) = start
  <1> DEFINE L == Len(octets)
             f == Shifted(start, octets)
             n == f[L]
  <1>1. L \in Nat /\ n \in Int /\ f[0] = start
    BY ShiftedSteps, LenProperties
  <1>2. n \div 256 ^ L = start
    <2>1. 0 \in 0 .. L /\ L - 0 = L
      BY <1>1
    <2>2. n \div 256 ^ (L - 0) = f[0]
      BY <2>1, WordsAreQuotients
    <2>. QED
      BY <1>1, <2>1, <2>2
  <1>3. ASSUME NEW i \in 1 .. L
        PROVE  octets[i] = BigEndian(n, L)[i]
    <2>1. i \in 0 .. L /\ i # 0
      BY <1>1
    <2>2. octets[i] = f[i] % 256 /\ n \div 256 ^ (L - i) = f[i]
      BY <2>1, WordsAreQuotients
    <2>3. BigEndian(n, L)[i] = (n \div 256 ^ (L - i)) % 256
      <3> HIDE DEF n, L
      <3>. QED
        BY DEF BigEndian, Digit
    <2>. QED
      BY <2>2, <2>3
  <1>4. octets = [i \in 1 .. L |-> octets[i]] /\ BigEndian(n, L) = [i \in 1 .. L |-> BigEndian(n, L)[i]]
    <2>1. octets = [i \in 1 .. L |-> octets[i]]
      BY LenProperties
    <2>2. BigEndian(n, L) = [i \in 1 .. L |-> BigEndian(n, L)[i]]
      <3> HIDE DEF n, L
      <3>. QED
        BY DEF BigEndian
    <2>. QED
      BY <2>1, <2>2
  <1>5. octets = BigEndian(n, L)
    <2> DEFINE o == BigEndian(n, L)
    <2>1. \A i \in 1 .. L : octets[i] = o[i]
      BY <1>3
    <2>2. octets = [i \in 1 .. L |-> octets[i]] /\ o = [i \in 1 .. L |-> o[i]]
      BY <1>4
    <2> HIDE DEF o, n, f, L
    <2>3. octets = o
      BY <2>1, <2>2
    <2>. QED
      BY <2>3 DEF o
  <1>. QED
    BY <1>1, <1>2, <1>5

(* A number is spelled by its octets from the quotient left of them.       *)
LEMMA NumberOfOctets ==
  ASSUME NEW n \in Int, NEW k \in 0 .. IntOctets + 1
  PROVE  /\ BigEndian(n, k) \in Seq(Octet) /\ Len(BigEndian(n, k)) = k
         /\ Shifted(n \div 256 ^ k, BigEndian(n, k))[k] = n
  <1> DEFINE o == BigEndian(n, k)
             q(i) == n \div 256 ^ (k - i)
             f == Shifted(q(0), o)
             S == {i \in 0 .. k : f[i] = q(i)}
  <1>1. ASSUME NEW i \in 0 .. k
        PROVE  256 ^ (k - i) \in Nat \ {0} /\ q(i) \in Int
    <2>1. k - i \in 0 .. IntOctets + 1
      BY Asn1TypesAssumption
    <2> DEFINE p == 256 ^ (k - i)
    <2>2. p \in Nat \ {0}
      BY <2>1, PowersOf256
    <2>3. n \div p \in Int
      <3> HIDE DEF p
      <3>. QED
        BY <2>2
    <2>. QED
      BY <2>2, <2>3
  <1>2. o = [i \in 1 .. k |-> q(i) % 256] /\ \A i \in 1 .. k : q(i) % 256 \in Octet
    <2>1. o = [i \in 1 .. k |-> q(i) % 256]
      BY DEF BigEndian, Digit
    <2>2. ASSUME NEW i \in 1 .. k
          PROVE  q(i) % 256 \in Octet
      <3>1. i \in 0 .. k
        OBVIOUS
      <3>2. q(i) \in Int
        BY <1>1, <3>1
      <3> HIDE DEF q
      <3>. QED
        BY <3>2 DEF Octet
    <2>. QED
      BY <2>1, <2>2
  <1>3. o \in Seq(Octet) /\ Len(o) = k
    <2> HIDE DEF q, o
    <2>1. k \in Nat
      BY Asn1TypesAssumption
    <2>. QED
      BY <1>2, <2>1
  <1>4. q(0) \in Int
    <2>1. 0 \in 0 .. k
      OBVIOUS
    <2>. QED
      BY <1>1, <2>1
  <1>5. f[0] = q(0) /\ \A i \in 1 .. k : f[i] = f[i - 1] * 256 + o[i]
    <2> HIDE DEF q, o
    <2>. QED
      BY <1>3, <1>4, ShiftedSteps
  <1>6. 0 \in S
    BY <1>5
  <1>7. ASSUME NEW i \in 0 .. k - 1, i \in S
        PROVE  i + 1 \in S
    <2>1. i \in 0 .. k /\ i + 1 \in 1 .. k /\ (i + 1) - 1 = i /\ i + 1 \in 0 .. k
      OBVIOUS
    <2>2. f[i + 1] = q(i) * 256 + (q(i + 1) % 256)
      <3>1. f[i + 1] = f[i] * 256 + o[i + 1]
        BY <1>5, <2>1
      <3>2. f[i] = q(i)
        BY <1>7
      <3>3. o[i + 1] = q(i + 1) % 256
        BY <1>2, <2>1
      <3>. QED
        BY <3>1, <3>2, <3>3
    <2>3. q(i) = q(i + 1) \div 256
      <3>1. k - (i + 1) \in 0 .. IntOctets /\ k - i = (k - (i + 1)) + 1
        BY Asn1TypesAssumption
      <3> DEFINE p == 256 ^ (k - (i + 1))
      <3>2. 256 ^ (k - i) = 256 * p /\ p \in Nat \ {0}
        BY <1>1, <2>1, <3>1, PowersOf256
      <3>3. n \div (256 * p) = (n \div p) \div 256
        <4> HIDE DEF p
        <4>. QED
          BY <3>2, DivisionBy256, ZenonT(60)
      <3>. QED
        BY <3>2, <3>3
    <2>4. q(i + 1) \in Int
      BY <1>1, <2>1
    <2>5. f[i + 1] = q(i + 1)
      <3> HIDE DEF q, f
      <3>. QED
        BY <2>2, <2>3, <2>4
    <2>. QED
      BY <2>1, <2>5
  <1>8. 0 .. k \subseteq S
    <2>1. k \in Nat
      BY Asn1TypesAssumption
    <2> HIDE DEF S
    <2>. QED
      BY <1>6, <1>7, <2>1, UpTo
  <1>9. f[k] = n
    <2>1. k \in S
      <3>1. k \in 0 .. k
        BY Asn1TypesAssumption
      <3> HIDE DEF S
      <3>. QED
        BY <1>8, <3>1
    <2>2. k - k = 0 /\ 256 ^ 0 = 1
      BY ZeroPowers
    <2>3. n \div 1 = n
      OBVIOUS
    <2>4. f[k] = n \div 256 ^ (k - k)
      BY <2>1
    <2>. QED
      BY <2>2, <2>3, <2>4
  <1>10. q(0) = n \div 256 ^ k
    OBVIOUS
  <1>. QED
    BY <1>3, <1>9, <1>10

(* The numbers that k octets hold in two's complement.                     *)
Fits(n, k) == n \in -(128 * 256 ^ (k - 1)) .. 128 * 256 ^ (k - 1) - 1

(* A number fits if its first octet, with its sign, does.                  *)
LEMMA FitsQuotient ==
  ASSUME NEW n \in Int, NEW k \in 1 .. IntOctets + 1
  PROVE  /\ 256 ^ (k - 1) \in Nat \ {0} /\ n \div 256 ^ (k - 1) \in Int
         /\ Fits(n, k) <=> n \div 256 ^ (k - 1) \in -128 .. 127
         /\ n < 0 <=> n \div 256 ^ (k - 1) < 0
  <1> DEFINE p == 256 ^ (k - 1)
  <1>1. p \in Nat \ {0}
    BY PowersOf256, Asn1TypesAssumption
  <1>2. Fits(n, k) <=> n \in -(128 * p) .. 128 * p - 1
    BY DEF Fits
  <1> HIDE DEF p
  <1>3. PICK q \in Int : q = n \div p /\ q * p <= n /\ n < q * p + p
    BY <1>1, IntDivision
  <1>4. q * p \in Int /\ 128 * p \in Nat /\ (-128) * p = -(128 * p) /\ 0 * p = 0
    BY <1>1
  <1>5. /\ q < -128 => q * p + p <= (-128) * p
        /\ q >= 128 => 128 * p <= q * p
        /\ q > -128 => (-128) * p + p <= q * p
        /\ q < 128 => q * p + p <= 128 * p
        /\ q < 0 => q * p + p <= 0 * p
        /\ q > 0 => 0 * p + p <= q * p
    <2>1. ASSUME NEW a \in Int, NEW b \in Int, a < b
          PROVE  a * p + p <= b * p
      BY <1>1, <2>1, IntMultiples
    <2>2. -128 \in Int /\ 128 \in Int /\ 0 \in Int
      OBVIOUS
    <2>3. q < -128 => q * p + p <= (-128) * p
      BY <2>1, <2>2
    <2>4. q > -128 => (-128) * p + p <= q * p
      BY <2>1, <2>2
    <2>5. q < 128 => q * p + p <= 128 * p
      BY <2>1, <2>2
    <2>6. q < 0 => q * p + p <= 0 * p
      BY <2>1, <2>2
    <2>7. q > 0 => 0 * p + p <= q * p
      BY <2>1, <2>2
    <2>8. q >= 128 => 128 * p <= q * p
      <3>1. q > 128 => 128 * p + p <= q * p
        BY <2>1, <2>2
      <3>2. q = 128 => 128 * p = q * p
        OBVIOUS
      <3>. QED
        BY <1>1, <1>4, <3>1, <3>2
    <2>. QED
      BY <2>3, <2>4, <2>5, <2>6, <2>7, <2>8
  <1>6. q = -128 => q * p = (-128) * p
    OBVIOUS
  <1>7. q = 0 => q * p = 0
    BY <1>4
  <1> DEFINE m == q * p
             h == 128 * p
             l == (-128) * p
  <1>8. (n \in -h .. h - 1) <=> q \in -128 .. 127
    <2>1. l = -h /\ h \in Nat /\ m \in Int
      BY <1>4
    <2>2. m <= n /\ n < m + p
      BY <1>3
    <2>3. /\ q < -128 => m + p <= l
          /\ q >= 128 => h <= m
          /\ q > -128 => l + p <= m
          /\ q < 128 => m + p <= h
          /\ q = -128 => m = l
      BY <1>5, <1>6
    <2> HIDE DEF m, h, l
    <2>. QED
      BY <1>1, <2>1, <2>2, <2>3
  <1>9. n < 0 <=> q < 0
    <2>1. m \in Int /\ m <= n /\ n < m + p
      BY <1>3, <1>4
    <2>2. (q < 0 => m + p <= 0) /\ (q > 0 => p <= m) /\ (q = 0 => m = 0)
      BY <1>1, <1>4, <1>5, <1>7
    <2> HIDE DEF m
    <2>. QED
      BY <1>1, <2>1, <2>2
  <1>10. p \in Nat \ {0} /\ q \in Int /\ (Fits(n, k) <=> q \in -128 .. 127)
    BY <1>1, <1>2, <1>8
  <1>. QED
    BY <1>3, <1>9, <1>10 DEF p

(* The first octet of a number, and the sign before it.                    *)
LEMMA FirstOctet ==
  ASSUME NEW n \in Int, NEW k \in 1 .. IntOctets + 1
  PROVE  /\ BigEndian(n, k)[1] = (n \div 256 ^ (k - 1)) % 256
         /\ n \div 256 ^ k = (n \div 256 ^ (k - 1)) \div 256
  <1>1. BigEndian(n, k)[1] = (n \div 256 ^ (k - 1)) % 256
    <2>1. 1 \in 1 .. k
      BY Asn1TypesAssumption
    <2>. QED
      BY <2>1 DEF BigEndian, Digit
  <1>2. k - 1 \in 0 .. IntOctets /\ (k - 1) + 1 = k
    BY Asn1TypesAssumption
  <1> DEFINE p == 256 ^ (k - 1)
  <1>3. 256 ^ k = 256 * p /\ p \in Nat \ {0}
    BY <1>2, PowersOf256, Asn1TypesAssumption
  <1>4. n \div (256 * p) = (n \div p) \div 256
    <2> HIDE DEF p
    <2>. QED
      BY <1>3, DivisionBy256, ZenonT(60)
  <1>. QED
    BY <1>1, <1>3, <1>4

(* Octets that hold a number are read as it.                               *)
LEMMA SignedIsNumber ==
  ASSUME NEW n \in Int, NEW k \in 1 .. IntOctets + 1, Fits(n, k)
  PROVE  /\ BigEndian(n, k) \in Seq(Octet) /\ Len(BigEndian(n, k)) = k
         /\ BigEndian(n, k)[1] >= 128 <=> n < 0
         /\ Signed(BigEndian(n, k)) = n
         /\ n >= 0 => Unsigned(BigEndian(n, k)) = n
  <1> DEFINE o == BigEndian(n, k)
             q == n \div 256 ^ (k - 1)
  <1>1. o \in Seq(Octet) /\ Len(o) = k /\ Shifted(n \div 256 ^ k, o)[k] = n
    <2>1. k \in 0 .. IntOctets + 1
      BY Asn1TypesAssumption
    <2>. QED
      BY <2>1, NumberOfOctets
  <1>2. q \in -128 .. 127 /\ (n < 0 <=> q < 0)
    BY FitsQuotient
  <1>3. o[1] = q % 256 /\ n \div 256 ^ k = q \div 256
    BY FirstOctet
  <1>4. (q % 256 >= 128 <=> q < 0) /\ q \div 256 = (IF q < 0 THEN -1 ELSE 0)
    <2> HIDE DEF q
    <2>. QED
      BY <1>2
  <1>5. (o[1] >= 128 <=> n < 0) /\ n \div 256 ^ k = (IF n < 0 THEN -1 ELSE 0)
    <2> HIDE DEF q, o
    <2>. QED
      BY <1>2, <1>3, <1>4
  <1>6. Signed(o) = n
    <2> HIDE DEF o
    <2>. QED
      BY <1>1, <1>5 DEF Signed
  <1>7. n >= 0 => Unsigned(o) = n
    <2>1. n >= 0 => ~(n < 0)
      OBVIOUS
    <2> HIDE DEF o
    <2>. QED
      BY <1>1, <1>5, <2>1 DEF Unsigned
  <1>. QED
    BY <1>1, <1>5, <1>6, <1>7

(* What octets are read as, they hold.                                     *)
LEMMA NumberIsSpelled ==
  ASSUME NEW octets \in Seq(Octet), Len(octets) \in 1 .. IntOctets + 1
  PROVE  /\ Signed(octets) \in Int /\ Fits(Signed(octets), Len(octets))
         /\ octets = BigEndian(Signed(octets), Len(octets))
         /\ octets[1] < 128 => Signed(octets) = Unsigned(octets)
  <1> DEFINE L == Len(octets)
             start == IF octets[1] >= 128 THEN -1 ELSE 0
             n == Shifted(start, octets)[L]
             q == n \div 256 ^ (L - 1)
  <1>1. octets[1] \in Octet /\ L \in 1 .. IntOctets + 1
    <2>1. 1 \in 1 .. Len(octets)
      BY Asn1TypesAssumption
    <2>. QED
      BY <2>1, ElementOfSeq
  <1>2. octets[1] \in 0 .. 255 /\ start \in Int
    BY <1>1 DEF Octet
  <1>3. n \in Int /\ octets = BigEndian(n, L) /\ n \div 256 ^ L = start
    <2> HIDE DEF start
    <2>1. L <= IntOctets + 1
      BY <1>1, Asn1TypesAssumption
    <2>. QED
      BY <1>2, <2>1, OctetsOfNumber
  <1>4. q \in Int /\ (Fits(n, L) <=> q \in -128 .. 127)
    <2> HIDE DEF n, L
    <2>. QED
      BY <1>1, <1>3, FitsQuotient
  <1>5. octets[1] = q % 256 /\ start = q \div 256
    <2>1. BigEndian(n, L)[1] = q % 256 /\ n \div 256 ^ L = q \div 256
      <3> HIDE DEF n, L
      <3>. QED
        BY <1>1, <1>3, FirstOctet
    <2> HIDE DEF n, L, start, q
    <2>. QED
      BY <1>3, <2>1
  <1>6. q \in -128 .. 127
    <2> HIDE DEF q
    <2>. QED
      BY <1>2, <1>4, <1>5
  <1>7. Signed(octets) = n
    BY DEF Signed
  <1>8. octets[1] < 128 => Signed(octets) = Unsigned(octets)
    <2>1. octets[1] < 128 => start = 0
      <3>1. PICK x \in 0 .. 255 : x = octets[1]
        BY <1>1 DEF Octet
      <3>2. x < 128 => ~(x >= 128)
        OBVIOUS
      <3>. QED
        BY <3>1, <3>2
    <2> HIDE DEF start
    <2>. QED
      BY <1>7, <2>1 DEF Unsigned
  <1>. QED
    BY <1>3, <1>4, <1>6, <1>7, <1>8

(* What fits fits in more octets.                                          *)
LEMMA FitsMore ==
  ASSUME NEW n \in Int, NEW j \in 1 .. IntOctets + 1, Fits(n, j)
  PROVE  \A k \in j .. IntOctets + 1 : Fits(n, k)
  <1> DEFINE S == {d \in 0 .. IntOctets + 1 - j : Fits(n, j + d)}
  <1>1. 0 \in S
    BY Asn1TypesAssumption
  <1>2. ASSUME NEW d \in 0 .. (IntOctets + 1 - j) - 1, d \in S
        PROVE  d + 1 \in S
    <2> DEFINE k == j + d
               q == n \div 256 ^ (k - 1)
    <2>1. k \in 1 .. IntOctets + 1 /\ k + 1 \in 1 .. IntOctets + 1 /\ (k + 1) - 1 = k
          /\ j + (d + 1) = k + 1 /\ d + 1 \in 0 .. IntOctets + 1 - j
      BY Asn1TypesAssumption
    <2>2. Fits(n, k)
      BY <1>2
    <2> HIDE DEF k
    <2>3. q \in -128 .. 127
      BY <2>1, <2>2, FitsQuotient
    <2>4. n \div 256 ^ k = q \div 256
      BY <2>1, FirstOctet
    <2>5. n \div 256 ^ k \in -128 .. 127
      <3> HIDE DEF q
      <3>. QED
        BY <2>3, <2>4
    <2>6. Fits(n, k + 1)
      BY <2>1, <2>5, FitsQuotient
    <2>. QED
      BY <2>1, <2>6
  <1>3. 0 .. IntOctets + 1 - j \subseteq S
    <2>1. IntOctets + 1 - j \in Nat
      BY Asn1TypesAssumption
    <2> HIDE DEF S
    <2>. QED
      BY <1>1, <1>2, <2>1, UpTo
  <1>4. ASSUME NEW k \in j .. IntOctets + 1
        PROVE  Fits(n, k)
    <2>1. k - j \in 0 .. IntOctets + 1 - j /\ j + (k - j) = k
      BY Asn1TypesAssumption
    <2>2. k - j \in S
      <3> HIDE DEF S
      <3>. QED
        BY <1>3, <2>1
    <2>. QED
      BY <2>1, <2>2
  <1>. QED
    BY <1>4

(* The minimal form is the shortest.                                       *)
LEMMA MinimalIsShortest ==
  ASSUME NEW n \in Int, NEW k \in 1 .. IntOctets + 1, Fits(n, k)
  PROVE  Minimal(BigEndian(n, k)) <=> (k = 1 \/ ~Fits(n, k - 1))
  <1> DEFINE o == BigEndian(n, k)
             q == n \div 256 ^ (k - 1)
             r == n \div 256 ^ (k - 2)
  <1>1. Len(o) = k
    BY SignedIsNumber
  <1>2. CASE k = 1
    <2>1. ~(Len(o) > 1)
      <3> HIDE DEF o
      <3>. QED
        BY <1>1, <1>2
    <2>2. Minimal(o)
      BY <2>1 DEF Minimal
    <2>. QED
      BY <1>2, <2>2
  <1>3. CASE k # 1
    <2>1. k - 1 \in 1 .. IntOctets + 1 /\ (k - 1) - 1 = k - 2 /\ 2 \in 1 .. k /\ k > 1
      BY <1>3, Asn1TypesAssumption
    <2>2. q \in -128 .. 127 /\ o[1] = q % 256
      BY FitsQuotient, FirstOctet
    <2>3. r \in Int /\ (Fits(n, k - 1) <=> r \in -128 .. 127)
      BY <2>1, FitsQuotient
    <2>4. q = r \div 256
      BY <2>1, FirstOctet
    <2>5. o[2] = r % 256
      BY <2>1 DEF BigEndian, Digit
    <2>6. (r \in -128 .. 127) <=>
             (r \div 256 = 0 /\ r % 256 < 128) \/ (r \div 256 = -1 /\ r % 256 >= 128)
      <3> HIDE DEF r
      <3>. QED
        BY <2>3
    <2>7. (q % 256 = 0 <=> q = 0) /\ (q % 256 = 255 <=> q = -1)
      <3> HIDE DEF q
      <3>. QED
        BY <2>2
    <2>8. Minimal(o) <=> ~(o[1] = 0 /\ o[2] < 128) /\ ~(o[1] = 255 /\ o[2] >= 128)
      <3> HIDE DEF o
      <3>. QED
        BY <1>1, <2>1 DEF Minimal
    <2>9. Minimal(o) <=> ~Fits(n, k - 1)
      <3> HIDE DEF o, q, r
      <3>. QED
        BY <2>2, <2>3, <2>4, <2>5, <2>6, <2>7, <2>8
    <2>. QED
      BY <1>3, <2>9
  <1>. QED
    BY <1>2, <1>3

(* A number has one shortest form.                                         *)
LEMMA OneShortest ==
  ASSUME NEW n \in Int, NEW j \in 1 .. IntOctets + 1, NEW k \in 1 .. IntOctets + 1,
         j = 1 \/ ~Fits(n, j - 1), Fits(n, k)
  PROVE  j <= k
  <1>1. SUFFICES ASSUME k < j
                 PROVE  FALSE
    BY Asn1TypesAssumption
  <1>2. j - 1 \in k .. IntOctets + 1 /\ j # 1
    BY <1>1, Asn1TypesAssumption
  <1>. QED
    BY <1>2, FitsMore

IsShortest(octets, n) ==
  \E k \in 1 .. IntOctets + 1 :
    octets = BigEndian(n, k) /\ Fits(n, k) /\ (k = 1 \/ ~Fits(n, k - 1))

(* The bounds of a word, by the power of its first octet.                  *)
LEMMA WordSize ==
  /\ IntOctets - 1 \in Nat /\ 256 ^ (IntOctets - 1) \in Nat \ {0}
  /\ 256 ^ IntOctets = 256 * 256 ^ (IntOctets - 1)
  /\ 256 ^ IntOctets \div 2 = 128 * 256 ^ (IntOctets - 1)
  <1>1. IntOctets - 1 \in 0 .. IntOctets /\ (IntOctets - 1) + 1 = IntOctets
    BY Asn1TypesAssumption
  <1> DEFINE p == 256 ^ (IntOctets - 1)
  <1>2. p \in Nat \ {0} /\ 256 ^ IntOctets = 256 * p
    BY <1>1, PowersOf256, Asn1TypesAssumption
  <1>3. (256 * p) \div 2 = 128 * p
    <2> HIDE DEF p
    <2>. QED
      BY <1>2
  <1>. QED
    BY <1>1, <1>2, <1>3

(* The loop of asn1_serialize_uint64 finds the fewest octets.              *)
LEMMA MagnitudeSize ==
  ASSUME NEW n \in 0 .. 256 ^ IntOctets - 1
  PROVE  LET k == Max1(DigitCount(n, 256, IntOctets))
         IN  k \in 1 .. IntOctets /\ n \div 256 ^ (k - 1) \in 0 .. 255 /\ (k = 1 \/ n \div 256 ^ (k - 1) >= 1)
  <1> DEFINE c == DigitCount(n, 256, IntOctets)
             k == Max1(c)
             p == 256 ^ (k - 1)
             q == n \div p
  <1>1. n \in Nat /\ n < 256 ^ IntOctets
    BY PowersOf256, Asn1TypesAssumption
  <1>2. /\ c \in 0 .. IntOctets /\ n < 256 ^ c
        /\ c # 0 => 256 ^ (c - 1) <= n
        /\ n # 0 => c # 0
    <2>1. \A j \in 0 .. IntOctets : 256 ^ (j + 1) = 256 * 256 ^ j
      BY PowersOf256
    <2>2. IntOctets \in Nat /\ 256 \in Nat \ {0} /\ 256 ^ 0 = 1
      BY Asn1TypesAssumption, ZeroPowers
    <2>3. PICK b \in Nat \ {0} : b = 256
      BY <2>2
    <2>4. b ^ 0 = 1 /\ (\A j \in 0 .. IntOctets : b ^ (j + 1) = b * b ^ j) /\ n < b ^ IntOctets
      BY <1>1, <2>1, <2>2, <2>3
    <2> DEFINE e == DigitCount(n, b, IntOctets)
    <2>5. e \in 0 .. IntOctets /\ n < b ^ e /\ (e # 0 => b ^ (e - 1) <= n) /\ (n # 0 => e # 0)
      BY <1>1, <2>2, <2>4, DigitsOfNumber
    <2>6. e = c
      BY <2>3
    <2> HIDE DEF c, e
    <2>. QED
      BY <2>3, <2>5, <2>6
  <1>3. k \in 1 .. IntOctets /\ k - 1 \in 0 .. IntOctets /\ (k - 1) + 1 = k
    <2> HIDE DEF c
    <2>. QED
      BY <1>2, Asn1TypesAssumption DEF Max1
  <1>4. 256 ^ k = 256 * p /\ p \in Nat \ {0}
    <2> HIDE DEF k
    <2>. QED
      BY <1>3, PowersOf256, Asn1TypesAssumption
  <1>5. n < 256 * p /\ (k = 1 \/ p <= n)
    <2>1. CASE c = 0
      <3>1. k = 1 /\ n = 0
        BY <1>2, <2>1 DEF Max1
      <3>. QED
        BY <1>4, <3>1
    <2>2. CASE c # 0
      <3>1. k = c
        BY <2>2 DEF Max1
      <3>2. n < 256 ^ k /\ 256 ^ (k - 1) <= n
        BY <1>2, <2>2, <3>1
      <3>. QED
        BY <1>4, <3>2
    <2>. QED
      BY <2>1, <2>2
  <1> HIDE DEF k, p
  <1>6. PICK d \in Int : d = n \div p /\ d * p <= n /\ n < d * p + p
    <2>1. n \in Int /\ p \in Nat \ {0}
      BY <1>1, <1>4
    <2>2. q \in Int /\ q * p <= n /\ n < q * p + p
      BY <2>1, IntDivision
    <2>. QED
      BY <2>2
  <1>7. (d < 0 => d * p + p <= 0) /\ (d >= 256 => 256 * p <= d * p) /\ (d <= 0 => d * p <= 0)
    <2>1. d < 0 => d * p + p <= 0 * p
      BY <1>4, IntMultiples
    <2>2. d > 256 => 256 * p + p <= d * p
      BY <1>4, IntMultiples
    <2>3. d = 256 => 256 * p = d * p
      OBVIOUS
    <2>4. d = 0 => d * p = 0 * p
      OBVIOUS
    <2>5. 0 * p = 0 /\ 256 * p \in Nat /\ d * p \in Int
      BY <1>4
    <2> DEFINE m == d * p
               h == 256 * p
               z == 0 * p
    <2>6. /\ d < 0 => m + p <= z
          /\ d > 256 => h + p <= m
          /\ d = 256 => h = m
          /\ d = 0 => m = z
      BY <2>1, <2>2, <2>3, <2>4
    <2>7. z = 0 /\ h \in Nat /\ m \in Int
      BY <2>5
    <2> HIDE DEF m, h, z
    <2>8. (d < 0 => m + p <= 0) /\ (d >= 256 => h <= m) /\ (d <= 0 => m <= 0)
      BY <1>4, <2>6, <2>7
    <2>. QED
      BY <2>8 DEF m, h
  <1>8. d \in 0 .. 255 /\ (k = 1 \/ d >= 1)
    <2> DEFINE m == d * p
               h == 256 * p
    <2>1. m \in Int /\ h \in Int
      BY <1>4
    <2>2. /\ m <= n /\ n < m + p /\ n < h /\ (k = 1 \/ p <= n)
          /\ (d < 0 => m + p <= 0) /\ (d >= 256 => h <= m) /\ (d <= 0 => m <= 0)
      BY <1>5, <1>6, <1>7
    <2> HIDE DEF m, h
    <2>3. ~(d < 0) /\ ~(d >= 256)
      BY <1>1, <1>4, <2>1, <2>2
    <2>4. d = 0 => k = 1
      <3>1. d = 0 => n < p
        <4>1. d = 0 => d * p + p = p
          BY <1>4
        <4>. QED
          BY <1>6, <4>1
      <3>2. ~(n < p /\ p <= n)
        BY <1>1, <1>4
      <3>. QED
        BY <2>2, <3>1, <3>2
    <2>. QED
      BY <2>3, <2>4
  <1>. QED
    BY <1>3, <1>6, <1>8 DEF k, p

(* The serializer of unsigned numbers writes the shortest form.            *)
LEMMA MagnitudeIsShortest ==
  ASSUME NEW n \in 0 .. 256 ^ IntOctets - 1
  PROVE  IsShortest(Magnitude(n), n)
  <1> DEFINE k == Max1(DigitCount(n, 256, IntOctets))
             o == BigEndian(n, k)
             q == n \div 256 ^ (k - 1)
  <1>1. k \in 1 .. IntOctets /\ q \in 0 .. 255 /\ (k = 1 \/ q >= 1) /\ n \in Int
    BY MagnitudeSize, PowersOf256, Asn1TypesAssumption
  <1>2. Magnitude(n) = IF o[1] >= 128 THEN <<0>> \o o ELSE o
    BY DEF Magnitude
  <1> HIDE DEF k
  <1>3. k \in 1 .. IntOctets + 1 /\ k + 1 \in 1 .. IntOctets + 1 /\ (k + 1) - 1 = k
    BY <1>1, Asn1TypesAssumption
  <1>4. o[1] = q /\ n \div 256 ^ k = 0
    <2>1. o[1] = q % 256 /\ n \div 256 ^ k = q \div 256
      BY <1>1, <1>3, FirstOctet
    <2> HIDE DEF q, o
    <2>. QED
      BY <1>1, <2>1
  <1>5. Fits(n, k) <=> q < 128
    <2>1. Fits(n, k) <=> q \in -128 .. 127
      BY <1>1, <1>3, FitsQuotient
    <2> HIDE DEF q
    <2>. QED
      BY <1>1, <2>1
  <1>6. CASE q < 128
    <2>1. Magnitude(n) = o
      <3>1. ~(q >= 128)
        <4> HIDE DEF q
        <4>. QED
          BY <1>1, <1>6
      <3>. QED
        BY <1>2, <1>4, <3>1
    <2>2. k = 1 \/ ~Fits(n, k - 1)
      <3>1. SUFFICES ASSUME k # 1
                     PROVE  ~Fits(n, k - 1)
        OBVIOUS
      <3> DEFINE r == n \div 256 ^ (k - 2)
      <3>2. k - 1 \in 1 .. IntOctets + 1 /\ (k - 1) - 1 = k - 2
        BY <1>3, <3>1, Asn1TypesAssumption
      <3>3. r \in Int /\ (Fits(n, k - 1) <=> r \in -128 .. 127) /\ q = r \div 256
        <4>1. r \in Int /\ (Fits(n, k - 1) <=> r \in -128 .. 127)
          BY <1>1, <3>2, FitsQuotient
        <4>2. q = r \div 256
          BY <1>1, <3>2, FirstOctet
        <4>. QED
          BY <4>1, <4>2
      <3>4. ~(r \in -128 .. 127)
        <4> HIDE DEF q, r
        <4>. QED
          BY <1>1, <3>1, <3>3
      <3>. QED
        BY <3>3, <3>4
    <2>. QED
      BY <1>3, <1>5, <1>6, <2>1, <2>2 DEF IsShortest
  <1>7. CASE q >= 128
    <2>1. Magnitude(n) = <<0>> \o o
      BY <1>2, <1>4, <1>7
    <2>2. <<0>> \o o = BigEndian(n, k + 1)
      <3> DEFINE b == BigEndian(n, k + 1)
      <3>1. Len(o) = k /\ o \in Seq(Octet) /\ o = [i \in 1 .. k |-> (n \div 256 ^ (k - i)) % 256]
        <4>1. k \in 0 .. IntOctets + 1
          BY <1>3
        <4>2. Len(o) = k /\ o \in Seq(Octet)
          BY <1>1, <4>1, NumberOfOctets
        <4>. QED
          BY <4>2 DEF BigEndian, Digit
      <3>2. b = [i \in 1 .. k + 1 |-> (n \div 256 ^ ((k + 1) - i)) % 256]
        BY Zenon DEF BigEndian, Digit
      <3> HIDE DEF b
      <3>3. /\ <<0>> \o o = [i \in 1 .. k + 1 |-> (<<0>> \o o)[i]]
            /\ (<<0>> \o o)[1] = 0
            /\ \A i \in 2 .. k + 1 : (<<0>> \o o)[i] = o[i - 1]
        <4> HIDE DEF o
        <4>. QED
          BY <1>1, <3>1
      <3>4. b[1] = 0
        <4>1. (k + 1) - 1 = k /\ 1 \in 1 .. k + 1
          BY <1>3
        <4>2. b[1] = (n \div 256 ^ k) % 256
          BY <3>2, <4>1
        <4>. QED
          BY <1>4, <4>2
      <3>5. ASSUME NEW i \in 2 .. k + 1
            PROVE  b[i] = o[i - 1]
        <4>1. (k + 1) - i = k - (i - 1) /\ i \in 1 .. k + 1 /\ i - 1 \in 1 .. k
          BY <1>3
        <4> HIDE DEF o
        <4>2. b[i] = (n \div 256 ^ ((k + 1) - i)) % 256
          BY <3>2, <4>1
        <4>3. o[i - 1] = (n \div 256 ^ (k - (i - 1))) % 256
          BY <3>1, <4>1
        <4>. QED
          BY <4>1, <4>2, <4>3
      <3>6. \A i \in 1 .. k + 1 : b[i] = (<<0>> \o o)[i]
        <4>1. \A i \in 1 .. k + 1 : i = 1 \/ i \in 2 .. k + 1
          BY <1>3
        <4> HIDE DEF o
        <4>. QED
          BY <3>3, <3>4, <3>5, <4>1
      <3>7. b = [i \in 1 .. k + 1 |-> b[i]]
        BY <3>2
      <3> DEFINE e == <<0>> \o o
      <3>8. b = e
        <4>1. e = [i \in 1 .. k + 1 |-> e[i]] /\ \A i \in 1 .. k + 1 : b[i] = e[i]
          BY <3>3, <3>6
        <4> HIDE DEF e
        <4>. QED
          BY <3>7, <4>1
      <3>. QED
        BY <3>8 DEF b
    <2>3. Fits(n, k + 1)
      <3>1. n \div 256 ^ ((k + 1) - 1) = 0
        BY <1>3, <1>4
      <3>2. Fits(n, k + 1) <=> n \div 256 ^ ((k + 1) - 1) \in -128 .. 127
        BY <1>1, <1>3, FitsQuotient
      <3>. QED
        BY <3>1, <3>2
    <2>4. ~Fits(n, (k + 1) - 1)
      <3>1. ~(q < 128)
        <4> HIDE DEF q
        <4>. QED
          BY <1>1, <1>7
      <3>. QED
        BY <1>3, <1>5, <3>1
    <2>. QED
      BY <1>3, <2>1, <2>2, <2>3, <2>4 DEF IsShortest
  <1>8. q < 128 \/ q >= 128
    <2> HIDE DEF q
    <2>. QED
      BY <1>1
  <1>. QED
    BY <1>6, <1>7, <1>8

(* An octet of a negative number that only repeats the sign can be left    *)
(* out, and no other.                                                      *)
LEMMA RepeatedSign ==
  ASSUME NEW n \in Int, n < 0, NEW k \in 2 .. IntOctets, Fits(n, k)
  PROVE  Fits(n, k - 1) <=> /\ (n \div 256 ^ (k - 1)) % 256 = 255
                            /\ (n \div 256 ^ (k - 2)) % 256 >= 128
  <1> DEFINE q == n \div 256 ^ (k - 1)
             r == n \div 256 ^ (k - 2)
  <1>1. k \in 1 .. IntOctets + 1 /\ k - 1 \in 1 .. IntOctets + 1 /\ (k - 1) - 1 = k - 2
    BY Asn1TypesAssumption
  <1>2. q \in -128 .. 127 /\ q < 0
    BY <1>1, FitsQuotient
  <1>3. r \in Int /\ (Fits(n, k - 1) <=> r \in -128 .. 127) /\ r < 0
    BY <1>1, FitsQuotient
  <1>4. q = r \div 256
    BY <1>1, FirstOctet
  <1>5. r \in -128 .. 127 <=> q % 256 = 255 /\ r % 256 >= 128
    <2> HIDE DEF q, r
    <2>. QED
      BY <1>2, <1>3, <1>4
  <1>. QED
    BY <1>3, <1>5

(* The serializer of negative numbers writes the shortest form.            *)
LEMMA TwosComplementIsShortest ==
  ASSUME NEW n \in -(128 * 256 ^ (IntOctets - 1)) .. -1
  PROVE  IsShortest(TwosComplement(n), n)
  <1> DEFINE N == IntOctets
             o == BigEndian(n, N)
             repeats(k) == o[k] = 255 /\ o[k + 1] >= 128
             Kept(k) == k \in 1 .. N /\ (k < N => ~repeats(k)) /\ \A i \in 1 .. k - 1 : repeats(i)
             T == {k \in 1 .. N : k < N => ~repeats(k)}
  <1>1. n \in Int /\ n < 0 /\ N \in Nat \ {0} /\ Fits(n, N)
    <2>1. n \in Int /\ n < 0
      BY WordSize
    <2>2. n \in -(128 * 256 ^ (N - 1)) .. 128 * 256 ^ (N - 1) - 1
      <3> DEFINE p == 256 ^ (N - 1)
      <3>1. p \in Nat \ {0} /\ n \in -(128 * p) .. -1
        BY WordSize
      <3>2. n \in -(128 * p) .. 128 * p - 1
        <4> HIDE DEF p
        <4>. QED
          BY <3>1
      <3>. QED
        BY <3>2
    <2>. QED
      BY <2>1, <2>2, Asn1TypesAssumption DEF Fits
  <1>2. \E k : Kept(k)
    <2>1. N \in T /\ T \in SUBSET Nat
      BY <1>1
    <2>2. PICK m \in T : \A i \in T : m <= i
      <3> HIDE DEF T
      <3>. QED
        BY <2>1, LeastNatural
    <2>3. m \in 1 .. N /\ (m < N => ~repeats(m))
      BY <2>2
    <2>4. ASSUME NEW i \in 1 .. m - 1
          PROVE  repeats(i)
      <3>1. i \in 1 .. N /\ i < m
        BY <1>1, <2>3
      <3>2. i \notin T
        BY <1>1, <2>2, <2>3, <3>1
      <3> HIDE DEF repeats
      <3>. QED
        BY <3>1, <3>2
    <2> HIDE DEF repeats
    <2>5. Kept(m)
      BY <2>3, <2>4
    <2>. QED
      BY <2>5
  <1>3. PICK k : Kept(k) /\ TwosComplement(n) = SubSeq(o, k, N)
    <2> DEFINE k0 == CHOOSE k \in 1 .. N : (k < N => ~repeats(k)) /\ \A i \in 1 .. k - 1 : repeats(i)
    <2>1. TwosComplement(n) = SubSeq(o, k0, N)
      BY DEF TwosComplement
    <2>2. Kept(k0)
      <3> HIDE DEF repeats
      <3>. QED
        BY <1>2
    <2>. QED
      BY <2>1, <2>2
  <1>4. k \in 1 .. N /\ (k < N => ~repeats(k)) /\ \A i \in 1 .. k - 1 : repeats(i)
    BY <1>3
  <1>5. ASSUME NEW i \in 1 .. N - 1, Fits(n, N + 1 - i)
        PROVE  repeats(i) <=> Fits(n, N - i)
    <2>1. (N + 1) - i \in 2 .. IntOctets /\ ((N + 1) - i) - 1 = N - i /\ ((N + 1) - i) - 2 = N - (i + 1)
      BY <1>1
    <2>2. N + 1 - i = (N + 1) - i
      BY <1>1
    <2>3. Fits(n, (N + 1) - i)
      BY <1>5, <2>2
    <2>4. Fits(n, N - i) <=> (n \div 256 ^ (N - i)) % 256 = 255 /\ (n \div 256 ^ (N - (i + 1))) % 256 >= 128
      BY <1>1, <2>1, <2>3, RepeatedSign
    <2>5. o[i] = (n \div 256 ^ (N - i)) % 256 /\ o[i + 1] = (n \div 256 ^ (N - (i + 1))) % 256
      <3>1. i \in 1 .. N /\ i + 1 \in 1 .. N
        BY <1>1
      <3>. QED
        BY <3>1 DEF BigEndian, Digit
    <2>. QED
      BY <2>4, <2>5
  <1> HIDE DEF repeats, N
  <1>6. \A i \in 0 .. k - 1 : Fits(n, N - i)
    <2> DEFINE S == {i \in 0 .. k - 1 : Fits(n, N - i)}
    <2>1. 0 \in S
      BY <1>1, <1>4
    <2>2. ASSUME NEW i \in 0 .. (k - 1) - 1, i \in S
          PROVE  i + 1 \in S
      <3>1. i + 1 \in 1 .. k - 1 /\ i + 1 \in 1 .. N - 1 /\ N + 1 - (i + 1) = N - i /\ i + 1 \in 0 .. k - 1
        BY <1>1, <1>4
      <3>2. Fits(n, N + 1 - (i + 1))
        BY <2>2, <3>1
      <3>3. repeats(i + 1) <=> Fits(n, N - (i + 1))
        BY <1>5, <3>1, <3>2
      <3>. QED
        BY <1>4, <3>1, <3>3
    <2>3. 0 .. k - 1 \subseteq S
      <3>1. k - 1 \in Nat
        BY <1>1, <1>4
      <3> HIDE DEF S
      <3>. QED
        BY <2>1, <2>2, <3>1, UpTo
    <2>. QED
      BY <2>3
  <1> DEFINE K == (N + 1) - k
  <1>7. K \in 1 .. IntOctets + 1 /\ Fits(n, K)
    <2>1. k - 1 \in 0 .. k - 1 /\ N - (k - 1) = K /\ K \in 1 .. N + 1
      BY <1>1, <1>4
    <2>2. Fits(n, N - (k - 1))
      BY <1>6, <2>1
    <2>. QED
      BY <2>1, <2>2 DEF N
  <1>8. K = 1 \/ ~Fits(n, K - 1)
    <2>1. CASE k = N
      BY <1>1, <2>1
    <2>2. CASE k # N
      <3>1. k \in 1 .. N - 1 /\ K - 1 = N - k /\ N + 1 - k = K /\ k < N
        BY <1>1, <1>4, <2>2
      <3>2. Fits(n, N + 1 - k)
        BY <1>7, <3>1
      <3>3. repeats(k) <=> Fits(n, N - k)
        BY <1>5, <3>1, <3>2
      <3>. QED
        BY <1>4, <3>1, <3>3
    <2>. QED
      BY <2>1, <2>2
  <1>9. SubSeq(o, k, N) = BigEndian(n, K)
    <2>1. o = [i \in 1 .. N |-> (n \div 256 ^ (N - i)) % 256]
      BY DEF BigEndian, Digit
    <2>2. BigEndian(n, K) = [i \in 1 .. K |-> (n \div 256 ^ (K - i)) % 256]
      BY Zenon DEF BigEndian, Digit
    <2> HIDE DEF o
    <2>3. o \in Seq(Octet) /\ Len(o) = N
      <3>1. N \in 0 .. IntOctets + 1
        BY <1>1 DEF N
      <3>. QED
        BY <1>1, <3>1, NumberOfOctets DEF o
    <2>4. SubSeq(o, k, N) = [i \in 1 .. (N - k) + 1 |-> o[(i + k) - 1]]
      BY <1>1, <1>4, <2>3, SubSeqProperties
    <2>5. (N - k) + 1 = K
      BY <1>1, <1>4
    <2>6. ASSUME NEW i \in 1 .. K
          PROVE  o[(i + k) - 1] = (n \div 256 ^ (K - i)) % 256
      <3>1. (i + k) - 1 \in 1 .. N /\ N - ((i + k) - 1) = K - i
        BY <1>1, <1>4
      <3> HIDE DEF K
      <3>2. o[(i + k) - 1] = (n \div 256 ^ (N - ((i + k) - 1))) % 256
        BY <2>1, <3>1
      <3>. QED
        BY <3>1, <3>2
    <2> HIDE DEF K
    <2>. QED
      BY <2>2, <2>4, <2>5, <2>6
  <1>. QED
    BY <1>3, <1>7, <1>8, <1>9 DEF IsShortest

(* A shortest form is minimal, and is read as the number.                  *)
LEMMA ShortestIsRead ==
  ASSUME NEW n \in Int, NEW o, IsShortest(o, n)
  PROVE  /\ o \in Seq(Octet) /\ Len(o) \in 1 .. IntOctets + 1 /\ Minimal(o)
         /\ Signed(o) = n /\ (o[1] >= 128 <=> n < 0) /\ (n >= 0 => Unsigned(o) = n)
         /\ o = BigEndian(n, Len(o)) /\ Fits(n, Len(o))
         /\ \A k \in 1 .. IntOctets + 1 : Fits(n, k) => Len(o) <= k
  <1>1. PICK k \in 1 .. IntOctets + 1 :
          o = BigEndian(n, k) /\ Fits(n, k) /\ (k = 1 \/ ~Fits(n, k - 1))
    BY DEF IsShortest
  <1>2. Minimal(o)
    BY <1>1, MinimalIsShortest
  <1>3. /\ o \in Seq(Octet) /\ Len(o) = k /\ Signed(o) = n
        /\ (o[1] >= 128 <=> n < 0) /\ (n >= 0 => Unsigned(o) = n)
    BY <1>1, SignedIsNumber
  <1>4. \A j \in 1 .. IntOctets + 1 : Fits(n, j) => k <= j
    BY <1>1, OneShortest
  <1>. QED
    BY <1>1, <1>2, <1>3, <1>4

(* A number has one shortest form.                                         *)
LEMMA ShortestUnique ==
  ASSUME NEW n \in Int, NEW a, NEW b, IsShortest(a, n), IsShortest(b, n)
  PROVE  a = b
  <1>1. /\ Len(a) \in 1 .. IntOctets + 1 /\ Fits(n, Len(a)) /\ a = BigEndian(n, Len(a))
        /\ \A k \in 1 .. IntOctets + 1 : Fits(n, k) => Len(a) <= k
    BY ShortestIsRead
  <1>2. /\ Len(b) \in 1 .. IntOctets + 1 /\ Fits(n, Len(b)) /\ b = BigEndian(n, Len(b))
        /\ \A k \in 1 .. IntOctets + 1 : Fits(n, k) => Len(b) <= k
    BY ShortestIsRead
  <1>3. Len(a) <= Len(b) /\ Len(b) <= Len(a)
    BY <1>1, <1>2
  <1>4. Len(a) = Len(b)
    <2> DEFINE i == Len(a)
               j == Len(b)
    <2>1. i \in 1 .. IntOctets + 1 /\ j \in 1 .. IntOctets + 1 /\ i <= j /\ j <= i
      BY <1>1, <1>2, <1>3
    <2> HIDE DEF i, j
    <2>2. i = j
      BY <2>1, Asn1TypesAssumption
    <2>. QED
      BY <2>2 DEF i, j
  <1>. QED
    BY <1>1, <1>2, <1>4

(* Reading and writing int64_t.                                            *)
Int64Range == -(256 ^ IntOctets \div 2) .. 256 ^ IntOctets \div 2 - 1
Int64Content(v) == IF v >= 0 THEN Magnitude(v) ELSE TwosComplement(v)

(* The numbers of int64_t are those that fit.                              *)
LEMMA FitsInt64 ==
  ASSUME NEW n \in Int
  PROVE  Fits(n, IntOctets) <=> n \in Int64Range
  BY WordSize DEF Fits, Int64Range

(* What asn1_parse_int64 accepts is the shortest form of what it returns.  *)
LEMMA Int64Read ==
  ASSUME NEW d \in Seq(Octet), d # <<>>, Len(d) <= IntOctets, Minimal(d)
  PROVE  Signed(d) \in Int64Range /\ IsShortest(d, Signed(d))
  <1> DEFINE k == Len(d)
             n == Signed(d)
  <1>1. k \in 1 .. IntOctets /\ k \in 1 .. IntOctets + 1 /\ IntOctets \in k .. IntOctets + 1
    <2>1. k \in Nat /\ k # 0
      BY LenProperties, EmptySeq
    <2> HIDE DEF k
    <2>2. k <= IntOctets
      BY DEF k
    <2>. QED
      BY <2>1, <2>2, Asn1TypesAssumption
  <1>2. n \in Int /\ Fits(n, k) /\ d = BigEndian(n, k)
    BY <1>1, NumberIsSpelled
  <1>3. k = 1 \/ ~Fits(n, k - 1)
    <2>1. Minimal(BigEndian(n, k))
      BY <1>2
    <2> HIDE DEF k, n
    <2>. QED
      BY <1>1, <1>2, <2>1, MinimalIsShortest
  <1>4. Fits(n, IntOctets)
    <2> HIDE DEF k, n
    <2>. QED
      BY <1>1, <1>2, FitsMore
  <1>5. n \in Int64Range
    <2> HIDE DEF k, n
    <2>. QED
      BY <1>2, <1>4, FitsInt64
  <1>6. IsShortest(d, n)
    <2> HIDE DEF k, n
    <2>. QED
      BY <1>1, <1>2, <1>3 DEF IsShortest
  <1>. QED
    BY <1>5, <1>6

(* What asn1_serialize_int64 writes is the shortest form, and no longer than *)
(* a word.                                                                 *)
LEMMA Int64Written ==
  ASSUME NEW v \in Int64Range
  PROVE  v \in Int /\ IsShortest(Int64Content(v), v) /\ Len(Int64Content(v)) <= IntOctets
  <1> DEFINE p == 256 ^ (IntOctets - 1)
  <1>1. p \in Nat \ {0} /\ 256 ^ IntOctets = 256 * p /\ 256 ^ IntOctets \div 2 = 128 * p
    BY WordSize
  <1>2. v \in -(128 * p) .. 128 * p - 1
    BY <1>1 DEF Int64Range
  <1> HIDE DEF p
  <1>3. v \in Int /\ Fits(v, IntOctets)
    <2>1. v \in Int
      BY <1>1, <1>2
    <2>. QED
      BY <2>1, FitsInt64
  <1>4. IsShortest(Int64Content(v), v)
    <2>1. CASE v >= 0
      <3>1. v \in 0 .. 256 * p - 1
        BY <1>1, <1>2, <2>1
      <3>2. v \in 0 .. 256 ^ IntOctets - 1
        BY <1>1, <3>1
      <3>3. Int64Content(v) = Magnitude(v)
        BY <2>1 DEF Int64Content
      <3>. QED
        BY <3>2, <3>3, MagnitudeIsShortest
    <2>2. CASE ~(v >= 0)
      <3>1. v \in -(128 * p) .. -1
        BY <1>1, <1>2, <2>2
      <3>2. Int64Content(v) = TwosComplement(v)
        BY <2>2 DEF Int64Content
      <3>. QED
        BY <3>1, <3>2, TwosComplementIsShortest DEF p
    <2>. QED
      BY <2>1, <2>2
  <1>5. Len(Int64Content(v)) <= IntOctets
    <2>1. IntOctets \in 1 .. IntOctets + 1
      BY Asn1TypesAssumption
    <2>. QED
      BY <1>3, <1>4, <2>1, ShortestIsRead
  <1>. QED
    BY <1>3, <1>4, <1>5

-----------------------------------------------------------------------------
(* Reading and writing uint64_t.                                           *)

(* What asn1_parse_uint64 accepts it reads without loss.                   *)
LEMMA Uint64Read ==
  ASSUME NEW d \in Seq(Octet), d # <<>>, d[1] < 128, FitsUnsigned(d)
  PROVE  /\ Unsigned(d) \in 0 .. 256 ^ IntOctets - 1
         /\ Unsigned(d) % 256 ^ IntOctets = Unsigned(d)
         /\ d = BigEndian(Unsigned(d), Len(d)) /\ Fits(Unsigned(d), Len(d))
         /\ Len(d) \in 1 .. IntOctets + 1
  <1> DEFINE k == Len(d)
             n == Signed(d)
             p == 256 ^ (IntOctets - 1)
             q == n \div 256 ^ (k - 1)
  <1>1. k \in Nat /\ k # 0 /\ (k <= IntOctets \/ (k = IntOctets + 1 /\ d[1] = 0))
    BY LenProperties, EmptySeq DEF FitsUnsigned
  <1>2. k \in 1 .. IntOctets + 1
    <2> HIDE DEF k
    <2>. QED
      BY <1>1, Asn1TypesAssumption
  <1>3. n \in Int /\ Fits(n, k) /\ d = BigEndian(n, k) /\ Unsigned(d) = n
    BY <1>2, NumberIsSpelled
  <1>4. ~(n < 0)
    <2>1. d[1] >= 128 <=> n < 0
      <3>1. BigEndian(n, k)[1] >= 128 <=> n < 0
        <4> HIDE DEF k, n
        <4>. QED
          BY <1>2, <1>3, SignedIsNumber
      <3>. QED
        BY <1>3, <3>1
    <2>2. ~(d[1] >= 128)
      <3>1. PICK x \in 0 .. 255 : x = d[1]
        <4>1. d[1] \in Octet
          <5>1. 1 \in 1 .. Len(d)
            BY <1>1
          <5>. QED
            BY <5>1, ElementOfSeq
        <4>. QED
          BY <4>1 DEF Octet
      <3>2. ~(x < 128 /\ x >= 128)
        OBVIOUS
      <3>. QED
        BY <3>1, <3>2
    <2>. QED
      BY <2>1, <2>2
  <1>5. p \in Nat \ {0} /\ 256 ^ IntOctets = 256 * p
    BY WordSize
  <1>6. n < 256 * p
    <2>1. CASE k <= IntOctets
      <3>1. IntOctets \in k .. IntOctets + 1
        <4> HIDE DEF k
        <4>. QED
          BY <1>1, <2>1, Asn1TypesAssumption
      <3>2. Fits(n, IntOctets)
        <4> HIDE DEF k, n
        <4>. QED
          BY <1>2, <1>3, <3>1, FitsMore
      <3>3. n <= 128 * p - 1
        <4> HIDE DEF n
        <4>. QED
          BY <3>2 DEF Fits
      <3> HIDE DEF n, p
      <3>. QED
        BY <1>3, <1>5, <3>3
    <2>2. CASE k = IntOctets + 1 /\ d[1] = 0
      <3>1. q \in -128 .. 127
        <4> HIDE DEF k, n
        <4>. QED
          BY <1>2, <1>3, FitsQuotient
      <3>2. d[1] = q % 256
        <4>1. BigEndian(n, k)[1] = q % 256
          <5> DEFINE r == n \div 256 ^ (k - 1)
          <5>1. n \in Int /\ k \in 1 .. IntOctets + 1
            BY <1>2, <1>3
          <5> HIDE DEF k, n, p, q
          <5>2. BigEndian(n, k)[1] = r % 256
            BY <5>1, FirstOctet
          <5>. QED
            BY <5>2 DEF q
        <4>. QED
          BY <1>3, <4>1
      <3>3. q = 0
        <4> HIDE DEF q
        <4>. QED
          BY <2>2, <3>1, <3>2
      <3>4. n \div (256 * p) = 0
        <4>1. k - 1 = IntOctets
          BY <2>2, Asn1TypesAssumption
        <4> HIDE DEF k, n, p
        <4>. QED
          BY <1>5, <3>3, <4>1
      <3> HIDE DEF n, p
      <3>5. n < (n \div (256 * p)) * (256 * p) + 256 * p
        <4>1. 256 * p \in Nat \ {0}
          BY <1>5
        <4>. QED
          BY <1>3, <4>1, IntDivision, ZenonT(60)
      <3>. QED
        BY <1>3, <1>5, <3>4, <3>5
    <2>. QED
      BY <1>1, <2>1, <2>2
  <1>7. n \in 0 .. 256 * p - 1 /\ n % (256 * p) = n
    <2> DEFINE w == 256 * p
    <2>1. w \in Nat \ {0} /\ n < w
      BY <1>5, <1>6
    <2> HIDE DEF n, p, w
    <2>2. n \in 0 .. w - 1
      BY <1>3, <1>4, <2>1
    <2>3. n % w = n
      <3>1. 0 * w <= n /\ n < 0 * w + w
        BY <2>1, <2>2
      <3>2. n \div w = 0
        BY <1>3, <2>1, <3>1, IntQuotient
      <3>3. n = (n \div w) * w + (n % w) /\ n % w \in 0 .. w - 1
        BY <1>3, <2>1, IntDivision
      <3>. QED
        BY <2>1, <3>2, <3>3
    <2>. QED
      BY <2>2, <2>3 DEF w
  <1>. QED
    <2> HIDE DEF n, k, p
    <2>1. n \in 0 .. 256 ^ IntOctets - 1 /\ n % 256 ^ IntOctets = n
      BY <1>5, <1>7
    <2>. QED
      BY <1>2, <1>3, <2>1 DEF k

(* What asn1_serialize_uint64 writes asn1_parse_uint64 reads, and no form is *)
(* shorter.                                                                *)
LEMMA Uint64Written ==
  ASSUME NEW v \in 0 .. 256 ^ IntOctets - 1
  PROVE  /\ Magnitude(v) \in Seq(Octet) /\ Magnitude(v) # <<>> /\ Magnitude(v)[1] < 128
         /\ FitsUnsigned(Magnitude(v)) /\ Unsigned(Magnitude(v)) = v
         /\ \A k \in 1 .. IntOctets + 1 : Fits(v, k) => Len(Magnitude(v)) <= k
  <1> DEFINE o == Magnitude(v)
             p == 256 ^ IntOctets
  <1>1. p \in Nat \ {0} /\ v \in Int /\ v >= 0 /\ v < p
    <2>1. p \in Nat \ {0}
      BY PowersOf256, Asn1TypesAssumption
    <2> HIDE DEF p
    <2>2. v \in 0 .. p - 1
      BY DEF p
    <2>. QED
      BY <2>1, <2>2
  <1>2. IsShortest(o, v)
    BY MagnitudeIsShortest
  <1> HIDE DEF o
  <1>3. /\ o \in Seq(Octet) /\ Len(o) \in 1 .. IntOctets + 1
        /\ (o[1] >= 128 <=> v < 0) /\ Unsigned(o) = v /\ o = BigEndian(v, Len(o))
        /\ \A k \in 1 .. IntOctets + 1 : Fits(v, k) => Len(o) <= k
    BY <1>1, <1>2, ShortestIsRead
  <1>4. o # <<>> /\ o[1] \in Octet /\ o[1] < 128
    <2>1. 1 \in 1 .. Len(o) /\ Len(o) # 0
      BY <1>3, Asn1TypesAssumption
    <2>2. o[1] \in Octet
      BY <1>3, <2>1, ElementOfSeq
    <2>3. PICK x \in 0 .. 255 : x = o[1]
      BY <2>2 DEF Octet
    <2>4. ~(x >= 128)
      BY <1>1, <1>3, <2>3
    <2>5. x < 128
      BY <2>4
    <2>. QED
      BY <2>1, <2>2, <2>3, <2>5, EmptySeq
  <1>5. FitsUnsigned(o)
    <2>1. Len(o) <= IntOctets \/ Len(o) = IntOctets + 1
      BY <1>3, Asn1TypesAssumption
    <2>2. ASSUME Len(o) = IntOctets + 1
          PROVE  o[1] = 0
      <3>1. 1 \in 1 .. Len(o) /\ Len(o) - 1 = IntOctets
        BY <1>3, <2>2, Asn1TypesAssumption
      <3>2. o[1] = (v \div p) % 256
        <4> DEFINE k == Len(o)
        <4>1. BigEndian(v, k)[1] = (v \div 256 ^ (k - 1)) % 256
          <5> HIDE DEF k
          <5>. QED
            BY <3>1 DEF BigEndian, Digit, k
        <4>2. o[1] = BigEndian(v, k)[1]
          BY <1>3
        <4>. QED
          BY <3>1, <4>1, <4>2
      <3>3. v \div p = 0
        <4> HIDE DEF p
        <4>1. 0 * p <= v /\ v < 0 * p + p
          BY <1>1
        <4>. QED
          BY <1>1, <4>1, IntQuotient
      <3> HIDE DEF p
      <3>. QED
        BY <3>2, <3>3
    <2>. QED
      BY <2>1, <2>2 DEF FitsUnsigned
  <1>. QED
    BY <1>3, <1>4, <1>5 DEF o

(* The sign of octets of any length.                                       *)
LEMMA SignOfOctets ==
  ASSUME NEW octets \in Seq(Octet), octets # <<>>
  PROVE  octets[1] \in 0 .. 255 /\ Signed(octets) \in Int /\ (Signed(octets) < 0 <=> octets[1] >= 128)
  <1> DEFINE L == Len(octets)
             start == IF octets[1] >= 128 THEN -1 ELSE 0
             f == Shifted(start, octets)
             S == {i \in 0 .. L : f[i] \in Int /\ (f[i] < 0 <=> start < 0)}
  <1>1. L \in Nat /\ L # 0 /\ octets[1] \in 0 .. 255 /\ \A i \in 1 .. L : octets[i] \in 0 .. 255
    <2>1. L \in Nat /\ L # 0
      BY LenProperties, EmptySeq
    <2>2. \A i \in 1 .. L : octets[i] \in Octet
      BY ElementOfSeq
    <2>3. 1 \in 1 .. L
      BY <2>1
    <2> HIDE DEF L
    <2>. QED
      BY <2>1, <2>2, <2>3 DEF Octet
  <1>2. start \in {-1, 0} /\ (start < 0 <=> octets[1] >= 128)
    <2>1. PICK x \in 0 .. 255 : x = octets[1]
      BY <1>1
    <2>. QED
      BY <2>1
  <1>3. f[0] = start /\ \A i \in 1 .. L : f[i] = f[i - 1] * 256 + octets[i]
    <2>1. start \in Int
      BY <1>2
    <2> HIDE DEF start
    <2>. QED
      BY <2>1, ShiftedSteps
  <1>4. 0 \in S
    <2>1. 0 \in 0 .. L /\ start \in Int
      BY <1>1, <1>2
    <2> HIDE DEF start, L
    <2>. QED
      BY <1>3, <2>1
  <1>5. ASSUME NEW i \in 0 .. L - 1, i \in S
        PROVE  i + 1 \in S
    <2>1. i + 1 \in 1 .. L /\ (i + 1) - 1 = i /\ i + 1 \in 0 .. L
      BY <1>1
    <2>2. f[i + 1] = f[i] * 256 + octets[i + 1] /\ octets[i + 1] \in 0 .. 255
      <3> HIDE DEF f, L
      <3>. QED
        BY <1>1, <1>3, <2>1
    <2>3. f[i] \in Int /\ (f[i] < 0 <=> start < 0)
      BY <1>5
    <2> HIDE DEF f, start
    <2>4. f[i + 1] \in Int /\ (f[i + 1] < 0 <=> f[i] < 0)
      <3>1. PICK a \in Int, x \in 0 .. 255 : a = f[i] /\ x = octets[i + 1]
        BY <2>2, <2>3
      <3>2. f[i + 1] = a * 256 + x
        BY <2>2, <3>1
      <3>3. a * 256 + x \in Int /\ (a * 256 + x < 0 <=> a < 0)
        OBVIOUS
      <3>. QED
        BY <3>1, <3>2, <3>3
    <2>. QED
      BY <2>1, <2>3, <2>4
  <1>6. 0 .. L \subseteq S
    <2> HIDE DEF S, L
    <2>. QED
      BY <1>1, <1>4, <1>5, UpTo
  <1>7. L \in S
    <2>1. L \in 0 .. L
      BY <1>1
    <2> HIDE DEF S
    <2>. QED
      BY <1>6, <2>1
  <1>8. Signed(octets) = f[L]
    BY DEF Signed
  <1>9. f[L] \in Int /\ (f[L] < 0 <=> start < 0)
    BY <1>7
  <1> HIDE DEF f, start
  <1>. QED
    BY <1>1, <1>2, <1>8, <1>9

(* What asn1_parse_uint64 refuses, uint64_t does not hold.                 *)
LEMMA Uint64Refused ==
  ASSUME NEW d \in Seq(Octet), d # <<>>, ~(d[1] < 128 /\ FitsUnsigned(d)), Len(d) <= IntOctets + 1
  PROVE  Signed(d) \notin 0 .. 256 ^ IntOctets - 1
  <1> DEFINE k == Len(d)
             n == Signed(d)
             p == 256 ^ IntOctets
             q == n \div 256 ^ (k - 1)
  <1>1. d[1] \in 0 .. 255 /\ n \in Int /\ (n < 0 <=> d[1] >= 128)
    BY SignOfOctets
  <1>2. p \in Nat \ {0}
    BY PowersOf256, Asn1TypesAssumption
  <1>3. k \in 1 .. IntOctets + 1
    <2>1. k \in Nat /\ k # 0 /\ k <= IntOctets + 1
      BY LenProperties, EmptySeq
    <2> HIDE DEF k
    <2>. QED
      BY <2>1, Asn1TypesAssumption
  <1>4. CASE d[1] >= 128
    <2> HIDE DEF n, p
    <2>. QED
      BY <1>1, <1>2, <1>4 DEF n, p
  <1>5. CASE ~(d[1] >= 128)
    <2>1. d[1] < 128
      <3>1. PICK x \in 0 .. 255 : x = d[1]
        BY <1>1
      <3>. QED
        BY <1>5, <3>1
    <2>2. k = IntOctets + 1 /\ d[1] # 0
      <3>1. ~(k <= IntOctets) /\ ~(k = IntOctets + 1 /\ d[1] = 0)
        BY <2>1 DEF FitsUnsigned
      <3>2. k = IntOctets + 1
        <4> HIDE DEF k
        <4>. QED
          BY <1>3, <3>1, Asn1TypesAssumption
      <3>. QED
        BY <3>1, <3>2
    <2>3. Fits(n, k) /\ d = BigEndian(n, k)
      BY <1>3, NumberIsSpelled
    <2>4. q \in -128 .. 127 /\ d[1] = q % 256 /\ k - 1 = IntOctets
      <3>1. q \in -128 .. 127 /\ BigEndian(n, k)[1] = q % 256
        <4> HIDE DEF n, k
        <4>1. q \in -128 .. 127
          BY <1>1, <1>3, <2>3, FitsQuotient
        <4>2. BigEndian(n, k)[1] = q % 256
          BY <1>1, <1>3, FirstOctet
        <4>. QED
          BY <4>1, <4>2
      <3>2. k - 1 = IntOctets
        BY <2>2, Asn1TypesAssumption
      <3>. QED
        BY <2>3, <3>1, <3>2
    <2>5. q >= 1 /\ q = n \div p
      <3>1. ~(n < 0) /\ (n < 0 <=> q < 0)
        <4>1. n < 0 <=> q < 0
          <5> HIDE DEF n, k
          <5>. QED
            BY <1>1, <1>3, FitsQuotient, ZenonT(60)
        <4>. QED
          BY <1>1, <1>5, <4>1
      <3>2. q = n \div p
        BY <2>4
      <3> HIDE DEF q
      <3>. QED
        BY <2>2, <2>4, <3>1, <3>2
    <2>6. n >= p
      <3> HIDE DEF n, p, q
      <3>1. q \in Int /\ q * p <= n
        BY <1>1, <1>2, <2>5, IntDivision
      <3>2. p <= q * p
        <4>1. 0 * p + p <= q * p
          BY <1>2, <2>5, <3>1, IntMultiples
        <4>2. 0 * p = 0 /\ q * p \in Int
          BY <1>2, <3>1
        <4>. QED
          BY <1>2, <4>1, <4>2
      <3>. QED
        BY <1>1, <1>2, <3>1, <3>2
    <2> HIDE DEF n, p
    <2>7. n \notin 0 .. p - 1
      BY <1>1, <1>2, <2>6
    <2>. QED
      BY <2>7 DEF n, p
  <1>. QED
    BY <1>4, <1>5

(* The length and the first octet of content.                              *)
LEMMA OctetsRange ==
  ASSUME NEW d \in Seq(Octet)
  PROVE  Len(d) \in Nat /\ (d # <<>> <=> Len(d) # 0) /\ (d # <<>> => d[1] \in 0 .. 255)
  <1>1. Len(d) \in Nat /\ (d # <<>> <=> Len(d) # 0)
    BY LenProperties, EmptySeq
  <1>2. d # <<>> => d[1] \in Octet
    <2>1. d # <<>> => 1 \in 1 .. Len(d)
      BY <1>1
    <2>. QED
      BY <2>1, ElementOfSeq
  <1>. QED
    BY <1>1, <1>2 DEF Octet

(* The first octets of a number are a word of their own, and the rest only *)
(* moves it further from zero: a minimal form that is longer than a word   *)
(* is of a number beyond it.                                               *)
LEMMA BeyondAWord ==
  ASSUME NEW d \in Seq(Octet), Len(d) > IntOctets, Minimal(d)
  PROVE  \E m \in Int : /\ ~Fits(m, IntOctets) /\ Signed(d) \in Int
                        /\ m >= 0 => Signed(d) >= m
                        /\ m < 0 => Signed(d) <= m
                        /\ m >= 0 /\ Len(d) > IntOctets + 1 => Signed(d) >= 256 * m
  <1> DEFINE L == Len(d)
             K == IntOctets + 1
             e == SubSeq(d, 1, K)
             start == IF d[1] >= 128 THEN -1 ELSE 0
             f == Shifted(start, d)
             g == Shifted(start, e)
             m == Signed(e)
  <1>1. L \in Nat /\ K \in Nat /\ K >= 2 /\ K <= L /\ K - 1 = IntOctets
    <2>1. L \in Nat
      BY OctetsRange
    <2> HIDE DEF L
    <2>2. L > IntOctets
      BY DEF L
    <2>. QED
      BY <2>1, <2>2, Asn1TypesAssumption
  <1>2. \A i \in 1 .. L : d[i] \in 0 .. 255
    <2>1. \A i \in 1 .. L : d[i] \in Octet
      BY ElementOfSeq
    <2> HIDE DEF L
    <2>. QED
      BY <2>1 DEF Octet
  <1>3. e \in Seq(Octet) /\ Len(e) = K /\ \A i \in 1 .. K : e[i] = d[i]
    <2>1. \A i \in 1 .. K : d[i] \in Octet
      <3> HIDE DEF L, K
      <3>. QED
        BY <1>1, <1>2 DEF Octet
    <2>2. 1 \in Int /\ K \in Int /\ 1 <= K /\ (K - 1) + 1 = K
      BY <1>1
    <2> HIDE DEF K
    <2>3. /\ SubSeq(d, 1, K) \in Seq(Octet)
          /\ Len(SubSeq(d, 1, K)) = IF 1 <= K THEN (K - 1) + 1 ELSE 0
          /\ \A i \in 1 .. (K - 1) + 1 : SubSeq(d, 1, K)[i] = d[(1 + i) - 1]
      BY <2>1, <2>2, SubSeqProperties
    <2>4. \A i \in 1 .. K : (1 + i) - 1 = i
      BY <2>2
    <2>. QED
      BY <2>2, <2>3, <2>4
  <1>4. start \in {-1, 0} /\ start \in Int
    <2>1. CASE d[1] >= 128
      BY <2>1
    <2>2. CASE ~(d[1] >= 128)
      BY <2>2
    <2>. QED
      BY <2>1, <2>2
  <1>5. f[0] = start /\ \A i \in 1 .. L : f[i] = f[i - 1] * 256 + d[i]
    <2> HIDE DEF start
    <2>. QED
      BY <1>4, ShiftedSteps
  <1>6. g \in [0 .. K -> Int] /\ g[0] = start /\ \A i \in 1 .. K : g[i] = g[i - 1] * 256 + d[i]
    <2> HIDE DEF start, e, K
    <2>1. e \in Seq(Octet) /\ start \in Int
      BY <1>3, <1>4
    <2>2. /\ Shifted(start, e) \in [0 .. Len(e) -> Int]
          /\ Shifted(start, e)[0] = start
          /\ \A i \in 1 .. Len(e) : Shifted(start, e)[i] = Shifted(start, e)[i - 1] * 256 + e[i]
      BY ONLY <2>1, ShiftedSteps
    <2>3. g \in [0 .. K -> Int] /\ g[0] = start /\ \A i \in 1 .. K : g[i] = g[i - 1] * 256 + e[i]
      BY <1>3, <2>2
    <2> HIDE DEF g
    <2>. QED
      BY <1>3, <2>3
  <1>7. f[K] = g[K]
    <2> DEFINE S == {i \in 0 .. K : f[i] = g[i]}
    <2> HIDE DEF f, g, start, K, L
    <2>1. 0 \in S
      BY <1>1, <1>5, <1>6
    <2>2. ASSUME NEW i \in 0 .. K - 1, i \in S
          PROVE  i + 1 \in S
      <3>1. i + 1 \in 1 .. K /\ i + 1 \in 1 .. L /\ (i + 1) - 1 = i /\ i + 1 \in 0 .. K
        BY <1>1
      <3>2. f[i + 1] = f[i] * 256 + d[i + 1] /\ g[i + 1] = g[i] * 256 + d[i + 1]
        BY <1>5, <1>6, <3>1
      <3>. QED
        BY <2>2, <3>1, <3>2
    <2>3. 0 .. K \subseteq S
      <3> HIDE DEF S
      <3>. QED
        BY <1>1, <2>1, <2>2, UpTo
    <2>4. K \in 0 .. K
      BY <1>1
    <2>. QED
      BY <2>3, <2>4
  <1>8. e[1] = d[1] /\ e[2] = d[2]
    <2> HIDE DEF e, K
    <2>. QED
      BY <1>1, <1>3
  <1>9. m = f[K]
    <2> HIDE DEF f, K, e
    <2>. QED
      BY <1>3, <1>7, <1>8 DEF Signed
  <1>10. m \in Int /\ Fits(m, K) /\ e = BigEndian(m, K)
    <2>1. Len(e) \in 1 .. IntOctets + 1
      <3> HIDE DEF e
      <3>. QED
        BY <1>1, <1>3
    <2> HIDE DEF e, K
    <2>. QED
      BY <1>3, <2>1, NumberIsSpelled
  <1>11. Minimal(e)
    <2>1. ~(d[1] = 0 /\ d[2] < 128) /\ ~(d[1] = 255 /\ d[2] >= 128)
      <3>1. Len(d) > 1
        BY <1>1
      <3>. QED
        BY <3>1 DEF Minimal
    <2> HIDE DEF e
    <2>. QED
      BY <1>8, <2>1 DEF Minimal
  <1>12. ~Fits(m, IntOctets)
    <2>1. K \in 1 .. IntOctets + 1 /\ K # 1 /\ K - 1 = IntOctets
      BY <1>1
    <2> HIDE DEF K, e, m
    <2>2. Minimal(BigEndian(m, K)) <=> (K = 1 \/ ~Fits(m, K - 1))
      BY <1>10, <2>1, MinimalIsShortest
    <2>. QED
      BY <1>10, <1>11, <2>1, <2>2
  <1> DEFINE Far(x, j) == /\ x \in Int
                          /\ m >= 0 => x >= m
                          /\ m < 0 => x <= m
                          /\ m >= 0 /\ j > 0 => x >= 256 * m
             S == {j \in 0 .. L - K : Far(f[K + j], j)}
  <1>13. 0 \in S
    <2> HIDE DEF m, f, L, K
    <2>1. 0 \in 0 .. L - K /\ K + 0 = K
      BY <1>1
    <2>. QED
      BY <1>9, <1>10, <2>1
  <1>14. ASSUME NEW j \in 0 .. (L - K) - 1, j \in S
         PROVE  j + 1 \in S
    <2>1. (K + j) + 1 \in 1 .. L /\ ((K + j) + 1) - 1 = K + j /\ K + (j + 1) = (K + j) + 1 /\ j + 1 \in 0 .. L - K
      <3> HIDE DEF L, K
      <3>. QED
        BY <1>1
    <2>2. Far(f[K + j], j)
      BY <1>14
    <2>3. f[K + (j + 1)] = f[K + j] * 256 + d[(K + j) + 1] /\ d[(K + j) + 1] \in 0 .. 255
      <3> HIDE DEF f, L, K, start
      <3>1. PICK i \in 1 .. L : i = (K + j) + 1 /\ i - 1 = K + j /\ K + (j + 1) = i
        BY <2>1
      <3>2. f[i] = f[i - 1] * 256 + d[i] /\ d[i] \in 0 .. 255
        BY <1>2, <1>5
      <3>. QED
        BY <3>1, <3>2
    <2> HIDE DEF f, m, L, K
    <2>4. PICK x \in Int, o \in 0 .. 255 : x = f[K + j] /\ o = d[(K + j) + 1]
      BY <2>2, <2>3
    <2>5. x \in Int /\ (m >= 0 => x >= m) /\ (m < 0 => x <= m)
      BY <2>2, <2>4
    <2>6. m \in Int
      BY <1>10
    <2>7. ASSUME m >= 0
          PROVE  x * 256 + o >= m /\ x * 256 + o >= 256 * m
      BY <2>5, <2>6, <2>7
    <2>8. ASSUME m < 0
          PROVE  x * 256 + o <= m
      BY <2>5, <2>6, <2>8
    <2>9. x * 256 + o \in Int
      BY <2>5
    <2>10. Far(x * 256 + o, j + 1)
      BY <2>7, <2>8, <2>9
    <2>. QED
      BY <2>1, <2>3, <2>4, <2>10
  <1>15. L - K \in S
    <2>1. L - K \in Nat /\ L - K \in 0 .. L - K
      <3> HIDE DEF L, K
      <3>. QED
        BY <1>1
    <2> HIDE DEF S, L, K
    <2>2. 0 .. L - K \subseteq S
      BY <1>13, <1>14, <2>1, UpTo
    <2>. QED
      BY <2>1, <2>2
  <1>16. Signed(d) = f[K + (L - K)]
    <2>1. K + (L - K) = L
      <3> HIDE DEF L, K
      <3>. QED
        BY <1>1
    <2>2. Signed(d) = f[L]
      BY DEF Signed
    <2>. QED
      BY <2>1, <2>2
  <1>17. Far(Signed(d), L - K) /\ (L > IntOctets + 1 => L - K > 0)
    <2>1. L > IntOctets + 1 => L - K > 0
      <3>1. L > K => L - K > 0
        <4> HIDE DEF L, K
        <4>. QED
          BY <1>1
      <3>. QED
        BY <3>1
    <2>. QED
      BY <1>15, <1>16, <2>1
  <1> HIDE DEF m, e
  <1>18. m \in Int /\ ~Fits(m, IntOctets)
    BY <1>10, <1>12
  <1> HIDE DEF L
  <1>19. L = Len(d)
    BY DEF L
  <1>. QED
    BY <1>17, <1>18, <1>19

(* What asn1_parse_int64 refuses, int64_t does not hold, or it is padded.  *)
LEMMA Int64Refused ==
  ASSUME NEW d \in Seq(Octet), ~(Len(d) <= IntOctets /\ Minimal(d)), Minimal(d)
  PROVE  Signed(d) \notin Int64Range
  <1>1. Len(d) \in Nat
    BY OctetsRange
  <1>2. Len(d) > IntOctets
    BY <1>1, Asn1TypesAssumption
  <1> DEFINE n == Signed(d)
             p == 256 ^ IntOctets \div 2
  <1>3. PICK m \in Int : ~Fits(m, IntOctets) /\ n \in Int /\ (m >= 0 => n >= m) /\ (m < 0 => n <= m)
    BY <1>2, BeyondAWord
  <1>4. p \in Nat \ {0}
    BY WordSize
  <1>5. m \notin -p .. p - 1
    BY <1>3, FitsInt64 DEF Int64Range
  <1> HIDE DEF n, p
  <1>6. n \notin -p .. p - 1
    BY <1>3, <1>4, <1>5
  <1>. QED
    BY <1>6 DEF n, p, Int64Range

(* What asn1_parse_uint64 refuses for its length, uint64_t does not hold,  *)
(* or it is padded.                                                        *)
LEMMA Uint64TooLong ==
  ASSUME NEW d \in Seq(Octet), Len(d) > IntOctets + 1, Minimal(d)
  PROVE  Signed(d) \notin 0 .. 256 ^ IntOctets - 1
  <1> DEFINE n == Signed(d)
             p == 256 ^ (IntOctets - 1)
  <1>1. Len(d) \in Nat
    BY OctetsRange
  <1>2. Len(d) > IntOctets
    BY <1>1, Asn1TypesAssumption
  <1>3. PICK m \in Int : ~Fits(m, IntOctets) /\ n \in Int /\ (m >= 0 => n >= 256 * m) /\ (m < 0 => n <= m)
    BY <1>2, BeyondAWord
  <1>4. p \in Nat \ {0} /\ 256 ^ IntOctets = 256 * p /\ 256 ^ IntOctets \div 2 = 128 * p
    BY WordSize
  <1>5. m \notin -(128 * p) .. 128 * p - 1
    BY <1>3, <1>4, FitsInt64 DEF Int64Range
  <1> HIDE DEF n, p
  <1>6. n \notin 0 .. 256 * p - 1
    BY <1>3, <1>4, <1>5
  <1>. QED
    BY <1>4, <1>6 DEF n

(* The octets of a number that fits denote it.                             *)
LEMMA SpelledDenotes ==
  ASSUME NEW n \in Int, NEW k \in 1 .. IntOctets + 1, Fits(n, k)
  PROVE  Denotes(BigEndian(n, k), n)
  <1> DEFINE o == BigEndian(n, k)
  <1>1. Len(o) = k
    BY SignedIsNumber
  <1>2. DOMAIN o = 1 .. k /\ \A i \in 1 .. k : o[i] = (n \div 256 ^ (k - i)) % 256
    BY DEF BigEndian, Digit
  <1> HIDE DEF o
  <1>3. Denotes(o, n)
    BY <1>1, <1>2, ZenonT(60) DEF Denotes, Fits
  <1>. QED
    BY <1>3 DEF o

-----------------------------------------------------------------------------
(* OBJECT IDENTIFIER *)

Component == 0 .. ComponentMod - 1

OidState == [oid : Seq(Component), part : Component, septets : Nat]

OidStep(s, x) ==
  LET v == (s.part * 128 + (x % 128)) % ComponentMod
  IN IF x < 128 THEN [oid |-> Append(s.oid, v), part |-> 0, septets |-> 0]
     ELSE [oid |-> s.oid, part |-> v, septets |-> s.septets + 1]

OidStart(x) == [oid |-> <<x \div 40, x % 40>>, part |-> 0, septets |-> 0]

(* A step of the scan keeps its state well formed.                         *)
LEMMA OidStepType ==
  ASSUME NEW s \in OidState, NEW x \in Octet
  PROVE  OidStep(s, x) \in OidState
  <1>1. ComponentMod \in Nat \ {0}
    BY Asn1TypesAssumption, PowersOf128
  <1> DEFINE v == (s.part * 128 + (x % 128)) % ComponentMod
  <1>2. s.part \in Nat /\ s.oid \in Seq(Component) /\ s.septets \in Nat
    BY DEF OidState, Component
  <1>3. v \in Component
    <2>1. s.part * 128 + (x % 128) \in Int
      BY <1>2 DEF Octet
    <2>. QED
      BY <1>1, <2>1, IntDivision DEF Component
  <1>4. 0 \in Component
    BY <1>1 DEF Component
  <1> HIDE DEF v
  <1>5. Append(s.oid, v) \in Seq(Component)
    BY <1>2, <1>3, AppendProperties
  <1>6. OidStep(s, x) = IF x < 128 THEN [oid |-> Append(s.oid, v), part |-> 0, septets |-> 0]
                        ELSE [oid |-> s.oid, part |-> v, septets |-> s.septets + 1]
    BY DEF OidStep, v
  <1>. QED
    BY <1>2, <1>3, <1>4, <1>5, <1>6 DEF OidState

(* The first octet gives two components.                                   *)
LEMMA OidStartType ==
  ASSUME NEW x \in Octet
  PROVE  OidStart(x) \in OidState /\ OidStart(x).oid[1] \in 0 .. 6 /\ OidStart(x).oid[2] \in 0 .. 39
         /\ OidStart(x).oid[1] * 40 + OidStart(x).oid[2] = x /\ Len(OidStart(x).oid) = 2
  <1>1. ComponentMod \in Nat /\ ComponentMod >= 256
    BY Asn1TypesAssumption, PowersOf128
  <1>2. x \div 40 \in 0 .. 6 /\ x % 40 \in 0 .. 39 /\ (x \div 40) * 40 + (x % 40) = x
    BY DEF Octet
  <1>3. x \div 40 \in Component /\ x % 40 \in Component /\ 0 \in Component
    BY <1>1, <1>2 DEF Component
  <1> DEFINE o == <<x \div 40, x % 40>>
  <1>4. o \in Seq(Component) /\ Len(o) = 2 /\ o[1] = x \div 40 /\ o[2] = x % 40
    BY <1>3
  <1>5. OidStart(x) = [oid |-> o, part |-> 0, septets |-> 0]
    BY DEF OidStart
  <1> HIDE DEF o
  <1>6. OidStart(x) \in OidState
    BY <1>3, <1>4, <1>5 DEF OidState
  <1>. QED
    BY <1>2, <1>4, <1>5, <1>6

(* The scan is defined, and takes an octet at a time.                      *)
LEMMA OidScanSteps ==
  ASSUME NEW octets \in Seq(Octet), octets # <<>>
  PROVE  /\ \A i \in 1 .. Len(octets) : OidScan(octets)[i] \in OidState
         /\ OidScan(octets)[1] = OidStart(octets[1])
         /\ \A i \in 2 .. Len(octets) : OidScan(octets)[i] = OidStep(OidScan(octets)[i - 1], octets[i])
  <1> DEFINE L == Len(octets)
             step == [k \in 1 .. L - 1 |-> [s \in OidState |-> OidStep(s, octets[k + 1])]]
             start == OidStart(octets[1])
  <1>1. L \in Nat \ {0} /\ \A i \in 1 .. L : octets[i] \in Octet
    BY LenProperties, EmptySeq, ElementOfSeq
  <1>2. start \in OidState
    <2>1. octets[1] \in Octet
      BY <1>1
    <2>. QED
      BY <2>1, OidStartType
  <1>3. step \in [1 .. L - 1 -> [OidState -> OidState]]
    <2>1. ASSUME NEW k \in 1 .. L - 1, NEW s \in OidState
          PROVE  OidStep(s, octets[k + 1]) \in OidState
      <3>1. octets[k + 1] \in Octet
        <4>1. k + 1 \in 1 .. L
          BY <1>1
        <4> HIDE DEF L
        <4>. QED
          BY <1>1, <4>1
      <3>. QED
        BY <3>1, OidStepType
    <2> HIDE DEF L
    <2>. QED
      BY <2>1
  <1>4. PICK h \in [0 .. L - 1 -> OidState] : Loop(h, L - 1, start, step)
    <2>1. L - 1 \in Nat
      BY <1>1
    <2> HIDE DEF L, step, start
    <2>. QED
      BY <1>2, <1>3, <2>1, LoopExists
  <1>5. h[0] = start /\ \A k \in 1 .. L - 1 : h[k] = OidStep(h[k - 1], octets[k + 1])
    <2>1. h = [k \in 0 .. L - 1 |-> IF k = 0 THEN start ELSE step[k][h[k - 1]]]
      BY <1>4 DEF Loop
    <2>2. \A k \in 1 .. L - 1 : k \in 0 .. L - 1 /\ k # 0 /\ k - 1 \in 0 .. L - 1
      BY <1>1
    <2>3. 0 \in 0 .. L - 1
      BY <1>1
    <2>4. ASSUME NEW k \in 1 .. L - 1
          PROVE  h[k] = OidStep(h[k - 1], octets[k + 1])
      <3>1. h[k - 1] \in OidState
        <4> HIDE DEF L
        <4>. QED
          BY <1>4, <2>2
      <3>2. h[k] = step[k][h[k - 1]]
        <4> HIDE DEF L, step, start
        <4>. QED
          BY <2>1, <2>2
      <3> HIDE DEF L, start
      <3>. QED
        BY <3>1, <3>2
    <2> HIDE DEF L, step, start
    <2>. QED
      BY <2>1, <2>3, <2>4
  <1> DEFINE f == [i \in 1 .. L |-> h[i - 1]]
             Scan(g) == g = [i \in 1 .. L |->
                          IF i = 1 THEN [oid |-> <<octets[1] \div 40, octets[1] % 40>>, part |-> 0, septets |-> 0]
                          ELSE LET v == (g[i - 1].part * 128 + (octets[i] % 128)) % ComponentMod
                               IN IF octets[i] < 128
                                  THEN [oid |-> Append(g[i - 1].oid, v), part |-> 0, septets |-> 0]
                                  ELSE [oid |-> g[i - 1].oid, part |-> v, septets |-> g[i - 1].septets + 1]]
             Scans(g) == g = [i \in 1 .. L |-> IF i = 1 THEN start ELSE OidStep(g[i - 1], octets[i])]
  <1>6. \A g : Scan(g) <=> Scans(g)
    BY DEF OidStart, OidStep
  <1>7. Scans(f)
    <2>1. ASSUME NEW i \in 1 .. L
          PROVE  f[i] = IF i = 1 THEN start ELSE OidStep(f[i - 1], octets[i])
      <3>1. CASE i = 1
        <4>1. f[i] = h[0]
          BY <3>1
        <4> HIDE DEF f, start
        <4>. QED
          BY <1>5, <3>1, <4>1
      <3>2. CASE i # 1
        <4>1. i - 1 \in 1 .. L - 1 /\ i - 1 \in 1 .. L /\ (i - 1) + 1 = i
          BY <1>1, <3>2
        <4>2. f[i] = h[i - 1] /\ f[i - 1] = h[(i - 1) - 1]
          BY <4>1
        <4>3. h[i - 1] = OidStep(h[(i - 1) - 1], octets[(i - 1) + 1])
          <5> HIDE DEF L, start
          <5>. QED
            BY <1>5, <4>1
        <4> HIDE DEF f, start, L
        <4>. QED
          BY <3>2, <4>1, <4>2, <4>3
      <3>. QED
        BY <3>1, <3>2
    <2>2. f = [i \in 1 .. L |-> f[i]]
      OBVIOUS
    <2> HIDE DEF f, start, L
    <2>. QED
      BY <2>1, <2>2
  <1>8. Scans(OidScan(octets))
    <2>1. OidScan(octets) = CHOOSE g : Scan(g)
      BY DEF OidScan
    <2> HIDE DEF Scan, Scans, f
    <2>2. Scan(f)
      BY <1>6, <1>7
    <2>3. Scan(OidScan(octets))
      BY <2>1, <2>2
    <2>. QED
      BY <1>6, <2>3
  <1> DEFINE g == OidScan(octets)
  <1>9. g[1] = start /\ \A i \in 2 .. L : g[i] = OidStep(g[i - 1], octets[i])
    <2>1. g = [i \in 1 .. L |-> IF i = 1 THEN start ELSE OidStep(g[i - 1], octets[i])]
      BY <1>8
    <2>2. 1 \in 1 .. L /\ \A i \in 2 .. L : i \in 1 .. L /\ i # 1
      BY <1>1
    <2> HIDE DEF g, start, L
    <2>. QED
      BY <2>1, <2>2
  <1>10. \A i \in 1 .. L : g[i] \in OidState
    <2> DEFINE S == {k \in 0 .. L - 1 : g[k + 1] \in OidState}
    <2>1. 0 \in S
      BY <1>1, <1>2, <1>9
    <2>2. ASSUME NEW k \in 0 .. (L - 1) - 1, k \in S
          PROVE  k + 1 \in S
      <3>1. (k + 1) + 1 \in 2 .. L /\ ((k + 1) + 1) - 1 = k + 1 /\ k + 1 \in 0 .. L - 1 /\ (k + 1) + 1 \in 1 .. L
        BY <1>1
      <3>2. g[k + 1] \in OidState /\ octets[(k + 1) + 1] \in Octet
        BY <1>1, <2>2, <3>1
      <3>3. g[(k + 1) + 1] = OidStep(g[k + 1], octets[(k + 1) + 1])
        <4> HIDE DEF g, L, start
        <4>. QED
          BY <1>9, <3>1
      <3>4. g[(k + 1) + 1] \in OidState
        <4> HIDE DEF g
        <4>. QED
          BY <3>2, <3>3, OidStepType
      <3>. QED
        BY <3>1, <3>4
    <2>3. 0 .. L - 1 \subseteq S
      <3>1. L - 1 \in Nat
        BY <1>1
      <3> HIDE DEF S, L
      <3>. QED
        BY <2>1, <2>2, <3>1, UpTo
    <2>4. \A i \in 1 .. L : i - 1 \in 0 .. L - 1 /\ (i - 1) + 1 = i
      BY <1>1
    <2> HIDE DEF g, L
    <2>. QED
      BY <2>3, <2>4
  <1>. QED
    BY <1>9, <1>10

(* What has been scanned does not change with what follows.                *)
LEMMA ScanPrefix ==
  ASSUME NEW a \in Seq(Octet), a # <<>>, NEW b \in Seq(Octet)
  PROVE  \A i \in 1 .. Len(a) : OidScan(a \o b)[i] = OidScan(a)[i]
  <1> DEFINE L == Len(a)
             c == a \o b
             f == OidScan(a)
             g == OidScan(c)
  <1>1. L \in Nat \ {0} /\ Len(c) \in Nat /\ L <= Len(c) /\ c \in Seq(Octet) /\ c # <<>>
        /\ \A i \in 1 .. L : c[i] = a[i]
    BY LenProperties, EmptySeq, ConcatProperties
  <1>2. f[1] = OidStart(a[1]) /\ \A i \in 2 .. L : f[i] = OidStep(f[i - 1], a[i])
    BY OidScanSteps
  <1>3. g[1] = OidStart(c[1]) /\ \A i \in 2 .. Len(c) : g[i] = OidStep(g[i - 1], c[i])
    <2> HIDE DEF c
    <2>. QED
      BY <1>1, OidScanSteps
  <1> DEFINE S == {k \in 0 .. L - 1 : g[k + 1] = f[k + 1]}
  <1> HIDE DEF c, f, g, L
  <1>4. 0 \in S
    <2>1. 1 \in 1 .. L /\ 0 \in 0 .. L - 1 /\ 0 + 1 = 1
      BY <1>1
    <2>2. g[1] = f[1]
      BY <1>1, <1>2, <1>3, <2>1
    <2>. QED
      BY <2>1, <2>2
  <1>5. ASSUME NEW k \in 0 .. (L - 1) - 1, k \in S
        PROVE  k + 1 \in S
    <2>1. (k + 1) + 1 \in 2 .. L /\ ((k + 1) + 1) - 1 = k + 1 /\ k + 1 \in 0 .. L - 1
          /\ (k + 1) + 1 \in 1 .. L /\ (k + 1) + 1 \in 2 .. Len(c)
      BY <1>1
    <2>2. g[k + 1] = f[k + 1]
      BY <1>5
    <2>3. g[(k + 1) + 1] = OidStep(g[k + 1], c[(k + 1) + 1]) /\ f[(k + 1) + 1] = OidStep(f[k + 1], a[(k + 1) + 1])
      BY <1>2, <1>3, <2>1
    <2>. QED
      BY <1>1, <2>1, <2>2, <2>3
  <1>6. 0 .. L - 1 \subseteq S
    <2>1. L - 1 \in Nat
      BY <1>1
    <2> HIDE DEF S
    <2>. QED
      BY <1>4, <1>5, <2>1, UpTo
  <1>7. ASSUME NEW i \in 1 .. L
        PROVE  g[i] = f[i]
    <2>1. i - 1 \in 0 .. L - 1 /\ (i - 1) + 1 = i
      BY <1>1
    <2>. QED
      BY <1>6, <2>1
  <1>. QED
    BY <1>7 DEF c, f, g, L

(* The bounds of a component.                                              *)
LEMMA ComponentSize == ComponentMod \in Nat \ {0} /\ ComponentMod >= 256 /\ ComponentMod <= 128 ^ Septets
  BY Asn1TypesAssumption, PowersOf128

(* The septets of a component.                                             *)
LEMMA Base128Septets ==
  ASSUME NEW c \in Component
  PROVE  \E k \in 1 .. Septets :
           /\ Base128(c) \in Seq(Octet) /\ Len(Base128(c)) = k
           /\ c < 128 ^ k /\ (k = 1 \/ 128 ^ (k - 1) <= c)
           /\ \A i \in 1 .. k :
                /\ Base128(c)[i] % 128 = (c \div 128 ^ (k - i)) % 128
                /\ Base128(c)[i] < 128 <=> i = k
  <1> DEFINE m == DigitCount(c, 128, Septets)
             k == Max1(m)
             o == Base128(c)
  <1>1. c \in Nat /\ c < 128 ^ Septets /\ Septets \in Nat \ {0}
    <2>1. 128 ^ Septets \in Nat
      BY PowersOf128, Asn1TypesAssumption
    <2>. QED
      BY <2>1, ComponentSize, Asn1TypesAssumption DEF Component
  <1>2. m \in 0 .. Septets /\ c < 128 ^ m /\ (m # 0 => 128 ^ (m - 1) <= c) /\ (c # 0 => m # 0)
    <2>1. \A j \in 0 .. Septets : 128 ^ (j + 1) = 128 * 128 ^ j
      BY PowersOf128
    <2>2. PICK b \in Nat \ {0} : b = 128
      OBVIOUS
    <2>3. b ^ 0 = 1 /\ (\A j \in 0 .. Septets : b ^ (j + 1) = b * b ^ j) /\ c < b ^ Septets
      BY <1>1, <2>1, <2>2, ZeroPowers
    <2> DEFINE e == DigitCount(c, b, Septets)
    <2>4. e \in 0 .. Septets /\ c < b ^ e /\ (e # 0 => b ^ (e - 1) <= c) /\ (c # 0 => e # 0)
      BY <1>1, <2>3, DigitsOfNumber
    <2>5. e = m
      BY <2>2
    <2> HIDE DEF m, e
    <2>. QED
      BY <2>2, <2>4, <2>5
  <1>3. k \in 1 .. Septets /\ c < 128 ^ k /\ (k = 1 \/ 128 ^ (k - 1) <= c)
    <2>1. CASE m = 0
      <3>1. k = 1 /\ c = 0
        BY <1>2, <2>1 DEF Max1
      <3>2. 1 \in 0 .. Septets + 1
        BY <1>1
      <3>3. 128 ^ 1 \in Nat \ {0}
        BY <3>2, PowersOf128
      <3>4. c < 128 ^ k
        <4>1. PICK p \in Nat \ {0} : p = 128 ^ k
          BY <3>1, <3>3
        <4>2. 0 < p
          OBVIOUS
        <4>. QED
          BY <3>1, <4>1, <4>2
      <3>5. 1 \in 1 .. Septets
        BY <1>1
      <3> HIDE DEF k
      <3>. QED
        BY <3>1, <3>4, <3>5
    <2>2. CASE m # 0
      <3>1. k = m
        BY <2>2 DEF Max1
      <3> HIDE DEF m, k
      <3>. QED
        BY <1>1, <1>2, <2>2, <3>1
    <2>. QED
      BY <2>1, <2>2
  <1>4. o = [i \in 1 .. k |-> ((c \div 128 ^ (k - i)) % 128) + (IF i < k THEN 128 ELSE 0)]
    BY DEF Base128, Digit
  <1> HIDE DEF k, o
  <1>5. ASSUME NEW i \in 1 .. k
        PROVE  o[i] \in Octet /\ o[i] % 128 = (c \div 128 ^ (k - i)) % 128 /\ (o[i] < 128 <=> i = k)
    <2> DEFINE p == 128 ^ (k - i)
               d == (c \div p) % 128
    <2>1. p \in Nat \ {0}
      <3>1. k - i \in 0 .. Septets + 1
        BY <1>1, <1>3
      <3>. QED
        BY <3>1, PowersOf128
    <2>2. d \in 0 .. 127
      <3> HIDE DEF p
      <3>1. c \div p \in Nat
        BY <1>1, <2>1, Division
      <3>. QED
        BY <3>1
    <2>3. o[i] = d + (IF i < k THEN 128 ELSE 0)
      BY <1>4
    <2> HIDE DEF d
    <2>4. i < k \/ i = k
      BY <1>3
    <2>5. o[i] \in Octet /\ o[i] % 128 = d /\ (o[i] < 128 <=> i = k)
      <3>1. CASE i < k
        <4>1. o[i] = d + 128 /\ i # k
          BY <1>3, <2>3, <3>1
        <4>. QED
          BY <2>2, <4>1 DEF Octet
      <3>2. CASE i = k
        <4>1. o[i] = d
          BY <1>3, <2>2, <2>3, <3>2
        <4>. QED
          BY <2>2, <3>2, <4>1 DEF Octet
      <3>. QED
        BY <2>4, <3>1, <3>2
    <2>. QED
      BY <2>5 DEF d
  <1>6. o \in Seq(Octet) /\ Len(o) = k
    <2>1. k \in Nat
      BY <1>1, <1>3
    <2>2. \A i \in 1 .. k : o[i] \in Octet
      BY <1>5
    <2>3. DOMAIN o = 1 .. k /\ o = [i \in 1 .. k |-> o[i]]
      BY <1>4
    <2>. QED
      BY <2>1, <2>2, <2>3
  <1>. QED
    BY <1>3, <1>5, <1>6 DEF o

(* Content that is read up to the end of a component.                      *)
ScansTo(octets, oid) ==
  /\ octets \in Seq(Octet) /\ octets # <<>>
  /\ \A i \in 1 .. Len(octets) : OidScan(octets)[i].septets < Septets
  /\ OidScan(octets)[Len(octets)] = [oid |-> oid, part |-> 0, septets |-> 0]

(* A component that is appended is scanned as one more.                    *)
LEMMA ScansComponent ==
  ASSUME NEW a, NEW oid \in Seq(Component), ScansTo(a, oid), NEW c \in Component
  PROVE  ScansTo(a \o Base128(c), Append(oid, c))
  <1> DEFINE b == Base128(c)
             L == Len(a)
             d == a \o b
             g == OidScan(d)
  <1>1. PICK k \in 1 .. Septets :
          /\ b \in Seq(Octet) /\ Len(b) = k /\ c < 128 ^ k
          /\ \A i \in 1 .. k : b[i] % 128 = (c \div 128 ^ (k - i)) % 128 /\ (b[i] < 128 <=> i = k)
    BY Base128Septets
  <1> HIDE DEF b
  <1>2. a \in Seq(Octet) /\ a # <<>> /\ L \in Nat \ {0} /\ k \in Nat
    BY LenProperties, EmptySeq DEF ScansTo
  <1>3. /\ d \in Seq(Octet) /\ d # <<>> /\ Len(d) = L + k
        /\ \A i \in 1 .. k : d[L + i] = b[i]
    <2>1. d \in Seq(Octet) /\ Len(d) = L + k
      BY <1>1, <1>2, ConcatProperties
    <2>2. ASSUME NEW i \in 1 .. k
          PROVE  d[L + i] = b[i]
      <3>1. L + i \in 1 .. L + k /\ ~(L + i <= L) /\ (L + i) - L = i
        BY <1>2
      <3>2. d[L + i] = IF L + i <= L THEN a[L + i] ELSE b[(L + i) - L]
        <4> HIDE DEF L
        <4>. QED
          BY <1>1, <1>2, <3>1, ConcatProperties DEF L
      <3>. QED
        BY <3>1, <3>2
    <2>3. d # <<>>
      BY <1>2, <2>1, EmptySeq
    <2>. QED
      BY <2>1, <2>2, <2>3
  <1>4. \A i \in 1 .. L : g[i] = OidScan(a)[i]
    BY <1>1, <1>2, ScanPrefix
  <1>5. \A i \in 2 .. L + k : g[i] = OidStep(g[i - 1], d[i])
    <2> HIDE DEF d
    <2>. QED
      BY <1>3, OidScanSteps
  <1>6. c \in Nat /\ c < ComponentMod /\ ComponentMod \in Nat \ {0} /\ Septets \in Nat \ {0}
    BY ComponentSize, Asn1TypesAssumption DEF Component
  <1> DEFINE q(i) == c \div 128 ^ (k - i)
             S == {i \in 0 .. k - 1 : g[L + i] = [oid |-> oid, part |-> q(i), septets |-> i]}
  <1>7. ASSUME NEW i \in 0 .. k
        PROVE  q(i) \in Nat /\ q(i) <= c /\ (i # 0 => q(i - 1) * 128 + (q(i) % 128) = q(i))
    <2>1. k - i \in 0 .. Septets + 1
      BY <1>2, <1>6
    <2> DEFINE p == 128 ^ (k - i)
    <2>2. p \in Nat \ {0}
      BY <2>1, PowersOf128
    <2>3. c \div p \in Nat /\ c \div p <= c
      <3> HIDE DEF p
      <3>1. PICK e \in Nat : e = c \div p /\ e * p <= c
        BY <1>6, <2>2, Division
      <3>2. e <= e * p
        <4>1. e * p = e + e * (p - 1) /\ e * (p - 1) >= 0
          BY <2>2
        <4>. QED
          BY <2>2, <4>1
      <3>3. e * p \in Nat
        BY <2>2
      <3>. QED
        BY <1>6, <3>1, <3>2, <3>3
    <2>4. i # 0 => q(i - 1) = q(i) \div 128
      <3>1. SUFFICES ASSUME i # 0
                     PROVE  q(i - 1) = q(i) \div 128
        OBVIOUS
      <3>2. k - (i - 1) = (k - i) + 1 /\ k - i \in 0 .. Septets
        BY <1>2, <1>6, <3>1
      <3>3. 128 ^ (k - (i - 1)) = 128 * p
        BY <3>2, PowersOf128
      <3>4. c \div (128 * p) = (c \div p) \div 128
        <4> HIDE DEF p
        <4>1. PICK h \in Nat \ {0} : h = 128
          OBVIOUS
        <4>2. c \in Int
          BY <1>6
        <4>3. c \div (h * p) = (c \div p) \div h
          BY <2>2, <4>2, DivisionTwice
        <4>. QED
          BY <4>1, <4>3
      <3>. QED
        BY <3>3, <3>4
    <2>5. \A x \in Nat : (x \div 128) * 128 + (x % 128) = x
      OBVIOUS
    <2>6. q(i) \in Nat /\ q(i) <= c
      BY <2>3
    <2> HIDE DEF q
    <2>. QED
      BY <2>4, <2>5, <2>6
  <1>8. 0 \in S
    <2>1. L \in 1 .. L /\ L + 0 = L /\ 0 \in 0 .. k - 1
      BY <1>2
    <2>2. g[L] = [oid |-> oid, part |-> 0, septets |-> 0]
      <3> HIDE DEF g
      <3>. QED
        BY <1>4, <2>1 DEF ScansTo
    <2>3. q(0) = 0
      <3> DEFINE p == 128 ^ k
      <3>1. p \in Nat \ {0}
        <4>1. k \in 0 .. Septets + 1
          BY <1>2, <1>6
        <4>. QED
          BY <4>1, PowersOf128
      <3>2. c < p /\ k - 0 = k
        BY <1>1, <1>2
      <3>3. c \div p = 0
        <4> HIDE DEF p
        <4>1. 0 * p <= c /\ c < 0 * p + p
          BY <1>6, <3>1, <3>2
        <4>. QED
          BY <1>6, <3>1, <4>1, Quotient
      <3>. QED
        BY <3>2, <3>3
    <2> HIDE DEF g, q
    <2>. QED
      BY <2>1, <2>2, <2>3
  <1>9. ASSUME NEW i \in 0 .. k - 1, i \in S
        PROVE  g[L + (i + 1)] = OidStep([oid |-> oid, part |-> q(i), septets |-> i], b[i + 1])
               /\ (q(i) * 128 + (b[i + 1] % 128)) % ComponentMod = q(i + 1)
    <2>1. i + 1 \in 1 .. k /\ i + 1 \in 0 .. k /\ (i + 1) - 1 = i /\ L + (i + 1) \in 2 .. L + k
          /\ (L + (i + 1)) - 1 = L + i /\ i + 1 # 0 /\ i \in 0 .. k
      BY <1>2
    <2>2. g[L + i] = [oid |-> oid, part |-> q(i), septets |-> i]
      BY <1>9
    <2>3. g[L + (i + 1)] = OidStep(g[L + i], b[i + 1])
      <3>1. g[L + (i + 1)] = OidStep(g[(L + (i + 1)) - 1], d[L + (i + 1)])
        <4> HIDE DEF g, d
        <4>. QED
          BY <1>5, <2>1
      <3>2. d[L + (i + 1)] = b[i + 1]
        BY <1>3, <2>1
      <3>. QED
        BY <2>1, <3>1, <3>2
    <2>4. b[i + 1] % 128 = q(i + 1) % 128
      BY <1>1, <2>1
    <2>5. q(i) * 128 + (q(i + 1) % 128) = q(i + 1) /\ q(i + 1) \in Nat /\ q(i + 1) <= c
      <3> HIDE DEF q
      <3>. QED
        BY <1>7, <2>1
    <2>6. q(i + 1) % ComponentMod = q(i + 1)
      <3> HIDE DEF q
      <3>1. PICK x \in Nat : x = q(i + 1) /\ x < ComponentMod
        BY <1>6, <2>5
      <3>2. 0 * ComponentMod <= x /\ x < 0 * ComponentMod + ComponentMod
        BY <1>6, <3>1
      <3>3. x \div ComponentMod = 0
        BY <1>6, <3>2, Quotient
      <3>4. x = (x \div ComponentMod) * ComponentMod + (x % ComponentMod) /\ x % ComponentMod \in Int
        <4>1. x % ComponentMod \in 0 .. ComponentMod - 1 /\ x = (x \div ComponentMod) * ComponentMod + (x % ComponentMod)
          BY <1>6, Division
        <4>. QED
          BY <1>6, <4>1
      <3>5. x % ComponentMod = x
        BY <1>6, <3>1, <3>3, <3>4
      <3>. QED
        BY <3>1, <3>5
    <2> HIDE DEF q
    <2>. QED
      BY <2>2, <2>3, <2>4, <2>5, <2>6
  <1>10. ASSUME NEW i \in 0 .. (k - 1) - 1, i \in S
         PROVE  i + 1 \in S
    <2>1. i \in 0 .. k - 1 /\ i + 1 \in 0 .. k - 1 /\ i + 1 \in 1 .. k /\ i + 1 # k
      BY <1>2
    <2>2. ~(b[i + 1] < 128)
      BY <1>1, <2>1
    <2> DEFINE st == [oid |-> oid, part |-> q(i), septets |-> i]
    <2>3. g[L + (i + 1)] = OidStep(st, b[i + 1]) /\ (q(i) * 128 + (b[i + 1] % 128)) % ComponentMod = q(i + 1)
      <3> HIDE DEF S, g, q
      <3>. QED
        BY <1>9, <1>10, <2>1
    <2> HIDE DEF g, q
    <2>4. OidStep(st, b[i + 1]) = [oid |-> oid, part |-> q(i + 1), septets |-> i + 1]
      BY <2>2, <2>3 DEF OidStep
    <2>. QED
      BY <2>1, <2>3, <2>4
  <1>11. 0 .. k - 1 \subseteq S
    <2>1. k - 1 \in Nat
      BY <1>2
    <2> HIDE DEF S
    <2>. QED
      BY <1>8, <1>10, <2>1, UpTo
  <1>12. g[L + k] = [oid |-> Append(oid, c), part |-> 0, septets |-> 0]
    <2>1. k - 1 \in 0 .. k - 1 /\ (k - 1) + 1 = k /\ k \in 1 .. k
      BY <1>2
    <2>2. k - 1 \in S
      <3> HIDE DEF S
      <3>. QED
        BY <1>11, <2>1
    <2> DEFINE st == [oid |-> oid, part |-> q(k - 1), septets |-> k - 1]
    <2>3. g[L + k] = OidStep(st, b[k]) /\ (q(k - 1) * 128 + (b[k] % 128)) % ComponentMod = q(k)
      <3>1. g[L + ((k - 1) + 1)] = OidStep(st, b[(k - 1) + 1])
            /\ (q(k - 1) * 128 + (b[(k - 1) + 1] % 128)) % ComponentMod = q((k - 1) + 1)
        <4> HIDE DEF S, g, q
        <4>. QED
          BY <1>9, <2>1, <2>2
      <3>. QED
        BY <2>1, <3>1
    <2>4. q(k) = c
      <3>1. k - k = 0 /\ 128 ^ 0 = 1
        BY <1>2, ZeroPowers
      <3>2. c \div 1 = c
        BY <1>6
      <3>. QED
        BY <3>1, <3>2
    <2>5. b[k] < 128
      BY <1>1, <2>1
    <2> HIDE DEF g, q
    <2>. QED
      BY <2>3, <2>4, <2>5 DEF OidStep
  <1>13. ASSUME NEW i \in 1 .. L + k
         PROVE  g[i].septets < Septets
    <2>1. CASE i <= L
      <3>1. i \in 1 .. L
        BY <1>2, <2>1
      <3>2. g[i] = OidScan(a)[i]
        <4> HIDE DEF g
        <4>. QED
          BY <1>4, <3>1
      <3>. QED
        BY <3>1, <3>2 DEF ScansTo
    <2>2. CASE i > L /\ i < L + k
      <3>1. i - L \in 0 .. k - 1 /\ L + (i - L) = i /\ i - L < Septets
        BY <1>2, <1>6, <2>2
      <3>2. i - L \in S
        <4> HIDE DEF S
        <4>. QED
          BY <1>11, <3>1
      <3>3. g[L + (i - L)].septets = i - L
        <4>1. g[L + (i - L)] = [oid |-> oid, part |-> q(i - L), septets |-> i - L]
          BY <3>2
        <4> HIDE DEF g, q
        <4>. QED
          BY <4>1
      <3>. QED
        BY <3>1, <3>3
    <2>3. CASE i = L + k
      <3> HIDE DEF g
      <3>. QED
        BY <1>6, <1>12, <2>3
    <2>4. i <= L \/ (i > L /\ i < L + k) \/ i = L + k
      BY <1>2
    <2>. QED
      BY <2>1, <2>2, <2>3, <2>4
  <1>. QED
    <2>1. Len(d) \in Nat /\ Len(d) = L + k
      BY <1>2, <1>3
    <2> HIDE DEF g, d, L
    <2>2. ScansTo(d, Append(oid, c))
      BY <1>3, <1>12, <1>13, <2>1 DEF ScansTo, g
    <2>. QED
      BY <2>2 DEF d, b

(* The content is defined, and appends a component at a time.              *)
LEMMA OidContentSteps ==
  ASSUME NEW oid \in Seq(Component), Len(oid) >= 2
  PROVE  \E u \in [2 .. Len(oid) -> Seq(Octet)] :
           /\ u[2] = <<(oid[1] * 40 + oid[2]) % 256>>
           /\ \A k \in 3 .. Len(oid) : u[k] = u[k - 1] \o Base128(oid[k])
           /\ OidContent(oid) = u[Len(oid)]
  <1> DEFINE L == Len(oid)
             base == <<(oid[1] * 40 + oid[2]) % 256>>
             step == [k \in 1 .. L - 2 |-> [s \in Seq(Octet) |-> s \o Base128(oid[k + 2])]]
  <1>1. L \in Nat /\ L >= 2 /\ \A i \in 1 .. L : oid[i] \in Component
    BY LenProperties, ElementOfSeq
  <1>2. base \in Seq(Octet)
    <2>1. oid[1] \in Component /\ oid[2] \in Component
      <3>1. 1 \in 1 .. L /\ 2 \in 1 .. L
        BY <1>1
      <3> HIDE DEF L
      <3>. QED
        BY <1>1, <3>1
    <2>2. oid[1] \in Int /\ oid[2] \in Int
      BY <2>1, ComponentSize DEF Component
    <2>3. \A x \in Int : x % 256 \in Octet
      BY DEF Octet
    <2>4. (oid[1] * 40 + oid[2]) % 256 \in Octet
      BY <2>2, <2>3
    <2>. QED
      BY <2>4
  <1>3. step \in [1 .. L - 2 -> [Seq(Octet) -> Seq(Octet)]]
    <2>1. ASSUME NEW k \in 1 .. L - 2, NEW s \in Seq(Octet)
          PROVE  s \o Base128(oid[k + 2]) \in Seq(Octet)
      <3>1. k + 2 \in 1 .. L
        BY <1>1
      <3>2. oid[k + 2] \in Component
        <4> HIDE DEF L
        <4>. QED
          BY <1>1, <3>1
      <3>3. Base128(oid[k + 2]) \in Seq(Octet)
        BY <3>2, Base128Septets
      <3>. QED
        BY <3>3, ConcatProperties
    <2> HIDE DEF L
    <2>. QED
      BY <2>1
  <1>4. PICK h \in [0 .. L - 2 -> Seq(Octet)] : Loop(h, L - 2, base, step)
    <2>1. L - 2 \in Nat
      BY <1>1
    <2> HIDE DEF L, step, base
    <2>. QED
      BY <1>2, <1>3, <2>1, LoopExists
  <1>5. h[0] = base /\ \A k \in 1 .. L - 2 : h[k] = h[k - 1] \o Base128(oid[k + 2])
    <2>1. h = [k \in 0 .. L - 2 |-> IF k = 0 THEN base ELSE step[k][h[k - 1]]]
      BY <1>4 DEF Loop
    <2>2. \A k \in 1 .. L - 2 : k \in 0 .. L - 2 /\ k # 0 /\ k - 1 \in 0 .. L - 2
      BY <1>1
    <2>3. 0 \in 0 .. L - 2
      BY <1>1
    <2>4. ASSUME NEW k \in 1 .. L - 2
          PROVE  h[k] = h[k - 1] \o Base128(oid[k + 2])
      <3>1. h[k - 1] \in Seq(Octet)
        <4> HIDE DEF L
        <4>. QED
          BY <1>4, <2>2
      <3>2. h[k] = step[k][h[k - 1]]
        <4> HIDE DEF L, step, base
        <4>. QED
          BY <2>1, <2>2
      <3> HIDE DEF L, base
      <3>. QED
        BY <3>1, <3>2
    <2> HIDE DEF L, step, base
    <2>. QED
      BY <2>1, <2>3, <2>4
  <1> DEFINE u == [k \in 2 .. L |-> h[k - 2]]
             Whole(g) == g = [k \in 2 .. L |-> IF k = 2 THEN base ELSE g[k - 1] \o Base128(oid[k])]
             c == CHOOSE g : Whole(g)
  <1>6. Whole(u)
    <2>1. ASSUME NEW k \in 2 .. L
          PROVE  u[k] = IF k = 2 THEN base ELSE u[k - 1] \o Base128(oid[k])
      <3>1. CASE k = 2
        <4>1. u[k] = h[0]
          BY <3>1
        <4> HIDE DEF u, base
        <4>. QED
          BY <1>5, <3>1, <4>1
      <3>2. CASE k # 2
        <4>1. k - 2 \in 1 .. L - 2 /\ k - 1 \in 2 .. L /\ (k - 2) + 2 = k /\ (k - 1) - 2 = (k - 2) - 1
          BY <1>1, <3>2
        <4>2. u[k] = h[k - 2] /\ u[k - 1] = h[(k - 1) - 2]
          BY <4>1
        <4>3. h[k - 2] = h[(k - 2) - 1] \o Base128(oid[(k - 2) + 2])
          <5> HIDE DEF L, base
          <5>. QED
            BY <1>5, <4>1
        <4> HIDE DEF u, base, L
        <4>. QED
          BY <3>2, <4>1, <4>2, <4>3
      <3>. QED
        BY <3>1, <3>2
    <2>2. u = [k \in 2 .. L |-> u[k]]
      OBVIOUS
    <2> HIDE DEF u, base, L
    <2>. QED
      BY <2>1, <2>2
  <1>7. Whole(c)
    <2> HIDE DEF Whole, u
    <2>. QED
      BY <1>6
  <1>8. OidContent(oid) = c[L]
    BY DEF OidContent
  <1>9. c[2] = base /\ \A k \in 3 .. L : c[k] = c[k - 1] \o Base128(oid[k])
    <2>1. c = [k \in 2 .. L |-> IF k = 2 THEN base ELSE c[k - 1] \o Base128(oid[k])]
      BY <1>7
    <2>2. 2 \in 2 .. L /\ \A k \in 3 .. L : k \in 2 .. L /\ k # 2
      BY <1>1
    <2> HIDE DEF c, base, L
    <2>. QED
      BY <2>1, <2>2
  <1>10. c = u
    <2> DEFINE S == {k \in 0 .. L - 2 : c[k + 2] = u[k + 2]}
    <2>1. u[2] = base /\ \A k \in 3 .. L : u[k] = u[k - 1] \o Base128(oid[k])
      <3>1. u = [k \in 2 .. L |-> IF k = 2 THEN base ELSE u[k - 1] \o Base128(oid[k])]
        BY <1>6
      <3>2. 2 \in 2 .. L /\ \A k \in 3 .. L : k \in 2 .. L /\ k # 2
        BY <1>1
      <3> HIDE DEF u, base, L
      <3>. QED
        BY <3>1, <3>2
    <2>2. u = [k \in 2 .. L |-> u[k]]
      OBVIOUS
    <2>3. c = [k \in 2 .. L |-> c[k]]
      <3>1. c = [k \in 2 .. L |-> IF k = 2 THEN base ELSE c[k - 1] \o Base128(oid[k])]
        BY <1>7
      <3> HIDE DEF c, base, L
      <3>. QED
        BY <3>1
    <2> HIDE DEF u, c, base, L
    <2>4. 0 \in S
      BY <1>1, <1>9, <2>1
    <2>5. ASSUME NEW k \in 0 .. (L - 2) - 1, k \in S
          PROVE  k + 1 \in S
      <3>1. (k + 1) + 2 \in 3 .. L /\ ((k + 1) + 2) - 1 = k + 2 /\ k + 1 \in 0 .. L - 2
        BY <1>1
      <3>2. c[k + 2] = u[k + 2]
        BY <2>5
      <3>3. c[(k + 1) + 2] = c[k + 2] \o Base128(oid[(k + 1) + 2])
        BY <1>9, <3>1
      <3>4. u[(k + 1) + 2] = u[k + 2] \o Base128(oid[(k + 1) + 2])
        BY <2>1, <3>1
      <3>. QED
        BY <3>1, <3>2, <3>3, <3>4
    <2>6. 0 .. L - 2 \subseteq S
      <3>1. L - 2 \in Nat
        BY <1>1
      <3> HIDE DEF S
      <3>. QED
        BY <2>4, <2>5, <3>1, UpTo
    <2>7. ASSUME NEW k \in 2 .. L
          PROVE  c[k] = u[k]
      <3>1. k - 2 \in 0 .. L - 2 /\ (k - 2) + 2 = k
        BY <1>1
      <3>. QED
        BY <2>6, <3>1
    <2>. QED
      BY <2>2, <2>3, <2>7
  <1>11. u \in [2 .. L -> Seq(Octet)]
    <2>1. \A k \in 2 .. L : k - 2 \in 0 .. L - 2
      BY <1>1
    <2> HIDE DEF L
    <2>. QED
      BY <1>4, <2>1
  <1> HIDE DEF u, c, base, L
  <1>12. u[2] = base /\ (\A k \in 3 .. L : u[k] = u[k - 1] \o Base128(oid[k])) /\ OidContent(oid) = u[L]
    BY <1>8, <1>9, <1>10
  <1>. QED
    BY <1>11, <1>12 DEF base, L

(* The content of two components.                                          *)
LEMMA OidContentPair ==
  ASSUME NEW oid \in Seq(Component), Len(oid) = 2
  PROVE  OidContent(oid) = <<(oid[1] * 40 + oid[2]) % 256>>
  <1>1. Len(oid) >= 2
    OBVIOUS
  <1>2. PICK u \in [2 .. Len(oid) -> Seq(Octet)] :
          u[2] = <<(oid[1] * 40 + oid[2]) % 256>> /\ OidContent(oid) = u[Len(oid)]
    BY <1>1, OidContentSteps
  <1>. QED
    BY <1>2

(* The content is octets.                                                  *)
LEMMA OidContentType ==
  ASSUME NEW oid \in Seq(Component), Len(oid) >= 2
  PROVE  OidContent(oid) \in Seq(Octet)
  <1>1. PICK u \in [2 .. Len(oid) -> Seq(Octet)] : OidContent(oid) = u[Len(oid)]
    BY OidContentSteps
  <1>2. Len(oid) \in 2 .. Len(oid)
    BY LenProperties
  <1>. QED
    BY <1>1, <1>2

(* The content of one component more.                                      *)
LEMMA OidContentAppend ==
  ASSUME NEW oid \in Seq(Component), Len(oid) >= 2, NEW c \in Component
  PROVE  OidContent(Append(oid, c)) = OidContent(oid) \o Base128(c)
  <1> DEFINE L == Len(oid)
             e == Append(oid, c)
  <1>1. /\ L \in Nat /\ L >= 2 /\ e \in Seq(Component) /\ Len(e) = L + 1
        /\ e[L + 1] = c /\ \A i \in 1 .. L : e[i] = oid[i]
    BY LenProperties, AppendProperties
  <1>2. PICK u \in [2 .. L -> Seq(Octet)] :
          /\ u[2] = <<(oid[1] * 40 + oid[2]) % 256>>
          /\ \A k \in 3 .. L : u[k] = u[k - 1] \o Base128(oid[k])
          /\ OidContent(oid) = u[L]
    BY OidContentSteps
  <1> HIDE DEF e, L
  <1>3. PICK w \in [2 .. L + 1 -> Seq(Octet)] :
          /\ w[2] = <<(e[1] * 40 + e[2]) % 256>>
          /\ \A k \in 3 .. L + 1 : w[k] = w[k - 1] \o Base128(e[k])
          /\ OidContent(e) = w[L + 1]
    <2>1. Len(e) >= 2
      BY <1>1
    <2>2. \E w \in [2 .. Len(e) -> Seq(Octet)] :
            /\ w[2] = <<(e[1] * 40 + e[2]) % 256>>
            /\ \A k \in 3 .. Len(e) : w[k] = w[k - 1] \o Base128(e[k])
            /\ OidContent(e) = w[Len(e)]
      BY <1>1, <2>1, OidContentSteps
    <2>3. Len(e) = L + 1
      BY <1>1
    <2>. QED
      BY <2>2, <2>3
  <1> DEFINE S == {k \in 0 .. L - 2 : w[k + 2] = u[k + 2]}
  <1>4. 0 \in S
    <2>1. 1 \in 1 .. L /\ 2 \in 1 .. L /\ 0 \in 0 .. L - 2 /\ 0 + 2 = 2
      BY <1>1
    <2>2. e[1] = oid[1] /\ e[2] = oid[2]
      BY <1>1, <2>1
    <2>3. w[2] = u[2]
      BY <1>2, <1>3, <2>2
    <2>. QED
      BY <2>1, <2>3
  <1>5. ASSUME NEW k \in 0 .. (L - 2) - 1, k \in S
        PROVE  k + 1 \in S
    <2>1. (k + 1) + 2 \in 3 .. L /\ (k + 1) + 2 \in 3 .. L + 1 /\ ((k + 1) + 2) - 1 = k + 2
          /\ k + 1 \in 0 .. L - 2 /\ (k + 1) + 2 \in 1 .. L
      BY <1>1
    <2>2. w[k + 2] = u[k + 2] /\ e[(k + 1) + 2] = oid[(k + 1) + 2]
      BY <1>1, <1>5, <2>1
    <2>3. u[(k + 1) + 2] = u[k + 2] \o Base128(oid[(k + 1) + 2])
      BY <1>2, <2>1
    <2>4. w[(k + 1) + 2] = w[k + 2] \o Base128(e[(k + 1) + 2])
      BY <1>3, <2>1
    <2>. QED
      BY <2>1, <2>2, <2>3, <2>4
  <1>6. w[L] = u[L]
    <2>1. L - 2 \in Nat /\ L - 2 \in 0 .. L - 2 /\ (L - 2) + 2 = L
      BY <1>1
    <2>2. 0 .. L - 2 \subseteq S
      <3> HIDE DEF S
      <3>. QED
        BY <1>4, <1>5, <2>1, UpTo
    <2>3. w[(L - 2) + 2] = u[(L - 2) + 2]
      BY <2>1, <2>2
    <2>. QED
      BY <2>1, <2>3
  <1>7. w[L + 1] = w[L] \o Base128(c)
    <2>1. L + 1 \in 3 .. L + 1 /\ (L + 1) - 1 = L
      BY <1>1
    <2>2. w[L + 1] = w[(L + 1) - 1] \o Base128(e[L + 1])
      BY <1>3, <2>1
    <2>. QED
      BY <1>1, <2>1, <2>2
  <1>8. OidContent(e) = OidContent(oid) \o Base128(c)
    BY <1>2, <1>3, <1>6, <1>7
  <1>. QED
    BY <1>8 DEF e

(* An OID that the first octet can tell is read as it was written.         *)
LEMMA OidIsRead ==
  ASSUME NEW oid \in Seq(Component), Len(oid) >= 2, oid[1] <= 2, oid[2] < 40
  PROVE  ScansTo(OidContent(oid), oid)
  <1> DEFINE Short(o) == o[1] <= 2 /\ o[2] < 40
             S == {k \in Nat : \A o \in Seq(Component) :
                                 Len(o) = k + 2 /\ Short(o) => ScansTo(OidContent(o), o)}
  <1>1. 0 \in S
    <2>1. ASSUME NEW o \in Seq(Component), Len(o) = 2, Short(o)
          PROVE  ScansTo(OidContent(o), o)
      <3> DEFINE x == o[1] * 40 + o[2]
                 d == <<x>>
      <3>1. o[1] \in 0 .. 2 /\ o[2] \in 0 .. 39 /\ o = <<o[1], o[2]>>
        <4>1. 1 \in 1 .. Len(o) /\ 2 \in 1 .. Len(o)
          BY <2>1
        <4>2. o[1] \in Component /\ o[2] \in Component
          BY <4>1, ElementOfSeq
        <4>3. o[1] \in 0 .. 2 /\ o[2] \in 0 .. 39
          <5>1. PICK a \in Nat, b \in Nat : a = o[1] /\ b = o[2]
            BY <4>2, ComponentSize DEF Component
          <5>2. a <= 2 /\ b < 40
            BY <2>1, <5>1
          <5>3. a \in 0 .. 2 /\ b \in 0 .. 39
            BY <5>2
          <5>. QED
            BY <5>1, <5>3
        <4>. QED
          BY <2>1, <4>3
      <3>2. x \in Octet /\ x % 256 = x /\ x \div 40 = o[1] /\ x % 40 = o[2]
        <4>1. PICK a \in 0 .. 2, b \in 0 .. 39 : a = o[1] /\ b = o[2]
          BY <3>1
        <4>2. x = a * 40 + b
          BY <4>1
        <4>3. a * 40 + b \in 0 .. 119
          OBVIOUS
        <4>4. (a * 40 + b) \div 40 = a
          <5>1. a = 0 \/ a = 1 \/ a = 2
            OBVIOUS
          <5>. QED
            BY <5>1
        <4>5. (a * 40 + b) % 40 = b
          <5>1. a = 0 \/ a = 1 \/ a = 2
            OBVIOUS
          <5>. QED
            BY <5>1
        <4>6. (a * 40 + b) % 256 = a * 40 + b
          BY <4>3
        <4> HIDE DEF x
        <4>. QED
          BY <4>1, <4>2, <4>3, <4>4, <4>5, <4>6 DEF Octet
      <3>3. OidContent(o) = d
        BY <2>1, <3>2, OidContentPair
      <3> HIDE DEF x
      <3>4. d \in Seq(Octet) /\ d # <<>> /\ Len(d) = 1 /\ d[1] = x
        BY <3>2
      <3> HIDE DEF d
      <3>5. OidScan(d)[1] = [oid |-> o, part |-> 0, septets |-> 0]
        <4>1. OidScan(d)[1] = OidStart(x)
          BY <3>4, OidScanSteps
        <4>2. OidStart(x) = [oid |-> <<o[1], o[2]>>, part |-> 0, septets |-> 0]
          BY <3>2 DEF OidStart
        <4>. QED
          BY <3>1, <4>1, <4>2
      <3>6. \A i \in 1 .. 1 : OidScan(d)[i].septets < Septets
        <4>1. \A i \in 1 .. 1 : i = 1
          OBVIOUS
        <4>. QED
          BY <3>5, <4>1, Asn1TypesAssumption
      <3>7. ScansTo(d, o)
        BY <3>4, <3>5, <3>6 DEF ScansTo
      <3>. QED
        BY <3>3, <3>7
    <2> HIDE DEF Short
    <2>. QED
      BY <2>1
  <1>2. ASSUME NEW k \in Nat, k \in S
        PROVE  k + 1 \in S
    <2>1. ASSUME NEW o \in Seq(Component), Len(o) = (k + 1) + 2, Short(o)
          PROVE  ScansTo(OidContent(o), o)
      <3> DEFINE m == k + 2
                 p == [i \in 1 .. m |-> o[i]]
                 c == o[m + 1]
      <3>1. m \in Nat /\ m >= 2 /\ Len(o) = m + 1 /\ m + 1 \in 1 .. Len(o) /\ \A i \in 1 .. m : i \in 1 .. Len(o)
        BY <2>1
      <3>2. c \in Component /\ \A i \in 1 .. m : o[i] \in Component
        <4> HIDE DEF m
        <4>. QED
          BY <3>1, ElementOfSeq
      <3>3. p \in Seq(Component) /\ Len(p) = m /\ p[1] = o[1] /\ p[2] = o[2]
        <4> HIDE DEF m
        <4>. QED
          BY <3>1, <3>2
      <3>4. Append(p, c) = o
        <4> HIDE DEF m
        <4>. QED
          BY <3>1, <3>2, <3>3
      <3>5. ScansTo(OidContent(p), p)
        <4>1. Len(p) = k + 2 /\ Short(p)
          BY <2>1, <3>3
        <4> HIDE DEF Short, p
        <4>. QED
          BY <1>2, <3>3, <4>1
      <3>6. OidContent(Append(p, c)) = OidContent(p) \o Base128(c)
        <4> HIDE DEF p, c, m
        <4>. QED
          BY <3>1, <3>2, <3>3, OidContentAppend
      <3>7. ScansTo(OidContent(p) \o Base128(c), Append(p, c))
        <4> HIDE DEF p, c, m
        <4>. QED
          BY <3>2, <3>3, <3>5, ScansComponent
      <3> HIDE DEF p, c
      <3>. QED
        BY <3>4, <3>6, <3>7
    <2> HIDE DEF Short
    <2>. QED
      BY <2>1
  <1>3. Len(oid) - 2 \in S
    <2>1. Nat \subseteq S
      <3> HIDE DEF S
      <3>. QED
        BY <1>1, <1>2, AllNaturals
    <2>2. Len(oid) - 2 \in Nat
      BY LenProperties
    <2> HIDE DEF S
    <2>. QED
      BY <2>1, <2>2
  <1>4. (Len(oid) - 2) + 2 = Len(oid) /\ Short(oid)
    BY LenProperties
  <1> HIDE DEF Short
  <1>. QED
    BY <1>3, <1>4

(* What a scan has read, written again, is no longer.                      *)
LEMMA ShortSeptets ==
  ASSUME NEW c \in Component, NEW q \in 0 .. Septets, c < 128 ^ (q + 1)
  PROVE  Base128(c) \in Seq(Octet) /\ Len(Base128(c)) \in Nat /\ Len(Base128(c)) <= q + 1
  <1>1. PICK k \in 1 .. Septets :
          /\ Base128(c) \in Seq(Octet) /\ Len(Base128(c)) = k
          /\ k = 1 \/ 128 ^ (k - 1) <= c
    BY Base128Septets
  <1>2. Septets \in Nat /\ k \in Nat /\ c \in Nat
    BY Asn1TypesAssumption, ComponentSize DEF Component
  <1>3. k <= q + 1
    <2>1. SUFFICES ASSUME k > q + 1
                   PROVE  FALSE
      BY <1>2
    <2>2. k - 1 \in q + 1 .. Septets + 1 /\ q + 1 \in 0 .. Septets + 1 /\ k - 1 \in 0 .. Septets + 1 /\ k # 1
      BY <1>2, <2>1
    <2>3. 128 ^ (q + 1) <= 128 ^ (k - 1)
      <3>1. PICK b \in Nat \ {0} : b = 128
        OBVIOUS
      <3>2. b ^ 0 = 1 /\ \A j \in 0 .. Septets : b ^ (j + 1) = b * b ^ j
        BY <3>1, ZeroPowers, PowersOf128
      <3>3. b ^ (q + 1) <= b ^ (k - 1)
        BY <1>2, <2>2, <3>2, PowersGrow
      <3>. QED
        BY <3>1, <3>3
    <2>4. 128 ^ (q + 1) \in Nat /\ 128 ^ (k - 1) \in Nat
      BY <2>2, PowersOf128
    <2>5. 128 ^ (k - 1) <= c
      BY <1>1, <2>2
    <2>. QED
      BY <1>2, <2>3, <2>4, <2>5
  <1>. QED
    BY <1>1, <1>2, <1>3

(* What a scan has found after i octets takes no more than i to write: its *)
(* septets begun are below the power of their number.                      *)
Retained(s, i) ==
  /\ s \in OidState /\ Len(s.oid) >= 2 /\ s.oid[2] < 40
  /\ s.part < 128 ^ s.septets
  /\ OidContent(s.oid) \in Seq(Octet)
  /\ Len(OidContent(s.oid)) + s.septets <= i

(* A step of the scan keeps what was scanned as long as it is written.     *)
LEMMA RetainedStep ==
  ASSUME NEW i \in Nat, NEW s, Retained(s, i), s.septets < Septets, NEW x \in Octet
  PROVE  Retained(OidStep(s, x), i + 1)
  <1> DEFINE q == s.septets
             p == 128 ^ q
             m == s.part * 128 + (x % 128)
             v == m % ComponentMod
  <1>1. q \in 0 .. Septets /\ s.part \in Nat /\ s.oid \in Seq(Component) /\ s.part < p
    BY Asn1TypesAssumption, ComponentSize DEF Retained, OidState, Component
  <1>2. p \in Nat \ {0} /\ 128 ^ (q + 1) = 128 * p
    <2>1. q \in 0 .. Septets + 1 /\ q \in 0 .. Septets
      BY <1>1, Asn1TypesAssumption
    <2> HIDE DEF q
    <2>. QED
      BY <2>1, PowersOf128
  <1>3. OidStep(s, x) \in OidState
    BY OidStepType DEF Retained
  <1>4. x \in Nat /\ x % 128 \in 0 .. 127
    BY DEF Octet
  <1>5. m \in Nat /\ m < 128 * p
    <2> HIDE DEF p
    <2>. QED
      BY <1>1, <1>2, <1>4
  <1>6. v \in Component /\ v \in Nat /\ v <= m
    <2> HIDE DEF m
    <2>1. v \in 0 .. ComponentMod - 1 /\ m = (m \div ComponentMod) * ComponentMod + v /\ m \div ComponentMod \in Nat
      BY <1>5, ComponentSize, Division
    <2>2. (m \div ComponentMod) * ComponentMod \in Nat
      BY <2>1, ComponentSize
    <2> HIDE DEF v
    <2>. QED
      BY <1>5, <2>1, <2>2, ComponentSize DEF Component
  <1>7. v < 128 ^ (q + 1)
    <2> HIDE DEF v, m, p, q
    <2>. QED
      BY <1>2, <1>5, <1>6
  <1> HIDE DEF m, p
  <1>8. CASE x < 128
    <2> DEFINE e == Append(s.oid, v)
               t == OidStep(s, x)
    <2>1. t = [oid |-> e, part |-> 0, septets |-> 0]
      BY <1>8 DEF OidStep, m
    <2> HIDE DEF v
    <2>2. Len(s.oid) \in Nat /\ Len(s.oid) >= 2 /\ e \in Seq(Component) /\ Len(e) = Len(s.oid) + 1 /\ e[2] = s.oid[2]
      <3>1. Len(s.oid) \in Nat /\ Len(s.oid) >= 2
        BY <1>1, LenProperties DEF Retained
      <3>2. 2 \in 1 .. Len(s.oid)
        BY <3>1
      <3>. QED
        BY <1>1, <1>6, <3>1, <3>2, AppendProperties
    <2>3. OidContent(e) = OidContent(s.oid) \o Base128(v)
      BY <1>1, <1>6, <2>2, OidContentAppend
    <2>4. Base128(v) \in Seq(Octet) /\ Len(Base128(v)) \in Nat /\ Len(Base128(v)) <= q + 1
      <3> HIDE DEF q
      <3>. QED
        BY <1>1, <1>6, <1>7, ShortSeptets
    <2>5. OidContent(e) \in Seq(Octet) /\ Len(OidContent(e)) = Len(OidContent(s.oid)) + Len(Base128(v))
          /\ Len(OidContent(s.oid)) \in Nat
      <3>1. OidContent(s.oid) \in Seq(Octet)
        BY DEF Retained
      <3> HIDE DEF e
      <3>. QED
        BY <2>3, <2>4, <3>1, ConcatProperties, LenProperties
    <2>6. Len(OidContent(e)) + 0 <= i + 1
      <3> DEFINE a == Len(OidContent(s.oid))
                 b == Len(Base128(v))
      <3>1. a \in Nat /\ b \in Nat /\ b <= q + 1 /\ a + q <= i /\ q \in Nat
        BY <1>1, <2>4, <2>5 DEF Retained
      <3>2. Len(OidContent(e)) = a + b
        BY <2>5
      <3> HIDE DEF a, b, q, e
      <3>. QED
        BY <3>1, <3>2
    <2>7. e[2] < 40 /\ Len(e) >= 2
      <3>1. s.oid[2] < 40
        BY DEF Retained
      <3> HIDE DEF e
      <3>. QED
        BY <2>2, <3>1
    <2>8. 0 < 128 ^ 0
      BY ZeroPowers
    <2> HIDE DEF e, t
    <2>9. t.oid = e /\ t.part = 0 /\ t.septets = 0
      BY <2>1
    <2>10. Retained(t, i + 1)
      BY <1>3, <2>5, <2>6, <2>7, <2>8, <2>9 DEF Retained, t
    <2>. QED
      BY <2>10 DEF t
  <1>9. CASE ~(x < 128)
    <2> DEFINE t == OidStep(s, x)
    <2>1. t = [oid |-> s.oid, part |-> v, septets |-> q + 1]
      BY <1>9 DEF OidStep, m
    <2> HIDE DEF v, t
    <2>2. t.oid = s.oid /\ t.part = v /\ t.septets = q + 1
      BY <2>1
    <2>3. Len(OidContent(s.oid)) + (q + 1) <= i + 1
      <3> DEFINE a == Len(OidContent(s.oid))
      <3>1. a \in Nat /\ a + q <= i /\ q \in Nat
        BY <1>1, LenProperties DEF Retained
      <3> HIDE DEF a, q
      <3>. QED
        BY <3>1 DEF a
    <2> HIDE DEF q
    <2>4. Retained(t, i + 1)
      BY <1>3, <1>7, <2>2, <2>3 DEF Retained, t
    <2>. QED
      BY <2>4 DEF t
  <1>. QED
    BY <1>8, <1>9

(* What the scan accepts is written in no more octets.                     *)
LEMMA OidIsRetained ==
  ASSUME NEW d \in Seq(Octet), OidAccepted(d)
  PROVE  LET oid == OidScan(d)[Len(d)].oid
         IN  /\ oid \in Seq(Component) /\ Len(oid) <= MaxComponents /\ Len(oid) >= 2 /\ oid[2] < 40
             /\ Len(OidContent(oid)) <= Len(d)
  <1> DEFINE L == Len(d)
             f == OidScan(d)
             S == {k \in 0 .. L - 1 : Retained(f[k + 1], k + 1)}
  <1>1. L \in Nat \ {0} /\ d # <<>> /\ \A i \in 1 .. L : d[i] \in Octet
    BY LenProperties, EmptySeq, ElementOfSeq DEF OidAccepted
  <1>2. f[1] = OidStart(d[1]) /\ \A i \in 2 .. L : f[i] = OidStep(f[i - 1], d[i])
    BY <1>1, OidScanSteps
  <1>3. /\ \A i \in 1 .. L : f[i].septets < Septets
        /\ f[L].septets = 0 /\ Len(f[L].oid) <= MaxComponents
    BY DEF OidAccepted
  <1> HIDE DEF f
  <1>4. 0 \in S
    <2> DEFINE s == OidStart(d[1])
    <2>1. 0 \in 0 .. L - 1 /\ d[1] \in Octet
      BY <1>1
    <2>2. /\ s \in OidState /\ s.oid[1] \in 0 .. 6 /\ s.oid[2] \in 0 .. 39
          /\ s.oid[1] * 40 + s.oid[2] = d[1] /\ Len(s.oid) = 2
      BY <2>1, OidStartType
    <2>3. s.part = 0 /\ s.septets = 0
      BY DEF OidStart
    <2> HIDE DEF s
    <2>4. s.oid \in Seq(Component)
      BY <2>2 DEF OidState
    <2>5. OidContent(s.oid) = <<(s.oid[1] * 40 + s.oid[2]) % 256>>
      BY <2>2, <2>4, OidContentPair
    <2>6. OidContent(s.oid) \in Seq(Octet) /\ Len(OidContent(s.oid)) = 1
      <3>1. PICK y : y = (s.oid[1] * 40 + s.oid[2]) % 256
        OBVIOUS
      <3>2. Len(s.oid) >= 2
        BY <2>2
      <3>3. OidContent(s.oid) \in Seq(Octet)
        BY <2>4, <3>2, OidContentType
      <3>. QED
        BY <2>5, <3>1, <3>3
    <2>7. s.oid[2] < 40 /\ Len(s.oid) >= 2
      <3>1. PICK b \in 0 .. 39 : b = s.oid[2]
        BY <2>2
      <3>2. b < 40
        OBVIOUS
      <3>. QED
        BY <2>2, <3>1, <3>2
    <2>8. Retained(s, 1)
      BY <2>2, <2>3, <2>6, <2>7, ZeroPowers DEF Retained
    <2>9. f[0 + 1] = s
      BY <1>2 DEF s
    <2>. QED
      BY <2>1, <2>8, <2>9
  <1>5. ASSUME NEW k \in 0 .. (L - 1) - 1, k \in S
        PROVE  k + 1 \in S
    <2>1. (k + 1) + 1 \in 2 .. L /\ ((k + 1) + 1) - 1 = k + 1 /\ k + 1 \in 0 .. L - 1
          /\ (k + 1) + 1 \in 1 .. L /\ k + 1 \in 1 .. L /\ k + 1 \in Nat
      BY <1>1
    <2>2. Retained(f[k + 1], k + 1)
      BY <1>5
    <2> HIDE DEF L
    <2>3. f[k + 1].septets < Septets /\ d[(k + 1) + 1] \in Octet
      BY <1>1, <1>3, <2>1
    <2>4. f[(k + 1) + 1] = OidStep(f[k + 1], d[(k + 1) + 1])
      BY <1>2, <2>1
    <2>5. Retained(f[(k + 1) + 1], (k + 1) + 1)
      BY <2>1, <2>2, <2>3, <2>4, RetainedStep
    <2>. QED
      BY <2>1, <2>5
  <1>6. Retained(f[L], L)
    <2>1. L - 1 \in Nat /\ L - 1 \in 0 .. L - 1 /\ (L - 1) + 1 = L
      BY <1>1
    <2>2. 0 .. L - 1 \subseteq S
      <3> HIDE DEF S, L
      <3>. QED
        BY <1>4, <1>5, <2>1, UpTo
    <2>3. L - 1 \in S
      <3> HIDE DEF S
      <3>. QED
        BY <2>1, <2>2
    <2>4. Retained(f[(L - 1) + 1], (L - 1) + 1)
      BY <2>3
    <2>. QED
      BY <2>1, <2>4
  <1> DEFINE o == f[L].oid
  <1>7. o \in Seq(Component) /\ Len(o) >= 2 /\ o[2] < 40 /\ Len(OidContent(o)) <= L
    <2>1. f[L] \in OidState /\ Len(OidContent(o)) \in Nat /\ Len(OidContent(o)) + f[L].septets <= L
      BY <1>6, LenProperties DEF Retained
    <2>2. Len(o) >= 2 /\ o[2] < 40 /\ o \in Seq(Component)
      BY <1>6 DEF Retained, OidState
    <2>. QED
      BY <1>3, <2>1, <2>2
  <1>. QED
    BY <1>3, <1>7 DEF f

-----------------------------------------------------------------------------
(* The text of an OID                                                      *)

(* The number of digits is a number.                                       *)
LEMMA DigitCountIsNat ==
  ASSUME NEW n, NEW b, NEW max \in Nat
  PROVE  DigitCount(n, b, max) \in Nat
  <1> DEFINE S == {i \in 0 .. max - 1 : n \div b ^ i > 0}
  <1>1. IsFiniteSet(0 .. max - 1)
    BY FS_Interval
  <1>2. S \subseteq 0 .. max - 1
    OBVIOUS
  <1>3. IsFiniteSet(S)
    <2> HIDE DEF S
    <2>. QED
      BY <1>1, <1>2, FS_Subset
  <1>4. Cardinality(S) \in Nat
    <2> HIDE DEF S
    <2>. QED
      BY <1>3, FS_CardinalityType
  <1>. QED
    BY <1>4 DEF DigitCount

(* Every component makes the text longer.                                  *)
LEMMA TextGrows ==
  ASSUME NEW oid \in Seq(Component)
  PROVE  /\ TextLength(oid, 0) = 0
         /\ \A k \in 0 .. Len(oid) : TextLength(oid, k) \in Nat
         /\ \A k \in 1 .. Len(oid) : TextLength(oid, k - 1) < TextLength(oid, k)
  <1> DEFINE L == Len(oid)
             added == [k \in 1 .. L |-> Max1(DigitCount(oid[k], 10, 10)) + (IF k = 1 THEN 0 ELSE 1)]
             step == [k \in 1 .. L |-> [x \in Nat |-> x + added[k]]]
             Total(g) == g = [k \in 0 .. L |->
                           IF k = 0 THEN 0
                           ELSE g[k - 1] + Max1(DigitCount(oid[k], 10, 10)) + (IF k = 1 THEN 0 ELSE 1)]
             t == TextLengths(oid)
  <1>1. L \in Nat
    BY LenProperties
  <1>2. \A k \in 1 .. L : Max1(DigitCount(oid[k], 10, 10)) \in Nat \ {0}
    BY DigitCountIsNat DEF Max1
  <1>3. \A k \in 1 .. L : added[k] \in Nat \ {0}
    <2> HIDE DEF L
    <2>. QED
      BY <1>2
  <1>4. step \in [1 .. L -> [Nat -> Nat]]
    <2> HIDE DEF L, added
    <2>. QED
      BY <1>3
  <1>5. PICK f \in [0 .. L -> Nat] : Loop(f, L, 0, step)
    <2> HIDE DEF L, step
    <2>. QED
      BY <1>1, <1>4, LoopExists
  <1>6. ASSUME NEW k \in 0 .. L
        PROVE  f[k] = IF k = 0 THEN 0
                      ELSE f[k - 1] + Max1(DigitCount(oid[k], 10, 10)) + (IF k = 1 THEN 0 ELSE 1)
    <2>1. f = [i \in 0 .. L |-> IF i = 0 THEN 0 ELSE step[i][f[i - 1]]]
      BY <1>5 DEF Loop
    <2>2. CASE k = 0
      <3> HIDE DEF L, step
      <3>. QED
        BY <2>1, <2>2
    <2>3. CASE k # 0
      <3>1. k \in 1 .. L /\ k - 1 \in 0 .. L
        BY <1>1, <2>3
      <3>2. f[k] = step[k][f[k - 1]]
        <4> HIDE DEF L, step
        <4>. QED
          BY <2>1, <2>3
      <3>3. f[k - 1] \in Nat
        <4> HIDE DEF L
        <4>. QED
          BY <1>5, <3>1
      <3>4. f[k] = f[k - 1] + added[k]
        <4> HIDE DEF L, added
        <4>. QED
          BY <3>1, <3>2, <3>3
      <3>5. added[k] = Max1(DigitCount(oid[k], 10, 10)) + (IF k = 1 THEN 0 ELSE 1)
        <4> HIDE DEF L
        <4>. QED
          BY <3>1
      <3>6. Max1(DigitCount(oid[k], 10, 10)) \in Nat
        <4> HIDE DEF L
        <4>. QED
          BY <1>2, <3>1
      <3> DEFINE d == Max1(DigitCount(oid[k], 10, 10))
      <3>7. d \in Nat /\ f[k] = f[k - 1] + (d + (IF k = 1 THEN 0 ELSE 1))
        BY <3>4, <3>5, <3>6
      <3> HIDE DEF d, added, step, L
      <3>8. f[k] = (f[k - 1] + d) + (IF k = 1 THEN 0 ELSE 1)
        BY <3>3, <3>7
      <3>. QED
        BY <2>3, <3>8 DEF d
    <2>. QED
      BY <2>2, <2>3
  <1>7. Total(f)
    <2> HIDE DEF L, step, added
    <2>. QED
      BY <1>5, <1>6
  <1>8. Total(t)
    <2>1. t = CHOOSE g : Total(g)
      BY DEF TextLengths
    <2> HIDE DEF Total, t
    <2>. QED
      BY <1>7, <2>1
  <1>9. t[0] = 0 /\ \A k \in 1 .. L : t[k] = t[k - 1] + Max1(DigitCount(oid[k], 10, 10)) + (IF k = 1 THEN 0 ELSE 1)
    <2>1. t = [k \in 0 .. L |-> IF k = 0 THEN 0
                ELSE t[k - 1] + Max1(DigitCount(oid[k], 10, 10)) + (IF k = 1 THEN 0 ELSE 1)]
      BY <1>8
    <2>2. 0 \in 0 .. L /\ \A k \in 1 .. L : k \in 0 .. L /\ k # 0
      BY <1>1
    <2> HIDE DEF t, L
    <2>. QED
      BY <2>1, <2>2
  <1> HIDE DEF t, added, step, Total
  <1>10. ASSUME NEW k \in 1 .. L, t[k - 1] \in Nat
         PROVE  t[k] \in Nat /\ t[k - 1] < t[k]
    <2> DEFINE d == Max1(DigitCount(oid[k], 10, 10))
    <2>1. d \in Nat \ {0} /\ t[k] = (t[k - 1] + d) + (IF k = 1 THEN 0 ELSE 1)
      <3> HIDE DEF L
      <3>. QED
        BY <1>2, <1>9
    <2> HIDE DEF d, L
    <2>. QED
      BY <1>10, <2>1
  <1>11. \A k \in 0 .. L : t[k] \in Nat
    <2> DEFINE S == {k \in 0 .. L : t[k] \in Nat}
    <2>1. 0 \in S
      BY <1>1, <1>9
    <2>2. ASSUME NEW k \in 0 .. L - 1, k \in S
          PROVE  k + 1 \in S
      <3>1. k + 1 \in 1 .. L /\ (k + 1) - 1 = k /\ k + 1 \in 0 .. L
        BY <1>1
      <3>2. t[(k + 1) - 1] \in Nat
        BY <2>2, <3>1
      <3>3. t[k + 1] \in Nat
        <4> HIDE DEF L
        <4>. QED
          BY <1>10, <3>1, <3>2
      <3>. QED
        BY <3>1, <3>3
    <2>3. 0 .. L \subseteq S
      <3> HIDE DEF S, L
      <3>. QED
        BY <1>1, <2>1, <2>2, UpTo
    <2>. QED
      BY <2>3
  <1>12. ASSUME NEW k \in 1 .. L
         PROVE  t[k - 1] < t[k]
    <2>1. k - 1 \in 0 .. L
      BY <1>1
    <2> HIDE DEF L
    <2>. QED
      BY <1>10, <1>11, <2>1
  <1>13. \A k : TextLength(oid, k) = t[k]
    BY DEF TextLength, t
  <1>. QED
    <2> HIDE DEF L
    <2>1. TextLength(oid, 0) = 0 /\ (\A k \in 0 .. L : TextLength(oid, k) \in Nat)
          /\ \A k \in 1 .. L : TextLength(oid, k - 1) < TextLength(oid, k)
      BY <1>9, <1>11, <1>12, <1>13
    <2>. QED
      BY <2>1 DEF L

(* The components printed are the first ones: all of them, or up to one    *)
(* that passes the end of the buffer.                                      *)
LEMMA TextIsCut ==
  ASSUME NEW oid \in Seq(Component), NEW size \in Nat
  PROVE  LET all == TextLength(oid, Len(oid))
             returned == TextReturned(oid, size)
         IN /\ \A k \in PrintedComponents(oid, size) : k > 1 => TextLength(oid, k - 1) <= size
            /\ returned < size <=> all < size
            /\ returned < size => returned = all
  <1> DEFINE L == Len(oid)
             t(k) == TextLength(oid, k)
             B == {k \in 1 .. L : t(k) >= size}
             P == PrintedComponents(oid, size)
  <1>1. L \in Nat /\ DOMAIN oid = 1 .. L
    BY LenProperties
  <1>2. t(0) = 0 /\ (\A k \in 0 .. L : t(k) \in Nat) /\ \A k \in 1 .. L : t(k - 1) < t(k)
    BY TextGrows
  <1> HIDE DEF t
  <1>3. P = {k \in 1 .. L : \A j \in 1 .. k - 1 : t(j) < size}
    BY <1>1 DEF PrintedComponents, t
  <1> HIDE DEF P, L
  <1>4. \A k \in P : k > 1 => t(k - 1) <= size
    <2>1. ASSUME NEW k \in P, k > 1
          PROVE  t(k - 1) <= size
      <3>1. k \in 1 .. L /\ \A j \in 1 .. k - 1 : t(j) < size
        BY <1>3
      <3>2. k - 1 \in 1 .. k - 1 /\ k - 1 \in 0 .. L
        BY <1>1, <2>1, <3>1
      <3>3. t(k - 1) < size /\ t(k - 1) \in Nat
        BY <1>2, <3>1, <3>2
      <3>. QED
        BY <3>3
    <2>. QED
      BY <2>1
  <1>5. \A b \in 0 .. L : Cardinality(1 .. b) = b
    <2>1. ASSUME NEW b \in 0 .. L
          PROVE  Cardinality(1 .. b) = b
      <3>1. 1 \in Int /\ b \in Int /\ b \in Nat
        BY <1>1
      <3>2. Cardinality(1 .. b) = IF 1 > b THEN 0 ELSE b - 1 + 1
        BY <3>1, FS_Interval
      <3>. QED
        BY <3>1, <3>2
    <2>. QED
      BY <2>1
  <1>6. CASE B = {}
    <2>1. \A k \in 1 .. L : t(k) < size
      <3>1. \A k \in 1 .. L : ~(t(k) >= size) /\ k \in 0 .. L
        BY <1>1, <1>6
      <3>. QED
        BY <1>2, <3>1
    <2>2. P = 1 .. L
      <3>1. \A k \in 1 .. L : \A j \in 1 .. k - 1 : j \in 1 .. L
        BY <1>1
      <3>. QED
        BY <1>3, <2>1, <3>1
    <2>3. Cardinality(P) = L
      <3>1. L \in 0 .. L
        BY <1>1
      <3>. QED
        BY <1>5, <2>2, <3>1
    <2>4. TextReturned(oid, size) = t(L)
      BY <2>3 DEF TextReturned, P, t
    <2>. QED
      BY <1>4, <2>4 DEF t, P, L
  <1>7. CASE B # {}
    <2>1. PICK b \in B : \A k \in B : b <= k
      <3>1. B \in SUBSET Nat
        OBVIOUS
      <3> HIDE DEF B
      <3>. QED
        BY <1>7, <3>1, LeastNatural
    <2>2. b \in 1 .. L /\ t(b) >= size /\ b \in 0 .. L /\ b \in Nat
      BY <1>1, <2>1
    <2>3. ASSUME NEW j \in 1 .. b - 1
          PROVE  t(j) < size
      <3>1. j \in 1 .. L /\ j < b /\ j \in 0 .. L
        BY <1>1, <2>2
      <3>2. j \notin B
        <4> HIDE DEF B
        <4>. QED
          BY <2>1, <2>2, <3>1
      <3>3. ~(t(j) >= size) /\ t(j) \in Nat
        BY <1>2, <3>1, <3>2
      <3>. QED
        BY <3>3
    <2>4. P = 1 .. b
      <3>1. ASSUME NEW k \in P
            PROVE  k \in 1 .. b
        <4>1. k \in 1 .. L /\ \A j \in 1 .. k - 1 : t(j) < size
          BY <1>3
        <4>2. ASSUME k > b
              PROVE  FALSE
          <5>1. b \in 1 .. k - 1
            BY <1>1, <2>2, <4>1, <4>2
          <5>2. t(b) < size /\ t(b) \in Nat
            BY <1>2, <2>2, <4>1, <5>1
          <5>. QED
            BY <2>2, <5>2
        <4>. QED
          BY <1>1, <2>2, <4>1, <4>2
      <3>2. ASSUME NEW k \in 1 .. b
            PROVE  k \in P
        <4>1. k \in 1 .. L /\ \A j \in 1 .. k - 1 : j \in 1 .. b - 1
          BY <1>1, <2>2
        <4>. QED
          BY <1>3, <2>3, <4>1
      <3>. QED
        BY <3>1, <3>2
    <2>5. TextReturned(oid, size) = t(b)
      <3>1. Cardinality(P) = b
        BY <1>5, <2>2, <2>4
      <3>. QED
        BY <3>1 DEF TextReturned, P, t
    <2>6. t(b) <= t(L)
      <3> DEFINE S == {d \in 0 .. L - b : t(b) <= t(b + d)}
      <3>1. 0 \in S
        <4>1. 0 \in 0 .. L - b /\ b + 0 = b /\ t(b) \in Nat
          BY <1>1, <1>2, <2>2
        <4>. QED
          BY <4>1
      <3>2. ASSUME NEW d \in 0 .. (L - b) - 1, d \in S
            PROVE  d + 1 \in S
        <4>1. b + (d + 1) \in 1 .. L /\ (b + (d + 1)) - 1 = b + d /\ d + 1 \in 0 .. L - b
              /\ b + d \in 0 .. L /\ b + (d + 1) \in 0 .. L
          BY <1>1, <2>2
        <4>2. t(b) <= t(b + d) /\ t((b + (d + 1)) - 1) < t(b + (d + 1))
          BY <1>2, <3>2, <4>1
        <4>3. t(b) \in Nat /\ t(b + d) \in Nat /\ t(b + (d + 1)) \in Nat /\ t(b + d) < t(b + (d + 1))
          BY <1>2, <2>2, <4>1, <4>2
        <4>. QED
          BY <4>1, <4>2, <4>3
      <3>3. L - b \in Nat /\ L - b \in 0 .. L - b /\ b + (L - b) = L
        BY <1>1, <2>2
      <3>4. 0 .. L - b \subseteq S
        <4> HIDE DEF S
        <4>. QED
          BY <3>1, <3>2, <3>3, UpTo
      <3>. QED
        BY <3>3, <3>4
    <2>7. t(b) \in Nat /\ t(L) \in Nat
      <3>1. L \in 0 .. L
        BY <1>1
      <3>. QED
        BY <1>2, <2>2, <3>1
    <2>8. ~(t(b) < size) /\ ~(t(L) < size)
      BY <2>2, <2>6, <2>7
    <2>. QED
      BY <1>4, <2>5, <2>8 DEF t, P, L
  <1>. QED
    BY <1>6, <1>7

-----------------------------------------------------------------------------
(* What each type reads from content, and writes                           *)

ContentRead(t, r, d, v) ==
  \/ t = "boolean" /\ Len(d) = 1 /\ (r = "DER" => d[1] \in {0, 255}) /\ v \in BOOLEAN /\ (v <=> d[1] # 0)
  \/ t = "null" /\ d = <<>> /\ v = <<>>
  \/ t \in {"octets", "string"} /\ v = d
  \/ /\ t = "integer" /\ d # <<>> /\ v \in [bytes : {d}, negative : BOOLEAN]
     /\ (v.negative <=> d[1] >= 128)
  \/ t = "int64" /\ d # <<>> /\ Len(d) <= IntOctets /\ Minimal(d) /\ v = Signed(d)
  \/ t = "uint64" /\ d # <<>> /\ d[1] < 128 /\ FitsUnsigned(d) /\ v = Unsigned(d) % 256 ^ IntOctets
  \/ /\ t = "bits" /\ d # <<>> /\ d[1] <= 7 /\ (Len(d) = 1 => d[1] = 0) /\ UnusedAreZero(d)
     /\ v = [bytes |-> Tail(d), unused |-> d[1]]
  \/ t = "oid" /\ OidAccepted(d) /\ v = OidScan(d)[Len(d)].oid

ContentWritten(t, v, d) ==
  \/ t = "boolean" /\ d = <<IF v THEN 255 ELSE 0>>
  \/ t = "null" /\ d = <<>>
  \/ t \in {"octets", "string"} /\ d = v
  \/ t = "integer" /\ d = v.bytes
  \/ t = "int64" /\ d = Int64Content(v)
  \/ t = "uint64" /\ d = Magnitude(v)
  \/ t = "bits" /\ d = <<v.unused>> \o v.bytes
  \/ t = "oid" /\ Len(v) >= 2 /\ v[1] <= 2 /\ d = OidContent(v)

(* Content is read as one value.                                           *)
LEMMA ReadOnce ==
  ASSUME NEW t, NEW r, NEW d, NEW v, NEW w, ContentRead(t, r, d, v), ContentRead(t, r, d, w)
  PROVE  v = w
  <1>1. t \in {"boolean", "null", "octets", "string", "integer", "int64", "uint64", "bits", "oid"}
    BY DEF ContentRead
  <1>2. CASE t = "boolean"
    BY <1>2 DEF ContentRead
  <1>3. CASE t = "null"
    BY <1>3 DEF ContentRead
  <1>4. CASE t = "octets"
    BY <1>4 DEF ContentRead
  <1>5. CASE t = "string"
    BY <1>5 DEF ContentRead
  <1>6. CASE t = "integer"
    BY <1>6 DEF ContentRead
  <1>7. CASE t = "int64"
    BY <1>7 DEF ContentRead
  <1>8. CASE t = "uint64"
    BY <1>8 DEF ContentRead
  <1>9. CASE t = "bits"
    BY <1>9 DEF ContentRead
  <1>10. CASE t = "oid"
    BY <1>10 DEF ContentRead
  <1>. QED
    BY <1>1, <1>2, <1>3, <1>4, <1>5, <1>6, <1>7, <1>8, <1>9, <1>10

(* What is read is a value of the type.                                    *)
LEMMA ReadIsValue ==
  ASSUME NEW t, NEW r, NEW d \in Seq(Octet), NEW v, ContentRead(t, r, d, v)
  PROVE  IsValue(t, v)
  <1>0. Len(d) \in Nat /\ (d # <<>> <=> Len(d) # 0) /\ (d # <<>> => d[1] \in 0 .. 255)
    BY OctetsRange
  <1>1. t \in {"boolean", "null", "octets", "string", "integer", "int64", "uint64", "bits", "oid"}
    BY DEF ContentRead
  <1>2. CASE t = "boolean"
    <2>1. v \in BOOLEAN
      BY <1>2 DEF ContentRead
    <2>. QED
      BY <1>2, <2>1 DEF IsValue
  <1>3. CASE t = "null"
    BY <1>3 DEF ContentRead, IsValue
  <1>4. CASE t \in {"octets", "string"}
    BY <1>4 DEF ContentRead, IsValue
  <1>5. CASE t = "integer"
    <2>1. d # <<>> /\ v \in [bytes : {d}, negative : BOOLEAN] /\ (v.negative <=> d[1] >= 128)
      BY <1>5 DEF ContentRead
    <2>2. v \in [bytes : Seq(Octet), negative : BOOLEAN] /\ v.bytes = d
      BY <2>1
    <2>. QED
      BY <1>5, <2>1, <2>2 DEF IsValue
  <1>6. CASE t = "int64"
    <2>1. d # <<>> /\ Len(d) <= IntOctets /\ Minimal(d) /\ v = Signed(d)
      BY <1>6 DEF ContentRead
    <2>2. v \in Int64Range
      BY <2>1, Int64Read
    <2>. QED
      BY <1>6, <2>2 DEF IsValue, Int64Range
  <1>7. CASE t = "uint64"
    <2>1. d # <<>> /\ d[1] < 128 /\ FitsUnsigned(d) /\ v = Unsigned(d) % 256 ^ IntOctets
      BY <1>7 DEF ContentRead
    <2>2. v \in 0 .. 256 ^ IntOctets - 1
      BY <2>1, Uint64Read
    <2>. QED
      BY <1>7, <2>2 DEF IsValue
  <1>8. CASE t = "bits"
    <2>1. d # <<>> /\ d[1] <= 7 /\ (Len(d) = 1 => d[1] = 0) /\ UnusedAreZero(d)
          /\ v = [bytes |-> Tail(d), unused |-> d[1]]
      BY <1>8 DEF ContentRead
    <2> DEFINE e == Tail(d)
    <2>2. e \in Seq(Octet) /\ Len(e) = Len(d) - 1 /\ \A i \in 1 .. Len(e) : e[i] = d[i + 1]
      BY <2>1, HeadTailProperties
    <2>3. d[1] \in 0 .. 7
      <3>1. PICK x \in 0 .. 255 : x = d[1]
        BY <1>0, <2>1
      <3>2. x <= 7
        BY <2>1, <3>1
      <3>3. x \in 0 .. 7
        BY <3>2
      <3>. QED
        BY <3>1, <3>3, Zenon
    <2> HIDE DEF e
    <2>4. v.bytes = e /\ v.unused = d[1] /\ v \in [bytes : Seq(Octet), unused : 0 .. 7]
      <3>1. v = [bytes |-> e, unused |-> d[1]]
        BY <2>1 DEF e
      <3>. QED
        BY <2>2, <2>3, <3>1
    <2>5. UnusedClear(e, d[1])
      <3>1. CASE e = <<>>
        <4>1. Len(d) = 1
          BY <1>0, <2>2, <3>1
        <4>. QED
          BY <2>1, <3>1, <4>1 DEF UnusedClear
      <3>2. CASE e # <<>>
        <4>1. Len(e) \in Nat /\ Len(e) # 0
          BY <2>2, <3>2, OctetsRange
        <4>2. Len(d) > 1 /\ Len(e) \in 1 .. Len(e) /\ Len(e) + 1 = Len(d)
          BY <1>0, <2>2, <4>1
        <4>3. e[Len(e)] = d[Len(d)]
          BY <2>2, <4>2
        <4>4. d[Len(d)] % 2 ^ d[1] = 0
          BY <2>1, <4>2 DEF UnusedAreZero
        <4>. QED
          BY <3>2, <4>3, <4>4 DEF UnusedClear
      <3>. QED
        BY <3>1, <3>2
    <2>6. UnusedClear(v.bytes, v.unused)
      BY <2>4, <2>5
    <2>. QED
      BY <1>8, <2>4, <2>6 DEF IsValue
  <1>9. CASE t = "oid"
    <2>1. OidAccepted(d) /\ v = OidScan(d)[Len(d)].oid
      BY <1>9 DEF ContentRead
    <2>2. v \in Seq(Component) /\ Len(v) <= MaxComponents
      BY <2>1, OidIsRetained
    <2>. QED
      BY <1>9, <2>2 DEF IsValue, Component
  <1>. QED
    BY <1>1, <1>2, <1>3, <1>4, <1>5, <1>6, <1>7, <1>8, <1>9

(* What is written is read back.                                           *)
LEMMA WrittenIsRead ==
  ASSUME NEW t, NEW r, NEW v, NEW d, IsValue(t, v), ContentWritten(t, v, d)
  PROVE  d \in Seq(Octet) /\ ((t = "oid" => Representable(v)) => ContentRead(t, r, d, v))
  <1>1. t \in {"boolean", "null", "octets", "string", "integer", "int64", "uint64", "bits", "oid"}
    BY DEF ContentWritten
  <1>2. CASE t = "boolean"
    <2>1. v \in BOOLEAN
      BY <1>2 DEF IsValue
    <2>2. d = <<IF v THEN 255 ELSE 0>>
      BY <1>2 DEF ContentWritten
    <2>3. CASE v = TRUE
      <3>1. d = <<255>> /\ 255 \in Octet
        BY <2>2, <2>3 DEF Octet
      <3>2. d \in Seq(Octet) /\ Len(d) = 1 /\ d[1] = 255
        BY <3>1
      <3>3. v <=> d[1] # 0
        BY <2>3, <3>2
      <3>. QED
        BY <1>2, <2>1, <3>2, <3>3 DEF ContentRead
    <2>4. CASE v = FALSE
      <3>1. d = <<0>> /\ 0 \in Octet
        BY <2>2, <2>4 DEF Octet
      <3>2. d \in Seq(Octet) /\ Len(d) = 1 /\ d[1] = 0
        BY <3>1
      <3>3. v <=> d[1] # 0
        BY <2>4, <3>2
      <3>. QED
        BY <1>2, <2>1, <3>2, <3>3 DEF ContentRead
    <2>. QED
      BY <2>1, <2>3, <2>4
  <1>3. CASE t = "null"
    <2>1. v = <<>> /\ d = <<>>
      BY <1>3 DEF IsValue, ContentWritten
    <2>. QED
      BY <1>3, <2>1 DEF ContentRead
  <1>4. CASE t \in {"octets", "string"}
    BY <1>4 DEF IsValue, ContentWritten, ContentRead
  <1>5. CASE t = "integer"
    <2>1. v \in [bytes : Seq(Octet), negative : BOOLEAN] /\ v.bytes # <<>> /\ (v.negative <=> v.bytes[1] >= 128)
      BY <1>5 DEF IsValue
    <2>2. d = v.bytes
      BY <1>5 DEF ContentWritten
    <2>3. v \in [bytes : {d}, negative : BOOLEAN] /\ (v.negative <=> d[1] >= 128) /\ d \in Seq(Octet)
      BY <2>1, <2>2
    <2>. QED
      BY <1>5, <2>1, <2>2, <2>3 DEF ContentRead
  <1>6. CASE t = "int64"
    <2>1. v \in Int64Range
      BY <1>6 DEF IsValue, Int64Range
    <2>2. d = Int64Content(v)
      BY <1>6 DEF ContentWritten
    <2>3. v \in Int /\ IsShortest(d, v) /\ Len(d) <= IntOctets
      BY <2>1, <2>2, Int64Written
    <2>4. d \in Seq(Octet) /\ Len(d) \in 1 .. IntOctets + 1 /\ Minimal(d) /\ Signed(d) = v
      BY <2>3, ShortestIsRead
    <2>5. d # <<>>
      BY <2>4, OctetsRange
    <2>. QED
      BY <1>6, <2>3, <2>4, <2>5 DEF ContentRead
  <1>7. CASE t = "uint64"
    <2>1. v \in 0 .. 256 ^ IntOctets - 1
      BY <1>7 DEF IsValue
    <2>2. d = Magnitude(v)
      BY <1>7 DEF ContentWritten
    <2>3. d \in Seq(Octet) /\ d # <<>> /\ d[1] < 128 /\ FitsUnsigned(d) /\ Unsigned(d) = v
      BY <2>1, <2>2, Uint64Written
    <2>4. Unsigned(d) % 256 ^ IntOctets = Unsigned(d)
      BY <2>3, Uint64Read
    <2>. QED
      BY <1>7, <2>3, <2>4 DEF ContentRead
  <1>8. CASE t = "bits"
    <2>1. v \in [bytes : Seq(Octet), unused : 0 .. 7] /\ UnusedClear(v.bytes, v.unused)
      BY <1>8 DEF IsValue
    <2> DEFINE u == v.unused
               b == v.bytes
    <2>2. u \in 0 .. 7 /\ b \in Seq(Octet) /\ v = [bytes |-> b, unused |-> u]
      BY <2>1
    <2>3. d = <<u>> \o b
      BY <1>8 DEF ContentWritten
    <2>4. UnusedClear(b, u)
      BY <2>1
    <2> HIDE DEF u, b
    <2>5. u \in Octet /\ <<u>> \in Seq(Octet) /\ Len(<<u>>) = 1 /\ Len(b) \in Nat
      <3>1. u \in Octet
        BY <2>2 DEF Octet
      <3>. QED
        BY <2>2, <3>1, LenProperties
    <2>6. /\ d \in Seq(Octet) /\ Len(d) = Len(b) + 1 /\ d[1] = u
          /\ \A i \in 1 .. Len(b) : d[i + 1] = b[i]
      <3>1. d \in Seq(Octet) /\ Len(d) = 1 + Len(b)
        BY <2>2, <2>3, <2>5, ConcatProperties
      <3>2. d[1] = u
        BY <2>2, <2>3, <2>5
      <3>3. ASSUME NEW i \in 1 .. Len(b)
            PROVE  d[i + 1] = b[i]
        <4>1. i + 1 \in 1 .. 1 + Len(b) /\ ~(i + 1 <= 1) /\ (i + 1) - 1 = i
          BY <2>5
        <4>2. d[i + 1] = IF i + 1 <= Len(<<u>>) THEN <<u>>[i + 1] ELSE b[(i + 1) - Len(<<u>>)]
          BY <2>2, <2>3, <2>5, <4>1, ConcatProperties
        <4>. QED
          BY <2>5, <4>1, <4>2
      <3>. QED
        BY <2>5, <3>1, <3>2, <3>3
    <2>7. d # <<>>
      BY <2>5, <2>6, OctetsRange
    <2>8. Tail(d) = b
      <3> DEFINE e == Tail(d)
      <3>1. e \in Seq(Octet) /\ Len(e) = Len(b) /\ \A i \in 1 .. Len(e) : e[i] = d[i + 1]
        BY <2>5, <2>6, <2>7, HeadTailProperties
      <3> HIDE DEF e
      <3>2. \A i \in 1 .. Len(e) : e[i] = b[i]
        BY <2>6, <3>1
      <3>3. e = b
        BY <2>2, <3>1, <3>2, SeqEqual
      <3>. QED
        BY <3>3 DEF e
    <2>9. Len(d) = 1 => u = 0
      <3>1. Len(d) = 1 => b = <<>>
        BY <2>2, <2>5, <2>6, OctetsRange
      <3>. QED
        BY <2>4, <3>1 DEF UnusedClear
    <2>10. UnusedAreZero(d)
      <3>1. ASSUME Len(d) > 1
            PROVE  d[Len(d)] % 2 ^ u = 0
        <4>1. b # <<>> /\ Len(b) \in 1 .. Len(b)
          BY <2>2, <2>5, <2>6, <3>1, OctetsRange
        <4>2. d[Len(d)] = b[Len(b)]
          BY <2>6, <4>1
        <4>. QED
          BY <2>4, <4>1, <4>2 DEF UnusedClear
      <3>. QED
        BY <2>6, <3>1 DEF UnusedAreZero
    <2>11. u <= 7
      BY <2>2
    <2>. QED
      BY <1>8, <2>2, <2>6, <2>7, <2>8, <2>9, <2>10, <2>11 DEF ContentRead
  <1>9. CASE t = "oid"
    <2>1. v \in Seq(Component) /\ Len(v) <= MaxComponents
      BY <1>9 DEF IsValue, Component
    <2>2. Len(v) >= 2 /\ v[1] <= 2 /\ d = OidContent(v)
      BY <1>9 DEF ContentWritten
    <2>3. d \in Seq(Octet)
      BY <2>1, <2>2, OidContentType
    <2>4. ASSUME Representable(v)
          PROVE  OidAccepted(d) /\ v = OidScan(d)[Len(d)].oid
      <3>1. v[2] < 40
        BY <2>4 DEF Representable
      <3>2. ScansTo(d, v)
        BY <2>1, <2>2, <3>1, OidIsRead
      <3> DEFINE s == OidScan(d)[Len(d)]
      <3>3. d # <<>> /\ (\A i \in 1 .. Len(d) : OidScan(d)[i].septets < Septets)
            /\ s = [oid |-> v, part |-> 0, septets |-> 0]
        BY <3>2 DEF ScansTo
      <3>4. s.oid = v /\ s.septets = 0
        <4> HIDE DEF s
        <4>. QED
          BY <3>3
      <3>. QED
        BY <2>1, <3>3, <3>4 DEF OidAccepted
    <2>. QED
      BY <1>9, <2>3, <2>4 DEF ContentRead
  <1>. QED
    BY <1>1, <1>2, <1>3, <1>4, <1>5, <1>6, <1>7, <1>8, <1>9

(* Content of one octet.                                                   *)
LEMMA OneOctet ==
  ASSUME NEW d \in Seq(Octet), Len(d) = 1
  PROVE  d = <<d[1]>>
  <1>1. d # <<>>
    BY OctetsRange
  <1>2. PICK x \in Octet : x = d[1]
    BY <1>1, OctetsRange DEF Octet
  <1>3. <<x>> \in Seq(Octet) /\ Len(<<x>>) = 1 /\ \A i \in 1 .. Len(<<x>>) : <<x>>[i] = x
    OBVIOUS
  <1>4. \A i \in 1 .. Len(d) : d[i] = <<x>>[i]
    <2>1. ASSUME NEW i \in 1 .. Len(d)
          PROVE  i = 1
      OBVIOUS
    <2>. QED
      BY <1>2, <1>3, <2>1
  <1>5. d = <<x>>
    BY <1>3, <1>4, SeqEqual
  <1>. QED
    BY <1>2, <1>5

(* What is read from content is written as that content, or, if the type   *)
(* has other forms, as one that is no longer.                              *)
LEMMA ReadIsWritten ==
  ASSUME NEW t, NEW r \in {"BER", "DER"}, NEW d \in Seq(Octet), NEW v, NEW e,
         ContentRead(t, r, d, v), ContentWritten(t, v, e)
  PROVE  /\ e = d \/ ((t \in {"uint64", "oid"} \/ r = "BER") /\ Len(e) <= Len(d))
         /\ t = "oid" => Representable(v)
  <1>0. Len(d) \in Nat /\ (d # <<>> <=> Len(d) # 0) /\ (d # <<>> => d[1] \in 0 .. 255)
    BY OctetsRange
  <1>1. t \in {"boolean", "null", "octets", "string", "integer", "int64", "uint64", "bits", "oid"}
    BY DEF ContentRead
  <1>2. CASE t = "boolean"
    <2>1. Len(d) = 1 /\ (r = "DER" => d[1] \in {0, 255}) /\ v \in BOOLEAN /\ (v <=> d[1] # 0)
      BY <1>2 DEF ContentRead
    <2>2. e = <<IF v THEN 255 ELSE 0>>
      BY <1>2 DEF ContentWritten
    <2>3. CASE r = "DER"
      <3>1. d = <<d[1]>>
        BY <2>1, OneOctet
      <3>2. (IF v THEN 255 ELSE 0) = d[1]
        BY <2>1, <2>3
      <3>. QED
        BY <1>2, <2>2, <3>1, <3>2
    <2>4. CASE r = "BER"
      <3>1. Len(e) = 1
        BY <2>2
      <3>. QED
        BY <1>2, <2>1, <2>4, <3>1
    <2>. QED
      BY <2>3, <2>4
  <1>3. CASE t = "null"
    BY <1>3 DEF ContentRead, ContentWritten
  <1>4. CASE t \in {"octets", "string"}
    BY <1>4 DEF ContentRead, ContentWritten
  <1>5. CASE t = "integer"
    BY <1>5 DEF ContentRead, ContentWritten
  <1>6. CASE t = "int64"
    <2>1. d # <<>> /\ Len(d) <= IntOctets /\ Minimal(d) /\ v = Signed(d)
      BY <1>6 DEF ContentRead
    <2>2. v \in Int64Range /\ IsShortest(d, v)
      BY <2>1, Int64Read
    <2>3. e = Int64Content(v)
      BY <1>6 DEF ContentWritten
    <2>4. v \in Int /\ IsShortest(e, v)
      BY <2>2, <2>3, Int64Written
    <2>5. e = d
      BY <2>2, <2>4, ShortestUnique
    <2>. QED
      BY <1>6, <2>5
  <1>7. CASE t = "uint64"
    <2>1. d # <<>> /\ d[1] < 128 /\ FitsUnsigned(d) /\ v = Unsigned(d) % 256 ^ IntOctets
      BY <1>7 DEF ContentRead
    <2>2. v \in 0 .. 256 ^ IntOctets - 1 /\ Fits(v, Len(d)) /\ Len(d) \in 1 .. IntOctets + 1
      BY <2>1, Uint64Read
    <2>3. e = Magnitude(v)
      BY <1>7 DEF ContentWritten
    <2>4. Len(e) <= Len(d)
      BY <2>2, <2>3, Uint64Written
    <2>. QED
      BY <1>7, <2>4
  <1>8. CASE t = "bits"
    <2>1. d # <<>> /\ v = [bytes |-> Tail(d), unused |-> d[1]]
      BY <1>8 DEF ContentRead
    <2>2. e = <<v.unused>> \o v.bytes
      BY <1>8 DEF ContentWritten
    <2> DEFINE b == Tail(d)
    <2>3. b \in Seq(Octet) /\ Len(b) = Len(d) - 1 /\ \A i \in 1 .. Len(b) : b[i] = d[i + 1]
      BY <2>1, HeadTailProperties
    <2>4. v.unused = d[1] /\ v.bytes = b
      BY <2>1
    <2> HIDE DEF b
    <2>5. PICK x \in Octet : x = d[1]
      BY <1>0, <2>1 DEF Octet
    <2>6. e = <<x>> \o b
      BY <2>2, <2>4, <2>5
    <2>7. <<x>> \in Seq(Octet) /\ Len(<<x>>) = 1 /\ <<x>>[1] = x
      OBVIOUS
    <2>8. e \in Seq(Octet) /\ Len(e) = Len(d) /\ Len(e) = 1 + Len(b)
      <3>1. e \in Seq(Octet) /\ Len(e) = Len(<<x>>) + Len(b)
        BY <2>3, <2>6, <2>7, ConcatProperties
      <3>. QED
        BY <1>0, <2>3, <2>7, <3>1
    <2>9. ASSUME NEW i \in 1 .. Len(e)
          PROVE  e[i] = d[i]
      <3>1. e[i] = IF i <= Len(<<x>>) THEN <<x>>[i] ELSE b[i - Len(<<x>>)]
        <4>1. i \in 1 .. Len(<<x>>) + Len(b)
          BY <2>7, <2>8
        <4>. QED
          BY <2>3, <2>6, <2>7, <4>1, ConcatProperties
      <3>2. CASE i = 1
        BY <2>5, <2>7, <3>1, <3>2
      <3>3. CASE i # 1
        <4>1. i - 1 \in 1 .. Len(b) /\ (i - 1) + 1 = i /\ ~(i <= 1)
          BY <1>0, <2>3, <2>8, <3>3
        <4>. QED
          BY <2>3, <2>7, <3>1, <4>1
      <3>. QED
        BY <3>2, <3>3
    <2>10. e = d
      BY <2>8, <2>9, SeqEqual
    <2>. QED
      BY <1>8, <2>10
  <1>9. CASE t = "oid"
    <2>1. OidAccepted(d) /\ v = OidScan(d)[Len(d)].oid
      BY <1>9 DEF ContentRead
    <2>2. v[2] < 40 /\ Len(OidContent(v)) <= Len(d)
      BY <2>1, OidIsRetained
    <2>3. e = OidContent(v)
      BY <1>9 DEF ContentWritten
    <2>. QED
      BY <1>9, <2>2, <2>3 DEF Representable
  <1>. QED
    BY <1>1, <1>2, <1>3, <1>4, <1>5, <1>6, <1>7, <1>8, <1>9

-----------------------------------------------------------------------------
(* The steps of a caller *)

NodeType == [id : [class : 0 .. 3, tag : Nat], constructed : BOOLEAN, data : Seq(Octet)]

TagOf == [boolean |-> 1, null |-> 5, octets |-> 4, string |-> 12, integer |-> 2, int64 |-> 2,
          uint64 |-> 2, bits |-> 3, oid |-> 6]

ReadAs(t, r, n, v) ==
  /\ ~n.constructed /\ (t # "string" => IdentifierEqual(n.id, Id(TagOf[t])))
  /\ ContentRead(t, r, n.data, v)

WrittenAs(t, v, n) ==
  n = [id |-> Id(TagOf[t]), constructed |-> FALSE, data |-> n.data] /\ ContentWritten(t, v, n.data)

ParseStep ==
  /\ phase \in {"received", "sent"} /\ UNCHANGED <<type, rules, node, arrived, carried>>
  /\ \/ ReadAs(type, rules, node, value') /\ phase' = "parsed"
     \/ (\A v : ~ReadAs(type, rules, node, v)) /\ phase' = "rejected" /\ value' = value

WriteStep ==
  /\ phase \in {"chosen", "parsed"} /\ UNCHANGED <<type, rules, value, arrived>>
  /\ \/ WrittenAs(type, value, node') /\ phase' = "sent" /\ carried' = <<value>>
     \/ phase' = "refused" /\ UNCHANGED <<node, carried>>

(* A parser reads the node as a value of its type, or the node has none.   *)
LEMMA Parses ==
  ASSUME NEW t, NEW result, NEW accepted \in BOOLEAN, Parsing(t, accepted, result),
         accepted => ReadAs(t, rules, node, result),
         ~accepted => \A v : ~ReadAs(t, rules, node, v)
  PROVE  ParseStep
  BY DEF Parsing, ParseStep

(* A serializer writes the value, or refuses to.                           *)
LEMMA Writes ==
  ASSUME NEW t, NEW accepted \in BOOLEAN, NEW content,
         Serializing(t, accepted, Id(TagOf[t]), content), accepted => ContentWritten(t, value, content)
  PROVE  WriteStep
  <1>1. type = t /\ phase \in {"chosen", "parsed"} /\ UNCHANGED <<type, rules, value, arrived>>
    BY DEF Serializing
  <1>2. CASE accepted /\ node' = [id |-> Id(TagOf[t]), constructed |-> FALSE, data |-> content]
             /\ phase' = "sent" /\ carried' = <<value>>
    <2>1. node'.data = content
      BY <1>2
    <2>2. WrittenAs(type, value, node')
      BY <1>1, <1>2, <2>1 DEF WrittenAs
    <2>. QED
      BY <1>1, <1>2, <2>2 DEF WriteStep
  <1>3. CASE phase' = "refused" /\ UNCHANGED <<node, carried>>
    BY <1>1, <1>3 DEF WriteStep
  <1>. QED
    BY <1>2, <1>3 DEF Serializing

(* Every action reads a node or writes a value of its type.                *)
LEMMA NextSteps ==
  ASSUME Next
  PROVE  ParseStep \/ WriteStep
  <1>0. /\ TagOf["boolean"] = 1 /\ TagOf["null"] = 5 /\ TagOf["octets"] = 4 /\ TagOf["string"] = 12
        /\ TagOf["integer"] = 2 /\ TagOf["int64"] = 2 /\ TagOf["uint64"] = 2 /\ TagOf["bits"] = 3
        /\ TagOf["oid"] = 6
    BY DEF TagOf
  <1>1. CASE ParseBoolean
    <2> DEFINE accepted == Primitive(Tag.boolean) /\ Len(Data) = 1 /\ (rules = "DER" => First \in {0, 255})
               result == First # 0
    <2>1. Parsing("boolean", accepted, result)
      BY <1>1 DEF ParseBoolean
    <2>2. accepted => ReadAs("boolean", rules, node, result)
      BY <1>0 DEF ReadAs, ContentRead, Primitive, Tag, Data, First
    <2>3. ~accepted => \A v : ~ReadAs("boolean", rules, node, v)
      BY <1>0 DEF ReadAs, ContentRead, Primitive, Tag, Data, First
    <2>4. accepted \in BOOLEAN
      OBVIOUS
    <2> HIDE DEF accepted, result
    <2>. QED
      BY <2>1, <2>2, <2>3, <2>4, Parses
  <1>2. CASE ParseNull
    <2> DEFINE accepted == Primitive(Tag.null) /\ Data = <<>>
    <2>1. Parsing("null", accepted, <<>>)
      BY <1>2 DEF ParseNull
    <2>2. accepted => ReadAs("null", rules, node, <<>>)
      BY <1>0 DEF ReadAs, ContentRead, Primitive, Tag, Data
    <2>3. ~accepted => \A v : ~ReadAs("null", rules, node, v)
      BY <1>0 DEF ReadAs, ContentRead, Primitive, Tag, Data
    <2>4. accepted \in BOOLEAN
      OBVIOUS
    <2> HIDE DEF accepted
    <2>. QED
      BY <2>1, <2>2, <2>3, <2>4, Parses
  <1>3. CASE ParseOctetString
    <2> DEFINE accepted == Primitive(Tag.octetString)
    <2>1. Parsing("octets", accepted, Data)
      BY <1>3 DEF ParseOctetString
    <2>2. accepted => ReadAs("octets", rules, node, Data)
      BY <1>0 DEF ReadAs, ContentRead, Primitive, Tag, Data
    <2>3. ~accepted => \A v : ~ReadAs("octets", rules, node, v)
      BY <1>0 DEF ReadAs, ContentRead, Primitive, Tag, Data
    <2>4. accepted \in BOOLEAN
      BY DEF Primitive
    <2> HIDE DEF accepted
    <2>. QED
      BY <2>1, <2>2, <2>3, <2>4, Parses
  <1>4. CASE ParseString
    <2> DEFINE accepted == ~node.constructed
    <2>1. Parsing("string", accepted, Data)
      BY <1>4 DEF ParseString
    <2>2. accepted => ReadAs("string", rules, node, Data)
      BY <1>0 DEF ReadAs, ContentRead, Data
    <2>3. ~accepted => \A v : ~ReadAs("string", rules, node, v)
      BY DEF ReadAs
    <2>4. accepted \in BOOLEAN
      OBVIOUS
    <2> HIDE DEF accepted
    <2>. QED
      BY <2>1, <2>2, <2>3, <2>4, Parses
  <1>5. CASE ParseIntegerBytes
    <2> DEFINE accepted == HasInteger
               result == [bytes |-> Data, negative |-> First >= 128]
    <2>1. Parsing("integer", accepted, result)
      BY <1>5 DEF ParseIntegerBytes
    <2>2. accepted => ReadAs("integer", rules, node, result)
      <3> DEFINE negative == First >= 128
      <3>1. negative \in BOOLEAN
        OBVIOUS
      <3>2. result = [bytes |-> Data, negative |-> negative]
        OBVIOUS
      <3>3. negative <=> node.data[1] >= 128
        BY DEF Data, First
      <3> HIDE DEF negative, result
      <3>4. result \in [bytes : {node.data}, negative : BOOLEAN] /\ (result.negative <=> node.data[1] >= 128)
        BY <3>1, <3>2, <3>3 DEF Data
      <3>. QED
        BY <1>0, <3>4 DEF ReadAs, ContentRead, HasInteger, Primitive, Tag, Data
    <2>3. ~accepted => \A v : ~ReadAs("integer", rules, node, v)
      BY <1>0 DEF ReadAs, ContentRead, HasInteger, Primitive, Tag, Data, First
    <2>4. accepted \in BOOLEAN
      BY DEF HasInteger
    <2> HIDE DEF accepted, result
    <2>. QED
      BY <2>1, <2>2, <2>3, <2>4, Parses
  <1>6. CASE ParseInt64
    <2> DEFINE accepted == HasInteger /\ Len(Data) <= IntOctets /\ Minimal(Data)
               result == Signed(Data)
    <2>1. Parsing("int64", accepted, result)
      BY <1>6 DEF ParseInt64
    <2>2. accepted => ReadAs("int64", rules, node, result)
      BY <1>0 DEF ReadAs, ContentRead, HasInteger, Primitive, Tag, Data
    <2>3. ~accepted => \A v : ~ReadAs("int64", rules, node, v)
      BY <1>0 DEF ReadAs, ContentRead, HasInteger, Primitive, Tag, Data
    <2>4. accepted \in BOOLEAN
      OBVIOUS
    <2> HIDE DEF accepted, result
    <2>. QED
      BY <2>1, <2>2, <2>3, <2>4, Parses
  <1>7. CASE ParseUint64
    <2> DEFINE accepted == HasInteger /\ First < 128 /\ FitsUnsigned(Data)
               result == Unsigned(Data) % 256 ^ IntOctets
    <2>1. Parsing("uint64", accepted, result)
      BY <1>7 DEF ParseUint64
    <2>2. accepted => ReadAs("uint64", rules, node, result)
      BY <1>0 DEF ReadAs, ContentRead, HasInteger, Primitive, Tag, Data, First
    <2>3. ~accepted => \A v : ~ReadAs("uint64", rules, node, v)
      BY <1>0 DEF ReadAs, ContentRead, HasInteger, Primitive, Tag, Data, First
    <2>4. accepted \in BOOLEAN
      OBVIOUS
    <2> HIDE DEF accepted, result
    <2>. QED
      BY <2>1, <2>2, <2>3, <2>4, Parses
  <1>8. CASE ParseBitString
    <2> DEFINE accepted == /\ Primitive(Tag.bitString)
                           /\ Data # <<>> /\ First <= 7
                           /\ Len(Data) = 1 => First = 0
                           /\ UnusedAreZero(Data)
               result == [bytes |-> Tail(Data), unused |-> First]
    <2>1. Parsing("bits", accepted, result)
      BY <1>8 DEF ParseBitString
    <2>2. accepted => ReadAs("bits", rules, node, result)
      BY <1>0 DEF ReadAs, ContentRead, Primitive, Tag, Data, First
    <2>3. ~accepted => \A v : ~ReadAs("bits", rules, node, v)
      BY <1>0 DEF ReadAs, ContentRead, Primitive, Tag, Data, First
    <2>4. accepted \in BOOLEAN
      OBVIOUS
    <2> HIDE DEF accepted, result
    <2>. QED
      BY <2>1, <2>2, <2>3, <2>4, Parses
  <1>9. CASE ParseOid
    <2> DEFINE accepted == Primitive(Tag.oid) /\ OidAccepted(Data)
               result == OidScan(Data)[Len(Data)].oid
    <2>1. Parsing("oid", accepted, result)
      BY <1>9 DEF ParseOid
    <2>2. accepted => ReadAs("oid", rules, node, result)
      BY <1>0 DEF ReadAs, ContentRead, Primitive, Tag, Data
    <2>3. ~accepted => \A v : ~ReadAs("oid", rules, node, v)
      BY <1>0 DEF ReadAs, ContentRead, Primitive, Tag, Data
    <2>4. accepted \in BOOLEAN
      OBVIOUS
    <2> HIDE DEF accepted, result
    <2>. QED
      BY <2>1, <2>2, <2>3, <2>4, Parses
  <1>10. CASE SerializeBoolean
    <2>1. Serializing("boolean", TRUE, Id(TagOf["boolean"]), <<IF value THEN 255 ELSE 0>>)
      BY <1>0, <1>10 DEF SerializeBoolean, Tag
    <2>2. ContentWritten("boolean", value, <<IF value THEN 255 ELSE 0>>)
      BY DEF ContentWritten
    <2>. QED
      BY <2>1, <2>2, Writes
  <1>11. CASE SerializeNull
    <2>1. Serializing("null", TRUE, Id(TagOf["null"]), <<>>)
      BY <1>0, <1>11 DEF SerializeNull, Tag
    <2>2. ContentWritten("null", value, <<>>)
      BY DEF ContentWritten
    <2>. QED
      BY <2>1, <2>2, Writes
  <1>12. CASE SerializeOctetString
    <2>1. Serializing("octets", TRUE, Id(TagOf["octets"]), value)
      BY <1>0, <1>12 DEF SerializeOctetString, Tag
    <2>2. ContentWritten("octets", value, value)
      BY DEF ContentWritten
    <2>. QED
      BY <2>1, <2>2, Writes
  <1>13. CASE SerializeString
    <2>1. Serializing("string", TRUE, Id(TagOf["string"]), value)
      BY <1>0, <1>13 DEF SerializeString, Tag
    <2>2. ContentWritten("string", value, value)
      BY DEF ContentWritten
    <2>. QED
      BY <2>1, <2>2, Writes
  <1>14. CASE SerializeIntegerBytes
    <2>1. Serializing("integer", TRUE, Id(TagOf["integer"]), value.bytes)
      BY <1>0, <1>14 DEF SerializeIntegerBytes, Tag
    <2>2. ContentWritten("integer", value, value.bytes)
      BY DEF ContentWritten
    <2>. QED
      BY <2>1, <2>2, Writes
  <1>15. CASE SerializeInt64
    <2>1. Serializing("int64", TRUE, Id(TagOf["int64"]), Int64Content(value))
      BY <1>0, <1>15 DEF SerializeInt64, Tag, Int64Content
    <2>2. ContentWritten("int64", value, Int64Content(value))
      BY DEF ContentWritten
    <2>. QED
      BY <2>1, <2>2, Writes
  <1>16. CASE SerializeUint64
    <2>1. Serializing("uint64", TRUE, Id(TagOf["uint64"]), Magnitude(value))
      BY <1>0, <1>16 DEF SerializeUint64, Tag
    <2>2. ContentWritten("uint64", value, Magnitude(value))
      BY DEF ContentWritten
    <2>. QED
      BY <2>1, <2>2, Writes
  <1>17. CASE SerializeBitString
    <2> DEFINE content == <<value.unused>> \o value.bytes
    <2>1. Serializing("bits", TRUE, Id(TagOf["bits"]), content)
      BY <1>0, <1>17 DEF SerializeBitString, Tag
    <2>2. ContentWritten("bits", value, content)
      BY DEF ContentWritten
    <2> HIDE DEF content
    <2>. QED
      BY <2>1, <2>2, Writes
  <1>18. CASE SerializeOid
    <2> DEFINE content == OidContent(value)
               accepted == /\ Len(value) >= 2
                           /\ value[1] <= 2 /\ (value[1] < 2 => value[2] <= 39)
                           /\ Len(content) <= OidBuffer
    <2>1. Serializing("oid", accepted, Id(TagOf["oid"]), content)
      BY <1>0, <1>18 DEF SerializeOid, Tag
    <2>2. accepted => ContentWritten("oid", value, content)
      BY DEF ContentWritten
    <2>3. accepted \in BOOLEAN
      OBVIOUS
    <2> HIDE DEF accepted, content
    <2>. QED
      BY <2>1, <2>2, <2>3, Writes
  <1>. QED
    BY <1>1, <1>2, <1>3, <1>4, <1>5, <1>6, <1>7, <1>8, <1>9, <1>10, <1>11, <1>12, <1>13,
       <1>14, <1>15, <1>16, <1>17, <1>18 DEF Next

-----------------------------------------------------------------------------
(* The invariant *)

Phases == {"received", "chosen", "parsed", "sent", "rejected", "refused"}

Typed ==
  /\ rules \in {"BER", "DER"} /\ phase \in Phases
  /\ phase \in {"received", "parsed", "sent", "rejected"} => node \in NodeType
  /\ phase \in {"chosen", "parsed", "sent"} => IsValue(type, value)

(* The last step's parser or serializer tells of the node and the value.   *)
Related ==
  /\ phase = "parsed" => ReadAs(type, rules, node, value)
  /\ phase = "rejected" => \A v : ~ReadAs(type, rules, node, v)
  /\ phase = "sent" => WrittenAs(type, value, node)

Returned ==
  /\ phase \in {"received", "chosen"} => carried = <<>>
  /\ phase = "sent" => carried = <<value>>
  /\ phase \in {"parsed", "rejected"} /\ carried # <<>> /\ (type = "oid" => Representable(carried[1])) =>
       phase = "parsed" /\ value = carried[1]

Forwarded ==
  arrived # <<>> =>
    /\ phase # "chosen" /\ arrived[1] \in NodeType
    /\ phase = "received" => node = arrived[1]
    /\ phase \in {"parsed", "sent"} => ReadAs(type, rules, arrived[1], value)

CodecInv == Typed /\ Related /\ Returned /\ Forwarded

(* A node that was written for a value is read as that value.              *)
LEMMA SentIsRead ==
  ASSUME NEW v, NEW n, n \in NodeType, IsValue(type, v), WrittenAs(type, v, n),
         type = "oid" => Representable(v)
  PROVE  ReadAs(type, rules, n, v)
  <1>1. ContentWritten(type, v, n.data) /\ n = [id |-> Id(TagOf[type]), constructed |-> FALSE, data |-> n.data]
    BY DEF WrittenAs
  <1>2. ContentRead(type, rules, n.data, v)
    BY <1>1, WrittenIsRead
  <1>3. ~n.constructed /\ n.id = Id(TagOf[type])
    BY <1>1
  <1>. QED
    BY <1>2, <1>3 DEF ReadAs, IdentifierEqual

(* The invariant holds initially.                                          *)
LEMMA CodecStart ==
  ASSUME Init
  PROVE  CodecInv
  <1>1. rules \in {"BER", "DER"} /\ carried = <<>> /\ type \in DOMAIN Values
    BY DEF Init
  <1>2. CASE phase = "received" /\ node \in Nodes /\ value = <<>> /\ arrived = <<node>>
    <2>1. node \in NodeType
      BY <1>2, Asn1TypesAssumption DEF NodeType
    <2>2. arrived[1] = node
      BY <1>2
    <2>. QED
      BY <1>1, <1>2, <2>1, <2>2 DEF CodecInv, Typed, Phases, Related, Returned, Forwarded
  <1>3. CASE phase = "chosen" /\ value \in Values[type] /\ node = <<>> /\ arrived = <<>>
    <2>1. IsValue(type, value)
      BY <1>1, <1>3, ValuesAssumption
    <2>. QED
      BY <1>1, <1>3, <2>1 DEF CodecInv, Typed, Phases, Related, Returned, Forwarded
  <1>. QED
    BY <1>2, <1>3 DEF Init

(* What was written and is read again is unchanged.                        *)
LEMMA Reread ==
  ASSUME CodecInv, phase = "sent", NEW v, ReadAs(type, rules, node, v),
         type = "oid" => Representable(value)
  PROVE  v = value
  <1>1. ReadAs(type, rules, node, value)
    BY SentIsRead DEF CodecInv, Typed, Related
  <1>. QED
    BY <1>1, ReadOnce DEF ReadAs

(* A value that arrived can be represented.                                *)
LEMMA ArrivedIsRepresentable ==
  ASSUME CodecInv, phase = "sent", arrived # <<>>
  PROVE  /\ Data = arrived[1].data \/ ((type \in {"uint64", "oid"} \/ rules = "BER") /\ Len(Data) <= Len(arrived[1].data))
         /\ type = "oid" => Representable(value)
  <1>1. /\ arrived[1].data \in Seq(Octet) /\ ContentRead(type, rules, arrived[1].data, value)
        /\ rules \in {"BER", "DER"} /\ ContentWritten(type, value, Data)
    BY DEF CodecInv, Typed, Related, Forwarded, NodeType, ReadAs, WrittenAs, Data
  <1> DEFINE a == arrived[1].data
             d == Data
  <1>2. a \in Seq(Octet) /\ ContentRead(type, rules, a, value) /\ rules \in {"BER", "DER"}
        /\ ContentWritten(type, value, d)
    BY <1>1
  <1> HIDE DEF a, d
  <1>3. /\ d = a \/ ((type \in {"uint64", "oid"} \/ rules = "BER") /\ Len(d) <= Len(a))
        /\ type = "oid" => Representable(value)
    BY <1>2, ReadIsWritten
  <1>. QED
    BY <1>3 DEF a, d

(* Reading a node preserves the invariant.                                 *)
LEMMA ParseKeeps ==
  ASSUME CodecInv, ParseStep
  PROVE  CodecInv'
  <1>1. /\ phase \in {"received", "sent"} /\ node \in NodeType /\ rules \in {"BER", "DER"}
        /\ type' = type /\ rules' = rules /\ node' = node /\ arrived' = arrived /\ carried' = carried
    BY DEF CodecInv, Typed, ParseStep
  <1>2. CASE ReadAs(type, rules, node, value') /\ phase' = "parsed"
    <2>1. IsValue(type, value')
      BY <1>1, <1>2, ReadIsValue DEF ReadAs, NodeType
    <2>2. Typed'
      BY <1>1, <1>2, <2>1 DEF Typed, Phases
    <2>3. Related'
      BY <1>1, <1>2 DEF Related
    <2>4. phase = "sent" /\ (type = "oid" => Representable(value)) => value' = value
      BY <1>2, Reread
    <2>5. Returned'
      <3>1. phase = "received" => carried = <<>>
        BY DEF CodecInv, Returned
      <3>2. phase = "sent" => carried[1] = value
        BY DEF CodecInv, Returned
      <3>. QED
        BY <1>1, <1>2, <2>4, <3>1, <3>2 DEF Returned
    <2>6. Forwarded'
      <3>1. ASSUME arrived # <<>>
            PROVE  arrived[1] \in NodeType /\ ReadAs(type, rules, arrived[1], value')
        <4>1. CASE phase = "received"
          BY <1>2, <3>1, <4>1 DEF CodecInv, Forwarded
        <4>2. CASE phase = "sent"
          <5>1. value' = value
            BY <2>4, <3>1, <4>2, ArrivedIsRepresentable
          <5>. QED
            BY <3>1, <4>2, <5>1 DEF CodecInv, Forwarded
        <4>. QED
          BY <1>1, <4>1, <4>2
      <3>. QED
        BY <1>1, <1>2, <3>1 DEF Forwarded
    <2>. QED
      BY <2>2, <2>3, <2>5, <2>6 DEF CodecInv
  <1>3. CASE (\A v : ~ReadAs(type, rules, node, v)) /\ phase' = "rejected" /\ value' = value
    <2>1. Typed'
      BY <1>1, <1>3 DEF Typed, Phases
    <2>2. Related'
      BY <1>1, <1>3 DEF Related
    <2>3. phase = "sent" => ~(type = "oid" => Representable(value))
      BY <1>1, <1>3, SentIsRead DEF CodecInv, Typed, Related
    <2>4. Returned'
      <3>1. phase = "received" => carried = <<>>
        BY DEF CodecInv, Returned
      <3>2. phase = "sent" => carried[1] = value
        BY DEF CodecInv, Returned
      <3>. QED
        BY <1>1, <1>3, <2>3, <3>1, <3>2 DEF Returned
    <2>5. Forwarded'
      BY <1>1, <1>3 DEF CodecInv, Forwarded
    <2>. QED
      BY <2>1, <2>2, <2>4, <2>5 DEF CodecInv
  <1>. QED
    BY <1>2, <1>3 DEF ParseStep

(* Writing a value preserves the invariant.                                *)
LEMMA WriteKeeps ==
  ASSUME CodecInv, WriteStep
  PROVE  CodecInv'
  <1>1. /\ phase \in {"chosen", "parsed"} /\ IsValue(type, value) /\ rules \in {"BER", "DER"}
        /\ type' = type /\ rules' = rules /\ value' = value /\ arrived' = arrived
    BY DEF CodecInv, Typed, WriteStep
  <1>2. CASE WrittenAs(type, value, node') /\ phase' = "sent" /\ carried' = <<value>>
    <2>1. ContentWritten(type, value, node'.data)
          /\ node' = [id |-> Id(TagOf[type]), constructed |-> FALSE, data |-> node'.data]
      BY <1>2 DEF WrittenAs
    <2>2. type \in {"boolean", "null", "octets", "string", "integer", "int64", "uint64", "bits", "oid"}
      BY <2>1 DEF ContentWritten
    <2>3. TagOf[type] \in Nat
      BY <2>2 DEF TagOf
    <2>4. node'.data \in Seq(Octet)
      BY <1>1, <2>1, WrittenIsRead
    <2>5. Id(TagOf[type]) \in [class : 0 .. 3, tag : Nat]
      BY <2>3 DEF Id
    <2>6. node' \in NodeType
      <3> DEFINE d == node'.data
                 i == Id(TagOf[type])
      <3>1. node' = [id |-> i, constructed |-> FALSE, data |-> d] /\ d \in Seq(Octet)
            /\ i \in [class : 0 .. 3, tag : Nat]
        BY <2>1, <2>4, <2>5
      <3> HIDE DEF d, i
      <3>. QED
        BY <3>1 DEF NodeType
    <2>7. Typed'
      BY <1>1, <1>2, <2>6 DEF Typed, Phases
    <2>8. Related'
      BY <1>1, <1>2 DEF Related
    <2>9. Returned'
      BY <1>1, <1>2 DEF Returned
    <2>10. Forwarded'
      BY <1>1, <1>2 DEF CodecInv, Forwarded
    <2>. QED
      BY <2>7, <2>8, <2>9, <2>10 DEF CodecInv
  <1>3. CASE phase' = "refused" /\ UNCHANGED <<node, carried>>
    BY <1>1, <1>3 DEF CodecInv, Typed, Phases, Related, Returned, Forwarded
  <1>. QED
    BY <1>2, <1>3 DEF WriteStep

(* The node, the value, what was sent and what was received are related    *)
(* throughout a caller's use of the codecs.                                *)
THEOREM CodecInvariant == Spec => []CodecInv
  <1>1. Init => CodecInv
    BY CodecStart
  <1>2. CodecInv /\ [Next]_vars => CodecInv'
    <2> SUFFICES ASSUME CodecInv, [Next]_vars
                 PROVE  CodecInv'
      OBVIOUS
    <2>1. CASE Next
      BY <2>1, NextSteps, ParseKeeps, WriteKeeps
    <2>2. CASE UNCHANGED vars
      BY <2>2 DEF vars, CodecInv, Typed, Related, Returned, Forwarded
    <2>. QED
      BY <2>1, <2>2
  <1>. QED
    BY <1>1, <1>2, PTL DEF Spec

(* What asn1_serialize_* writes, asn1_parse_* accepts and reads as the value *)
(* that was written.                                                       *)
THEOREM WrittenReturns == Spec => []RoundTrip
  <1>1. CodecInv => RoundTrip
    BY DEF CodecInv, Returned, RoundTrip, Parsed
  <1>. QED
    BY <1>1, CodecInvariant, PTL

(* A received value is sent on as it was received, or in a form that is no *)
(* longer: what asn1_parse_* makes of a node, asn1_serialize_* turns back. *)
THEOREM ForwardedUnchanged == Spec => []Canonical
  <1>1. CodecInv => Canonical
    BY ArrivedIsRepresentable DEF Canonical
  <1>. QED
    BY <1>1, CodecInvariant, PTL

(* The parsers of INTEGER return the number that the octets denote in two's *)
(* complement, and refuse no number that their type holds in its fewest    *)
(* octets, nor, for uint64_t, in any of up to a word and one.              *)
THEOREM NumbersAreRead == Spec => []ReadsTheNumber
  <1>1. ASSUME CodecInv, Parsed, type = "int64"
        PROVE  Denotes(Data, value) /\ HeldBy(type, value)
    <2>1. Data \in Seq(Octet) /\ ContentRead("int64", rules, Data, value)
      BY <1>1 DEF CodecInv, Typed, Related, Parsed, ReadAs, NodeType, Data
    <2> DEFINE d == Data
    <2> HIDE DEF d
    <2>2. d \in Seq(Octet) /\ d # <<>> /\ Len(d) <= IntOctets /\ Minimal(d) /\ value = Signed(d)
      BY <2>1 DEF ContentRead, d
    <2>3. value \in Int64Range /\ IsShortest(d, value)
      BY <2>2, Int64Read
    <2>4. value \in Int
      BY <2>3, WordSize DEF Int64Range
    <2>5. d = BigEndian(value, Len(d)) /\ Fits(value, Len(d)) /\ Len(d) \in 1 .. IntOctets + 1
      BY <2>3, <2>4, ShortestIsRead
    <2>6. Denotes(d, value)
      BY <2>4, <2>5, SpelledDenotes
    <2>. QED
      BY <1>1, <2>3, <2>6 DEF d, Int64Range, HeldBy
  <1>2. ASSUME CodecInv, Parsed, type = "uint64"
        PROVE  Denotes(Data, value) /\ HeldBy(type, value)
    <2>1. Data \in Seq(Octet) /\ ContentRead("uint64", rules, Data, value)
      BY <1>2 DEF CodecInv, Typed, Related, Parsed, ReadAs, NodeType, Data
    <2> DEFINE d == Data
    <2> HIDE DEF d
    <2>2. d \in Seq(Octet) /\ d # <<>> /\ d[1] < 128 /\ FitsUnsigned(d) /\ value = Unsigned(d) % 256 ^ IntOctets
      BY <2>1 DEF ContentRead, d
    <2>3. /\ value \in 0 .. 256 ^ IntOctets - 1
          /\ d = BigEndian(value, Len(d)) /\ Fits(value, Len(d)) /\ Len(d) \in 1 .. IntOctets + 1
      BY <2>2, Uint64Read
    <2>4. value \in Int
      BY <2>3
    <2>5. Denotes(d, value)
      BY <2>3, <2>4, SpelledDenotes
    <2>. QED
      BY <1>2, <2>3, <2>5 DEF d, HeldBy
  <1>3. ASSUME CodecInv, Parsed, type = "integer"
        PROVE  value.negative <=> Signed(Data) < 0
    <2>1. Data \in Seq(Octet) /\ ContentRead("integer", rules, Data, value)
      BY <1>3 DEF CodecInv, Typed, Related, Parsed, ReadAs, NodeType, Data
    <2>2. Data # <<>> /\ (value.negative <=> Data[1] >= 128)
      BY <2>1 DEF ContentRead
    <2>. QED
      BY <2>1, <2>2, SignOfOctets
  <1>4. ASSUME CodecInv, type = "uint64", phase = "rejected", HasInteger
        PROVE  \/ ~HeldBy(type, Signed(Data))
               \/ ~Minimal(Data) /\ Len(Data) > IntOctets + 1
    <2>1. /\ Data \in Seq(Octet) /\ Data # <<>> /\ ~node.constructed /\ IdentifierEqual(node.id, Id(2))
          /\ \A v : ~ReadAs("uint64", rules, node, v)
      BY <1>4 DEF CodecInv, Typed, Related, NodeType, Data, HasInteger, Primitive, Tag
    <2>2. TagOf["uint64"] = 2
      BY DEF TagOf
    <2>3. ~ContentRead("uint64", rules, Data, Unsigned(Data) % 256 ^ IntOctets)
      BY <2>1, <2>2 DEF ReadAs, Data
    <2>4. ~(Data[1] < 128 /\ FitsUnsigned(Data))
      <3>1. ASSUME NEW d, NEW u, d # <<>>, d[1] < 128, FitsUnsigned(d), u = Unsigned(d) % 256 ^ IntOctets
            PROVE  ContentRead("uint64", rules, d, u)
        BY ONLY <3>1 DEF ContentRead
      <3>. QED
        BY <2>1, <2>3, <3>1
    <2>5. Len(Data) \in Nat
      BY <2>1, OctetsRange
    <2>6. Len(Data) <= IntOctets + 1 \/ Len(Data) > IntOctets + 1
      BY <2>5, Asn1TypesAssumption
    <2>7. HeldBy(type, Signed(Data)) <=> Signed(Data) \in 0 .. 256 ^ IntOctets - 1
      BY <1>4 DEF HeldBy
    <2>. QED
      BY <2>1, <2>4, <2>6, <2>7, Uint64Refused, Uint64TooLong
  <1>5. ASSUME CodecInv, type = "int64", phase = "rejected", HasInteger
        PROVE  ~HeldBy(type, Signed(Data)) \/ ~Minimal(Data)
    <2>1. /\ Data \in Seq(Octet) /\ Data # <<>> /\ ~node.constructed /\ IdentifierEqual(node.id, Id(2))
          /\ \A v : ~ReadAs("int64", rules, node, v)
      BY <1>5 DEF CodecInv, Typed, Related, NodeType, Data, HasInteger, Primitive, Tag
    <2>2. TagOf["int64"] = 2
      BY DEF TagOf
    <2>3. ~ContentRead("int64", rules, Data, Signed(Data))
      BY <2>1, <2>2 DEF ReadAs, Data
    <2>4. ~(Len(Data) <= IntOctets /\ Minimal(Data))
      BY <2>1, <2>3 DEF ContentRead
    <2>5. HeldBy(type, Signed(Data)) <=> Signed(Data) \in Int64Range
      BY <1>5 DEF HeldBy, Int64Range
    <2>. QED
      BY <2>1, <2>4, <2>5, Int64Refused
  <1>6. CodecInv => ReadsTheNumber
    <2>1. ASSUME CodecInv, type \in {"int64", "uint64"}, Parsed
          PROVE  Denotes(Data, value) /\ HeldBy(type, value)
      BY <1>1, <1>2, <2>1
    <2>2. ASSUME CodecInv, type \in {"int64", "uint64"}, phase = "rejected", HasInteger
          PROVE  \/ ~HeldBy(type, Signed(Data))
                 \/ ~Minimal(Data) /\ (type = "uint64" => Len(Data) > IntOctets + 1)
      BY <1>4, <1>5, <2>2
    <2>. QED
      BY <1>3, <2>1, <2>2 DEF ReadsTheNumber
  <1>. QED
    BY <1>6, CodecInvariant, PTL

(* asn1_bit_string_get and the bit count agree on where the bits end.      *)
THEOREM AccessorsAgree == Spec => []BitsAgree
  <1>1. ASSUME CodecInv, type = "bits", Parsed
        PROVE  value \in [bytes : Seq(Octet), unused : 0 .. 7] /\ UnusedClear(value.bytes, value.unused)
    BY <1>1 DEF CodecInv, Typed, Parsed, IsValue
  <1>2. CodecInv => BitsAgree
    BY <1>1, BitsAreClear DEF BitsAgree
  <1>. QED
    BY <1>2, CodecInvariant, PTL

(* asn1_oid_to_string stays within its buffer, and tells by what it returns *)
(* whether the text is whole.                                              *)
THEOREM TextIsWhole == Spec => []TextFits
  <1>1. ASSUME CodecInv, type = "oid", Parsed \/ phase = "chosen"
        PROVE  value \in Seq(Component)
    BY <1>1 DEF CodecInv, Typed, Parsed, IsValue, Component
  <1>2. TextSizes \subseteq Nat
    BY Asn1TypesAssumption
  <1>3. CodecInv => TextFits
    BY <1>1, <1>2, TextIsCut DEF TextFits
  <1>. QED
    BY <1>3, CodecInvariant, PTL
=============================================================================
