------------------------- MODULE DerSerializerProofs -------------------------
(***************************************************************************)
(* The serializer stays within its buffer, its callers' markers stay valid *)
(* and it implements DocumentBuilder, for every element, buffer size and   *)
(* nesting.                                                                *)
(***************************************************************************)
EXTENDS DerSerializer, Induction, SequenceTheorems

IInv == TypeOK /\ Placeholders

-----------------------------------------------------------------------------
(* Identifier and length octets *)

LEMMA DigitCountRange ==
  ASSUME NEW n \in Nat, NEW b \in Nat, NEW max \in Nat
  PROVE  DigitCount(n, b, max) \in 0 .. max
  <1> DEFINE S == {i \in 0 .. max - 1 : n \div b ^ i > 0}
  <1>1. IsFiniteSet(0 .. max - 1) /\ Cardinality(0 .. max - 1) <= max
    <2>1. 0 \in Int /\ max - 1 \in Int
      OBVIOUS
    <2>2. /\ IsFiniteSet(0 .. max - 1)
          /\ Cardinality(0 .. max - 1) = IF 0 > max - 1 THEN 0 ELSE max - 1 - 0 + 1
      BY <2>1, FS_Interval
    <2>. QED
      BY <2>2
  <1>2. S \in SUBSET (0 .. max - 1)
    OBVIOUS
  <1>3. IsFiniteSet(S) /\ Cardinality(S) <= Cardinality(0 .. max - 1)
    BY <1>1, <1>2, FS_Subset
  <1>4. Cardinality(S) \in Nat /\ Cardinality(0 .. max - 1) \in Nat
    BY <1>1, <1>3, FS_CardinalityType
  <1> HIDE DEF S
  <1>5. Cardinality(S) \in 0 .. max
    BY <1>1, <1>3, <1>4
  <1>. QED
    BY <1>5 DEF S, DigitCount

LEMMA DigitRange ==
  ASSUME NEW n \in Nat, NEW b \in Nat \ {0}, NEW k \in Nat, NEW i \in Nat,
         b ^ (k - i) \in Nat \ {0}
  PROVE  Digit(n, b, k, i) \in 0 .. b - 1
  <1> DEFINE p == b ^ (k - i)
             q == n \div p
  <1>1. p \in Nat \ {0}
    OBVIOUS
  <1> HIDE DEF p
  <1>2. q \in Int
    BY <1>1
  <1> HIDE DEF q
  <1>3. q % b \in 0 .. b - 1
    BY <1>2
  <1>. QED
    BY <1>3 DEF p, q, Digit

LEMMA LengthOctets ==
  ASSUME NEW n \in Nat
  PROVE  EncodeLength(n) \in Seq(Octets) /\ Len(EncodeLength(n)) >= 1
  <1> DEFINE k == DigitCount(n, 256, SizeOctets)
             f == [i \in 1 .. k + 1 |-> IF i = 1 THEN 128 + k ELSE Digit(n, 256, k, i - 1)]
  <1>1. CASE n <= 127
    <2>1. EncodeLength(n) = <<n>>
      BY <1>1 DEF EncodeLength
    <2>2. n \in Octets
      BY <1>1 DEF Octets
    <2>. QED
      BY <2>1, <2>2
  <1>2. CASE n > 127
    <2>1. EncodeLength(n) = f
      BY <1>2 DEF EncodeLength
    <2>2. k \in 0 .. SizeOctets
      <3>1. 256 \in Nat /\ SizeOctets \in Nat
        BY DerHeaderAssumption
      <3>. QED
        BY <3>1, DigitCountRange
    <2> HIDE DEF k
    <2>3. \A i \in 2 .. k + 1 : Digit(n, 256, k, i - 1) \in 0 .. 255
      <3>1. SUFFICES ASSUME NEW i \in 2 .. k + 1
                     PROVE  Digit(n, 256, k, i - 1) \in 0 .. 255
        OBVIOUS
      <3>2. k \in Nat /\ i - 1 \in Nat /\ k - (i - 1) \in 0 .. SizeOctets
        BY <2>2, DerHeaderAssumption
      <3>3. 256 ^ (k - (i - 1)) \in Nat \ {0}
        BY <3>2, PowersArePositive
      <3>4. \A j \in Nat : 256 ^ (k - j) \in Nat \ {0} => Digit(n, 256, k, j) \in 0 .. 256 - 1
        <4>1. 256 \in Nat \ {0}
          OBVIOUS
        <4>. QED
          BY <3>2, <4>1, DigitRange, ZenonT(60)
      <3>. QED
        BY <3>2, <3>3, <3>4
    <2>4. \A i \in 1 .. k + 1 : f[i] \in Octets
      BY <2>2, <2>3, DerHeaderAssumption DEF Octets
    <2>5. k + 1 \in Nat /\ k + 1 >= 1 /\ f = [i \in 1 .. k + 1 |-> f[i]]
      BY <2>2, DerHeaderAssumption
    <2>6. f \in Seq(Octets) /\ Len(f) = k + 1
      <3> HIDE DEF f
      <3>. QED
        BY <2>4, <2>5
    <2>. QED
      BY <2>1, <2>5, <2>6
  <1>. QED
    BY <1>1, <1>2

LEMMA IdentifierOctets ==
  ASSUME NEW id \in Ids, NEW c \in BOOLEAN
  PROVE  EncodeIdentifier(id, c) \in Seq(Octets) /\ Len(EncodeIdentifier(id, c)) >= 1
  <1> DEFINE first == id.class * 64 + (IF c THEN 32 ELSE 0)
             k == DigitCount(id.tag, 128, TagOctets)
             d(i) == Digit(id.tag, 128, k, i - 1)
             f == [i \in 1 .. k + 1 |-> IF i = 1 THEN first + 31
                                        ELSE d(i) + (IF i <= k THEN 128 ELSE 0)]
  <1>0. id.tag \in Nat /\ first \in 0 .. 224
    BY DEF Ids
  <1>1. CASE id.tag < 31
    <2>1. EncodeIdentifier(id, c) = <<first + id.tag>>
      BY <1>1 DEF EncodeIdentifier
    <2>2. first + id.tag \in Octets
      BY <1>0, <1>1 DEF Octets
    <2>. QED
      BY <2>1, <2>2
  <1>2. CASE ~(id.tag < 31)
    <2>1. EncodeIdentifier(id, c) = f
      BY <1>2 DEF EncodeIdentifier
    <2>2. k \in 0 .. TagOctets
      BY <1>0, DigitCountRange, DerHeaderAssumption
    <2> HIDE DEF k
    <2>3. \A i \in 2 .. k + 1 : d(i) \in 0 .. 127
      <3>1. SUFFICES ASSUME NEW i \in 2 .. k + 1
                     PROVE  d(i) \in 0 .. 127
        OBVIOUS
      <3>2. k \in Nat /\ i - 1 \in Nat /\ k - (i - 1) \in 0 .. TagOctets
        BY <2>2, DerHeaderAssumption
      <3>3. 128 ^ (k - (i - 1)) \in Nat \ {0}
        BY <3>2, PowersArePositive
      <3>4. \A j \in Nat : 128 ^ (k - j) \in Nat \ {0} => Digit(id.tag, 128, k, j) \in 0 .. 128 - 1
        <4>1. 128 \in Nat \ {0}
          OBVIOUS
        <4>. QED
          BY <1>0, <3>2, <4>1, DigitRange, ZenonT(60)
      <3>. QED
        BY <3>2, <3>3, <3>4
    <2> HIDE DEF d, first
    <2>4. \A i \in 1 .. k + 1 : f[i] \in Octets
      <3>1. ASSUME NEW i \in 1 .. k + 1, i # 1
            PROVE  i \in 2 .. k + 1
        BY <2>2, <3>1, DerHeaderAssumption
      <3>. QED
        BY SMTT(30), <1>0, <2>2, <2>3, <3>1, DerHeaderAssumption DEF Octets
    <2>5. k + 1 \in Nat /\ k + 1 >= 1 /\ f = [i \in 1 .. k + 1 |-> f[i]]
      BY <2>2, DerHeaderAssumption
    <2>6. f \in Seq(Octets) /\ Len(f) = k + 1
      <3> HIDE DEF f
      <3>. QED
        BY <2>4, <2>5
    <2>. QED
      BY <2>1, <2>5, <2>6
  <1>. QED
    BY <1>1, <1>2

LEMMA PlaceholderOctets == Placeholder \in Seq(Octets) /\ Len(Placeholder) = Reserved
  <1>1. Reserved \in Nat /\ \A i \in 1 .. Reserved : Placeholder[i] \in Octets
    BY DerSerializerAssumption DEF Placeholder, Octets
  <1>2. Placeholder = [i \in 1 .. Reserved |-> Placeholder[i]]
    BY DEF Placeholder
  <1>. QED
    BY <1>1, <1>2

LEMMA PartialFits ==
  ASSUME TypeOK, NEW a \in Seq(Octets), NEW b \in Seq(Octets)
  PROVE  Partial(a, b) \in Seq(Octets) /\ Len(out) + Len(Partial(a, b)) <= capacity
  <1>1. a \o b \in Seq(Octets) /\ <<>> \in Seq(Octets) /\ Len(<<>>) = 0
    BY ConcatProperties
  <1>2. Len(out) \in Nat /\ Len(out) <= capacity /\ capacity \in Nat
    BY DEF TypeOK
  <1>. QED
    BY <1>1, <1>2 DEF Partial, Fits

-----------------------------------------------------------------------------
(* Steps *)

(* Writing leaves what was written before.                                 *)
LEMMA Written ==
  ASSUME TypeOK, NEW x \in Seq(Octets), out' = out \o x
  PROVE  /\ out' \in Seq(Octets) /\ Len(out') = Len(out) + Len(x)
         /\ Len(out) \in Nat /\ Len(x) \in Nat
         /\ \A i \in 1 .. Len(out) : out'[i] = out[i]
         /\ \A i \in 1 .. Len(x) : out'[Len(out) + i] = x[i]
  <1>1. out \in Seq(Octets) /\ Len(out) \in Nat /\ Len(x) \in Nat
    BY DEF TypeOK
  <1>2. /\ out \o x \in Seq(Octets) /\ Len(out \o x) = Len(out) + Len(x)
        /\ \A i \in 1 .. Len(out) + Len(x) :
             (out \o x)[i] = IF i <= Len(out) THEN out[i] ELSE x[i - Len(out)]
    BY <1>1, ConcatProperties
  <1>3. \A i \in 1 .. Len(x) :
          Len(out) + i \in 1 .. Len(out) + Len(x) /\ ~(Len(out) + i <= Len(out)) /\ Len(out) + i - Len(out) = i
    BY <1>1
  <1>4. \A i \in 1 .. Len(out) : i \in 1 .. Len(out) + Len(x) /\ i <= Len(out)
    BY <1>1
  <1>. QED
    BY <1>1, <1>2, <1>3, <1>4

(* A failed call leaves no marker.                                         *)
LEMMA FailStep ==
  ASSUME IInv, Calling, Fail, out' \in Seq(Octets), Len(out') <= capacity
  PROVE  IInv'
  <1>1. TypeOK'
    BY DerSerializerAssumption DEF IInv, TypeOK, Calling, Fail
  <1>. QED
    BY <1>1 DEF Fail, IInv, Placeholders

LEMMA AppendStep ==
  ASSUME IInv, Calling, NEW x \in Seq(Octets), Fits(x), out' = out \o x, UNCHANGED <<markers, err>>
  PROVE  IInv'
  <1>1. TypeOK /\ Placeholders
    BY DEF IInv
  <1>2. /\ out' \in Seq(Octets) /\ Len(out') = Len(out) + Len(x)
        /\ Len(out) \in Nat /\ Len(x) \in Nat
        /\ \A i \in 1 .. Len(out) : out'[i] = out[i]
    BY <1>1, Written
  <1>3. TypeOK'
    BY <1>1, <1>2, DerSerializerAssumption DEF TypeOK, Calling, Fits
  <1>4. ASSUME NEW k \in DOMAIN markers
        PROVE  /\ markers[k] > 0
               /\ markers[k] + Reserved <= Len(out')
               /\ \A i \in 1 .. Reserved : out'[markers[k] + i] = Placeholder[i]
               /\ \A j \in 1 .. k - 1 : markers[j] + Reserved < markers[k]
    <2>1. /\ markers[k] \in Nat /\ markers[k] > 0 /\ markers[k] + Reserved <= Len(out)
          /\ \A i \in 1 .. Reserved : out[markers[k] + i] = Placeholder[i]
          /\ \A j \in 1 .. k - 1 : markers[j] + Reserved < markers[k]
      BY <1>1 DEF TypeOK, Placeholders
    <2>2. \A i \in 1 .. Reserved : markers[k] + i \in 1 .. Len(out)
      BY <1>2, <2>1, DerSerializerAssumption
    <2>3. markers[k] + Reserved <= Len(out')
      BY <1>2, <2>1, DerSerializerAssumption
    <2>. QED
      BY <1>2, <2>1, <2>2, <2>3
  <1>5. Placeholders'
    BY <1>4 DEF Placeholders
  <1>. QED
    BY <1>3, <1>5 DEF IInv

LEMMA PrimitiveStep ==
  ASSUME IInv, NEW e \in Primitives, SerializePrimitive(e)
  PROVE  /\ IInv'
         /\ \E x \in Seq(Octets) : out' = out \o x
  <1> DEFINE id  == EncodeIdentifier(e.id, FALSE)
             len == EncodeLength(Len(e.value))
             all == id \o len \o e.value
  <1>1. e.id \in Ids /\ e.value \in Seq(Octets) /\ Len(e.value) \in Nat
    BY DerSerializerAssumption
  <1>2. id \in Seq(Octets) /\ len \in Seq(Octets)
    BY <1>1, IdentifierOctets, LengthOctets
  <1>3. all \in Seq(Octets)
    <2>1. id \o len \in Seq(Octets)
      BY <1>2, ConcatProperties
    <2>. QED
      BY <1>1, <2>1, ConcatProperties
  <1>4. Calling /\ TypeOK
    BY DEF SerializePrimitive, IInv
  <1>5. CASE Fits(all) /\ out' = out \o all /\ UNCHANGED <<markers, err>>
    BY <1>3, <1>4, <1>5, AppendStep
  <1>6. CASE out' = out \o Partial(id, len) /\ Fail
    <2>1. Partial(id, len) \in Seq(Octets) /\ Len(out) + Len(Partial(id, len)) <= capacity
      BY <1>2, <1>4, PartialFits
    <2>2. out' \in Seq(Octets) /\ Len(out') <= capacity
      BY <1>4, <1>6, <2>1, Written
    <2>. QED
      BY <1>4, <1>6, <2>1, <2>2, FailStep
  <1>. QED
    BY <1>5, <1>6 DEF SerializePrimitive, Encoding

LEMMA RawStep ==
  ASSUME IInv, NEW octets \in Raws, SerializeRaw(octets)
  PROVE  /\ IInv'
         /\ \E x \in Seq(Octets) : out' = out \o x
  <1>1. octets \in Seq(Octets) /\ <<>> \in Seq(Octets)
    BY DerSerializerAssumption
  <1>2. Calling /\ TypeOK
    BY DEF SerializeRaw, IInv
  <1>3. CASE Fits(octets) /\ out' = out \o octets /\ UNCHANGED <<markers, err>>
    BY <1>1, <1>2, <1>3, AppendStep
  <1>4. CASE UNCHANGED out /\ Fail
    <2>1. out \in Seq(Octets) /\ Len(out) <= capacity /\ out = out \o <<>>
      BY <1>2, ConcatEmptySeq DEF TypeOK
    <2>. QED
      BY <1>1, <1>2, <1>4, <2>1, FailStep
  <1>. QED
    BY <1>3, <1>4 DEF SerializeRaw

LEMMA BeginStep ==
  ASSUME IInv, NEW i \in Containers, ConstructedBegin(i)
  PROVE  /\ IInv'
         /\ \E x \in Seq(Octets) : out' = out \o x
  <1> DEFINE id == EncodeIdentifier(i, TRUE)
             all == id \o Placeholder
  <1>1. /\ id \in Seq(Octets) /\ Len(id) \in Nat /\ Len(id) >= 1
        /\ Placeholder \in Seq(Octets) /\ Len(Placeholder) = Reserved /\ Reserved \in Nat
    <2>1. i \in Ids /\ TRUE \in BOOLEAN /\ Reserved \in Nat
      BY DerSerializerAssumption
    <2>2. id \in Seq(Octets) /\ Len(id) >= 1
      BY <2>1, IdentifierOctets
    <2> HIDE DEF id
    <2>. QED
      BY <2>1, <2>2, PlaceholderOctets
  <1>2. Calling /\ TypeOK /\ Placeholders
    BY DEF ConstructedBegin, IInv
  <1> HIDE DEF id
  <1>3. /\ all \in Seq(Octets) /\ Len(all) = Len(id) + Reserved
        /\ \A j \in 1 .. Reserved : all[Len(id) + j] = Placeholder[j]
    <2>1. /\ all \in Seq(Octets) /\ Len(all) = Len(id) + Reserved
          /\ \A j \in 1 .. Len(id) + Reserved :
               all[j] = IF j <= Len(id) THEN id[j] ELSE Placeholder[j - Len(id)]
      BY <1>1, ConcatProperties
    <2>2. \A j \in 1 .. Reserved : /\ Len(id) + j \in 1 .. Len(id) + Reserved
                                  /\ ~(Len(id) + j <= Len(id)) /\ Len(id) + j - Len(id) = j
      BY <1>1
    <2>3. ASSUME NEW j \in 1 .. Reserved
          PROVE  all[Len(id) + j] = Placeholder[j]
      BY ONLY <2>1, <2>2, <2>3
    <2>. QED
      BY ONLY <2>1, <2>3
  <1> HIDE DEF all
  <1>4. CASE /\ Fits(all) /\ out' = (out \o id) \o Placeholder
             /\ markers' = Append(markers, Marker(id)) /\ UNCHANGED err
    <2>0. out' = out \o all
      <3>1. out \in Seq(Octets)
        BY <1>2 DEF TypeOK
      <3>. QED
        <4>1. (out \o id) \o Placeholder = out \o (id \o Placeholder)
          <5>1. id \in Seq(Octets) /\ Placeholder \in Seq(Octets)
            BY <1>1
          <5>. QED
            BY ONLY <3>1, <5>1, ConcatAssociative, SMTT(30)
        <4>. QED
          BY <1>4, <4>1, ZenonT(60) DEF all
    <2>1. /\ out' \in Seq(Octets) /\ Len(out') = Len(out) + Len(all)
          /\ Len(out) \in Nat
          /\ \A j \in 1 .. Len(out) : out'[j] = out[j]
          /\ \A j \in 1 .. Len(all) : out'[Len(out) + j] = all[j]
      BY <1>2, <1>3, <2>0, Written
    <2> DEFINE m == Len(out) + Len(id)
               n == Len(markers)
    <2>2. /\ markers \in Seq(Nat) /\ n \in Nat /\ DOMAIN markers = 1 .. n
          /\ m \in Nat /\ m > 0 /\ markers' = Append(markers, m)
      BY <1>1, <1>2, <1>4, <2>1 DEF TypeOK, Marker
    <2>3. /\ markers' \in Seq(Nat) /\ DOMAIN markers' = 1 .. n + 1 /\ markers'[n + 1] = m
          /\ \A k \in 1 .. n : markers'[k] = markers[k]
      BY <2>2, AppendProperties
    <2>4. TypeOK'
      <3>1. Len(out') <= capacity
        BY <1>4, <2>1 DEF Fits
      <3>. QED
        BY <1>2, <1>4, <2>1, <2>3, <3>1, DerSerializerAssumption DEF TypeOK, Calling
    <2>5. \A k \in 1 .. n :
            /\ markers[k] \in Nat /\ markers[k] > 0 /\ markers[k] + Reserved <= Len(out)
            /\ \A j \in 1 .. Reserved : out[markers[k] + j] = Placeholder[j]
            /\ \A j \in 1 .. k - 1 : markers[j] + Reserved < markers[k]
      <3>1. \A k \in 1 .. n : markers[k] \in Nat
        BY <2>2, ElementOfSeq
      <3>. QED
        BY <1>2, <2>2, <3>1 DEF Placeholders
    <2>6. ASSUME NEW k \in 1 .. n
          PROVE  /\ markers'[k] > 0
                 /\ markers'[k] + Reserved <= Len(out')
                 /\ \A j \in 1 .. Reserved : out'[markers'[k] + j] = Placeholder[j]
                 /\ \A j \in 1 .. k - 1 : markers'[j] + Reserved < markers'[k]
      <3>1. \A j \in 1 .. Reserved : markers[k] + j \in 1 .. Len(out)
        BY <1>1, <2>1, <2>5
      <3>2. \A j \in 1 .. k - 1 : j \in 1 .. n
        BY <2>2
      <3>3. markers[k] + Reserved <= Len(out')
        BY <1>1, <1>3, <2>1, <2>5
      <3>. QED
        BY <2>1, <2>3, <2>5, <3>1, <3>2, <3>3, ZenonT(60)
    <2>7. /\ markers'[n + 1] > 0
          /\ markers'[n + 1] + Reserved <= Len(out')
          /\ \A j \in 1 .. Reserved : out'[markers'[n + 1] + j] = Placeholder[j]
          /\ \A j \in 1 .. n : markers'[j] + Reserved < markers'[n + 1]
      <3>1. m + Reserved = Len(out')
        BY <1>1, <1>3, <2>1
      <3>2. \A j \in 1 .. Reserved : out'[m + j] = Placeholder[j]
        <4>1. \A j \in 1 .. Reserved : Len(id) + j \in 1 .. Len(all) /\ m + j = Len(out) + (Len(id) + j)
          BY <1>1, <1>3, <2>1
        <4>. QED
          BY <1>3, <2>1, <4>1
      <3>3. \A j \in 1 .. n : markers[j] + Reserved < m
        BY <1>1, <2>1, <2>5
      <3>4. m + Reserved <= Len(out')
        BY <1>1, <2>2, <3>1
      <3> HIDE DEF m
      <3>. QED
        BY <2>2, <2>3, <3>2, <3>3, <3>4
    <2>8. Placeholders'
      <3>1. ASSUME NEW k \in DOMAIN markers'
            PROVE  /\ markers'[k] > 0
                   /\ markers'[k] + Reserved <= Len(out')
                   /\ \A j \in 1 .. Reserved : out'[markers'[k] + j] = Placeholder[j]
                   /\ \A j \in 1 .. k - 1 : markers'[j] + Reserved < markers'[k]
        <4>1. k \in 1 .. n \/ (k = n + 1 /\ k - 1 = n)
          BY <2>2, <2>3
        <4>. QED
          BY <2>6, <2>7, <4>1
      <3>. QED
        BY <3>1 DEF Placeholders, Placeholder
    <2>. QED
      BY <2>0, <1>3, <2>4, <2>8 DEF IInv
  <1>5. CASE out' = out \o Partial(id, <<>>) /\ Fail
    <2>0. <<>> \in Seq(Octets)
      OBVIOUS
    <2>1. /\ Partial(id, <<>>) \in Seq(Octets)
          /\ Len(out) + Len(Partial(id, <<>>)) <= capacity
      BY <1>1, <1>2, <2>0, PartialFits
    <2>2. out' \in Seq(Octets) /\ Len(out') <= capacity
      BY <1>2, <1>5, <2>1, Written
    <2>. QED
      BY <1>2, <1>5, <2>1, <2>2, FailStep
  <1>. QED
    BY <1>4, <1>5 DEF ConstructedBegin, id, all

(* The octets that end replaces are those of the placeholder, and it only  *)
(* moves the content of its own element.                                   *)
LEMMA EndStep ==
  ASSUME IInv, ConstructedEnd
  PROVE  IInv' /\ PrefixKept
  <1> DEFINE n == Len(markers)
             m == Innermost
             c == Len(out) - (m + Reserved)
             length == EncodeLength(c)
             L == Len(length)
  <1>1. /\ Calling /\ TypeOK /\ Placeholders /\ markers # <<>>
        /\ out \in Seq(Octets) /\ Len(out) \in Nat /\ Len(out) <= capacity
        /\ markers \in Seq(Nat) /\ Reserved \in Nat
    BY DerSerializerAssumption DEF ConstructedEnd, IInv, TypeOK
  <1>2. n \in Nat \ {0} /\ DOMAIN markers = 1 .. n
    BY <1>1
  <1>3. \A k \in 1 .. n :
          /\ markers[k] \in Nat /\ markers[k] > 0 /\ markers[k] + Reserved <= Len(out)
          /\ \A i \in 1 .. Reserved : out[markers[k] + i] = Placeholder[i]
          /\ \A j \in 1 .. k - 1 : markers[j] + Reserved < markers[k]
    <2>1. \A k \in 1 .. n : markers[k] \in Nat
      BY <1>1, <1>2, ElementOfSeq
    <2>. QED
      BY <1>1, <1>2, <2>1 DEF Placeholders
  <1>4. /\ m \in Nat /\ m > 0 /\ m + Reserved <= Len(out) /\ c \in Nat
        /\ \A j \in 1 .. n - 1 : markers[j] + Reserved < m
    BY <1>1, <1>2, <1>3 DEF Innermost
  <1> HIDE DEF m
  <1>5. length \in Seq(Octets) /\ L \in Nat /\ L >= 1
    <2>1. length \in Seq(Octets) /\ L >= 1
      <3> HIDE DEF c
      <3>. QED
        BY <1>4, LengthOctets
    <2> HIDE DEF length
    <2>. QED
      BY <2>1
  <1> HIDE DEF length
  <1>6. CASE L <= Reserved /\ out' = Settled(m, length) /\ markers' = SubSeq(markers, 1, n - 1) /\ UNCHANGED err
    <2> DEFINE front == SubSeq(out, 1, m)
               rest  == SubSeq(out, m + Reserved + 1, Len(out))
    <2>1. front \in Seq(Octets) /\ Len(front) = m /\ \A i \in 1 .. m : front[i] = out[i]
      <3>1. \A i \in 1 .. m : out[i] \in Octets
        BY <1>1, <1>4, ElementOfSeq
      <3>. QED
        BY <1>1, <1>4, <3>1, SubSeqProperties
    <2>2. rest \in Seq(Octets) /\ Len(rest) = c
      <3> DEFINE a == m + Reserved + 1
      <3>1. a \in Int /\ Len(out) \in Int /\ \A i \in a .. Len(out) : i \in 1 .. Len(out)
        BY <1>1, <1>4
      <3>2. \A i \in a .. Len(out) : out[i] \in Octets
        BY <1>1, <3>1, ElementOfSeq
      <3>3. c = IF a <= Len(out) THEN Len(out) - a + 1 ELSE 0
        BY <1>1, <1>4
      <3> HIDE DEF a, c
      <3>4. SubSeq(out, a, Len(out)) \in Seq(Octets) /\ Len(SubSeq(out, a, Len(out))) = c
        BY <3>1, <3>2, <3>3, SubSeqProperties
      <3>. QED
        BY <3>4 DEF a
    <2> HIDE DEF front, rest
    <2>3. /\ front \o length \in Seq(Octets) /\ Len(front \o length) = m + L
          /\ \A i \in 1 .. m : (front \o length)[i] = out[i]
      <3>1. /\ front \o length \in Seq(Octets) /\ Len(front \o length) = m + L
            /\ \A i \in 1 .. m + L : (front \o length)[i] = IF i <= m THEN front[i] ELSE length[i - m]
        BY <1>5, <2>1, ConcatProperties
      <3>2. \A i \in 1 .. m : i \in 1 .. m + L /\ i <= m
        BY <1>4, <1>5
      <3>. QED
        BY <2>1, <3>1, <3>2
    <2>4. /\ out' \in Seq(Octets) /\ Len(out') = m + L + c
          /\ \A i \in 1 .. m : out'[i] = out[i]
      <3>1. out' = (front \o length) \o rest
        BY <1>6 DEF Settled, front, rest
      <3>2. /\ out' \in Seq(Octets) /\ Len(out') = m + L + c
            /\ \A i \in 1 .. m + L + c :
                 out'[i] = IF i <= m + L THEN (front \o length)[i] ELSE rest[i - (m + L)]
        <4> DEFINE x == front \o length
        <4>1. x \in Seq(Octets) /\ Len(x) = m + L /\ out' = x \o rest
          BY <2>3, <3>1
        <4> HIDE DEF x
        <4>2. /\ out' \in Seq(Octets) /\ Len(out') = Len(x) + Len(rest)
              /\ \A i \in 1 .. Len(x) + Len(rest) :
                   out'[i] = IF i <= Len(x) THEN x[i] ELSE rest[i - Len(x)]
          <5>1. /\ x \o rest \in Seq(Octets) /\ Len(x \o rest) = Len(x) + Len(rest)
                /\ \A i \in 1 .. Len(x) + Len(rest) :
                     (x \o rest)[i] = IF i <= Len(x) THEN x[i] ELSE rest[i - Len(x)]
            <6>1. x \in Seq(Octets) /\ rest \in Seq(Octets)
              BY <2>2, <4>1
            <6>. QED
              BY <6>1, ConcatProperties
          <5>. QED
            BY <4>1, <5>1
        <4>3. /\ out' \in Seq(Octets) /\ Len(out') = m + L + c
              /\ \A i \in 1 .. m + L + c : out'[i] = IF i <= m + L THEN x[i] ELSE rest[i - (m + L)]
          <5> HIDE DEF c
          <5>. QED
            BY <2>2, <4>1, <4>2
        <4>. QED
          BY <4>3 DEF x
      <3>3. \A i \in 1 .. m : i \in 1 .. m + L + c /\ i <= m + L
        BY <1>4, <1>5
      <3>. QED
        BY <2>3, <3>2, <3>3
    <2>5. Len(out') <= capacity /\ Len(out') > m /\ Len(out') \in Nat
      <3>1. Len(out') <= Len(out)
        BY <1>1, <1>4, <1>5, <1>6, <2>4
      <3>2. capacity \in Nat
        BY <1>1 DEF TypeOK
      <3>3. Len(out') > m /\ Len(out') \in Nat
        BY <1>4, <1>5, <2>4
      <3>. QED
        BY <1>1, <3>1, <3>2, <3>3
    <2>6. /\ markers' \in Seq(Nat) /\ Len(markers') = n - 1 /\ DOMAIN markers' = 1 .. n - 1
          /\ \A k \in 1 .. n - 1 : markers'[k] = markers[k]
      <3>1. \A k \in 1 .. n - 1 : markers[k] \in Nat
        BY <1>2, <1>3
      <3>2. /\ SubSeq(markers, 1, n - 1) \in Seq(Nat) /\ Len(SubSeq(markers, 1, n - 1)) = n - 1
            /\ \A k \in 1 .. n - 1 : SubSeq(markers, 1, n - 1)[k] = markers[k]
        BY <1>2, <3>1, SubSeqProperties
      <3>3. DOMAIN markers' = 1 .. Len(markers')
        BY <1>6, <3>2
      <3>. QED
        BY <1>6, <3>2, <3>3
    <2>7. TypeOK'
      BY <1>1, <1>6, <2>4, <2>5, <2>6, DerSerializerAssumption DEF TypeOK, Calling
    <2>8. Placeholders'
      <3>1. ASSUME NEW k \in 1 .. n - 1
            PROVE  /\ markers'[k] > 0
                   /\ markers'[k] + Reserved <= Len(out')
                   /\ \A i \in 1 .. Reserved : out'[markers'[k] + i] = Placeholder[i]
                   /\ \A j \in 1 .. k - 1 : markers'[j] + Reserved < markers'[k]
        <4>1. k \in 1 .. n /\ markers'[k] = markers[k] /\ \A j \in 1 .. k - 1 : markers'[j] = markers[j]
          BY <1>2, <2>6
        <4>2. markers[k] \in Nat /\ markers[k] > 0 /\ markers[k] + Reserved < m
          BY <1>3, <1>4, <4>1
        <4>3. \A i \in 1 .. Reserved : markers[k] + i \in 1 .. m
          BY SMTT(30), <1>1, <1>4, <4>2
        <4>4. \A i \in 1 .. Reserved : out'[markers[k] + i] = Placeholder[i]
          BY <1>3, <2>4, <4>1, <4>3
        <4>5. markers[k] + Reserved <= Len(out')
          BY <1>1, <1>4, <2>5, <4>2
        <4>. QED
          BY <1>3, <4>1, <4>2, <4>4, <4>5
      <3>. QED
        BY <2>6, <3>1 DEF Placeholders, Placeholder
    <2>9. PrefixKept
      BY <2>4, <2>5, <1>4 DEF PrefixKept, Innermost, m
    <2>. QED
      BY <2>7, <2>8, <2>9 DEF IInv
  <1>7. CASE UNCHANGED out /\ Fail
    <2>1. IInv'
      BY <1>1, <1>7, FailStep
    <2>2. PrefixKept
      BY <1>1, <1>4, <1>7 DEF PrefixKept, Innermost, m
    <2>. QED
      BY <2>1, <2>2
  <1>. QED
    BY <1>6, <1>7 DEF ConstructedEnd, FitsReserved, m, length

LEMMA RestartStep ==
  ASSUME IInv, Restart
  PROVE  IInv' /\ PrefixKept
  <1>1. <<>> \in Seq(Octets) /\ <<>> \in Seq(Nat)
    OBVIOUS
  <1>2. capacity' \in Nat
    BY DerSerializerAssumption DEF Restart
  <1>3. IInv'
    BY <1>1, <1>2, DerSerializerAssumption DEF Restart, IInv, TypeOK, Placeholders
  <1>4. PrefixKept
    BY DEF Restart, PrefixKept, IInv, TypeOK
  <1>. QED
    BY <1>3, <1>4

(* Every operation but end only appends.                                   *)
LEMMA AppendKeepsPrefix ==
  ASSUME IInv, NEW x \in Seq(Octets), out' = out \o x
  PROVE  PrefixKept
  <1>1. TypeOK /\ Placeholders
    BY DEF IInv
  <1>2. SUFFICES ASSUME markers # <<>>
                 PROVE  Len(out') >= Innermost /\ \A i \in 1 .. Innermost : out'[i] = out[i]
    BY DEF PrefixKept, Innermost
  <1>3. Len(markers) \in DOMAIN markers /\ Innermost \in Nat
    <2>1. markers \in Seq(Nat) /\ Len(markers) \in 1 .. Len(markers)
      BY <1>1, <1>2 DEF TypeOK
    <2>. QED
      BY <2>1, ElementOfSeq DEF Innermost
  <1>4. Innermost + Reserved <= Len(out)
    BY <1>1, <1>3 DEF Placeholders, Innermost
  <1>5. /\ Len(out') = Len(out) + Len(x) /\ Len(out) \in Nat /\ Len(x) \in Nat
        /\ \A i \in 1 .. Len(out) : out'[i] = out[i]
    BY <1>1, Written
  <1>6. Innermost <= Len(out) /\ Innermost <= Len(out')
    BY <1>3, <1>4, <1>5, DerSerializerAssumption
  <1>. QED
    BY <1>3, <1>5, <1>6

LEMMA InitIInv == Init => IInv
  <1>1. <<>> \in Seq(Octets) /\ <<>> \in Seq(Nat)
    OBVIOUS
  <1>2. SUFFICES ASSUME Init PROVE IInv
    OBVIOUS
  <1>3. capacity \in Nat
    BY <1>2, DerSerializerAssumption DEF Init
  <1>. QED
    BY <1>1, <1>2, <1>3, DerSerializerAssumption DEF Init, IInv, TypeOK, Placeholders

LEMMA IInvStep == IInv /\ [Next]_vars => IInv' /\ [PrefixKept]_vars
  <1> SUFFICES ASSUME IInv, [Next]_vars
               PROVE  IInv' /\ [PrefixKept]_vars
    OBVIOUS
  <1>1. CASE Restart
    BY <1>1, RestartStep
  <1>2. CASE \E e \in Primitives : SerializePrimitive(e)
    BY <1>2, PrimitiveStep, AppendKeepsPrefix
  <1>3. CASE \E octets \in Raws : SerializeRaw(octets)
    BY <1>3, RawStep, AppendKeepsPrefix
  <1>4. CASE \E i \in Containers : ConstructedBegin(i)
    BY <1>4, BeginStep, AppendKeepsPrefix
  <1>5. CASE ConstructedEnd
    BY <1>5, EndStep
  <1>6. CASE UNCHANGED vars
    BY <1>6 DEF vars, IInv, TypeOK, Placeholders, Placeholder
  <1>. QED
    BY <1>1, <1>2, <1>3, <1>4, <1>5, <1>6 DEF Next

-----------------------------------------------------------------------------

(* The serializer writes octets, and never past its buffer.                *)
THEOREM SerializerTypeCorrect == Spec => []TypeOK
  <1>1. IInv => TypeOK
    BY DEF IInv
  <1>. QED
    BY InitIInv, IInvStep, <1>1, PTL DEF Spec

(* Every marker a caller still holds points at an intact placeholder.      *)
THEOREM MarkersValid == Spec => []Placeholders
  <1>1. IInv => Placeholders
    BY DEF IInv
  <1>. QED
    BY InitIInv, IInvStep, <1>1, PTL DEF Spec

(* No operation changes what precedes the innermost open element's length. *)
THEOREM PrefixesStable == Spec => PrefixStable
  BY InitIInv, IInvStep, PTL DEF Spec, PrefixStable

-----------------------------------------------------------------------------
(* Slices of the buffer *)

(* A slice of a sequence.                                                  *)
LEMMA SliceProperties ==
  ASSUME NEW s \in Seq(Octets), NEW a \in Nat \ {0}, NEW b \in Nat, b <= Len(s), a <= b + 1
  PROVE  /\ SubSeq(s, a, b) \in Seq(Octets) /\ Len(SubSeq(s, a, b)) = b - a + 1
         /\ \A i \in 1 .. b - a + 1 : SubSeq(s, a, b)[i] = s[a + i - 1]
  <1>1. a \in Int /\ b \in Int /\ Len(s) \in Nat
    OBVIOUS
  <1>2. \A i \in a .. b : s[i] \in Octets
    <2>1. \A i \in a .. b : i \in 1 .. Len(s)
      BY <1>1
    <2>. QED
      BY <2>1, ElementOfSeq
  <1>3. /\ SubSeq(s, a, b) \in Seq(Octets)
        /\ Len(SubSeq(s, a, b)) = IF a <= b THEN b - a + 1 ELSE 0
        /\ \A i \in 1 .. b - a + 1 : SubSeq(s, a, b)[i] = s[a + i - 1]
    BY <1>1, <1>2, SubSeqProperties
  <1>4. (IF a <= b THEN b - a + 1 ELSE 0) = b - a + 1
    BY <1>1
  <1>. QED
    BY <1>3, <1>4

(* Sequences that agree on an interval have the same slice.                *)
LEMMA SliceSame ==
  ASSUME NEW s \in Seq(Octets), NEW t \in Seq(Octets), NEW a \in Nat \ {0}, NEW b \in Nat,
         b <= Len(s), b <= Len(t), a <= b + 1, \A i \in 1 .. b : s[i] = t[i]
  PROVE  SubSeq(s, a, b) = SubSeq(t, a, b)
  <1> DEFINE x == SubSeq(s, a, b)
             y == SubSeq(t, a, b)
             n == b - a + 1
  <1>1. /\ x \in Seq(Octets) /\ Len(x) = n /\ \A i \in 1 .. n : x[i] = s[a + i - 1]
        /\ y \in Seq(Octets) /\ Len(y) = n /\ \A i \in 1 .. n : y[i] = t[a + i - 1]
    BY SliceProperties
  <1>2. \A i \in 1 .. n : a + i - 1 \in 1 .. b
    OBVIOUS
  <1>3. \A i \in 1 .. n : x[i] = y[i]
    BY <1>1, <1>2
  <1> HIDE DEF x, y, n
  <1>4. x = y
    BY <1>1, <1>3, SeqEqual
  <1>. QED
    BY <1>4 DEF x, y

(* t continues s with x: a slice up to the end of s continues so too.      *)
LEMMA SliceAppend ==
  ASSUME NEW s \in Seq(Octets), NEW t \in Seq(Octets), NEW x \in Seq(Octets), NEW a \in Nat \ {0},
         a <= Len(s) + 1, Len(t) >= Len(s) + Len(x),
         \A i \in 1 .. Len(s) : t[i] = s[i], \A i \in 1 .. Len(x) : t[Len(s) + i] = x[i]
  PROVE  SubSeq(t, a, Len(s) + Len(x)) = SubSeq(s, a, Len(s)) \o x
  <1> DEFINE m == Len(s)
             k == Len(x)
             u == SubSeq(t, a, m + k)
             v == SubSeq(s, a, m)
             w == v \o x
  <1>1. m \in Nat /\ k \in Nat /\ Len(t) \in Nat
    OBVIOUS
  <1>2. /\ v \in Seq(Octets) /\ Len(v) = m - a + 1 /\ \A i \in 1 .. m - a + 1 : v[i] = s[a + i - 1]
    BY <1>1, SliceProperties
  <1>3. /\ u \in Seq(Octets) /\ Len(u) = m + k - a + 1 /\ \A i \in 1 .. m + k - a + 1 : u[i] = t[a + i - 1]
    <2>1. m + k \in Nat /\ m + k <= Len(t) /\ a <= m + k + 1
      BY <1>1
    <2>. QED
      BY <2>1, SliceProperties
  <1>4. w \in Seq(Octets) /\ Len(w) = (m - a + 1) + k
        /\ \A i \in 1 .. (m - a + 1) + k : w[i] = IF i <= m - a + 1 THEN v[i] ELSE x[i - (m - a + 1)]
    <2>1. v \in Seq(Octets) /\ Len(v) = m - a + 1
      BY <1>2
    <2> HIDE DEF v
    <2>2. /\ w \in Seq(Octets) /\ Len(w) = Len(v) + Len(x)
          /\ \A i \in 1 .. Len(v) + Len(x) : w[i] = IF i <= Len(v) THEN v[i] ELSE x[i - Len(v)]
      BY <2>1, ConcatProperties
    <2> HIDE DEF w
    <2>. QED
      BY <2>1, <2>2
  <1> HIDE DEF u, v, w
  <1>5. ASSUME NEW i \in 1 .. m + k - a + 1
        PROVE  u[i] = w[i]
    <2>1. CASE i <= m - a + 1
      <3>1. a + i - 1 \in 1 .. m /\ i \in 1 .. m - a + 1
        BY <1>1, <2>1
      <3>2. w[i] = s[a + i - 1]
        BY <1>1, <1>2, <1>4, <2>1, <3>1
      <3>. QED
        BY <1>3, <3>1, <3>2
    <2>2. CASE i > m - a + 1
      <3> DEFINE j == i - (m - a + 1)
      <3>1. j \in 1 .. k /\ a + i - 1 = m + j
        BY <1>1, <2>2
      <3>2. w[i] = x[j]
        BY <1>1, <1>4, <2>2
      <3>. QED
        BY <1>3, <3>1, <3>2
    <2>. QED
      BY <1>1, <2>1, <2>2
  <1>6. Len(u) = Len(w)
    BY <1>1, <1>3, <1>4
  <1>7. u = w
    BY <1>3, <1>4, <1>5, <1>6, SeqEqual
  <1>. QED
    BY <1>7 DEF u, v, w

(* A slice that ends before it begins.                                     *)
LEMMA SliceEmpty ==
  ASSUME NEW s \in Seq(Octets)
  PROVE  SubSeq(s, Len(s) + 1, Len(s)) = <<>>
  <1> DEFINE a == Len(s) + 1
             b == Len(s)
  <1>1. a \in Nat \ {0} /\ b \in Nat /\ b <= Len(s) /\ a <= b + 1 /\ b - a + 1 = 0
    OBVIOUS
  <1> HIDE DEF a, b
  <1>2. SubSeq(s, a, b) \in Seq(Octets) /\ Len(SubSeq(s, a, b)) = 0
    BY <1>1, SliceProperties
  <1>3. SubSeq(s, a, b) = <<>>
    BY <1>2, EmptySeq
  <1>. QED
    BY <1>3 DEF a, b

(* Extending the innermost content.                                        *)
LEMMA ExtendedProperties ==
  ASSUME NEW s \in Seq(Seq(Octets)), NEW x \in Seq(Octets), NEW n \in Nat, Len(s) = n + 1
  PROVE  /\ Document!Extended(s, x) \in Seq(Seq(Octets)) /\ Len(Document!Extended(s, x)) = n + 1
         /\ \A k \in 1 .. n : Document!Extended(s, x)[k] = s[k]
         /\ Document!Extended(s, x)[n + 1] = s[n + 1] \o x
  <1> DEFINE v == s[n + 1] \o x
             e == [s EXCEPT ![n + 1] = v]
  <1>1. v \in Seq(Octets)
    <2>1. s[n + 1] \in Seq(Octets)
      OBVIOUS
    <2>. QED
      BY <2>1, ConcatProperties
  <1>2. e = Document!Extended(s, x)
    BY DEF Document!Extended
  <1> HIDE DEF v
  <1>3. /\ e \in Seq(Seq(Octets)) /\ Len(e) = n + 1
        /\ \A k \in 1 .. n : e[k] = s[k]
        /\ e[n + 1] = v
    BY <1>1, ExceptSeq
  <1>. QED
    BY <1>2, <1>3 DEF v


-----------------------------------------------------------------------------
(* The contents of the open elements *)

(* What Contents is made of, for any buffer o and markers ms.              *)
From(ms, k) == IF k = 1 THEN 1 ELSE ms[k - 1] + Reserved + 1
To(o, ms, k) == IF k = Len(ms) + 1 THEN Len(o) ELSE ms[k]
Cut(o, ms) == [k \in 1 .. Len(ms) + 1 |-> SubSeq(o, From(ms, k), To(o, ms, k))]

WellPlaced(o, ms) ==
  /\ o \in Seq(Octets) /\ ms \in Seq(Nat)
  /\ \A k \in 1 .. Len(ms) : ms[k] + Reserved <= Len(o) /\ \A j \in 1 .. k - 1 : ms[j] + Reserved < ms[k]

(* Where the regions between placeholders begin and end.                   *)
LEMMA CutPlaces ==
  ASSUME NEW o, NEW ms, WellPlaced(o, ms), NEW k \in 1 .. Len(ms) + 1
  PROVE  /\ From(ms, k) \in Nat \ {0} /\ To(o, ms, k) \in Nat
         /\ From(ms, k) <= To(o, ms, k) + 1 /\ To(o, ms, k) <= Len(o)
  <1> DEFINE n == Len(ms)
  <1>1. o \in Seq(Octets) /\ Len(o) \in Nat /\ ms \in Seq(Nat) /\ n \in Nat /\ Reserved \in Nat
        /\ k \in Nat /\ k >= 1 /\ k <= n + 1
    BY DerSerializerAssumption DEF WellPlaced
  <1>2. \A j \in 1 .. n :
          /\ ms[j] \in Nat /\ ms[j] + Reserved <= Len(o)
          /\ \A i \in 1 .. j - 1 : ms[i] + Reserved < ms[j]
    BY <1>1, ElementOfSeq DEF WellPlaced
  <1> HIDE DEF n
  <1>3. To(o, ms, k) \in Nat /\ To(o, ms, k) <= Len(o)
    <2>1. CASE k = n + 1
      BY <1>1, <2>1 DEF To, n
    <2>2. CASE k # n + 1
      <3>1. k \in 1 .. n
        BY <1>1, <2>2
      <3>2. ms[k] \in Nat /\ ms[k] + Reserved <= Len(o)
        BY <1>2, <3>1
      <3>3. ms[k] <= Len(o)
        BY <1>1, <3>2
      <3>. QED
        BY <2>2, <3>2, <3>3 DEF To, n
    <2>. QED
      BY <2>1, <2>2
  <1>4. From(ms, k) \in Nat \ {0} /\ From(ms, k) <= To(o, ms, k) + 1
    <2>1. CASE k = 1
      BY <1>3, <2>1 DEF From
    <2>2. CASE k # 1
      <3>1. k - 1 \in 1 .. n
        BY <1>1, <2>2
      <3>2. ms[k - 1] \in Nat /\ ms[k - 1] + Reserved <= Len(o)
        BY <1>2, <3>1
      <3>3. CASE k = n + 1
        BY <1>1, <2>2, <3>2, <3>3 DEF From, To, n
      <3>4. CASE k # n + 1
        <4>1. k \in 1 .. n /\ k - 1 \in 1 .. k - 1
          BY <1>1, <3>1, <3>4
        <4>2. ms[k - 1] + Reserved < ms[k] /\ ms[k] \in Nat
          BY <1>2, <4>1
        <4>. QED
          BY <1>1, <2>2, <3>2, <3>4, <4>2, SMTT(30) DEF From, To, n
      <3>. QED
        BY <3>3, <3>4
    <2>. QED
      BY <2>1, <2>2
  <1>. QED
    BY <1>3, <1>4

(* The regions are as many as the markers and one.                         *)
LEMMA CutProperties ==
  ASSUME NEW o, NEW ms, WellPlaced(o, ms)
  PROVE  /\ Cut(o, ms) \in Seq(Seq(Octets)) /\ Len(ms) \in Nat
         /\ Len(Cut(o, ms)) = Len(ms) + 1
         /\ \A k \in 1 .. Len(ms) + 1 : Cut(o, ms)[k] = SubSeq(o, From(ms, k), To(o, ms, k))
  <1>1. Len(ms) \in Nat /\ o \in Seq(Octets)
    BY DEF WellPlaced
  <1>2. \A k \in 1 .. Len(ms) + 1 : SubSeq(o, From(ms, k), To(o, ms, k)) \in Seq(Octets)
    BY <1>1, CutPlaces, SliceProperties
  <1>. QED
    BY <1>1, <1>2, SMTT(30) DEF Cut

(* A region that a placeholder ends is what it was if the octets before it *)
(* and the markers up to it are.                                           *)
LEMMA CutKept ==
  ASSUME NEW o, NEW ms, WellPlaced(o, ms), NEW k \in 1 .. Len(ms),
         NEW t \in Seq(Octets), NEW mt, Len(t) >= ms[k], \A i \in 1 .. ms[k] : t[i] = o[i],
         k > 1 => mt[k - 1] = ms[k - 1]
  PROVE  SubSeq(t, From(mt, k), ms[k]) = SubSeq(o, From(ms, k), To(o, ms, k))
  <1>1. Len(ms) \in Nat /\ o \in Seq(Octets) /\ k \in 1 .. Len(ms) + 1 /\ k # Len(ms) + 1
    BY DEF WellPlaced
  <1>2. To(o, ms, k) = ms[k]
    BY <1>1 DEF To
  <1>3. From(mt, k) = From(ms, k)
    BY <1>1 DEF From
  <1>4. /\ From(ms, k) \in Nat \ {0} /\ ms[k] \in Nat /\ From(ms, k) <= ms[k] + 1 /\ ms[k] <= Len(o)
    BY <1>1, <1>2, CutPlaces
  <1>5. SubSeq(t, From(ms, k), ms[k]) = SubSeq(o, From(ms, k), ms[k])
    BY <1>1, <1>4, SliceSame
  <1>. QED
    BY <1>2, <1>3, <1>5

(* Octets written without opening or closing an element.                   *)
LEMMA CutAppend ==
  ASSUME NEW o, NEW ms, WellPlaced(o, ms), NEW x \in Seq(Octets)
  PROVE  Cut(o \o x, ms) = Document!Extended(Cut(o, ms), x) /\ WellPlaced(o \o x, ms)
  <1> DEFINE n == Len(ms)
             t == o \o x
             c == Cut(o, ms)
             e == Document!Extended(c, x)
  <1>1. o \in Seq(Octets) /\ Len(o) \in Nat /\ ms \in Seq(Nat) /\ n \in Nat /\ Len(x) \in Nat /\ Reserved \in Nat
    BY DerSerializerAssumption DEF WellPlaced
  <1>2. /\ t \in Seq(Octets) /\ Len(t) = Len(o) + Len(x)
        /\ \A i \in 1 .. Len(o) + Len(x) : t[i] = IF i <= Len(o) THEN o[i] ELSE x[i - Len(o)]
    BY <1>1, ConcatProperties
  <1> HIDE DEF t
  <1>3. \A i \in 1 .. Len(o) : t[i] = o[i]
    <2>1. \A i \in 1 .. Len(o) : i \in 1 .. Len(o) + Len(x) /\ i <= Len(o)
      BY <1>1
    <2>. QED
      BY <1>2, <2>1
  <1>4. \A i \in 1 .. Len(x) : t[Len(o) + i] = x[i]
    <2>1. \A i \in 1 .. Len(x) : Len(o) + i \in 1 .. Len(o) + Len(x) /\ ~(Len(o) + i <= Len(o)) /\ Len(o) + i - Len(o) = i
      BY <1>1
    <2>. QED
      BY <1>2, <2>1
  <1>5. WellPlaced(t, ms)
    <2>1. \A k \in 1 .. n : ms[k] \in Nat /\ ms[k] + Reserved <= Len(o)
      BY <1>1, ElementOfSeq DEF WellPlaced
    <2>2. \A k \in 1 .. n : ms[k] + Reserved <= Len(t)
      BY <1>1, <1>2, <2>1
    <2>. QED
      BY <1>2, <2>2 DEF WellPlaced
  <1>6. /\ c \in Seq(Seq(Octets)) /\ Len(c) = n + 1
        /\ \A k \in 1 .. n + 1 : c[k] = SubSeq(o, From(ms, k), To(o, ms, k))
    BY CutProperties
  <1> HIDE DEF c
  <1>7. /\ e \in Seq(Seq(Octets)) /\ Len(e) = n + 1
        /\ \A k \in 1 .. n : e[k] = c[k]
        /\ e[n + 1] = c[n + 1] \o x
    BY <1>1, <1>6, ExtendedProperties
  <1>8. /\ Cut(t, ms) \in Seq(Seq(Octets)) /\ Len(Cut(t, ms)) = n + 1
        /\ \A k \in 1 .. n + 1 : Cut(t, ms)[k] = SubSeq(t, From(ms, k), To(t, ms, k))
    BY <1>5, CutProperties
  <1>9. ASSUME NEW k \in 1 .. n
        PROVE  Cut(t, ms)[k] = e[k]
    <2>1. k \in 1 .. n + 1 /\ k # n + 1 /\ ms[k] \in Nat /\ ms[k] + Reserved <= Len(o)
      BY <1>1, ElementOfSeq DEF WellPlaced
    <2>2. Len(t) >= ms[k] /\ \A i \in 1 .. ms[k] : t[i] = o[i]
      <3>1. /\ Len(o) \in Nat /\ Len(x) \in Nat /\ Reserved \in Nat /\ Len(t) = Len(o) + Len(x)
            /\ ms[k] \in Nat /\ ms[k] + Reserved <= Len(o)
        BY <1>1, <1>2, <2>1, ZenonT(60)
      <3>2. Len(t) >= ms[k] /\ \A i \in 1 .. ms[k] : i \in 1 .. Len(o)
        BY ONLY <3>1
      <3>. QED
        BY <1>3, <3>2, ZenonT(60)
    <2>3. SubSeq(t, From(ms, k), ms[k]) = SubSeq(o, From(ms, k), To(o, ms, k))
      BY <1>2, <2>2, CutKept, ZenonT(60)
    <2>4. To(t, ms, k) = ms[k]
      BY <2>1 DEF To
    <2>. QED
      BY <1>6, <1>7, <1>8, <2>1, <2>3, <2>4
  <1>10. Cut(t, ms)[n + 1] = e[n + 1]
    <2>1. n + 1 \in 1 .. n + 1
      BY <1>1
    <2>2. /\ From(ms, n + 1) \in Nat \ {0} /\ From(ms, n + 1) <= Len(o) + 1
          /\ To(o, ms, n + 1) = Len(o) /\ To(t, ms, n + 1) = Len(o) + Len(x)
      BY <1>2, <2>1, CutPlaces DEF To
    <2>3. Len(t) >= Len(o) + Len(x)
      BY <1>1, <1>2
    <2>4. SubSeq(t, From(ms, n + 1), Len(o) + Len(x)) = SubSeq(o, From(ms, n + 1), Len(o)) \o x
      BY <1>1, <1>2, <1>3, <1>4, <2>2, <2>3, SliceAppend
    <2>. QED
      BY <1>6, <1>7, <1>8, <2>1, <2>2, <2>4
  <1> HIDE DEF e
  <1>11. \A k \in 1 .. n + 1 : Cut(t, ms)[k] = e[k]
    BY <1>1, <1>9, <1>10
  <1>12. Cut(t, ms) = e
    BY <1>7, <1>8, <1>11, SeqEqual
  <1>. QED
    BY <1>5, <1>12 DEF t, e, c

(* The placeholder of a new element.                                       *)
LEMMA CutOpen ==
  ASSUME NEW o, NEW ms, WellPlaced(o, ms), NEW p \in Seq(Octets), Len(p) = Reserved
  PROVE  Cut(o \o p, Append(ms, Len(o))) = Append(Cut(o, ms), <<>>)
  <1> DEFINE n == Len(ms)
             t == o \o p
             mt == Append(ms, Len(o))
             c == Cut(o, ms)
             a == Append(c, <<>>)
             d == Cut(t, mt)
  <1>1. o \in Seq(Octets) /\ Len(o) \in Nat /\ ms \in Seq(Nat) /\ n \in Nat /\ Reserved \in Nat
    BY DerSerializerAssumption DEF WellPlaced
  <1>2. /\ t \in Seq(Octets) /\ Len(t) = Len(o) + Reserved
        /\ \A i \in 1 .. Len(o) + Reserved : t[i] = IF i <= Len(o) THEN o[i] ELSE p[i - Len(o)]
    BY <1>1, ConcatProperties
  <1> HIDE DEF t
  <1>3. \A i \in 1 .. Len(o) : t[i] = o[i]
    <2>1. \A i \in 1 .. Len(o) : i \in 1 .. Len(o) + Reserved /\ i <= Len(o)
      BY <1>1
    <2>. QED
      BY <1>2, <2>1
  <1>4. /\ mt \in Seq(Nat) /\ Len(mt) = n + 1 /\ mt[n + 1] = Len(o)
        /\ \A k \in 1 .. n : mt[k] = ms[k]
    BY <1>1, AppendProperties
  <1> HIDE DEF mt
  <1>5. /\ c \in Seq(Seq(Octets)) /\ Len(c) = n + 1
        /\ \A k \in 1 .. n + 1 : c[k] = SubSeq(o, From(ms, k), To(o, ms, k))
    BY CutProperties
  <1> HIDE DEF c
  <1>6. /\ a \in Seq(Seq(Octets)) /\ Len(a) = n + 2 /\ a[n + 2] = <<>>
        /\ \A k \in 1 .. n + 1 : a[k] = c[k]
    <2>1. <<>> \in Seq(Octets) /\ n + 1 + 1 = n + 2
      BY <1>1
    <2>. QED
      BY <1>5, <2>1, AppendProperties
  <1> HIDE DEF a
  <1>7. \A k \in 1 .. n : ms[k] \in Nat /\ ms[k] + Reserved <= Len(o) /\ ms[k] <= Len(o)
    <2>1. \A k \in 1 .. n : ms[k] \in Nat /\ ms[k] + Reserved <= Len(o)
      BY <1>1, ElementOfSeq DEF WellPlaced
    <2>. QED
      BY <1>1, <2>1
  <1>8. d = [k \in 1 .. n + 2 |-> SubSeq(t, From(mt, k), To(t, mt, k))]
    <2>1. Len(mt) + 1 = n + 2
      BY <1>1, <1>4
    <2>. QED
      BY <2>1 DEF Cut
  <1> HIDE DEF d
  <1>9. ASSUME NEW k \in 1 .. n
        PROVE  d[k] = a[k]
    <2>1. k \in 1 .. n + 1 /\ k \in 1 .. n + 2 /\ k # n + 2 /\ (k > 1 => k - 1 \in 1 .. n)
      BY <1>1
    <2>2. Len(t) >= ms[k] /\ \A i \in 1 .. ms[k] : t[i] = o[i]
      BY <1>1, <1>2, <1>3, <1>7
    <2>3. SubSeq(t, From(mt, k), ms[k]) = SubSeq(o, From(ms, k), To(o, ms, k))
      <3>1. k > 1 => mt[k - 1] = ms[k - 1]
        BY <1>4, <2>1
      <3>. QED
        BY <1>2, <2>2, <3>1, CutKept, ZenonT(60)
    <2>4. To(t, mt, k) = ms[k]
      BY <1>1, <1>4, <2>1, SMTT(30) DEF To
    <2>. QED
      BY <1>5, <1>6, <1>8, <2>1, <2>3, <2>4
  <1>10. d[n + 1] = a[n + 1]
    <2>1. n + 1 \in 1 .. n + 1 /\ n + 1 \in 1 .. n + 2 /\ n + 1 # n + 1 + 1 /\ n + 1 # 0
          /\ (n + 1 # 1 => n + 1 - 1 \in 1 .. n)
      BY <1>1
    <2>2. /\ From(ms, n + 1) \in Nat \ {0} /\ From(ms, n + 1) <= Len(o) + 1
          /\ To(o, ms, n + 1) = Len(o)
      BY <2>1, CutPlaces DEF To
    <2>3. From(mt, n + 1) = From(ms, n + 1) /\ To(t, mt, n + 1) = Len(o)
      <3> DEFINE q == n + 1
      <3>1. /\ q # Len(mt) + 1 /\ mt[q] = Len(o) /\ (q # 1 => mt[q - 1] = ms[q - 1])
        BY <1>1, <1>4, <2>1
      <3>. QED
        BY <3>1 DEF From, To
    <2>4. SubSeq(t, From(ms, n + 1), Len(o)) = SubSeq(o, From(ms, n + 1), Len(o))
      <3> DEFINE f == From(ms, n + 1)
      <3>1. Len(o) <= Len(t) /\ Len(o) <= Len(o) /\ f \in Nat \ {0} /\ f <= Len(o) + 1
        BY <1>1, <1>2, <2>2
      <3> HIDE DEF f
      <3>2. SubSeq(t, f, Len(o)) = SubSeq(o, f, Len(o))
        BY <1>1, <1>2, <1>3, <3>1, SliceSame
      <3>. QED
        BY <3>2 DEF f
    <2>. QED
      BY <1>5, <1>6, <1>8, <2>1, <2>2, <2>3, <2>4
  <1>11. d[n + 2] = a[n + 2]
    <2>1. n + 2 \in 1 .. n + 2 /\ n + 2 # 1 /\ n + 2 - 1 = n + 1 /\ n + 2 = n + 1 + 1
      BY <1>1
    <2>2. From(mt, n + 2) = Len(t) + 1 /\ To(t, mt, n + 2) = Len(t)
      BY <1>2, <1>4, <2>1 DEF From, To
    <2>. QED
      BY <1>2, <1>6, <1>8, <2>1, <2>2, SliceEmpty
  <1>12. \A k \in 1 .. n + 2 : d[k] = a[k]
    <2>1. ASSUME NEW k \in 1 .. n + 2
          PROVE  k \in 1 .. n \/ k = n + 1 \/ k = n + 2
      BY <1>1
    <2>. QED
      BY <1>9, <1>10, <1>11, <2>1
  <1>13. d = a
    <2>1. a = [k \in 1 .. n + 2 |-> a[k]]
      BY <1>1, <1>6
    <2>. QED
      BY <1>8, <1>12, <2>1
  <1>. QED
    BY <1>13 DEF d, a, c, t, mt

(* Without its innermost element, a document ends at the identifier.       *)
LEMMA CutClose ==
  ASSUME NEW o, NEW ms, WellPlaced(o, ms), Len(ms) > 0
  PROVE  LET n == Len(ms)
             below == SubSeq(ms, 1, n - 1)
             front == SubSeq(o, 1, ms[n])
         IN  WellPlaced(front, below) /\ Cut(front, below) = SubSeq(Cut(o, ms), 1, n)
  <1> DEFINE n == Len(ms)
             m == ms[n]
             below == SubSeq(ms, 1, n - 1)
             front == SubSeq(o, 1, m)
             c == Cut(o, ms)
             b == Cut(front, below)
             s == SubSeq(c, 1, n)
  <1>1. o \in Seq(Octets) /\ Len(o) \in Nat /\ ms \in Seq(Nat) /\ n \in Nat /\ n >= 1 /\ Reserved \in Nat
    BY DerSerializerAssumption DEF WellPlaced
  <1>2. \A k \in 1 .. n :
          /\ ms[k] \in Nat /\ ms[k] + Reserved <= Len(o) /\ ms[k] <= Len(o)
          /\ \A j \in 1 .. k - 1 : ms[j] + Reserved < ms[k]
    <2>1. \A k \in 1 .. n : ms[k] \in Nat /\ ms[k] + Reserved <= Len(o)
                             /\ \A j \in 1 .. k - 1 : ms[j] + Reserved < ms[k]
      BY <1>1, ElementOfSeq DEF WellPlaced
    <2>. QED
      BY <1>1, <2>1
  <1>3. m \in Nat /\ m <= Len(o) /\ n \in 1 .. n /\ \A j \in 1 .. n - 1 : ms[j] + Reserved < m
    BY <1>1, <1>2
  <1> HIDE DEF m
  <1>4. front \in Seq(Octets) /\ Len(front) = m /\ \A i \in 1 .. m : front[i] = o[i]
    <2>1. 1 \in Nat \ {0} /\ 1 <= m + 1 /\ m - 1 + 1 = m /\ \A i \in 1 .. m : 1 + i - 1 = i
      BY <1>3
    <2>. QED
      BY <1>1, <1>3, <2>1, SliceProperties
  <1> HIDE DEF front
  <1>5. below \in Seq(Nat) /\ Len(below) = n - 1 /\ \A k \in 1 .. n - 1 : below[k] = ms[k]
    <2> DEFINE q == n - 1
    <2>1. \A k \in 1 .. q : ms[k] \in Nat /\ 1 + k - 1 = k
      BY <1>1, <1>2
    <2>2. 1 \in Int /\ q \in Int /\ q = (IF 1 <= q THEN q - 1 + 1 ELSE 0) /\ q - 1 + 1 = q
      <3>1. q \in Nat
        BY <1>1
      <3> HIDE DEF q
      <3>. QED
        BY <3>1
    <2> HIDE DEF q
    <2>3. below \in Seq(Nat) /\ Len(below) = q /\ \A k \in 1 .. q : below[k] = ms[k]
      <3>1. below = SubSeq(ms, 1, q)
        BY DEF below, q
      <3> HIDE DEF below
      <3>. QED
        BY <1>1, <2>1, <2>2, <3>1, SubSeqProperties
    <2>. QED
      BY <2>3 DEF q
  <1> HIDE DEF below
  <1>6. WellPlaced(front, below)
    <2>1. ASSUME NEW k \in 1 .. n - 1
          PROVE  below[k] + Reserved <= m /\ \A j \in 1 .. k - 1 : below[j] + Reserved < below[k]
      <3>1. k \in 1 .. n /\ \A j \in 1 .. k - 1 : j \in 1 .. n - 1
        BY <1>1
      <3>2. ms[k] + Reserved < m /\ ms[k] \in Nat
        BY <1>2, <1>3, <3>1
      <3>3. ms[k] + Reserved <= m
        BY <1>1, <1>3, <3>2
      <3>. QED
        BY <1>2, <1>5, <3>1, <3>3
    <2>. QED
      BY <1>4, <1>5, <2>1 DEF WellPlaced
  <1>7. /\ c \in Seq(Seq(Octets)) /\ Len(c) = n + 1
        /\ \A k \in 1 .. n + 1 : c[k] = SubSeq(o, From(ms, k), To(o, ms, k))
    BY CutProperties
  <1> HIDE DEF c
  <1>8. s \in Seq(Seq(Octets)) /\ Len(s) = n /\ \A k \in 1 .. n : s[k] = c[k]
    <2>1. \A k \in 1 .. n : c[k] \in Seq(Octets)
      <3>1. \A k \in 1 .. n : k \in 1 .. n + 1
        BY <1>1
      <3>. QED
        BY <1>7, <3>1, ElementOfSeq
    <2>. QED
      BY <1>1, <2>1, SubSeqProperties
  <1> HIDE DEF s
  <1>9. /\ b \in Seq(Seq(Octets)) /\ Len(b) = n
        /\ \A k \in 1 .. n : b[k] = SubSeq(front, From(below, k), To(front, below, k))
    <2>1. n - 1 + 1 = n
      BY <1>1
    <2>. QED
      BY <1>5, <1>6, <2>1, CutProperties
  <1> HIDE DEF b
  <1>10. ASSUME NEW k \in 1 .. n
         PROVE  b[k] = s[k]
    <2>1. k \in 1 .. n + 1 /\ (k > 1 => k - 1 \in 1 .. n - 1) /\ (k # n => k \in 1 .. n - 1)
      BY <1>1
    <2>2. To(front, below, k) = ms[k]
      BY <1>1, <1>4, <1>5, <2>1 DEF To, m
    <2>3. ms[k] <= m /\ ms[k] \in Nat
      <3>1. CASE k = n
        BY <1>3, <3>1 DEF m
      <3>2. CASE k # n
        <4>1. ms[k] + Reserved < m /\ ms[k] \in Nat
          BY <1>2, <1>3, <2>1, <3>2
        <4>. QED
          BY <1>1, <1>3, <4>1
      <3>. QED
        BY <3>1, <3>2
    <2>4. Len(front) >= ms[k] /\ \A i \in 1 .. ms[k] : front[i] = o[i]
      BY <1>3, <1>4, <2>3
    <2>5. SubSeq(front, From(below, k), ms[k]) = SubSeq(o, From(ms, k), To(o, ms, k))
      BY <1>4, <1>5, <2>1, <2>4, CutKept
    <2>. QED
      BY <1>7, <1>8, <1>9, <2>1, <2>2, <2>5
  <1>11. b = s
    BY <1>8, <1>9, <1>10, SeqEqual
  <1>. QED
    BY <1>6, <1>11 DEF b, s, c, front, below, m

(* The contents are the regions.                                           *)
LEMMA ContentsCut ==
  /\ Contents = IF err = "OK" THEN Cut(out, markers) ELSE <<>>
  /\ Contents' = IF err' = "OK" THEN Cut(out', markers') ELSE <<>>
  BY DEF Contents, Cut, Region, From, To

(* The markers of a reachable state cut its buffer.                        *)
LEMMA StateWellPlaced ==
  ASSUME IInv
  PROVE  WellPlaced(out, markers)
  <1>1. markers \in Seq(Nat) /\ DOMAIN markers = 1 .. Len(markers)
    BY DEF IInv, TypeOK
  <1>. QED
    BY <1>1 DEF IInv, TypeOK, Placeholders, WellPlaced

(* What a call writes is octets.                                           *)
LEMMA WrittenOctets ==
  /\ \A e \in Primitives : Encoding(e) \in Seq(Octets)
  /\ \A i \in Containers : EncodeIdentifier(i, TRUE) \in Seq(Octets)
  /\ \A octets \in Raws : octets \in Seq(Octets)
  <1>1. ASSUME NEW e \in Primitives
        PROVE  Encoding(e) \in Seq(Octets)
    <2>1. e.id \in Ids /\ e.value \in Seq(Octets) /\ Len(e.value) \in Nat /\ FALSE \in BOOLEAN
      BY DerSerializerAssumption
    <2> DEFINE id == EncodeIdentifier(e.id, FALSE)
               len == EncodeLength(Len(e.value))
    <2>2. id \in Seq(Octets) /\ len \in Seq(Octets)
      BY <2>1, IdentifierOctets, LengthOctets
    <2> HIDE DEF id, len
    <2>3. (id \o len) \o e.value \in Seq(Octets)
      BY <2>1, <2>2, ConcatProperties
    <2>. QED
      BY <2>3 DEF Encoding, id, len
  <1>2. ASSUME NEW i \in Containers
        PROVE  EncodeIdentifier(i, TRUE) \in Seq(Octets)
    <2>1. i \in Ids /\ TRUE \in BOOLEAN
      BY DerSerializerAssumption
    <2>. QED
      BY <2>1, IdentifierOctets
  <1>. QED
    BY <1>1, <1>2, DerSerializerAssumption

-----------------------------------------------------------------------------
(* Every step is one of DocumentBuilder *)

(* An empty buffer is an empty document.                                   *)
LEMMA DocumentInit == Init => Document!Init
  <1> SUFFICES ASSUME Init PROVE Document!Init
    OBVIOUS
  <1>1. Len(markers) + 1 = 1 /\ 1 .. 1 = {1} /\ Region(1) = <<>>
    BY DEF Init, Region
  <1>2. Contents = [k \in {1} |-> <<>>]
    BY <1>1 DEF Contents, Init
  <1>3. [k \in {1} |-> <<>>] = <<<<>>>>
    OBVIOUS
  <1>. QED
    BY <1>2, <1>3 DEF Document!Init, Init

(* asn1_serializer_init begins a new document.                             *)
LEMMA DocumentRestart == Restart => Document!Restart
  <1> SUFFICES ASSUME Restart PROVE Document!Restart
    OBVIOUS
  <1>1. Len(markers') + 1 = 1 /\ 1 .. 1 = {1} /\ SubSeq(out', 1, 0) = <<>> /\ Len(out') = 0
    BY DEF Restart
  <1>2. Contents' = [k \in {1} |-> <<>>]
    BY <1>1 DEF Contents, Region, Restart
  <1>3. [k \in {1} |-> <<>>] = <<<<>>>>
    OBVIOUS
  <1>. QED
    BY <1>2, <1>3 DEF Document!Restart, Restart

(* A failing call fails the document.                                      *)
LEMMA DocumentFail == Calling /\ Fail => Document!Fail
  BY DEF Calling, Fail, Contents, Document!Fail

(* Elements are added to the innermost content.                            *)
LEMMA DocumentAdd ==
  ASSUME IInv, Calling, NEW x \in Seq(Octets), out' = out \o x, UNCHANGED <<markers, err>>,
         x \in {Encoding(e) : e \in Primitives} \union Raws
  PROVE  Document!Add
  <1>1. Cut(out \o x, markers) = Document!Extended(Cut(out, markers), x)
    BY StateWellPlaced, CutAppend
  <1>2. err = "OK" /\ err' = "OK"
    BY DEF Calling
  <1>3. Contents = Cut(out, markers) /\ Contents' = Cut(out \o x, markers)
    BY <1>2, ContentsCut
  <1>4. Contents' = Document!Extended(Contents, x)
    BY <1>1, <1>3
  <1>. QED
    BY <1>2, <1>4 DEF Document!Add

(* asn1_serialize_constructed_begin opens an element.                      *)
LEMMA DocumentBegin ==
  ASSUME IInv, NEW i \in Containers, ConstructedBegin(i)
  PROVE  Document!Next
  <1> DEFINE id == EncodeIdentifier(i, TRUE)
  <1>1. id \in Seq(Octets) /\ Placeholder \in Seq(Octets) /\ Len(Placeholder) = Reserved
    BY WrittenOctets, PlaceholderOctets
  <1>2. CASE Calling /\ Fail
    BY <1>2, DocumentFail DEF Document!Next
  <1>3. CASE /\ Calling /\ UNCHANGED err
             /\ out' = out \o id \o Placeholder /\ markers' = Append(markers, Marker(id))
    <2>1. /\ Cut(out \o id, markers) = Document!Extended(Cut(out, markers), id)
          /\ WellPlaced(out \o id, markers)
      BY <1>1, StateWellPlaced, CutAppend
    <2>2. Marker(id) = Len(out \o id)
      BY <1>1, ConcatProperties DEF Marker, IInv, TypeOK
    <2>3. Cut((out \o id) \o Placeholder, Append(markers, Len(out \o id))) = Append(Cut(out \o id, markers), <<>>)
      BY <1>1, <2>1, CutOpen
    <2>4. err = "OK" /\ err' = "OK"
      BY <1>3 DEF Calling
    <2>5. Contents = Cut(out, markers) /\ Contents' = Cut(out', markers')
      BY <2>4, ContentsCut
    <2>6. Contents' = Append(Document!Extended(Contents, id), <<>>)
      BY <1>3, <2>1, <2>2, <2>3, <2>5
    <2>7. id \in {EncodeIdentifier(j, TRUE) : j \in Containers}
      OBVIOUS
    <2> HIDE DEF id
    <2>. QED
      BY <2>4, <2>6, <2>7 DEF Document!Begin, Document!Next
  <1>. QED
    BY <1>2, <1>3 DEF ConstructedBegin

(* asn1_serialize_constructed_end closes the innermost element.            *)
LEMMA DocumentEnd ==
  ASSUME IInv, ConstructedEnd
  PROVE  Document!Next
  <1>0. PICK n \in Nat : n = Len(markers)
    BY DEF IInv, TypeOK
  <1> DEFINE m == Innermost
             c == Len(out) - (m + Reserved)
             length == EncodeLength(c)
             rest == SubSeq(out, m + Reserved + 1, Len(out))
             front == SubSeq(out, 1, m)
             below == SubSeq(markers, 1, n - 1)
  <1>1. CASE Calling /\ Fail
    BY <1>1, DocumentFail DEF Document!Next
  <1>2. CASE Calling /\ UNCHANGED err /\ markers # <<>> /\ out' = Settled(m, length) /\ markers' = below
    <2>1. WellPlaced(out, markers) /\ n > 0
      <3>1. markers \in Seq(Nat) /\ markers # <<>>
        BY <1>2 DEF IInv, TypeOK
      <3>. QED
        BY <1>0, <3>1, StateWellPlaced, EmptySeq
    <2>2. /\ out \in Seq(Octets) /\ Len(out) \in Nat /\ Reserved \in Nat
          /\ m \in Nat /\ m + Reserved <= Len(out) /\ m = markers[n]
      <3>1. n \in 1 .. Len(markers) /\ m = markers[n]
        BY <1>0, <2>1 DEF Innermost
      <3>2. markers[n] \in Nat /\ markers[n] + Reserved <= Len(out)
        BY <2>1, <3>1, ElementOfSeq DEF WellPlaced
      <3>. QED
        BY <2>1, <3>1, <3>2, DerSerializerAssumption DEF WellPlaced
    <2> HIDE DEF m
    <2>3. c \in Nat /\ length \in Seq(Octets)
      <3>1. c \in Nat
        BY <2>2
      <3> HIDE DEF c
      <3>. QED
        BY <3>1, LengthOctets
    <2> HIDE DEF length
    <2>4. rest \in Seq(Octets) /\ Len(rest) = c
      <3> DEFINE a == m + Reserved + 1
                 b == Len(out)
      <3>1. a \in Nat \ {0} /\ b \in Nat /\ b <= Len(out) /\ a <= b + 1 /\ b - a + 1 = c
        BY <2>2, SMTT(30)
      <3> HIDE DEF a, b, c
      <3>2. SubSeq(out, a, b) \in Seq(Octets) /\ Len(SubSeq(out, a, b)) = c
        BY <2>2, <3>1, SliceProperties
      <3>. QED
        BY <3>2 DEF a, b
    <2>5. WellPlaced(front, below) /\ Cut(front, below) = SubSeq(Cut(out, markers), 1, n)
      BY <1>0, <2>1, <2>2, CutClose
    <2>6. front \in Seq(Octets)
      BY <2>5 DEF WellPlaced
    <2> HIDE DEF c, rest, front, below
    <2>7. length \o rest \in Seq(Octets)
      BY <2>3, <2>4, ConcatProperties
    <2>8. out' = front \o (length \o rest)
      <3>1. out' = (front \o length) \o rest
        BY <1>2 DEF Settled, front, rest
      <3>. QED
        BY <2>3, <2>4, <2>6, <3>1, ConcatAssociative, SMTT(30)
    <2>9. Cut(front \o (length \o rest), below)
            = Document!Extended(SubSeq(Cut(out, markers), 1, n), length \o rest)
      BY <2>5, <2>7, CutAppend, ZenonT(60)
    <2>10. err = "OK" /\ err' = "OK"
      BY <1>2 DEF Calling
    <2>11. Contents = Cut(out, markers) /\ Contents' = Cut(out', markers')
      BY <2>10, ContentsCut
    <2>12. Contents' = Document!Extended(SubSeq(Contents, 1, n), length \o rest)
      BY <1>2, <2>8, <2>9, <2>11
    <2>13. Len(Contents) = n + 1 /\ Contents[Len(Contents)] = rest
      <3>1. Len(Contents) = n + 1 /\ n + 1 \in 1 .. n + 1 /\ n + 1 # 1 /\ n + 1 - 1 = n
        BY <1>0, <2>1, <2>11, CutProperties
      <3>2. Contents[n + 1] = SubSeq(out, From(markers, n + 1), To(out, markers, n + 1))
        BY <1>0, <2>1, <2>11, <3>1, CutProperties
      <3>3. From(markers, n + 1) = m + Reserved + 1 /\ To(out, markers, n + 1) = Len(out)
        BY <1>0, <2>2, <3>1 DEF From, To
      <3>. QED
        BY <3>1, <3>2, <3>3 DEF rest
    <2>14. length = EncodeLength(Len(rest))
      BY <2>4 DEF length
    <2>15. Len(Contents) > 1 /\ Len(Contents) - 1 = n
      BY <2>1, <2>13
    <2>. QED
      BY <2>10, <2>12, <2>13, <2>14, <2>15 DEF Document!End, Document!Next
  <1>. QED
    BY <1>0, <1>1, <1>2 DEF ConstructedEnd

(* Every step is a step of the document, or none.                          *)
LEMMA DocumentStep == IInv /\ [Next]_vars => [Document!Next]_Document!vars
  <1> SUFFICES ASSUME IInv, [Next]_vars
               PROVE  [Document!Next]_Document!vars
    OBVIOUS
  <1>1. CASE Restart
    BY <1>1, DocumentRestart DEF Document!Next
  <1>2. ASSUME NEW e \in Primitives, SerializePrimitive(e)
        PROVE  Document!Next
    <2>1. CASE Calling /\ Fail
      BY <2>1, DocumentFail DEF Document!Next
    <2>2. CASE Calling /\ out' = out \o Encoding(e) /\ UNCHANGED <<markers, err>>
      <3>1. Encoding(e) \in {Encoding(f) : f \in Primitives} \union Raws
        OBVIOUS
      <3>2. Document!Add
        BY <2>2, <3>1, WrittenOctets, DocumentAdd
      <3>. QED
        BY <3>2 DEF Document!Next
    <2>. QED
      BY <1>2, <2>1, <2>2 DEF SerializePrimitive
  <1>3. ASSUME NEW octets \in Raws, SerializeRaw(octets)
        PROVE  Document!Next
    <2>1. CASE Calling /\ Fail
      BY <2>1, DocumentFail DEF Document!Next
    <2>2. CASE Calling /\ out' = out \o octets /\ UNCHANGED <<markers, err>>
      <3>1. Document!Add
        BY <2>2, WrittenOctets, DocumentAdd
      <3>. QED
        BY <3>1 DEF Document!Next
    <2>. QED
      BY <1>3, <2>1, <2>2 DEF SerializeRaw
  <1>4. ASSUME NEW i \in Containers, ConstructedBegin(i)
        PROVE  Document!Next
    BY <1>4, DocumentBegin
  <1>5. CASE ConstructedEnd
    BY <1>5, DocumentEnd
  <1>6. CASE UNCHANGED vars
    BY <1>6 DEF vars, Document!vars, Contents, Region
  <1>. QED
    BY <1>1, <1>2, <1>3, <1>4, <1>5, <1>6 DEF Next

(* The serializer implements DocumentBuilder: the buffer always holds the  *)
(* octets that a builder which knows every length in advance would have    *)
(* written, placeholders apart.                                            *)
THEOREM SerializerBuildsDocument == Spec => ImplementsDocument
  BY InitIInv, IInvStep, DocumentInit, DocumentStep, PTL DEF Spec, ImplementsDocument, Document!Spec

-----------------------------------------------------------------------------
(* A call fails only when the document is too large *)

(* How the size of a document with open elements is computed.              *)
LEMMA ClosedSizeSteps ==
  ASSUME NEW c \in Seq(Seq(Octets)), c # <<>>
  PROVE  \E f \in [0 .. Len(c) - 1 -> Nat] :
           /\ ClosedSize(c) = f[Len(c) - 1] /\ f[0] = Len(c[Len(c)])
           /\ \A j \in 1 .. Len(c) - 1 : f[j] = Len(c[Len(c) - j]) + Len(EncodeLength(f[j - 1])) + f[j - 1]
  <1> DEFINE n == Len(c)
             base == Len(c[n])
             inner(j) == Len(c[n - j])
             Size(f) == f = [j \in 0 .. n - 1 |->
                               IF j = 0 THEN base ELSE inner(j) + Len(EncodeLength(f[j - 1])) + f[j - 1]]
             h == CHOOSE g : Size(g)
             step == [j \in 1 .. n - 1 |-> [x \in Nat |-> inner(j) + Len(EncodeLength(x)) + x]]
  <1>1. ClosedSize(c) = h[n - 1]
    BY DEF ClosedSize
  <1>2. n \in Nat \ {0}
    BY EmptySeq
  <1>3. base \in Nat /\ \A j \in 1 .. n - 1 : inner(j) \in Nat
    <2>1. n \in 1 .. n /\ \A j \in 1 .. n - 1 : n - j \in 1 .. n
      BY <1>2
    <2>. QED
      BY <2>1, ElementOfSeq
  <1> HIDE DEF n, base, inner
  <1>4. step \in [1 .. n - 1 -> [Nat -> Nat]]
    <2>1. ASSUME NEW j \in 1 .. n - 1, NEW x \in Nat
          PROVE  inner(j) + Len(EncodeLength(x)) + x \in Nat
      <3>1. Len(EncodeLength(x)) \in Nat
        BY LengthOctets
      <3>. QED
        BY <1>3, <3>1
    <2>. QED
      BY <2>1
  <1>5. PICK f \in [0 .. n - 1 -> Nat] : Loop(f, n - 1, base, step)
    <2>1. n - 1 \in Nat
      BY <1>2
    <2> HIDE DEF step
    <2>. QED
      BY <1>3, <1>4, <2>1, LoopExists
  <1>6. \A j \in 0 .. n - 1 : f[j] = IF j = 0 THEN base ELSE step[j][f[j - 1]]
    BY <1>5 DEF Loop
  <1>7. ASSUME NEW j \in 1 .. n - 1
        PROVE  f[j] = inner(j) + Len(EncodeLength(f[j - 1])) + f[j - 1]
    <2>1. j - 1 \in 0 .. n - 1 /\ j \in 0 .. n - 1 /\ j # 0
      BY <1>2
    <2>2. f[j - 1] \in Nat
      BY <2>1
    <2>3. step[j][f[j - 1]] = inner(j) + Len(EncodeLength(f[j - 1])) + f[j - 1]
      BY <2>2
    <2> HIDE DEF step
    <2>. QED
      BY <1>6, <2>1, <2>3
  <1>8. f[0] = base
    <2>1. 0 \in 0 .. n - 1
      BY <1>2
    <2> HIDE DEF step
    <2>. QED
      BY <1>6, <2>1, Zenon
  <1>9. Size(f)
    <2>1. f = [j \in 0 .. n - 1 |-> f[j]]
      BY <1>5
    <2>2. \A j \in 0 .. n - 1 : j = 0 \/ j \in 1 .. n - 1
      BY <1>2
    <2>3. \A j \in 0 .. n - 1 : f[j] = IF j = 0 THEN base ELSE inner(j) + Len(EncodeLength(f[j - 1])) + f[j - 1]
      BY <1>7, <1>8, <2>2, Zenon
    <2>. QED
      BY <2>1, <2>3, Zenon
  <1>10. Size(h)
    <2> HIDE DEF Size
    <2>. QED
      BY <1>9, Zenon
  <1> HIDE DEF h, step
  <1>11. /\ h = [j \in 0 .. n - 1 |-> h[j]]
         /\ \A j \in 0 .. n - 1 : h[j] = IF j = 0 THEN base ELSE inner(j) + Len(EncodeLength(h[j - 1])) + h[j - 1]
    BY <1>10, Zenon
  <1> HIDE DEF Size
  <1>12. h = f
    <2> DEFINE Same == {j \in 0 .. n - 1 : h[j] = f[j]}
    <2>1. 0 \in 0 .. n - 1 /\ n - 1 \in Nat
      BY <1>2
    <2>2. 0 \in Same
      BY <1>8, <1>11, <2>1
    <2>3. ASSUME NEW j \in 0 .. (n - 1) - 1, j \in Same
          PROVE  j + 1 \in Same
      <3>1. j + 1 \in 1 .. n - 1 /\ (j + 1) - 1 = j /\ j + 1 \in 0 .. n - 1 /\ j + 1 # 0
        BY <1>2
      <3>2. h[j + 1] = inner(j + 1) + Len(EncodeLength(h[(j + 1) - 1])) + h[(j + 1) - 1]
        BY <1>11, <3>1, Zenon
      <3>3. f[j + 1] = inner(j + 1) + Len(EncodeLength(f[(j + 1) - 1])) + f[(j + 1) - 1]
        BY <1>7, <3>1, Zenon
      <3>4. h[(j + 1) - 1] = f[(j + 1) - 1]
        BY <2>3, <3>1
      <3>. QED
        BY <3>1, <3>2, <3>3, <3>4
    <2>4. 0 .. n - 1 \subseteq Same
      <3> HIDE DEF Same
      <3>. QED
        BY <2>1, <2>2, <2>3, UpTo
    <2>5. \A j \in 0 .. n - 1 : h[j] = f[j]
      BY <2>4
    <2>. QED
      BY <1>5, <1>11, <2>5
  <1>. QED
    BY <1>1, <1>5, <1>7, <1>8, <1>12, Zenon DEF n, base, inner

(* The arithmetic of one element around what ClosedSize has reached.       *)
LEMMA CoveredStep ==
  ASSUME NEW length \in Nat, NEW from \in Nat, NEW marker \in Nat, NEW size \in Nat, NEW e \in Nat,
         NEW x \in Nat, NEW r \in Nat, e >= 1, size + x >= length - (marker + r + 2) + 1
  PROVE  (marker - from + 1 + e + size) + (x + r) >= length - from + 1
  OBVIOUS

(* A document is no longer, when its elements are ended, than the buffer   *)
(* less what placeholders have and lengths need not have.                  *)
LEMMA ClosedCut ==
  ASSUME NEW o, NEW ms, WellPlaced(o, ms)
  PROVE  /\ ClosedSize(Cut(o, ms)) \in Nat
         /\ ClosedSize(Cut(o, ms)) + (Reserved - 1) * Len(ms) >= Len(o)
  <1> DEFINE c == Cut(o, ms)
             n == Len(ms)
             r == Reserved - 1
  <1>1. /\ c \in Seq(Seq(Octets)) /\ n \in Nat /\ Len(c) = n + 1
        /\ \A k \in 1 .. n + 1 : c[k] = SubSeq(o, From(ms, k), To(o, ms, k))
    BY CutProperties
  <1>2. c # <<>> /\ Len(c) - 1 = n
    BY <1>1
  <1> HIDE DEF c
  <1>3. PICK f \in [0 .. n -> Nat] :
          /\ ClosedSize(c) = f[n] /\ f[0] = Len(c[n + 1])
          /\ \A j \in 1 .. n : f[j] = Len(c[n + 1 - j]) + Len(EncodeLength(f[j - 1])) + f[j - 1]
    <2>1. \E f \in [0 .. Len(c) - 1 -> Nat] :
            /\ ClosedSize(c) = f[Len(c) - 1] /\ f[0] = Len(c[Len(c)])
            /\ \A j \in 1 .. Len(c) - 1 : f[j] = Len(c[Len(c) - j]) + Len(EncodeLength(f[j - 1])) + f[j - 1]
      BY <1>1, <1>2, ClosedSizeSteps, Zenon
    <2>2. PICK f \in [0 .. n -> Nat] :
            /\ ClosedSize(c) = f[n] /\ f[0] = Len(c[Len(c)])
            /\ \A j \in 1 .. n : f[j] = Len(c[Len(c) - j]) + Len(EncodeLength(f[j - 1])) + f[j - 1]
      BY <1>2, <2>1, Zenon
    <2>3. Len(c) = n + 1
      BY <1>1
    <2>4. ASSUME NEW j \in 1 .. n
          PROVE  f[j] = Len(c[n + 1 - j]) + Len(EncodeLength(f[j - 1])) + f[j - 1]
      <3>1. f[j] = Len(c[Len(c) - j]) + Len(EncodeLength(f[j - 1])) + f[j - 1]
        BY <2>2, Zenon
      <3>2. Len(c) - j = n + 1 - j
        BY ONLY <2>3
      <3>. QED
        BY <3>1, <3>2, Zenon
    <2>. QED
      BY <2>2, <2>3, <2>4, Zenon
  <1>4. /\ o \in Seq(Octets) /\ Len(o) \in Nat /\ r \in Nat /\ Reserved = r + 1
        /\ \A j \in 0 .. n : r * j \in Nat
    BY <1>1, DerSerializerAssumption DEF WellPlaced
  <1>5. ASSUME NEW k \in 1 .. n + 1
        PROVE  /\ From(ms, k) \in Nat \ {0} /\ To(o, ms, k) \in Nat
               /\ Len(c[k]) = To(o, ms, k) - From(ms, k) + 1
    <2> DEFINE a == From(ms, k)
               b == To(o, ms, k)
    <2>1. a \in Nat \ {0} /\ b \in Nat /\ a <= b + 1 /\ b <= Len(o)
      BY CutPlaces, Zenon
    <2>2. c[k] = SubSeq(o, a, b)
      BY <1>1, Zenon
    <2> HIDE DEF a, b
    <2>3. Len(SubSeq(o, a, b)) = b - a + 1
      BY <1>4, <2>1, SliceProperties, Zenon
    <2>. QED
      BY <2>1, <2>2, <2>3, Zenon DEF a, b
  <1> DEFINE Covered == {j \in 0 .. n : f[j] + r * j >= Len(o) - From(ms, n + 1 - j) + 1}
  <1>6. 0 \in Covered
    <2>1. n + 1 \in 1 .. n + 1 /\ 0 \in 0 .. n /\ n + 1 - 0 = n + 1 /\ r * 0 = 0
      BY <1>1, <1>4
    <2>2. To(o, ms, n + 1) = Len(o)
      BY DEF To
    <2>3. f[0] = Len(o) - From(ms, n + 1) + 1
      BY <1>3, <1>5, <2>1, <2>2
    <2> HIDE DEF r
    <2>. QED
      BY <1>3, <1>4, <1>5, <2>1, <2>3
  <1>7. ASSUME NEW j \in 0 .. n - 1, j \in Covered
        PROVE  j + 1 \in Covered
    <2> DEFINE k == n - j
               e == Len(EncodeLength(f[j]))
    <2>1. /\ k \in 1 .. n /\ k \in 1 .. n + 1 /\ k + 1 \in 1 .. n + 1 /\ n + 1 - (j + 1) = k /\ n + 1 - j = k + 1
          /\ j + 1 \in 1 .. n /\ j + 1 \in 0 .. n /\ (j + 1) - 1 = j /\ j \in 0 .. n /\ k # n + 1
          /\ k + 1 # 1 /\ (k + 1) - 1 = k
      BY <1>1
    <2> HIDE DEF k
    <2>2. f[j] \in Nat /\ f[j + 1] \in Nat
      BY <1>3, <2>1
    <2>3. e \in Nat /\ e >= 1
      <3>1. EncodeLength(f[j]) \in Seq(Octets) /\ Len(EncodeLength(f[j])) >= 1
        BY <2>2, LengthOctets
      <3>. QED
        BY <3>1, LenProperties, Zenon
    <2>4. f[j + 1] = Len(c[k]) + e + f[j]
      BY <1>3, <2>1
    <2> HIDE DEF e
    <2>5. To(o, ms, k) = ms[k] /\ From(ms, k + 1) = ms[k] + r + 2
      <3>1. ms[k] \in Nat
        BY <2>1, ElementOfSeq DEF WellPlaced
      <3> HIDE DEF r
      <3>2. From(ms, k + 1) = ms[k] + Reserved + 1 /\ To(o, ms, k) = ms[k]
        BY <2>1, Zenon DEF To, From
      <3>3. ms[k] + Reserved + 1 = ms[k] + r + 2
        <4>1. r \in Nat /\ Reserved = r + 1
          BY <1>4
        <4>. QED
          BY ONLY <3>1, <4>1, SMTT(30)
      <3>. QED
        BY <3>2, <3>3, Zenon
    <2>6. Len(c[k]) = ms[k] - From(ms, k) + 1 /\ From(ms, k) \in Nat /\ ms[k] \in Nat
      BY <1>5, <2>1, <2>5
    <2>7. f[j] + r * j >= Len(o) - (ms[k] + r + 2) + 1
      BY <1>7, <2>1, <2>5
    <2>8. r * (j + 1) = r * j + r /\ r * j \in Nat
      BY <1>4, <2>1
    <2> DEFINE x == r * j
    <2> HIDE DEF x, r
    <2>9. f[j + 1] + (x + r) >= Len(o) - From(ms, k) + 1
      <3>1. /\ x \in Nat /\ r \in Nat /\ Len(o) \in Nat /\ f[j] \in Nat /\ From(ms, k) \in Nat /\ ms[k] \in Nat
            /\ f[j] + x >= Len(o) - (ms[k] + r + 2) + 1
        BY <1>4, <2>2, <2>6, <2>7, <2>8, Zenon DEF x
      <3>2. f[j + 1] = (ms[k] - From(ms, k) + 1) + e + f[j]
        BY <2>4, <2>6, Zenon
      <3>3. (ms[k] - From(ms, k) + 1 + e + f[j]) + (x + r) >= Len(o) - From(ms, k) + 1
        BY <2>3, <3>1, CoveredStep
      <3>. QED
        BY <3>2, <3>3
    <2>. QED
      BY <2>1, <2>8, <2>9 DEF x
  <1>8. n \in Covered
    <2> HIDE DEF Covered
    <2>1. 0 .. n \subseteq Covered
      BY <1>1, <1>6, <1>7, UpTo
    <2>. QED
      BY <1>1, <2>1
  <1>9. From(ms, 1) = 1 /\ n + 1 - n = 1 /\ f[n] \in Nat
    <2>1. n \in 0 .. n /\ n + 1 - n = 1
      BY <1>1
    <2>. QED
      BY <1>3, <2>1, Zenon DEF From
  <1>10. f[n] + r * n >= Len(o)
    <2>1. f[n] + r * n >= Len(o) - 1 + 1
      BY <1>8, <1>9
    <2>. QED
      BY <1>4, <2>1
  <1>. QED
    BY <1>3, <1>9, <1>10 DEF c
(* A document that a buffer without its placeholders has no room for is    *)
(* too large.                                                              *)
LEMMA CutTooLarge ==
  ASSUME NEW o, NEW ms, WellPlaced(o, ms), capacity \in Nat, Len(o) > capacity
  PROVE  TooLarge(Cut(o, ms))
  <1> DEFINE size == ClosedSize(Cut(o, ms))
             spare == (Reserved - 1) * Len(ms)
  <1>1. size \in Nat /\ size + spare >= Len(o)
    BY ClosedCut, Zenon
  <1>2. Len(o) \in Nat /\ Len(ms) \in Nat /\ Reserved - 1 \in Nat
    BY DerSerializerAssumption DEF WellPlaced
  <1>3. spare \in Nat
    <2> DEFINE r == Reserved - 1
               n == Len(ms)
    <2>1. r \in Nat /\ n \in Nat
      BY <1>2, Zenon
    <2> HIDE DEF r, n
    <2>2. r * n \in Nat
      BY <2>1
    <2>. QED
      BY <2>2, Zenon DEF r, n
  <1>4. Len(Cut(o, ms)) = Len(ms) + 1
    BY CutProperties, Zenon
  <1>5. Len(Cut(o, ms)) - 1 = Len(ms)
    BY ONLY <1>2, <1>4
  <1> HIDE DEF size, spare
  <1>6. size + spare > capacity
    BY <1>1, <1>2, <1>3
  <1>. QED
    BY <1>5, <1>6, Zenon DEF size, spare, TooLarge

(* A call that would append what does not fit leads to too large a document.*)
LEMMA NoRoomToAppend ==
  ASSUME IInv, err = "OK", NEW x \in Seq(Octets), ~Fits(x)
  PROVE  TooLarge(Document!Extended(Contents, x))
  <1>1. /\ Cut(out \o x, markers) = Document!Extended(Cut(out, markers), x)
        /\ WellPlaced(out \o x, markers)
    BY StateWellPlaced, CutAppend, Zenon
  <1>2. Contents = Cut(out, markers)
    BY ContentsCut, Zenon
  <1>3. out \in Seq(Octets) /\ capacity \in Nat /\ Len(out) \in Nat /\ Len(x) \in Nat
    BY DEF IInv, TypeOK
  <1>4. Len(out \o x) = Len(out) + Len(x)
    BY <1>3, ConcatProperties
  <1>5. Len(out \o x) > capacity
    BY <1>3, <1>4 DEF Fits
  <1>6. TooLarge(Cut(out \o x, markers))
    BY <1>1, <1>3, <1>5, CutTooLarge, Zenon
  <1>. QED
    BY <1>1, <1>2, <1>6, Zenon

(* One that would begin an element where its placeholder does not fit, too.*)
LEMMA NoRoomToBegin ==
  ASSUME IInv, err = "OK", NEW id \in Seq(Octets), Len(id) >= 1, ~Fits(id \o Placeholder)
  PROVE  TooLarge(Append(Document!Extended(Contents, id), <<>>))
  <1> DEFINE o == out \o id
             m == Len(o)
             w == o \o Placeholder
             ms == Append(markers, m)
  <1>1. Cut(o, markers) = Document!Extended(Cut(out, markers), id) /\ WellPlaced(o, markers)
    BY StateWellPlaced, CutAppend, Zenon
  <1>2. Contents = Cut(out, markers)
    BY ContentsCut, Zenon
  <1>3. Placeholder \in Seq(Octets) /\ Len(Placeholder) = Reserved /\ Reserved \in Nat
    BY PlaceholderOctets, DerSerializerAssumption
  <1>4. Cut(w, ms) = Append(Cut(o, markers), <<>>)
    BY <1>1, <1>3, CutOpen, Zenon
  <1>5. /\ out \in Seq(Octets) /\ capacity \in Nat /\ Len(out) \in Nat /\ Len(id) \in Nat
        /\ markers \in Seq(Nat) /\ Len(markers) \in Nat
    BY DEF IInv, TypeOK
  <1>6. o \in Seq(Octets) /\ m = Len(out) + Len(id)
    BY <1>5, ConcatProperties, Zenon
  <1>7. w \in Seq(Octets) /\ Len(w) = m + Reserved
    BY <1>3, <1>6, ConcatProperties, Zenon
  <1>8. m \in Nat /\ m > Len(out)
    BY <1>5, <1>6
  <1> HIDE DEF m, w, o
  <1>9. ms \in Seq(Nat) /\ Len(ms) = Len(markers) + 1 /\ ms[Len(markers) + 1] = m
        /\ \A k \in 1 .. Len(markers) : ms[k] = markers[k]
    BY <1>5, <1>8, AppendProperties
  <1> HIDE DEF ms
  <1>10. WellPlaced(w, ms)
    <2>1. ASSUME NEW k \in 1 .. Len(markers)
          PROVE  /\ markers[k] \in Nat /\ markers[k] + Reserved <= Len(out)
                 /\ \A j \in 1 .. k - 1 : markers[j] + Reserved < markers[k]
      BY <1>5, StateWellPlaced, ElementOfSeq DEF WellPlaced
    <2>2. ASSUME NEW k \in 1 .. Len(markers) + 1
          PROVE  ms[k] + Reserved <= Len(w) /\ \A j \in 1 .. k - 1 : ms[j] + Reserved < ms[k]
      <3>1. \A j \in 1 .. k - 1 : j \in 1 .. Len(markers)
        BY <1>5
      <3>2. CASE k \in 1 .. Len(markers)
        <4>1. markers[k] + Reserved <= Len(w)
          BY <1>3, <1>5, <1>7, <1>8, <2>1, <3>2
        <4>. QED
          BY <1>9, <2>1, <3>1, <3>2, <4>1, Zenon
      <3>3. CASE k = Len(markers) + 1
        <4>1. ms[k] + Reserved <= Len(w)
          BY <1>3, <1>7, <1>8, <1>9, <3>3
        <4>2. ASSUME NEW j \in 1 .. k - 1
              PROVE  ms[j] + Reserved < ms[k]
          <5>1. markers[j] \in Nat /\ markers[j] + Reserved <= Len(out) /\ ms[j] = markers[j] /\ ms[k] = m
            BY <1>9, <2>1, <3>1, <3>3, Zenon
          <5>. QED
            BY <1>3, <1>5, <1>8, <5>1
        <4>. QED
          BY <4>1, <4>2
      <3>. QED
        BY <1>5, <3>2, <3>3
    <2>. QED
      BY <1>7, <1>9, <2>2, Zenon DEF WellPlaced
  <1>11. Len(w) > capacity
    <2>1. Len(id \o Placeholder) = Len(id) + Reserved
      BY <1>3, ConcatProperties, Zenon
    <2>. QED
      BY <1>3, <1>5, <1>6, <1>7, <2>1 DEF Fits
  <1>12. TooLarge(Cut(w, ms))
    BY <1>5, <1>10, <1>11, CutTooLarge, Zenon
  <1>. QED
    BY <1>1, <1>2, <1>4, <1>12, Zenon DEF o

(* Powers of 256 grow.                                                     *)
LEMMA PowersGrow ==
  ASSUME NEW i \in 0 .. SizeOctets, NEW j \in 0 .. i
  PROVE  256 ^ j <= 256 ^ i
  <1> DEFINE n == i - j
             S == {k \in 0 .. n : 256 ^ j <= 256 ^ (j + k)}
  <1>1. SizeOctets \in Nat /\ i \in Nat /\ j \in Nat /\ n \in Nat /\ j + 0 = j /\ j + n = i
    BY DerHeaderAssumption
  <1>2. \A k \in 0 .. n : 256 ^ (j + k) \in Nat \ {0}
    <2>1. \A k \in 0 .. n : j + k \in 0 .. SizeOctets
      BY <1>1
    <2>. QED
      BY <2>1, PowersArePositive, ZenonT(60)
  <1>3. 0 \in S
    <2>1. 0 \in 0 .. n
      BY <1>1
    <2>2. 256 ^ (j + 0) \in Nat
      BY <1>2, <2>1
    <2> DEFINE p == 256 ^ j
    <2>3. p \in Nat /\ p = 256 ^ (j + 0)
      BY <1>1, <2>2, Zenon
    <2> HIDE DEF p
    <2>4. p <= p
      BY <2>3
    <2>. QED
      BY <2>1, <2>3, <2>4, Zenon DEF p
  <1>4. ASSUME NEW k \in 0 .. n - 1, k \in S
        PROVE  k + 1 \in S
    <2>1. /\ k \in 0 .. n /\ k + 1 \in 0 .. n /\ j + (k + 1) \in 1 .. SizeOctets
          /\ (j + (k + 1)) - 1 = j + k
      BY <1>1
    <2> DEFINE p == 256 ^ j
               q == 256 ^ (j + k)
               s == 256 ^ (j + (k + 1))
    <2>2. s = 256 * q
      <3>1. s = 256 * 256 ^ ((j + (k + 1)) - 1)
        BY <2>1, PowersArePositive, ZenonT(60)
      <3>. QED
        BY <2>1, <3>1, Zenon
    <2>3. j \in 0 .. SizeOctets
      BY <1>1
    <2>4. p \in Nat /\ q \in Nat /\ p <= q
      <3>1. p \in Nat
        BY <2>3, PowersArePositive, ZenonT(60)
      <3>2. q \in Nat
        BY <1>2, <2>1, Zenon
      <3>3. p <= q
        BY <1>4, Zenon
      <3>. QED
        BY <3>1, <3>2, <3>3, Zenon
    <2> HIDE DEF p, q, s
    <2>5. p <= s
      BY <2>2, <2>4
    <2>. QED
      BY <2>1, <2>5, Zenon DEF p, s
  <1>5. n \in S
    <2> HIDE DEF S
    <2>1. 0 .. n \subseteq S
      BY <1>1, <1>3, <1>4, UpTo
    <2>. QED
      BY <1>1, <2>1
  <1>. QED
    BY <1>1, <1>5, Zenon

(* A length that needs more octets than k + 1 is of a number with more than *)
(* k digits.                                                               *)
LEMMA LongLength ==
  ASSUME NEW n \in Nat, NEW k \in Nat \ {0}, Len(EncodeLength(n)) > k + 1
  PROVE  n >= 256 ^ k
  <1> DEFINE digits == DigitCount(n, 256, SizeOctets)
             S == {i \in 0 .. SizeOctets - 1 : n \div 256 ^ i > 0}
             f == [i \in 1 .. digits + 1 |-> IF i = 1 THEN 128 + digits ELSE Digit(n, 256, digits, i - 1)]
  <1>1. n > 127
    <2>1. CASE n <= 127
      <3>1. EncodeLength(n) = <<n>> /\ Len(<<n>>) = 1
        BY <2>1 DEF EncodeLength
      <3>. QED
        BY <3>1
    <2>. QED
      BY <2>1
  <1>2. digits \in Nat
    <2>1. 256 \in Nat /\ SizeOctets \in Nat
      BY DerHeaderAssumption
    <2>2. digits \in 0 .. SizeOctets
      BY <2>1, DigitCountRange
    <2>. QED
      BY <2>1, <2>2
  <1>3. EncodeLength(n) = f
    BY <1>1 DEF EncodeLength
  <1>4. digits > k
    <2> HIDE DEF digits
    <2>1. Len(f) = digits + 1
      BY <1>2
    <2> HIDE DEF f
    <2>. QED
      BY <1>2, <1>3, <2>1
  <1>5. digits = Cardinality(S)
    BY DEF DigitCount
  <1> HIDE DEF digits, f
  <1>6. PICK i \in S : i >= k
    <2>1. ASSUME \A i \in S : ~(i >= k)
          PROVE  FALSE
      <3>1. S \in SUBSET (0 .. k - 1)
        BY <2>1
      <3>2. /\ IsFiniteSet(0 .. k - 1) /\ Cardinality(0 .. k - 1) = k
        <4>1. 0 \in Int /\ k - 1 \in Int /\ ~(0 > k - 1) /\ k - 1 - 0 + 1 = k
          OBVIOUS
        <4>. QED
          BY <4>1, FS_Interval
      <3>3. IsFiniteSet(S) /\ Cardinality(S) <= Cardinality(0 .. k - 1)
        BY <3>1, <3>2, FS_Subset
      <3> HIDE DEF S
      <3>. QED
        BY <1>2, <1>4, <1>5, <3>2, <3>3
    <2>. QED
      BY <2>1
  <1>7. i \in Nat /\ i \in 0 .. SizeOctets /\ k \in 0 .. i /\ n \div 256 ^ i > 0
    BY <1>6, DerHeaderAssumption
  <1> HIDE DEF S
  <1> DEFINE p == 256 ^ i
             q == 256 ^ k
  <1>8. p \in Nat \ {0}
    BY <1>7, PowersArePositive, ZenonT(60)
  <1>9. q <= p
    BY <1>7, PowersGrow, Zenon
  <1>10. q \in Nat
    <2>1. k \in 0 .. SizeOctets
      BY <1>7, DerHeaderAssumption
    <2>. QED
      BY <2>1, PowersArePositive, ZenonT(60)
  <1>11. n \div p > 0
    BY <1>7, Zenon
  <1> HIDE DEF p, q
  <1>12. n >= p
    BY <1>8, <1>11
  <1>13. n >= q
    BY <1>8, <1>9, <1>10, <1>12
  <1>. QED
    BY <1>13, Zenon DEF q

(* A call fails for the reasons that OnlyWhenFull gives.                   *)
LEMMA OnlyWhenFullStep == IInv /\ [Next]_vars => [OnlyWhenFull]_vars
  <1> SUFFICES ASSUME IInv, err' # "OK"
               PROVE  OnlyWhenFull
    BY DEF OnlyWhenFull
  <1>1. ASSUME NEW e \in Primitives, SerializePrimitive(e)
        PROVE  TooLarge(Document!Extended(Contents, Encoding(e)))
    <2>1. err = "OK" /\ ~Fits(Encoding(e))
      BY <1>1 DEF SerializePrimitive, Calling
    <2>2. Encoding(e) \in Seq(Octets)
      BY WrittenOctets
    <2>. QED
      BY <2>1, <2>2, NoRoomToAppend, Zenon
  <1>2. ASSUME NEW octets \in Raws, SerializeRaw(octets)
        PROVE  TooLarge(Document!Extended(Contents, octets))
    <2>1. err = "OK" /\ ~Fits(octets)
      BY <1>2 DEF SerializeRaw, Calling
    <2>2. octets \in Seq(Octets)
      BY WrittenOctets
    <2>. QED
      BY <2>1, <2>2, NoRoomToAppend, Zenon
  <1>3. ASSUME NEW i \in Containers, ConstructedBegin(i)
        PROVE  TooLarge(Append(Document!Extended(Contents, EncodeIdentifier(i, TRUE)), <<>>))
    <2> DEFINE id == EncodeIdentifier(i, TRUE)
    <2>1. err = "OK" /\ ~Fits(id \o Placeholder)
      BY <1>3 DEF ConstructedBegin, Calling
    <2>2. i \in Ids /\ TRUE \in BOOLEAN
      BY DerSerializerAssumption
    <2>3. id \in Seq(Octets) /\ Len(id) >= 1
      BY <2>2, IdentifierOctets
    <2> HIDE DEF id
    <2>4. TooLarge(Append(Document!Extended(Contents, id), <<>>))
      BY <2>1, <2>3, NoRoomToBegin, Zenon
    <2>. QED
      BY <2>4, Zenon DEF id
  <1>4. ASSUME ConstructedEnd
        PROVE  Len(out) - Innermost - Reserved >= 256 ^ (Reserved - 1)
    <2> DEFINE m == Innermost
               n == Len(out) - (m + Reserved)
    <2>1. ~FitsReserved(EncodeLength(n)) /\ markers # <<>>
      BY <1>4 DEF ConstructedEnd, Calling
    <2>2. /\ m \in Nat /\ m + Reserved <= Len(out) /\ Len(out) \in Nat
          /\ Reserved \in Nat /\ Reserved - 1 \in Nat \ {0} /\ Reserved - 1 + 1 = Reserved
      <3>1. markers \in Seq(Nat) /\ Len(markers) \in 1 .. Len(markers)
        <4>1. markers \in Seq(Nat)
          BY DEF IInv, TypeOK
        <4>2. Len(markers) \in Nat /\ Len(markers) # 0
          BY <2>1, <4>1, EmptySeq
        <4>. QED
          BY <4>1, <4>2
      <3>2. m \in Nat
        BY <3>1, ElementOfSeq, Zenon DEF Innermost
      <3>3. m + Reserved <= Len(out) /\ out \in Seq(Octets)
        BY <3>1, StateWellPlaced, Zenon DEF Innermost, WellPlaced
      <3> HIDE DEF m
      <3>. QED
        BY <3>2, <3>3, DerSerializerAssumption
    <2> HIDE DEF m
    <2>3. n \in Nat
      BY <2>2
    <2>4. Len(out) - m - Reserved = n
      BY <2>2
    <2> HIDE DEF n
    <2>5. Len(EncodeLength(n)) > Reserved
      <3>1. EncodeLength(n) \in Seq(Octets)
        BY <2>3, LengthOctets
      <3>2. Len(EncodeLength(n)) \in Nat
        BY <3>1, LenProperties, Zenon
      <3>3. ~(Len(EncodeLength(n)) <= Reserved)
        BY <2>1, Zenon DEF FitsReserved, n
      <3>. QED
        BY ONLY <2>2, <3>2, <3>3
    <2>6. n >= 256 ^ (Reserved - 1)
      BY <2>2, <2>3, <2>5, LongLength, Zenon
    <2>. QED
      BY <2>4, <2>6, Zenon DEF m
  <1>. QED
    BY <1>1, <1>2, <1>3, <1>4, Zenon DEF OnlyWhenFull

(* A serializer call fails only when the document it would lead to exceeds  *)
(* the buffer, or an element ends whose length needs more octets than were  *)
(* reserved: no call that could succeed returns BUFFER_TOO_SMALL.           *)
THEOREM FailsOnlyIfFull == Spec => FailsOnlyWhenFull
  BY InitIInv, IInvStep, OnlyWhenFullStep, PTL DEF Spec, FailsOnlyWhenFull
=============================================================================
