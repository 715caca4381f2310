------------------------------ MODULE DerHeader ------------------------------
(***************************************************************************)
(* Identifier and length octets as the C99 runtime writes them             *)
(* (asn1_encode_identifier and asn1_encode_length of asn1_internal.h).     *)
(* The loops that shift a number down until nothing is left are the number *)
(* of shifts that leave something.                                         *)
(***************************************************************************)
EXTENDS Integers, Sequences, FiniteSets

CONSTANTS
  SizeOctets,   \* sizeof(size_t)
  TagOctets     \* septets of a tag number

ASSUME DerHeaderAssumption ==
  /\ SizeOctets \in 1 .. 127
  /\ TagOctets \in Nat \ {0}

(* Facts of arithmetic that the provers do not have.                       *)
ASSUME PowersArePositive ==
  /\ \A i \in 0 .. SizeOctets : 256 ^ i \in Nat \ {0}
  /\ \A i \in 1 .. SizeOctets : 256 ^ i = 256 * 256 ^ (i - 1)
  /\ \A i \in 0 .. TagOctets : 128 ^ i \in Nat \ {0}

(* How many base-b digits n has, and the i-th of k, most significant first.*)
DigitCount(n, b, max) == Cardinality({i \in 0 .. max - 1 : n \div b ^ i > 0})
Digit(n, b, k, i) == (n \div b ^ (k - i)) % b

EncodeLengthShortTo128(n) ==   \* mutant
  LET bytes == DigitCount(n, 256, SizeOctets) IN
  IF n <= 128 THEN <<n>>
  ELSE [i \in 1 .. bytes + 1 |-> IF i = 1 THEN 128 + bytes ELSE Digit(n, 256, bytes, i - 1)]

EncodeLength(n) ==
  LET bytes == DigitCount(n, 256, SizeOctets) IN
  IF n <= 127 THEN <<n>>
  ELSE [i \in 1 .. bytes + 1 |-> IF i = 1 THEN 128 + bytes ELSE Digit(n, 256, bytes, i - 1)]

(* An identifier is a class and a tag number.                              *)
EncodeIdentifier(id, constructed) ==
  LET first   == id.class * 64 + (IF constructed THEN 32 ELSE 0)
      septets == DigitCount(id.tag, 128, TagOctets)
  IN IF id.tag < 31 THEN <<first + id.tag>>
     ELSE [i \in 1 .. septets + 1 |->
             IF i = 1 THEN first + 31
             ELSE Digit(id.tag, 128, septets, i - 1) + (IF i <= septets THEN 128 ELSE 0)]
=============================================================================
