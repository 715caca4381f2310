----------------------------- MODULE BerGrammar -----------------------------
(***************************************************************************)
(* Reference semantics of BER and DER, independent of the parser: which    *)
(* tree an octet string encodes, and the DER encoding of a tree.  A tree   *)
(* is a record: a primitive value is a sequence of octets, a constructed   *)
(* one a sequence of trees.  A decoding operator returns the set of its    *)
(* results, empty when the octets encode nothing.  Recursive, so evaluated *)
(* by TLC only.                                                            *)
(***************************************************************************)
EXTENDS Integers, Sequences, SequencesExt

CONSTANTS
  TagOctets,   \* the longest tag number supported, in base-128 digits
  SizeOctets   \* the longest length supported, in base-256 digits

-----------------------------------------------------------------------------
(* Identifier and length octets                                            *)

(* The number that digits in the given base denote, most significant first *)
Digits(s, base) == FoldLeft(LAMBDA n, x : n * base + x, 0, s)

(* The shortest digit sequence for n.                                      *)
RECURSIVE ToDigits(_, _)
ToDigits(n, base) ==
  IF n < base THEN <<n>> ELSE Append(ToDigits(n \div base, base), n % base)

(* The identifier octets at d[lo], and where they end.  A long-form tag    *)
(* number is at least 31; leading zero digits are tolerated.               *)
IdentifiersAt(d, lo) ==
  LET tags == IF lo > Len(d) THEN {}
              ELSE IF d[lo] % 32 < 31 THEN {[tag |-> d[lo] % 32, next |-> lo + 1]}
              ELSE {[tag  |-> Digits([i \in 1 .. hi - lo |-> d[lo + i] % 128], 128),
                     next |-> hi + 1] :
                    hi \in {h \in lo + 1 .. lo + TagOctets :
                              /\ h <= Len(d) /\ d[h] < 128
                              /\ \A i \in lo + 1 .. h - 1 : d[i] >= 128}}
  IN {[class |-> d[lo] \div 64, constructed |-> (d[lo] \div 32) % 2 = 1,
       tag |-> t.tag, next |-> t.next] :
      t \in {u \in tags : u.next = lo + 1 \/ u.tag > 30}}

Indefinite == -1

(* The length octets at d[lo], and where they end.                         *)
LengthsAt(d, lo, r) ==
  IF lo > Len(d) THEN {}
  ELSE IF d[lo] < 128 THEN {[length |-> d[lo], next |-> lo + 1]}
  ELSE IF d[lo] = 128
  THEN IF r = "BER" THEN {[length |-> Indefinite, next |-> lo + 1]} ELSE {}
  ELSE LET n == d[lo] - 128
           s == SubSeq(d, lo + 1, lo + n)
       IN IF n > SizeOctets \/ lo + n > Len(d) THEN {}
          ELSE IF r = "DER" /\ (s[1] = 0 \/ Digits(s, 256) < 128) THEN {}
          ELSE {[length |-> Digits(s, 256), next |-> lo + n + 1]}

-----------------------------------------------------------------------------
(* The encoding at d[lo]: its tree and where it ends.                      *)

RECURSIVE TlvsAt(_, _, _)
RECURSIVE ForestsAt(_, _, _, _)

TlvsAt(d, lo, r) ==
  UNION {UNION {
    LET end == len.next + len.length
        node(c) == [class |-> id.class, tag |-> id.tag,
                    constructed |-> id.constructed, content |-> c]
    IN IF end - 1 > Len(d) \/ (len.length = Indefinite /\ ~id.constructed) THEN {}
       ELSE IF ~id.constructed
       THEN {[tree |-> node(SubSeq(d, len.next, end - 1)), next |-> end]}
       ELSE {[tree |-> node(f.trees), next |-> f.next] :
             f \in ForestsAt(d, len.next,
                             IF len.length = Indefinite THEN Indefinite ELSE end, r)}
    : len \in LengthsAt(d, id.next, r)} : id \in IdentifiersAt(d, lo)}

(* The encodings that fill d[lo .. end - 1] or, for an indefinite length,  *)
(* that precede the first end-of-contents octets.                          *)
ForestsAt(d, lo, end, r) ==
  IF end = Indefinite /\ lo < Len(d) /\ d[lo] = 0 /\ d[lo + 1] = 0
  THEN {[trees |-> <<>>, next |-> lo + 2]}
  ELSE IF lo = end THEN {[trees |-> <<>>, next |-> lo]}
  ELSE IF end # Indefinite /\ lo > end THEN {}
  ELSE UNION {{[trees |-> <<one.tree>> \o rest.trees, next |-> rest.next] :
               rest \in ForestsAt(d, one.next, end, r)} : one \in TlvsAt(d, lo, r)}

(* The tree that the whole of d encodes.                                   *)
Decode(d, r) == {t.tree : t \in {u \in TlvsAt(d, 1, r) : u.next = Len(d) + 1}}

-----------------------------------------------------------------------------
(* The DER encoding of a tree, and its size                                *)

Base128(n) ==
  LET s == ToDigits(n, 128)
  IN [i \in DOMAIN s |-> IF i < Len(s) THEN s[i] + 128 ELSE s[i]]

EncodeIdentifier(class, constructed, tag) ==
  LET first == class * 64 + (IF constructed THEN 32 ELSE 0)
  IN IF tag < 31 THEN <<first + tag>> ELSE <<first + 31>> \o Base128(tag)

EncodeLength(n) ==
  IF n < 128 THEN <<n>>
  ELSE LET s == ToDigits(n, 256) IN <<128 + Len(s)>> \o s

RECURSIVE Encode(_)
Encode(t) ==
  LET content == IF t.constructed
                 THEN FlattenSeq([i \in DOMAIN t.content |-> Encode(t.content[i])])
                 ELSE t.content
  IN EncodeIdentifier(t.class, t.constructed, t.tag)
       \o EncodeLength(Len(content)) \o content

Kids(t) == IF t.constructed THEN t.content ELSE <<>>

RECURSIVE NodeCount(_)
NodeCount(t) == FoldLeft(LAMBDA n, k : n + NodeCount(k), 1, Kids(t))

RECURSIVE Height(_)
Height(t) ==
  FoldLeft(LAMBDA h, k : IF Height(k) + 1 > h THEN Height(k) + 1 ELSE h, 1, Kids(t))
=============================================================================
