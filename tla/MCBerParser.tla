---------------------------- MODULE MCBerParser ----------------------------
(***************************************************************************)
(* Instances of BerParser for TLC.  size_t has 2 octets and a tag number   *)
(* 12 bits read from at most 2 septets, in the proportion of the code's    *)
(* 8 octets, and 32 bits from 5 septets.                                   *)
(***************************************************************************)
EXTENDS BerConformance, SequencesExt

CONSTANTS Alphabet, MaxLength   \* bounds of ShortStrings

Word == 65536      \* SizeMod for SizeOctets = 2
TagWord == 4096    \* TagMod for TagOctets = 2

(* Every octet string up to a bound over a few telling octets.             *)
ShortStrings == {<<>>} \union UNION {[1 .. n -> Alphabet] : n \in 1 .. MaxLength}

(* Encodings of small trees, each constructed node in either form.         *)
Leaves == {<<2, 1, 0>>, <<4, 0>>}
Forests(S) == {<<>>} \union S \union {x \o y : x \in S, y \in S}
Constructed(S) ==
  {<<48, Len(c)>> \o c : c \in S} \union {<<48, 128>> \o c \o <<0, 0>> : c \in S}
Trees1 == Leaves \union Constructed(Forests(Leaves))
Trees2 == Constructed(Forests(Trees1))
Trees3 == Constructed({<<>>} \union Trees2)

(* One octet replaced, dropped at the end or added at the end; the long    *)
(* form with two length octets 255, 255 in place of a value.               *)
Damaged(d) ==
  {[d EXCEPT ![i] = o] : i \in DOMAIN d, o \in {0, 2, 48, 128}}
    \union {SubSeq(d, 1, Len(d) - 1), Append(d, 0)}
    \union {SubSeq(d, 1, i) \o <<4, 130, 255, 255>> : i \in DOMAIN d}

(* Lengths in two octets, minimal and not, with and without their content. *)
LongForms ==
  {<<t, 130, a, b>> \o [i \in 1 .. n |-> 0] : t \in {4, 48}, a \in {0, 1}, b \in {0, 2, 128}, n \in {0, 2, 128, 256}}

TreeInputs ==
  LongForms \union Trees1 \union Trees2 \union Trees3
    \union UNION {Damaged(d) : d \in {t \in Trees2 : Len(t) <= 9}}

AllInputs == ShortStrings \union TreeInputs
ShortInputs == Trees1 \union {d \in ShortStrings : Len(d) <= 2}

(* Tag numbers in one and two septets, with the length of a value.         *)
LongTags == {<<31, a, b, 0>> : a \in {31, 128, 129, 255}, b \in {0, 31, 127}}
              \union {<<31, a, 0>> : a \in {30, 31, 127}}

(* Definite lengths up to the largest size_t, and no value.                *)
LongLengths == {<<4, 130, a, b>> : a \in {0, 1, 255}, b \in {0, 128, 252, 255}}
=============================================================================
