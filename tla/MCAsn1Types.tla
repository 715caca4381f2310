---------------------------- MODULE MCAsn1Types ----------------------------
(***************************************************************************)
(* Instances of Asn1Types for TLC: integers of 2 octets for 8, components  *)
(* of 11 bits from 2 septets for 32 bits from 5, so that the last septet   *)
(* is wider than what is left of the component, as in the code.            *)
(***************************************************************************)
EXTENDS Asn1Types

ComponentWord == 2048

Contents(octets, n) == UNION {[1 .. k -> octets] : k \in 0 .. n}
Tagged(tag, contents) ==
  {[id |-> Id(tag), constructed |-> FALSE, data |-> d] : d \in contents}

IntegerContents == Contents({0, 1, 127, 128, 254, 255}, 3)

MCNodes ==
  UNION {Tagged(t, Contents({0, 1, 255}, 2)) : t \in {1, 4, 5, 12}}
    \union Tagged(2, IntegerContents \union {<<0>> \o d : d \in IntegerContents})
    \union Tagged(3, Contents({0, 1, 3, 7, 8, 128, 136}, 3))
    \union Tagged(6, Contents({0, 39, 40, 81, 127, 128, 129, 255}, 4))
    \union {[id |-> [class |-> c, tag |-> t], constructed |-> TRUE, data |-> <<0>>] :
              c \in {0, 2}, t \in 1 .. 6}

BitStrings ==
  {[bytes |-> b, unused |-> u] : b \in Contents({0, 8, 128, 200}, 2), u \in {0, 3, 7}}

MCValues ==
  [t \in {"boolean", "null", "octets", "string", "integer", "int64", "uint64", "bits", "oid"} |->
     CASE t = "boolean" -> BOOLEAN
       [] t = "null" -> {<<>>}
       [] t \in {"octets", "string"} -> Contents({0, 255}, 3)
       [] t = "integer" -> {[bytes |-> b, negative |-> b[1] >= 128] : b \in [1 .. 3 -> {0, 127, 128}]}
       [] t = "int64" -> -32768 .. 32767
       [] t = "uint64" -> 0 .. 65535
       [] t = "bits" -> {bs \in BitStrings : UnusedClear(bs.bytes, bs.unused)}
       [] t = "oid" -> {<<>>} \union UNION {[1 .. k -> {0, 1, 2, 3, 39, 40, 127, 128, 2047}] : k \in 1 .. 4}]
=============================================================================
