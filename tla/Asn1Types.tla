------------------------------ MODULE Asn1Types ------------------------------
(***************************************************************************)
(* The value codecs of the C99 runtime (asn1_types.c): what the parser's   *)
(* primitive nodes mean, and the octets written for a value.  A caller     *)
(* holds a node or a value of one type and parses and serializes in turn.  *)
(* Between the two lies a DER document: DerSerializer writes the content   *)
(* given to asn1_serialize_primitive, BerParser reads back a node with the *)
(* same identifier and content.  Which error a parser returns is           *)
(* abstracted: it accepts or it does not.                                  *)
(***************************************************************************)
EXTENDS DerHeader, SequencesExt

CONSTANTS
  IntOctets,       \* sizeof(int64_t)
  Septets,         \* septets read for one OID component: 5
  ComponentMod,    \* 2^32: OID components are uint32_t
  MaxComponents,   \* ASN1_OID_MAX_COMPONENTS
  OidBuffer,       \* sizeof(buf) of asn1_serialize_oid
  TextSizes,       \* buffer sizes given to asn1_oid_to_string
  Nodes,           \* nodes that a caller may receive
  Values           \* for each type, values that a caller may choose

Octet == 0 .. 255

ASSUME Asn1TypesAssumption ==
  /\ IntOctets \in Nat \ {0} /\ Septets \in Nat \ {0}
  /\ ComponentMod \in 256 .. 128 ^ Septets
  /\ MaxComponents \in Nat \ {0, 1} /\ OidBuffer \in Nat \ {0} /\ TextSizes \subseteq Nat
  /\ \A n \in Nodes : n \in [id : [class : 0 .. 3, tag : Nat], constructed : BOOLEAN, data : Seq(Octet)]

(* Facts of arithmetic that the provers do not have.                       *)
ASSUME PowersOfBases ==
  /\ \A k \in 0 .. 7 : 2 ^ (k + 1) = 2 * 2 ^ k
  /\ \A k \in 0 .. IntOctets : 256 ^ (k + 1) = 256 * 256 ^ k
  /\ \A k \in 0 .. Septets : 128 ^ (k + 1) = 128 * 128 ^ k

(* The last octet has no bits set beyond those in use.                     *)
UnusedClear(bytes, unused) ==
  IF bytes = <<>> THEN unused = 0 ELSE bytes[Len(bytes)] % 2 ^ unused = 0

(* What the types of C and their users guarantee of a value.               *)
IsValue(t, v) ==
  \/ t = "boolean" /\ v \in BOOLEAN
  \/ t = "null" /\ v = <<>>
  \/ t \in {"octets", "string"} /\ v \in Seq(Octet)
  \/ /\ t = "integer" /\ v \in [bytes : Seq(Octet), negative : BOOLEAN]
     /\ v.bytes # <<>> /\ (v.negative <=> v.bytes[1] >= 128)
  \/ t = "int64" /\ v \in -(256 ^ IntOctets \div 2) .. 256 ^ IntOctets \div 2 - 1
  \/ t = "uint64" /\ v \in 0 .. 256 ^ IntOctets - 1
  \/ t = "bits" /\ v \in [bytes : Seq(Octet), unused : 0 .. 7] /\ UnusedClear(v.bytes, v.unused)
  \/ t = "oid" /\ v \in Seq(0 .. ComponentMod - 1) /\ Len(v) <= MaxComponents

ASSUME ValuesAssumption == \A t \in DOMAIN Values : \A v \in Values[t] : IsValue(t, v)

VARIABLES
  type,      \* the type whose codec the caller uses
  rules,     \* the encoding rules given to asn1_parse_boolean
  phase,
  node,      \* the node received, or what it was serialized to
  value,     \* the value chosen, or parsed
  arrived,   \* history: the node received from a peer, if any
  carried    \* history: the value last serialized, if any

vars == <<type, rules, phase, node, value, arrived, carried>>

Tag == [boolean |-> 1, integer |-> 2, bitString |-> 3, octetString |-> 4, null |-> 5,
        oid |-> 6, utf8String |-> 12]
Id(tag) == [class |-> 0, tag |-> tag]
IdentifierEqual(a, b) == a.tag = b.tag /\ a.class = b.class

Data == node.data
First == Data[1]

(* Every parser but asn1_parse_string begins with these checks.            *)
Primitive(tag) == IdentifierEqual(node.id, Id(tag)) /\ ~node.constructed

Parsing(t, accepted, result) ==
  /\ type = t /\ phase \in {"received", "sent"}
  /\ \/ accepted /\ value' = result /\ phase' = "parsed"
     \/ ~accepted /\ phase' = "rejected" /\ UNCHANGED value
  /\ UNCHANGED <<type, rules, node, arrived, carried>>

Serializing(t, accepted, id, content) ==
  /\ type = t /\ phase \in {"chosen", "parsed"}
  /\ \/ /\ accepted
        /\ node' = [id |-> id, constructed |-> FALSE, data |-> content]
        /\ phase' = "sent" /\ carried' = <<value>>
     \/ ~accepted /\ phase' = "refused" /\ UNCHANGED <<node, carried>>
  /\ UNCHANGED <<type, rules, value, arrived>>

-----------------------------------------------------------------------------
(* BOOLEAN, NULL and the types whose content is the value                  *)

ParseBoolean ==
  Parsing("boolean", Primitive(Tag.boolean) /\ Len(Data) = 1 /\ (rules = "DER" => First \in {0, 255}),
          First # 0)
SerializeBoolean == Serializing("boolean", TRUE, Id(Tag.boolean), <<IF value THEN 255 ELSE 0>>)

ParseNull == Parsing("null", Primitive(Tag.null) /\ Data = <<>>, <<>>)
SerializeNull == Serializing("null", TRUE, Id(Tag.null), <<>>)

ParseOctetString == Parsing("octets", Primitive(Tag.octetString), Data)
SerializeOctetString == Serializing("octets", TRUE, Id(Tag.octetString), value)

(* The identifier is the caller's choice.                                  *)
ParseString == Parsing("string", ~node.constructed, Data)
SerializeString == Serializing("string", TRUE, Id(Tag.utf8String), value)

-----------------------------------------------------------------------------
(* INTEGER *)

(* Octets are shifted into a word that begins as zeros or, for a negative  *)
(* number, as ones.                                                        *)
Shifted(start, octets) ==
  LET word[i \in 0 .. Len(octets)] == IF i = 0 THEN start ELSE word[i - 1] * 256 + octets[i]
  IN word
Unsigned(octets) == Shifted(0, octets)[Len(octets)]
Signed(octets) == Shifted(IF octets[1] >= 128 THEN -1 ELSE 0, octets)[Len(octets)]

HasInteger == Primitive(Tag.integer) /\ Data # <<>>

ParseIntegerBytes == Parsing("integer", HasInteger, [bytes |-> Data, negative |-> First >= 128])
SerializeIntegerBytes == Serializing("integer", TRUE, Id(Tag.integer), value.bytes)

AnyForm(octets) == TRUE   \* mutant: non-minimal forms are not looked for
Minimal(octets) ==
  Len(octets) > 1 => /\ ~(octets[1] = 0 /\ octets[2] < 128)
                     /\ ~(octets[1] = 255 /\ octets[2] >= 128)

ParseInt64 == Parsing("int64", HasInteger /\ Len(Data) <= IntOctets /\ Minimal(Data), Signed(Data))

FitsUnsignedByLength(octets) == Len(octets) <= IntOctets + 1   \* mutant: the leading octet is not looked at
FitsUnsigned(octets) == Len(octets) <= IntOctets \/ (Len(octets) = IntOctets + 1 /\ octets[1] = 0)

ParseUint64 ==
  Parsing("uint64", HasInteger /\ First < 128 /\ FitsUnsigned(Data), Unsigned(Data) % 256 ^ IntOctets)

Max1(n) == IF n = 0 THEN 1 ELSE n

BigEndian(n, k) == [i \in 1 .. k |-> Digit(n, 256, k, i)]

MagnitudeBare(n) == BigEndian(n, Max1(DigitCount(n, 256, IntOctets)))   \* mutant: no leading zero
(* The fewest octets, and a zero before them if they would look negative.  *)
Magnitude(n) ==
  LET octets == BigEndian(n, Max1(DigitCount(n, 256, IntOctets)))
  IN IF octets[1] >= 128 THEN <<0>> \o octets ELSE octets

(* Two's complement without the octets that only repeat the sign.          *)
TwosComplement(n) ==
  LET octets == BigEndian(n, IntOctets)
      repeats(k) == octets[k] = 255 /\ octets[k + 1] >= 128
      kept == CHOOSE k \in 1 .. IntOctets :
                (k < IntOctets => ~repeats(k)) /\ \A i \in 1 .. k - 1 : repeats(i)
  IN SubSeq(octets, kept, IntOctets)

SerializeInt64 ==
  Serializing("int64", TRUE, Id(Tag.integer),
              IF value >= 0 THEN Magnitude(value) ELSE TwosComplement(value))
SerializeUint64 == Serializing("uint64", TRUE, Id(Tag.integer), Magnitude(value))

-----------------------------------------------------------------------------
(* BIT STRING *)

NoZeroCheck(octets) == TRUE   \* mutant: unused bits are not looked at
UnusedAreZero(octets) == Len(octets) > 1 => octets[Len(octets)] % 2 ^ octets[1] = 0

ParseBitString ==
  Parsing("bits",
          /\ Primitive(Tag.bitString)
          /\ Data # <<>> /\ First <= 7
          /\ Len(Data) = 1 => First = 0
          /\ UnusedAreZero(Data),
          [bytes |-> Tail(Data), unused |-> First])

(* The header, the count and the octets are written one after the other;   *)
(* nothing is checked.                                                     *)
SerializeBitString ==
  Serializing("bits", TRUE, Id(Tag.bitString), <<value.unused>> \o value.bytes)

BitCount(bs) == IF bs.bytes = <<>> THEN 0 ELSE Len(bs.bytes) * 8 - bs.unused
BitGet(bs, i) ==
  i \div 8 < Len(bs.bytes) /\ (bs.bytes[i \div 8 + 1] \div 2 ^ (7 - (i % 8))) % 2 = 1

-----------------------------------------------------------------------------
(* OBJECT IDENTIFIER *)

(* The components read, and the septets of one begun, after each octet.    *)
OidScan(octets) ==
  LET at[i \in 1 .. Len(octets)] ==
        IF i = 1 THEN [oid |-> <<octets[1] \div 40, octets[1] % 40>>, part |-> 0, septets |-> 0]
        ELSE LET v == (at[i - 1].part * 128 + (octets[i] % 128)) % ComponentMod
             IN IF octets[i] < 128
                THEN [oid |-> Append(at[i - 1].oid, v), part |-> 0, septets |-> 0]
                ELSE [oid |-> at[i - 1].oid, part |-> v, septets |-> at[i - 1].septets + 1]
  IN at

OidAccepted(octets) ==
  /\ octets # <<>>
  /\ \A i \in 1 .. Len(octets) : OidScan(octets)[i].septets < Septets
  /\ OidScan(octets)[Len(octets)].septets = 0
  /\ Len(OidScan(octets)[Len(octets)].oid) <= MaxComponents

ParseOid == Parsing("oid", Primitive(Tag.oid) /\ OidAccepted(Data), OidScan(Data)[Len(Data)].oid)

Base128(n) ==
  LET k == Max1(DigitCount(n, 128, Septets))
  IN [i \in 1 .. k |-> Digit(n, 128, k, i) + (IF i < k THEN 128 ELSE 0)]

OidContent(oid) ==
  LET upto[k \in 2 .. Len(oid)] ==
        IF k = 2 THEN <<(oid[1] * 40 + oid[2]) % 256>> ELSE upto[k - 1] \o Base128(oid[k])
  IN upto[Len(oid)]

SerializeOid ==
  Serializing("oid",
              /\ Len(value) >= 2
              /\ value[1] <= 2 /\ (value[1] < 2 => value[2] <= 39)
              /\ Len(OidContent(value)) <= OidBuffer,
              Id(Tag.oid), OidContent(value))

(* asn1_oid_to_string: the length of the text up to a component, and the   *)
(* components for which snprintf is called with what is left of the buffer.*)
TextLengths(oid) ==
  LET length[k \in 0 .. Len(oid)] ==
        IF k = 0 THEN 0
        ELSE length[k - 1] + Max1(DigitCount(oid[k], 10, 10)) + (IF k = 1 THEN 0 ELSE 1)
  IN length
TextLength(oid, k) == TextLengths(oid)[k]

EveryComponent(oid, size) == DOMAIN oid   \* mutant: the loop is not left
PrintedComponents(oid, size) == {k \in DOMAIN oid : \A j \in 1 .. k - 1 : TextLength(oid, j) < size}

TextReturned(oid, size) == TextLength(oid, Cardinality(PrintedComponents(oid, size)))

-----------------------------------------------------------------------------
Init ==
  /\ type \in DOMAIN Values
  /\ rules \in (IF type = "boolean" THEN {"BER", "DER"} ELSE {"DER"})
  /\ carried = <<>>
  /\ \/ phase = "received" /\ node \in Nodes /\ value = <<>> /\ arrived = <<node>>
     \/ phase = "chosen" /\ value \in Values[type] /\ node = <<>> /\ arrived = <<>>

Next ==
  \/ ParseBoolean \/ SerializeBoolean
  \/ ParseNull \/ SerializeNull
  \/ ParseOctetString \/ SerializeOctetString
  \/ ParseString \/ SerializeString
  \/ ParseIntegerBytes \/ SerializeIntegerBytes
  \/ ParseInt64 \/ SerializeInt64
  \/ ParseUint64 \/ SerializeUint64
  \/ ParseBitString \/ SerializeBitString
  \/ ParseOid \/ SerializeOid

Spec == Init /\ [][Next]_vars
-----------------------------------------------------------------------------
(* Correctness *)

Parsed == phase = "parsed"

(* The first octet of an OID cannot tell 2.40 from 3.0: those with a       *)
(* second component beyond 39 are written, but not read back.              *)
Representable(oid) == oid[2] < 40

(* What the serializers write, the parsers accept, and read as the value   *)
(* that was written: asn1_types.c pairs its functions.                     *)
RoundTrip ==
  carried # <<>> /\ (type = "oid" => Representable(carried[1])) =>
    /\ phase # "rejected"
    /\ Parsed => value = carried[1]

(* The octets are those of the number in two's complement, and a parser    *)
(* refuses an INTEGER only if its type does not hold the number or the     *)
(* octets are not the fewest; asn1_parse_uint64 refuses the latter only    *)
(* beyond a word and one octet.                                            *)
Denotes(octets, n) ==
  /\ \A i \in DOMAIN octets : octets[i] = (n \div 256 ^ (Len(octets) - i)) % 256
  /\ n \in -(128 * 256 ^ (Len(octets) - 1)) .. 128 * 256 ^ (Len(octets) - 1) - 1

HeldBy(t, n) ==
  \/ t = "int64" /\ n \in -(256 ^ IntOctets \div 2) .. 256 ^ IntOctets \div 2 - 1
  \/ t = "uint64" /\ n \in 0 .. 256 ^ IntOctets - 1

ReadsTheNumber ==
  /\ type \in {"int64", "uint64"} /\ Parsed => Denotes(Data, value) /\ HeldBy(type, value)
  /\ type = "integer" /\ Parsed => (value.negative <=> Signed(Data) < 0)
  /\ type \in {"int64", "uint64"} /\ phase = "rejected" /\ HasInteger =>
       \/ ~HeldBy(type, Signed(Data))
       \/ ~Minimal(Data) /\ (type = "uint64" => Len(Data) > IntOctets + 1)

(* A received value is sent on as the octets that were received.  Only an  *)
(* unsigned INTEGER, an OID and a BER BOOLEAN have other forms; those are  *)
(* sent in one that is no longer.                                          *)
Canonical ==
  arrived # <<>> /\ phase = "sent" =>
    \/ Data = arrived[1].data
    \/ (type \in {"uint64", "oid"} \/ rules = "BER") /\ Len(Data) <= Len(arrived[1].data)

(* The accessors of a parsed bit string agree: the bit count is that of    *)
(* its octets less the unused bits, and the unused bits read as zero.      *)
BitsAgree ==
  type = "bits" /\ Parsed =>
    /\ BitCount(value) \in 0 .. 8 * Len(value.bytes)
    /\ \A i \in BitCount(value) .. 8 * Len(value.bytes) + 8 : ~BitGet(value, i)

(* asn1_oid_to_string is never past the end of its buffer when it calls    *)
(* snprintf, and what it returns is less than the size exactly if the text *)
(* and its terminating zero fit.  If they do not, it says no more than     *)
(* that: see TextReturnsRequired.                                          *)
TextFits ==
  type = "oid" /\ (Parsed \/ phase = "chosen") =>
    \A size \in TextSizes :
      LET all == TextLength(value, Len(value))
          returned == TextReturned(value, size)
      IN /\ \A k \in PrintedComponents(value, size) : k > 1 => TextLength(value, k - 1) <= size
         /\ returned < size <=> all < size
         /\ returned < size => returned = all

(* "Number of characters written (excluding null), or required size if     *)
(* buffer too small" (asn1_types.h:276): what asn1_oid_to_string returns   *)
(* is the length of the whole text, with or without its zero if it is cut. *)
TextReturnsRequired ==
  type = "oid" /\ (Parsed \/ phase = "chosen") =>
    \A size \in TextSizes :
      LET all == TextLength(value, Len(value))
      IN TextReturned(value, size) \in (IF all < size THEN {all} ELSE {all, all + 1})
=============================================================================
