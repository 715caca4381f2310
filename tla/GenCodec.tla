------------------------------ MODULE GenCodec ------------------------------
(***************************************************************************)
(* The encoders and decoders that the C99 emitter generates                *)
(* (C99Emitter.ex), for any set of ASN.1 definitions.  A caller encodes a  *)
(* value, or receives a document, and decodes and encodes in turn.  What   *)
(* the serializer writes and the parser reads back is a tree               *)
(* (SerializerConformance, BerConformance); full buffers are left out.     *)
(* Recursive, so evaluated by TLC only.                                    *)
(***************************************************************************)
EXTENDS Integers, Sequences, SequencesExt

CONSTANTS
  Types,         \* the definitions, by name
  MaxElements,   \* ASN1C_MAX_SEQUENCE_ELEMENTS
  Values,        \* for each name, values of its struct
  Documents      \* trees that may be received

(* A type as a field sees it, by how its C type is encoded:                *)
(*   "word"    INTEGER, BOOLEAN, ENUMERATED, NULL: a number of C           *)
(*   "string"  a struct of the runtime, with functions of its own          *)
(*   "node"    ANY (tag 0) and a nested SEQUENCE: the octets, undecoded    *)
(*   "of"      a nested SEQUENCE OF, for which a list is defined           *)
(*   "ref"     a definition, by its name; one of @cyclic_types is AnyType, *)
(*             and definitions that refer to themselves are left out       *)
(* tag: what primitive_encoder, primitive_decoder and choice_variant take  *)
(* the type for, 0 if they do not have it; written: the tag that the       *)
(* functions of its C type write and require; known: universal_tag has     *)
(* tag; tagged: primitive_encoder_for_choice_with_tag has the struct.      *)
Word(tag, written, known) == [k |-> "word", tag |-> tag, written |-> written, known |-> known]
Integer == Word(2, 2, TRUE)
Null == Word(5, 5, TRUE)
Enumerated == Word(0, 2, FALSE)   \* int64_t
String(tag, written, known, tagged) ==
  [k |-> "string", tag |-> tag, written |-> written, known |-> known, tagged |-> tagged]
OctetString == String(4, 4, TRUE, TRUE)
Oid == String(6, 6, TRUE, FALSE)
IA5String == String(22, 22, TRUE, TRUE)
UTF8String == String(12, 12, FALSE, TRUE)
GeneralizedTime == String(24, 24, TRUE, FALSE)
(* Their struct is ASN1C_OctetString.                                      *)
VisibleString == String(26, 4, TRUE, TRUE)
NumericString == String(18, 4, TRUE, TRUE)
GeneralString == String(0, 4, FALSE, TRUE)
AnyType == [k |-> "node", tag |-> 0, known |-> FALSE]
Nested == [k |-> "node", tag |-> 16, known |-> TRUE]
Of(name) == [k |-> "of", name |-> name, tag |-> 16, known |-> TRUE]
Ref(name) == [k |-> "ref", name |-> name, tag |-> 16, known |-> TRUE]

UniversalTag(type) == IF type.known THEN type.tag ELSE 0

VARIABLES
  root,      \* the definition whose functions are called
  phase,
  value,     \* the struct
  document,  \* the tree
  origin     \* history: the value or the document that it began with

vars == <<root, phase, value, document, origin>>

-----------------------------------------------------------------------------
(* Trees.  A value that is absent, or a variant not selected, is <<>>.     *)

Universal(tag) == [class |-> 0, tag |-> tag]
Context(number) == [class |-> 2, tag |-> number]
Leaf(id, v) == [id |-> id, constructed |-> FALSE, value |-> v, content |-> <<>>]
Wrap(id, trees) == [id |-> id, constructed |-> TRUE, value |-> 0, content |-> trees]

KeepingClass(t, number) == [t EXCEPT !.id.tag = number]   \* mutant: 0x80 is not set
(* s->buffer[start], of an identifier of one octet, overwritten            *)
Overwritten(t, number) == [t EXCEPT !.id = Context(number)]

-----------------------------------------------------------------------------
(* Encoders: the trees written for a value                                 *)

RECURSIVE EncodeNamed(_, _)

(* What the generators emit for a type alone, without a tag of the field:  *)
(* primitive_encoder, by the type; nothing for a SEQUENCE OF and for the   *)
(* strings that it does not have.                                          *)
PrimitiveEncode(type, v) ==
  CASE type.k = "word" -> <<Leaf(Universal(type.written), v)>>
    [] type.k = "string" -> IF type.tag = 0 THEN <<>> ELSE <<Leaf(Universal(type.tag), v)>>
    [] type.k = "node" -> <<v>>
    [] type.k = "of" -> <<>>
    [] type.k = "ref" -> EncodeNamed(Types[type.name], v)

(* By the C type: its own functions, if it has them.                       *)
Encode(type, v) ==
  CASE type.k = "string" -> <<Leaf(Universal(type.written), v)>>
    [] type.k = "of" -> EncodeNamed(Types[type.name], v)
    [] type.k \in {"word", "node", "ref"} -> PrimitiveEncode(type, v)

Explicit(field, v) == <<Wrap(Context(field.number), Encode(field.type, v))>>

(* emit_field_encoder.  primitive_encoder_with_tag falls back to           *)
(* primitive_encoder for words.                                            *)
EncodeField(field, v) ==
  CASE field.tagging = "EXPLICIT" -> Explicit(field, v)
    [] field.tagging = "IMPLICIT" /\ field.type.k \notin {"node", "word"} ->
         <<Overwritten(Encode(field.type, v)[1], field.number)>>
    [] OTHER -> Encode(field.type, v)

(* primitive_encoder_for_choice_with_tag for IMPLICIT tags: NULL keeps its *)
(* own, and what is emitted for other words does not compile.              *)
EncodeVariant(field, v) ==
  CASE field.tagging = "EXPLICIT" -> Explicit(field, v)
    [] field.tagging = "IMPLICIT" /\ field.type.k = "string" /\ field.type.tagged ->
         <<Leaf(Context(field.number), v)>>
    [] field.tagging = "IMPLICIT" /\ field.type.k # "word" -> Explicit(field, v)
    [] OTHER -> PrimitiveEncode(field.type, v)

(* trees[i]: what is written for the i-th field, if it is present          *)
Present(v, trees) == FlattenSeq([i \in DOMAIN v |-> IF v[i] = <<>> THEN <<>> ELSE trees[i]])

EncodeAlias(def, v) == Encode(def.of, v)
EncodeList(def, v) == <<Wrap(Universal(16), FlattenSeq([i \in DOMAIN v |-> Encode(def.of, v[i])]))>>
EncodeSequence(def, v) ==
  <<Wrap(Universal(16), Present(v, [i \in DOMAIN v |-> EncodeField(def.fields[i], v[i][1])]))>>
EncodeChoice(def, v) == Present(v, [i \in DOMAIN v |-> EncodeVariant(def.fields[i], v[i][1])])

EncodeNamed(def, v) ==
  CASE def.form = "alias" -> EncodeAlias(def, v)
    [] def.form = "list" -> EncodeList(def, v)
    [] def.form = "sequence" -> EncodeSequence(def, v)
    [] def.form = "choice" -> EncodeChoice(def, v)

-----------------------------------------------------------------------------
(* Decoders: the values, one or none.  A node is a tree, the identifier it *)
(* is seen with, and whether it lies in the parser's array: a copy, made   *)
(* to change the identifier, does not, and has no children to iterate over.*)

Seen(t) == [id |-> t.id, tree |-> t, real |-> TRUE]
Faked(node, type) == [node EXCEPT !.id = Universal(UniversalTag(type)), !.real = FALSE]
Children(node) == IF node.real THEN [i \in DOMAIN node.tree.content |-> Seen(node.tree.content[i])] ELSE <<>>

(* What the functions of the strings' structs check: the identifier and    *)
(* that it is primitive, nothing, or the identifier alone.                 *)
ReadString(tag, node) ==
  CASE tag \in {3, 4, 6} -> IF node.id = Universal(tag) /\ ~node.tree.constructed THEN {node.tree.value} ELSE {}
    [] tag \in {23, 24} -> {node.tree.value}
    [] OTHER -> IF node.id = Universal(tag) THEN {node.tree.value} ELSE {}

RECURSIVE DecodeNamed(_, _)

(* primitive_decoder.  Where it emits nothing the struct stays as it was,  *)
(* cleared by the caller.                                                  *)
PrimitiveDecode(type, node) ==
  CASE type.k = "word" ->
         IF node.id = Universal(type.written) /\ ~node.tree.constructed THEN {node.tree.value} ELSE {}
    [] type.k = "string" -> IF type.tag = 0 THEN {0} ELSE ReadString(type.tag, node)
    [] type.k = "node" -> {node.tree}
    [] type.k = "of" -> {<<>>}
    [] type.k = "ref" -> DecodeNamed(Types[type.name], node)

Decode(type, node) ==
  CASE type.k = "string" -> ReadString(type.written, node)
    [] type.k = "of" -> DecodeNamed(Types[type.name], node)
    [] type.k \in {"word", "node", "ref"} -> PrimitiveDecode(type, node)

(* The first child of an EXPLICIT tag's node, if it has one.               *)
Unwrapped(node) == {Children(node)[i] : i \in DOMAIN Children(node) \intersect {1}}

(* match_cond of emit_field_decoder                                        *)
Matches(field, node) ==
  CASE field.tagging # "none" -> node.id = Context(field.number)
    [] field.type.k # "ref" /\ UniversalTag(field.type) > 0 -> node.id = Universal(field.type.tag)
    [] OTHER -> TRUE

DecodeField(field, node) ==
  CASE field.tagging = "EXPLICIT" -> UNION {Decode(field.type, n) : n \in Unwrapped(node)}
    [] field.tagging = "IMPLICIT" -> Decode(field.type, Faked(node, field.type))
    [] OTHER -> Decode(field.type, node)

KeptForNext(children) == children   \* mutant: child = NULL is forgotten
Consumed(children) == Tail(children)

(* The decoders of the fields from the i-th, one after the other: a child  *)
(* that an optional field does not match is kept for the next, and what is *)
(* left after the last is ignored.                                         *)
RECURSIVE DecodeFields(_, _, _)
DecodeFields(fields, i, children) ==
  IF i > Len(fields) THEN {<<>>}
  ELSE IF children # <<>> /\ Matches(fields[i], children[1])
  THEN {<< <<v>> >> \o vs : v \in DecodeField(fields[i], children[1]),
                            vs \in DecodeFields(fields, i + 1, Consumed(children))}
  ELSE IF fields[i].optional THEN {<< <<>> >> \o vs : vs \in DecodeFields(fields, i + 1, children)}
  ELSE {}

(* choice_variant: the identifier that selects a variant, if any           *)
Selectors(field) ==
  CASE field.tagging # "none" -> {Context(field.number)}
    [] field.type.tag > 0 -> {Universal(field.type.tag)}
    [] OTHER -> {}

DecodeVariant(field, node) ==
  CASE field.tagging = "EXPLICIT" -> UNION {PrimitiveDecode(field.type, n) : n \in Unwrapped(node)}
    [] field.tagging = "IMPLICIT" -> PrimitiveDecode(field.type, Faked(node, field.type))
    [] OTHER -> PrimitiveDecode(field.type, node)

DecodeChoice(fields, node) ==
  LET chosen == {i \in DOMAIN fields : node.id \in Selectors(fields[i])}
      first == CHOOSE i \in chosen : \A j \in chosen : i <= j
  IN IF chosen = {} THEN {}
     ELSE {[i \in DOMAIN fields |-> IF i = first THEN <<v>> ELSE <<>>] : v \in DecodeVariant(fields[first], node)}

RECURSIVE DecodeAll(_, _)
DecodeAll(type, nodes) ==
  IF nodes = <<>> THEN {<<>>}
  ELSE {<<v>> \o vs : v \in Decode(type, nodes[1]), vs \in DecodeAll(type, Tail(nodes))}

FirstOnes(nodes, n) == SubSeq(nodes, 1, IF Len(nodes) < n THEN Len(nodes) ELSE n)
OneTooFew(nodes) == FirstOnes(nodes, MaxElements - 1)   \* mutant
(* The loop of emit_array_encode_decode ends when the array is full.       *)
Elements(nodes) == FirstOnes(nodes, MaxElements)

DecodeAlias(def, node) == IF def.of = Null THEN {0} ELSE Decode(def.of, node)   \* NULL: nothing is read
DecodeList(def, node) == IF node.tree.constructed THEN DecodeAll(def.of, Elements(Children(node))) ELSE {}
DecodeSequence(def, node) == IF node.tree.constructed THEN DecodeFields(def.fields, 1, Children(node)) ELSE {}

DecodeNamed(def, node) ==
  CASE def.form = "alias" -> DecodeAlias(def, node)
    [] def.form = "list" -> DecodeList(def, node)
    [] def.form = "sequence" -> DecodeSequence(def, node)
    [] def.form = "choice" -> DecodeChoice(def.fields, node)

-----------------------------------------------------------------------------
Init ==
  /\ root \in DOMAIN Types
  /\ \/ phase = "chosen" /\ value \in {<<v>> : v \in Values[root]} /\ document = <<>> /\ origin = value
     \/ phase = "received" /\ document \in {<<d>> : d \in Documents} /\ value = <<>> /\ origin = document

CallEncode ==
  /\ phase \in {"chosen", "decoded"}
  /\ document' = Encode(Ref(root), value[1])
  /\ phase' = IF phase = "chosen" THEN "sent" ELSE "sent on"
  /\ UNCHANGED <<root, value, origin>>

(* A parsed document is one tree.                                          *)
CallDecode ==
  /\ phase \in {"received", "sent"} /\ Len(document) = 1
  /\ LET decoded == Decode(Ref(root), Seen(document[1])) IN
     \/ decoded # {} /\ value' \in {<<v>> : v \in decoded}
          /\ phase' = IF phase = "received" THEN "decoded" ELSE "returned"
     \/ decoded = {} /\ UNCHANGED value
          /\ phase' = IF phase = "received" THEN "rejected" ELSE "refused"
  /\ UNCHANGED <<root, document, origin>>

Next == CallEncode \/ CallDecode
Spec == Init /\ [][Next]_vars
=============================================================================
