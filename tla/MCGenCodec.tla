----------------------------- MODULE MCGenCodec -----------------------------
(***************************************************************************)
(* Definitions for TLC, with the constructs of the modules that the        *)
(* compiler is run on, and values that tell their fields apart.            *)
(***************************************************************************)
EXTENDS GenCodecConformance, FiniteSets

Field(type, tagging, number, optional) ==
  [type |-> type, tagging |-> tagging, number |-> number, optional |-> optional]
Plain(type) == Field(type, "none", 0, FALSE)
Optional(type) == Field(type, "none", 0, TRUE)
Alias(type) == [form |-> "alias", of |-> type]
List(type) == [form |-> "list", of |-> type]
SequenceOf(fields) == [form |-> "sequence", fields |-> fields]
ChoiceOf(fields) == [form |-> "choice", fields |-> fields]

MCTypes ==
  [Serial |-> Alias(Integer),
   Nothing |-> Alias(Null),
   Time |-> Alias(GeneralizedTime),
   Serials |-> List(Ref("Serial")),
   Texts |-> List(IA5String),
   Algorithm |-> SequenceOf(<<Plain(Oid), Optional(AnyType)>>),
   Name |-> ChoiceOf(<<Plain(Ref("Serials")), Plain(IA5String)>>),
   General |-> ChoiceOf(<<Field(IA5String, "IMPLICIT", 0, FALSE), Field(Ref("Algorithm"), "EXPLICIT", 1, FALSE),
                          Plain(Nested), Field(OctetString, "IMPLICIT", 2, FALSE), Plain(Integer)>>),
   Header |-> SequenceOf(<<Plain(Integer), Plain(Ref("General")), Field(Oid, "IMPLICIT", 0, TRUE),
                           Field(GeneralizedTime, "EXPLICIT", 1, TRUE),
                           Field(Ref("Algorithm"), "EXPLICIT", 2, TRUE), Optional(Of("Serials"))>>),
   Extension |-> SequenceOf(<<Plain(Oid), Optional(Integer), Plain(OctetString)>>),
   Extensions |-> List(Ref("Extension")),
   Request |-> SequenceOf(<<Optional(Ref("Serial")), Plain(Nested), Field(Nested, "IMPLICIT", 3, TRUE)>>),
   Tagged |-> SequenceOf(<<Field(Integer, "IMPLICIT", 0, TRUE), Field(UTF8String, "IMPLICIT", 1, TRUE),
                           Field(Ref("Algorithm"), "IMPLICIT", 2, TRUE), Field(Of("Texts"), "IMPLICIT", 3, TRUE)>>),
   DisplayText |-> ChoiceOf(<<Plain(IA5String), Plain(VisibleString), Plain(UTF8String),
                              Field(NumericString, "IMPLICIT", 0, FALSE)>>),
   State |-> Alias(Enumerated),
   Labels |-> List(VisibleString),
   Notice |-> SequenceOf(<<Plain(Enumerated), Field(VisibleString, "EXPLICIT", 0, TRUE),
                           Field(NumericString, "IMPLICIT", 1, TRUE), Optional(GeneralString)>>),
   Bare |-> SequenceOf(<<Optional(VisibleString), Plain(Ref("DisplayText"))>>),
   Other |-> ChoiceOf(<<Plain(Enumerated), Plain(GeneralString), Field(GeneralString, "IMPLICIT", 0, FALSE),
                        Field(VisibleString, "EXPLICIT", 1, FALSE), Field(GeneralString, "EXPLICIT", 2, FALSE)>>),
   Loose |-> ChoiceOf(<<Field(Oid, "IMPLICIT", 0, FALSE), Field(Null, "IMPLICIT", 1, FALSE),
                        Field(Ref("Name"), "IMPLICIT", 2, FALSE), Plain(Of("Texts")), Plain(AnyType)>>)]

(* Values with a number for each field, so that they cannot be mistaken.   *)
NodeFor(field, n) ==
  Wrap(IF field.tagging = "IMPLICIT" THEN Context(field.number) ELSE Universal(16), <<Leaf(Universal(2), n)>>)

RECURSIVE ValuesOf(_, _)
FieldValues(field, n) ==
  IF field.type.k = "node" THEN {NodeFor(field, n)} ELSE ValuesOf(field.type, n)

RECURSIVE Tuples(_, _, _)
Tuples(fields, i, n) ==
  IF i > Len(fields) THEN {<<>>}
  ELSE {<<o>> \o rest : o \in {<<v>> : v \in FieldValues(fields[i], 10 * n + i)}
                                \union (IF fields[i].optional THEN {<<>>} ELSE {}),
                        rest \in Tuples(fields, i + 1, n)}

RECURSIVE Lists(_, _, _)
Lists(type, k, n) ==
  IF k = 0 THEN {<<>>}
  ELSE {Append(l, v) : l \in Lists(type, k - 1, n), v \in ValuesOf(type, 10 * n + k)}

ValuesOf(type, n) ==
  CASE type.k \in {"word", "string"} -> {IF type = Null THEN 0 ELSE n}
    [] type.k = "node" -> {NodeFor(Plain(type), n)}
    [] type.k \in {"of", "ref"} ->
         LET def == MCTypes[type.name] IN
         CASE def.form = "alias" -> ValuesOf(def.of, n)
           [] def.form = "list" -> UNION {Lists(def.of, k, n) : k \in 0 .. MaxElements}
           [] def.form = "sequence" -> Tuples(def.fields, 1, n)
           [] def.form = "choice" ->
                UNION {{[j \in DOMAIN def.fields |-> IF j = i THEN <<v>> ELSE <<>>] :
                         v \in FieldValues(def.fields[i], 10 * n + i)} : i \in DOMAIN def.fields}

MCValues == [name \in DOMAIN MCTypes |-> ValuesOf(Ref(name), 1)]

(* What a peer may send: what any of the definitions writes, with a child  *)
(* removed, doubled or moved forward, or with more than an array holds.    *)
Written == UNION {UNION {{d : d \in ToSet(Encode(Ref(name), v))} : v \in MCValues[name]} : name \in DOMAIN MCTypes}
WithContent(d, c) == [d EXCEPT !.content = c]
Edited(d) ==
  LET c == d.content IN
  {WithContent(d, RemoveAt(c, i)) : i \in DOMAIN c}
    \union {WithContent(d, InsertAt(c, i, c[i])) : i \in DOMAIN c}
    \union {WithContent(d, InsertAt(RemoveAt(c, i), 1, c[i])) : i \in DOMAIN c}
    \union {WithContent(d, c \o c)}
MCDocuments == Written \union UNION {Edited(d) : d \in Written}
=============================================================================
