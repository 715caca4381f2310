------------------------ MODULE GenCodecConformance ------------------------
(***************************************************************************)
(* The generated codecs against the encoding rules (X.690), for the        *)
(* definitions whose constructs the emitter handles.                       *)
(***************************************************************************)
EXTENDS GenCodec

(* Which constructs it handles.  Left out, because the functions generated *)
(* for them disagree with the standard or with each other: ENUMERATED,     *)
(* written as INTEGER; VisibleString, NumericString and the strings that   *)
(* only @builtin_map has, written as OCTET STRING, except in a CHOICE,     *)
(* which has the first two; an optional field without a tag of its own     *)
(* that is not the last; IMPLICIT tags on words, on strings that           *)
(* universal_tag does not have, and on what has children; and, in a        *)
(* CHOICE, untagged references to anything but a sequence or a list, and a *)
(* nested SEQUENCE OF.                                                     *)
OwnTag(type) == type.k \in {"word", "string"} => type.tag = type.written

HandledField(fields, i) ==
  LET f == fields[i] IN
  /\ OwnTag(f.type)
  /\ CASE f.tagging = "none" ->
            f.optional /\ (f.type.k = "ref" \/ UniversalTag(f.type) = 0) => i = Len(fields)
       [] f.tagging = "EXPLICIT" -> TRUE
       [] f.tagging = "IMPLICIT" -> f.type.k = "node" \/ (f.type.k = "string" /\ f.type.known)

HandledVariant(f) ==
  CASE f.tagging = "none" -> /\ f.type.k # "of" /\ f.type.tag > 0
                             /\ f.type.k = "ref" => Types[f.type.name].form \in {"sequence", "list"}
    [] f.tagging = "EXPLICIT" -> f.type.k # "of" /\ OwnTag(f.type)
    [] f.tagging = "IMPLICIT" -> f.type.k = "string" /\ f.type.tagged /\ f.type.known

RECURSIVE Handled(_)
Handled(type) ==
  type.k \in {"of", "ref"} =>
    LET def == Types[type.name] IN
    CASE def.form \in {"alias", "list"} -> OwnTag(def.of) /\ Handled(def.of)
      [] def.form = "sequence" ->
           \A i \in DOMAIN def.fields : HandledField(def.fields, i) /\ Handled(def.fields[i].type)
      [] def.form = "choice" ->
           \A i \in DOMAIN def.fields : HandledVariant(def.fields[i]) /\ Handled(def.fields[i].type)

(* X.690: the encoding of a value, with 8.14 for tags.                     *)
RECURSIVE Standard(_, _)
StandardTagged(field, v) ==
  LET trees == Standard(field.type, v) IN
  CASE field.tagging = "none" \/ (field.tagging = "IMPLICIT" /\ field.type.k = "node") -> trees
    [] field.tagging = "EXPLICIT" -> <<Wrap(Context(field.number), trees)>>
    [] field.tagging = "IMPLICIT" /\ field.type.k # "node" -> <<[trees[1] EXCEPT !.id = Context(field.number)]>>
Standard(type, v) ==
  CASE type.k \in {"word", "string"} -> <<Leaf(Universal(type.tag), v)>>
    [] type.k = "node" -> <<v>>
    [] type.k \in {"of", "ref"} ->
         LET def == Types[type.name] IN
         CASE def.form = "alias" -> Standard(def.of, v)
           [] def.form = "list" ->
                <<Wrap(Universal(16), FlattenSeq([i \in DOMAIN v |-> Standard(def.of, v[i])]))>>
           [] def.form = "sequence" ->
                <<Wrap(Universal(16), Present(v, [i \in DOMAIN v |-> StandardTagged(def.fields[i], v[i][1])]))>>
           [] def.form = "choice" -> Present(v, [i \in DOMAIN v |-> StandardTagged(def.fields[i], v[i][1])])

-----------------------------------------------------------------------------
(* Correctness *)

(* What the generated encoders write is the encoding of the value, where a *)
(* tag replaces or wraps what the field's own encoder writes too, for the  *)
(* definitions made of constructs they handle (Handled).                   *)
WritesStandard ==
  phase = "sent" /\ Handled(Ref(root)) => document = Standard(Ref(root), value[1])

(* What they write, the generated decoders of these definitions read as    *)
(* the value written: an absent field takes no other field's child, and an *)
(* array that is just full is read whole.                                  *)
ValueReturns ==
  Handled(Ref(root)) =>
    /\ phase # "refused"
    /\ phase = "returned" => value = origin

(* The leaves of trees that hold anything, from left to right.             *)
RECURSIVE Leaves(_)
Leaves(trees) ==
  FlattenSeq([i \in DOMAIN trees |->
                IF trees[i].constructed THEN Leaves(trees[i].content)
                ELSE IF trees[i].value = 0 THEN <<>> ELSE <<trees[i].value>>])

RECURSIVE Subsequence(_, _)
Subsequence(s, t) ==
  s = <<>> \/ (t # <<>> /\ Subsequence(IF s[1] = t[1] THEN Tail(s) ELSE s, Tail(t)))

(* Whatever is received and accepted, of any definition, comes from the    *)
(* document: no child is decoded twice or out of turn.                     *)
EachChildOnce ==
  phase = "sent on" => Subsequence(Leaves(document), Leaves(origin))
=============================================================================
