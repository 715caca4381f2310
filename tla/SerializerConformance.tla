------------------------ MODULE SerializerConformance ------------------------
(***************************************************************************)
(* The serializer against the reference semantics: it implements           *)
(* TreeBuilder when its buffer is read with BerGrammar.                    *)
(***************************************************************************)
EXTENDS DerSerializer, SequencesExt

Grammar == INSTANCE BerGrammar

NoId == [class |-> 0, tag |-> 0]

(* What d[lo ..] encodes: trees and then, if the octets do not end there,  *)
(* the identifier of a constructed element.  A set, as in BerGrammar.      *)
RECURSIVE RegionsAt(_, _, _)
RegionsAt(d, lo, trees) ==
  IF lo > Len(d) THEN {[trees |-> trees, id |-> NoId]}
  ELSE UNION {RegionsAt(d, t.next, Append(trees, t.tree)) : t \in Grammar!TlvsAt(d, lo, "DER")}
         \union {[trees |-> trees, id |-> [class |-> i.class, tag |-> i.tag]] :
                  i \in {j \in Grammar!IdentifiersAt(d, lo) : j.constructed /\ j.next = Len(d) + 1}}

(* The region of the buffer after placeholder k, up to and including the   *)
(* identifier of open element k + 1.                                       *)
RegionsAfter(k) ==
  UNION {RegionsAt(d, IF k = 0 THEN 1 ELSE markers[k] + Reserved + 1, <<>>) :
         d \in {SubSeq(out, 1, IF k = Len(markers) THEN Len(out) ELSE markers[k + 1])}}

(* The elements open up to placeholder k, and the identifier after them.   *)
RECURSIVE OpenUpTo(_)
OpenUpTo(k) ==
  IF k = 0 THEN {[frames |-> <<[id |-> NoId, trees |-> r.trees]>>, id |-> r.id] : r \in RegionsAfter(0)}
  ELSE {[frames |-> Append(o.frames, [id |-> o.id, trees |-> r.trees]), id |-> r.id] :
        o \in OpenUpTo(k - 1), r \in RegionsAfter(k)}

(* A buffer that encodes nothing maps to no document at all.               *)
Built ==
  LET opens == IF err = "OK" THEN OpenUpTo(Len(markers)) ELSE {} IN
  IF opens = {} THEN <<>> ELSE (CHOOSE o \in opens : TRUE).frames

Builder == INSTANCE TreeBuilder
  WITH open     <- Built,
       failed   <- err # "OK",
       RawTrees <- UNION {Grammar!Decode(d, "DER") : d \in Raws}

(* Every call has the effect on the document that its element has on the   *)
(* tree, wherever the shifts of end have moved what was written before.    *)
ImplementsBuilder == Builder!Spec
=============================================================================
