---------------------------- MODULE DerSerializer ----------------------------
(***************************************************************************)
(* The DER serializer of the C99 runtime (asn1_serializer.c) under its     *)
(* callers' protocol: a caller keeps the marker that begin returned in a   *)
(* local variable and ends the element before its own caller ends the      *)
(* enclosing one; it returns the first error, and its callers do too.      *)
(*                                                                         *)
(* out is s->buffer[0 .. s->length - 1]; no operation reads beyond it.     *)
(***************************************************************************)
EXTENDS DerHeader

CONSTANTS
  Primitives,   \* primitive elements that are serialized: [id, value]
  Containers,   \* identifiers of constructed elements
  Raws,         \* pre-encoded octets given to asn1_serialize_raw
  Capacities,   \* buffer sizes
  Reserved,     \* octets reserved for a length: 5
  MaxCalls      \* calls between two initialisations: bounds the model only

Octets == 0 .. 255
Ids == [class : 0 .. 3, tag : Nat]

ASSUME DerSerializerAssumption ==
  /\ Primitives \subseteq [id : Ids, value : Seq(Octets)]
  /\ Containers \subseteq Ids
  /\ Raws \subseteq Seq(Octets)
  /\ Capacities \subseteq Nat
  /\ Reserved \in 2 .. 127
  /\ MaxCalls \in Nat

VARIABLES
  capacity,   \* s->capacity
  out,        \* what has been written, s->length octets
  markers,    \* the callers' markers, outermost first
  err,        \* what the last call returned
  calls       \* calls since asn1_serializer_init

vars == <<capacity, out, markers, err, calls>>

-----------------------------------------------------------------------------

FitsOffByOne(octets) == Len(out) + Len(octets) < capacity   \* mutant
FitsWithoutLength(octets) == Len(octets) <= capacity        \* mutant

(* reserve                                                                 *)
Fits(octets) == Len(out) + Len(octets) <= capacity

(* The error returns through every open caller, and the markers with it.   *)
Fail ==
  /\ err' = "BUFFER_TOO_SMALL"
  /\ markers' = <<>>

Calling ==
  /\ err = "OK" /\ calls < MaxCalls
  /\ calls' = calls + 1
  /\ UNCHANGED capacity

(* write_bytes of one part after the other: what precedes the part that    *)
(* does not fit stays written.                                             *)
Partial(first, second) ==
  IF Fits(first \o second) THEN first \o second ELSE IF Fits(first) THEN first ELSE <<>>

Init ==
  /\ capacity \in Capacities
  /\ out = <<>>
  /\ markers = <<>>
  /\ err = "OK"
  /\ calls = 0

(* asn1_serializer_init, for a new document.                               *)
Restart ==
  /\ capacity' \in Capacities
  /\ out' = <<>>
  /\ markers' = <<>>
  /\ err' = "OK"
  /\ calls' = 0

Encoding(e) == EncodeIdentifier(e.id, FALSE) \o EncodeLength(Len(e.value)) \o e.value

SerializePrimitive(e) ==
  LET written == Partial(EncodeIdentifier(e.id, FALSE), EncodeLength(Len(e.value))) IN
  /\ Calling
  /\ \/ Fits(Encoding(e)) /\ out' = out \o Encoding(e) /\ UNCHANGED <<markers, err>>
     \/ ~Fits(Encoding(e)) /\ out' = out \o written /\ Fail

SerializeRaw(octets) ==
  /\ Calling
  /\ \/ Fits(octets) /\ out' = out \o octets /\ UNCHANGED <<markers, err>>
     \/ ~Fits(octets) /\ UNCHANGED out /\ Fail

(* A long form length of zero, in all the octets reserved.                 *)
Placeholder == [i \in 1 .. Reserved |-> IF i = 1 THEN 127 + Reserved ELSE 0]

MarkerBeforeIdentifier(id) == Len(out)   \* mutant
Marker(id) == Len(out) + Len(id)

ConstructedBegin(i) ==
  LET id == EncodeIdentifier(i, TRUE) IN
  /\ Calling
  /\ \/ /\ Fits(id \o Placeholder)
        /\ out' = out \o id \o Placeholder
        /\ markers' = Append(markers, Marker(id))
        /\ UNCHANGED err
     \/ ~Fits(id \o Placeholder) /\ out' = out \o Partial(id, <<>>) /\ Fail

Outermost == markers[1]   \* mutant
Innermost == markers[Len(markers)]

SettledKeepingLength(marker, length) ==   \* mutant: s->length -= saved is missing
  SubSeq(out, 1, marker) \o length \o SubSeq(out, marker + Reserved + 1, Len(out))
    \o SubSeq(out, Len(out) - (Reserved - Len(length)) + 1, Len(out))

SettledOffByOne(marker, length) ==   \* mutant: the content is moved from one octet before it
  SubSeq(out, 1, marker) \o length \o SubSeq(out, marker + Reserved, Len(out) - 1)

(* The length replaces the placeholder and the content moves up to it.     *)
Settled(marker, length) ==
  SubSeq(out, 1, marker) \o length \o SubSeq(out, marker + Reserved + 1, Len(out))

FitsReservedOffByOne(length) == Len(length) < Reserved   \* mutant
FitsReserved(length) == Len(length) <= Reserved

ConstructedEnd ==
  LET length == EncodeLength(Len(out) - (Innermost + Reserved)) IN
  /\ Calling
  /\ markers # <<>>
  /\ \/ /\ FitsReserved(length)
        /\ out' = Settled(Innermost, length)
        /\ markers' = SubSeq(markers, 1, Len(markers) - 1)
        /\ UNCHANGED err
     \/ ~FitsReserved(length) /\ UNCHANGED out /\ Fail

Next ==
  \/ Restart
  \/ \E e \in Primitives : SerializePrimitive(e)
  \/ \E octets \in Raws : SerializeRaw(octets)
  \/ \E i \in Containers : ConstructedBegin(i)
  \/ ConstructedEnd

Spec == Init /\ [][Next]_vars
-----------------------------------------------------------------------------
(* Correctness *)

(* Every variable has its type, and nothing is written past the buffer.    *)
TypeOK ==
  /\ capacity \in Nat
  /\ out \in Seq(Octets) /\ Len(out) <= capacity
  /\ markers \in Seq(Nat)
  /\ err \in {"OK", "BUFFER_TOO_SMALL"}
  /\ calls \in 0 .. MaxCalls

(* Each open element still has its placeholder where its caller's marker   *)
(* says, ending before the next element's identifier: so the content       *)
(* length that end computes does not wrap, and the octets it overwrites    *)
(* are its own.                                                            *)
Placeholders ==
  \A k \in DOMAIN markers :
    /\ markers[k] > 0
    /\ markers[k] + Reserved <= Len(out)
    /\ \A i \in 1 .. Reserved : out[markers[k] + i] = Placeholder[i]
    /\ \A j \in 1 .. k - 1 : markers[j] + Reserved < markers[k]

(* What precedes the innermost open element's length is final: callers     *)
(* that remember a position there (the start of an element, an enclosing   *)
(* marker) still find their octets after any call.                         *)
PrefixKept ==
  (markers # <<>> /\ calls' > calls) =>
    LET marker == markers[Len(markers)] IN
    /\ Len(out') >= marker
    /\ \A i \in 1 .. marker : out'[i] = out[i]

PrefixStable == [][PrefixKept]_vars

(* The octets of out between placeholder k - 1 and placeholder k: the      *)
(* document's, or an open element's, and the identifier of the next one.   *)
Region(k) ==
  SubSeq(out, IF k = 1 THEN 1 ELSE markers[k - 1] + Reserved + 1,
              IF k = Len(markers) + 1 THEN Len(out) ELSE markers[k])

Contents == IF err = "OK" THEN [k \in 1 .. Len(markers) + 1 |-> Region(k)] ELSE <<>>

Document == INSTANCE DocumentBuilder
  WITH open        <- Contents,
       failed      <- err # "OK",
       Elements    <- {Encoding(e) : e \in Primitives} \union Raws,
       Identifiers <- {EncodeIdentifier(i, TRUE) : i \in Containers},
       Length      <- EncodeLength

(* The buffer holds what would be there if every length had been known     *)
(* before its content was written: reserving octets, patching them and     *)
(* moving the content up loses, repeats and exchanges nothing.             *)
ImplementsDocument == Document!Spec

(* The size of the document if the elements still open were ended now:     *)
(* size[j], of what the j innermost open ones and the one around them hold.*)
ClosedSize(contents) ==
  LET n == Len(contents)
      size[j \in 0 .. n - 1] ==
        IF j = 0 THEN Len(contents[n])
        ELSE Len(contents[n - j]) + Len(EncodeLength(size[j - 1])) + size[j - 1]
  IN size[n - 1]

(* It exceeds the buffer, together with the octets that the placeholders   *)
(* of the open elements have and their lengths may not need.               *)
TooLarge(contents) == ClosedSize(contents) + (Reserved - 1) * (Len(contents) - 1) > capacity

(* No call fails unless the document it would lead to is too large; end    *)
(* fails only on content longer than a placeholder can announce.           *)
OnlyWhenFull ==
  err' # "OK" =>
    /\ \A e \in Primitives :
         SerializePrimitive(e) => TooLarge(Document!Extended(Contents, Encoding(e)))
    /\ \A octets \in Raws :
         SerializeRaw(octets) => TooLarge(Document!Extended(Contents, octets))
    /\ \A i \in Containers :
         ConstructedBegin(i) =>
           TooLarge(Append(Document!Extended(Contents, EncodeIdentifier(i, TRUE)), <<>>))
    /\ ConstructedEnd => Len(out) - Innermost - Reserved >= 256 ^ (Reserved - 1)

FailsOnlyWhenFull == [][OnlyWhenFull]_vars
=============================================================================
