--------------------------- MODULE DocumentBuilder ---------------------------
(***************************************************************************)
(* What a serializer promises its callers, in octets: TreeBuilder without  *)
(* the trees.  The content of every open element is kept apart, so that    *)
(* its length is known when its octets join those of the element around    *)
(* it: there are no placeholders and nothing moves.                        *)
(***************************************************************************)
EXTENDS Integers, Sequences

CONSTANTS
  Elements,      \* encodings of the complete elements that may be added
  Identifiers,   \* identifier octets of the elements that may be begun
  Length(_)      \* length octets for a number of content octets

VARIABLES
  open,    \* the document and the contents of the elements begun and not ended,
           \* outermost first; the identifier of each precedes its place
  failed

vars == <<open, failed>>

Extended(contents, octets) == [contents EXCEPT ![Len(contents)] = @ \o octets]

Init == open = <<<<>>>> /\ failed = FALSE

Add == ~failed /\ (\E octets \in Elements : open' = Extended(open, octets)) /\ UNCHANGED failed

Begin ==
  /\ ~failed
  /\ \E octets \in Identifiers : open' = Append(Extended(open, octets), <<>>)
  /\ UNCHANGED failed

End ==
  LET content == open[Len(open)] IN
  /\ ~failed /\ Len(open) > 1
  /\ open' = Extended(SubSeq(open, 1, Len(open) - 1), Length(Len(content)) \o content)
  /\ UNCHANGED failed

Fail == ~failed /\ failed' = TRUE /\ open' = <<>>

Restart == open' = <<<<>>>> /\ failed' = FALSE

Next == Add \/ Begin \/ End \/ Fail \/ Restart

Spec == Init /\ [][Next]_vars
=============================================================================
