----------------------------- MODULE TreeBuilder -----------------------------
(***************************************************************************)
(* What a serializer promises its callers: the calls between two           *)
(* initialisations build a forest, one tree per element, the children of a *)
(* constructed element being those added between its begin and its end.    *)
(* A failed call loses the document.                                       *)
(***************************************************************************)
EXTENDS Integers, Sequences

CONSTANTS
  Primitives,   \* primitive elements: [id, value]
  Containers,   \* identifiers of constructed elements
  RawTrees      \* what pre-encoded elements stand for

VARIABLES
  open,    \* the elements begun and not ended, outermost first: id and children;
           \* the first entry holds the finished top-level trees
  failed

vars == <<open, failed>>

Leaf(e) == [class |-> e.id.class, tag |-> e.id.tag, constructed |-> FALSE, content |-> e.value]
Node(f) == [class |-> f.id.class, tag |-> f.id.tag, constructed |-> TRUE, content |-> f.trees]

Root == [id |-> [class |-> 0, tag |-> 0], trees |-> <<>>]
Added(frames, t) == [frames EXCEPT ![Len(frames)].trees = Append(@, t)]

Init == open = <<Root>> /\ failed = FALSE

Add ==
  /\ ~failed
  /\ \E t \in {Leaf(e) : e \in Primitives} \union RawTrees : open' = Added(open, t)
  /\ UNCHANGED failed

Begin ==
  /\ ~failed
  /\ \E id \in Containers : open' = Append(open, [id |-> id, trees |-> <<>>])
  /\ UNCHANGED failed

End ==
  /\ ~failed /\ Len(open) > 1
  /\ open' = Added(SubSeq(open, 1, Len(open) - 1), Node(open[Len(open)]))
  /\ UNCHANGED failed

Fail == ~failed /\ failed' = TRUE /\ open' = <<>>

Restart == open' = <<Root>> /\ failed' = FALSE

Next == Add \/ Begin \/ End \/ Fail \/ Restart

Spec == Init /\ [][Next]_vars
=============================================================================
