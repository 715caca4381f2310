---------------------------- MODULE NodeIterator ----------------------------
(***************************************************************************)
(* asn1_children and asn1_next_child of the C99 runtime: the direct        *)
(* children of a node, found in the pre-order node array by depth and      *)
(* subtree_size alone.                                                     *)
(***************************************************************************)
LOCAL INSTANCE Naturals
LOCAL INSTANCE Sequences

ChildWalkShort(ns, depth, last) ==   \* mutant: stops before the last child
  LET walk[k \in Nat \ {0}] ==
        IF k >= last THEN <<>>
        ELSE IF ns[k].depth = depth THEN <<k>> \o walk[k + ns[k].subtree]
        ELSE walk[k + 1]
  IN walk

(* The indices that asn1_next_child returns from an iterator at index k of *)
(* array ns, until it returns NULL at index last + 1.                      *)
ChildWalk(ns, depth, last) ==
  LET walk[k \in Nat \ {0}] ==
        IF k > last THEN <<>>
        ELSE IF ns[k].depth = depth THEN <<k>> \o walk[k + ns[k].subtree]
        ELSE walk[k + 1]
  IN walk

(* asn1_children: an index outside the array gives an empty iterator.      *)
Children(ns, i) ==
  IF i \notin DOMAIN ns THEN <<>>
  ELSE ChildWalk(ns, ns[i].depth + 1, i + ns[i].subtree - 1)[i + 1]
====
