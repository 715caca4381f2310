--------------------------- MODULE BerConformance ---------------------------
(***************************************************************************)
(* The parser against the reference semantics of the encoding rules.       *)
(***************************************************************************)
EXTENDS BerParser

Grammar == INSTANCE BerGrammar

(* The tree a caller sees through asn1_root_node and the child iterators.  *)
RECURSIVE TreeAt(_)
TreeAt(i) ==
  LET n == nodes[i]
      kids == Children(nodes, i)
  IN [class |-> n.class, tag |-> n.tag, constructed |-> n.constructed,
      content |-> IF n.constructed THEN [k \in DOMAIN kids |-> TreeAt(kids[k])]
                  ELSE SubSeq(data, n.value + 1, n.value + n.length)]

(* asn1_parse returns ASN1_OK exactly on the encodings, under the rules    *)
(* asked for, of a tree within the depth limit and the caller's array, and *)
(* what it then returns is that tree.                                      *)
AgreesWithGrammar ==
  pc = "idle" /\ data # <<>> /\ NoWrap =>
    LET trees == Grammar!Decode(data, rules) IN
    /\ Succeeded <=> \E t \in trees : /\ Grammar!Height(t) <= MaxDepth
                                      /\ Grammar!NodeCount(t) <= capacity
    /\ Succeeded => trees = {TreeAt(1)}

(* "DER requires minimal encoding" (asn1_parser.c:104): the DER parser     *)
(* accepts only the DER encoding of the tree it returns, so that encoding  *)
(* the tree again gives the same octets.                                   *)
DerCanonical ==
  Succeeded /\ rules = "DER" => Grammar!Encode(TreeAt(1)) = data

(* "pointer to the value bytes (within encoded_bytes)" (asn1.h:85): the    *)
(* value of a primitive node lies within the node and within the input.    *)
ValueWithinNode ==
  \A i \in DOMAIN nodes :
    ~nodes[i].constructed => nodes[i].value + nodes[i].length <= Len(data)
=============================================================================
