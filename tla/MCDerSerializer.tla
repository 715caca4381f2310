--------------------------- MODULE MCDerSerializer ---------------------------
(***************************************************************************)
(* Instances of DerSerializer for TLC: values whose lengths lie on both    *)
(* sides of the steps of the length encoding once they are wrapped, and    *)
(* whose sum passes 255, the limit of a placeholder of 2 octets.           *)
(***************************************************************************)
EXTENDS SerializerConformance

Zeros(n) == [i \in 1 .. n |-> 0]

Integer == [class |-> 0, tag |-> 2]
Sequence == [class |-> 0, tag |-> 16]
Tagged == [class |-> 2, tag |-> 31]

SmallPrimitives ==
  {[id |-> Integer, value |-> <<5>>], [id |-> [class |-> 2, tag |-> 128], value |-> <<>>],
   [id |-> Integer, value |-> Zeros(124)], [id |-> [class |-> 1, tag |-> 30], value |-> Zeros(128)]}

SmallContainers == {Sequence, Tagged}
SmallRaws == {<<48, 2, 5, 0>>}
=============================================================================
