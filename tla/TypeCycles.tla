----------------------------- MODULE TypeCycles -----------------------------
(***************************************************************************)
(* DependencyAnalyzer.detect_type_cycles of the driver scripts: a depth-   *)
(* first search over the references between type definitions that lists    *)
(* the fields whose types the Rust and Swift emitters must box.  The       *)
(* recursion of dfs_visit is an explicit stack.  The order of the types,   *)
(* and of the references in one, is abstracted to any order; a reference   *)
(* to a type that no file defines has no successors and is left out.       *)
(*                                                                         *)
(* A definition has fields (SEQUENCE, SET, CHOICE), is a list (SEQUENCE    *)
(* OF, SET OF) or renames another type; a field is named by the type it    *)
(* refers to.                                                              *)
(***************************************************************************)
EXTENDS Integers, Sequences, FiniteSets

CONSTANTS
  Types,
  Kinds   \* the kinds of definitions that occur

ASSUME TypeCyclesAssumption ==
  /\ IsFiniteSet(Types)
  /\ Kinds \subseteq {"fields", "list", "alias"}

Definitions ==
  {d \in [kind : Kinds, refs : SUBSET Types] :
     d.kind = "alias" => Cardinality(d.refs) <= 1}

VARIABLES
  defs,    \* all_types and the graph built from it
  color,
  stack,   \* the open calls of dfs_visit: the type, the neighbors to come
  boxed    \* cycle entries found: <<type with the field, type it refers to>>

vars == <<defs, color, stack, boxed>>

(* Renaming leads to a type that is not a renaming.                        *)
AliasesEnd ==
  \A S \in (SUBSET {t \in Types : defs[t].kind = "alias"}) \ {{}} :
    \E t \in S : defs[t].refs \intersect S = {}

Init ==
  /\ defs \in [Types -> Definitions] /\ AliasesEnd
  /\ color = [t \in Types |-> "white"]
  /\ stack = <<>>
  /\ boxed = {}

Top == stack[Len(stack)]
Below == SubSeq(stack, 1, Len(stack) - 1)
OnPath == {stack[k].type : k \in DOMAIN stack}

Called(t) == [type |-> t, todo |-> defs[t].refs]

Start(t) ==
  /\ stack = <<>> /\ color[t] = "white"
  /\ stack' = <<Called(t)>>
  /\ color' = [color EXCEPT ![t] = "gray"]
  /\ UNCHANGED <<defs, boxed>>

FieldsFromTarget(target) ==   \* mutant: the fields of the target instead
  {<<target, u>> : u \in defs[target].refs \intersect {Top.type}}
FieldsAnywhere(target) ==     \* mutant: whether or not they refer to it
  {<<t, target>> : t \in OnPath}

(* find_cycle_fields: fields of the types on the path that refer to target *)
CycleFields(target) ==
  {<<t, target>> : t \in {u \in OnPath : defs[u].kind = "fields" /\ target \in defs[u].refs}}

(* One iteration over the neighbors.                                       *)
Visit(n) ==
  LET rest == Append(Below, [Top EXCEPT !.todo = @ \ {n}]) IN
  /\ stack # <<>> /\ n \in Top.todo
  /\ \/ /\ color[n] = "gray"
        /\ boxed' = boxed \union CycleFields(n)
        /\ stack' = rest /\ UNCHANGED color
     \/ /\ color[n] = "white"
        /\ stack' = Append(rest, Called(n))
        /\ color' = [color EXCEPT ![n] = "gray"]
        /\ UNCHANGED boxed
     \/ /\ color[n] = "black"
        /\ stack' = rest /\ UNCHANGED <<color, boxed>>
  /\ UNCHANGED defs

LeftWhite(t) == "white"   \* mutant: the type may be visited again
LeftGray(t) == "gray"     \* mutant: still taken for an open call
Left(t) == "black"

Leave ==
  /\ stack # <<>> /\ Top.todo = {}
  /\ color' = [color EXCEPT ![Top.type] = Left(Top.type)]
  /\ stack' = Below
  /\ UNCHANGED <<defs, boxed>>

Step ==
  \/ \E t \in Types : Start(t)
  \/ \E n \in Types : Visit(n)
  \/ Leave

Next == Step

Spec == Init /\ [][Next]_vars /\ WF_vars(Step)
-----------------------------------------------------------------------------
(* Correctness *)

Searched == stack = <<>> /\ \A t \in Types : color[t] = "black"

(* A set of types each of which embeds one of the set has no finite size.  *)
(* A list stores its elements elsewhere, and so does a boxed field.        *)
Embeds(t, u) == u \in defs[t].refs /\ defs[t].kind # "list" /\ <<t, u>> \notin boxed

(* "identifies recursive types needing Box wrapper" (basic.ex:22): with    *)
(* the fields it lists boxed, no type embeds itself, however indirectly.   *)
CyclesBroken ==
  Searched => \A S \in (SUBSET Types) \ {{}} : \E t \in S : \A u \in S : ~Embeds(t, u)

(* Only fields that refer to a recursive type are boxed, so that types     *)
(* without recursion keep their layout.                                    *)
Reaches(t, u) ==
  \A S \in SUBSET Types :
    defs[t].refs \subseteq S /\ (\A v \in S : defs[v].refs \subseteq S) => u \in S

BoxedAreRecursive ==
  \A b \in boxed : b[2] \in defs[b[1]].refs /\ Reaches(b[2], b[2])

(* The gray types are the open calls, and each was referred to by the one  *)
(* before it: what find_cycle_fields takes for the path is a path.         *)
GrayIsPath ==
  /\ {t \in Types : color[t] = "gray"} = OnPath
  /\ \A k \in 1 .. Len(stack) - 1 : stack[k + 1].type \in defs[stack[k].type].refs

(* The search ends, on every graph.                                        *)
SearchEnds == <>[]Searched
=============================================================================
