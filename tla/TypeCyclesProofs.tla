-------------------------- MODULE TypeCyclesProofs --------------------------
(***************************************************************************)
(* The search for recursive types is right on every reference graph.       *)
(***************************************************************************)
EXTENDS TypeCycles, SequenceTheorems, TLAPS

Frames == [type : Types, todo : SUBSET Types]

TypeInv ==
  /\ \A t \in Types : defs[t].refs \subseteq Types
  /\ color \in [Types -> {"white", "gray", "black"}]
  /\ stack \in Seq(Frames)
  /\ boxed \subseteq Types \X Types

(* A type is open at most once.                                            *)
NoneTwice == \A j, k \in DOMAIN stack : stack[j].type = stack[k].type => j = k

(* Neighbors are references.                                               *)
TodoAreRefs == \A k \in DOMAIN stack : stack[k].todo \subseteq defs[stack[k].type].refs

(* What GrayIsPath says of neighbors in the stack, for any two open calls. *)
LaterReached ==
  \A j, k \in DOMAIN stack : j < k => Reaches(stack[j].type, stack[k].type)

PathInv == TypeInv /\ NoneTwice /\ TodoAreRefs /\ LaterReached /\ GrayIsPath

-----------------------------------------------------------------------------
(* How the stack changes.                                                  *)

LEMMA OpenCalls ==
  ASSUME TypeInv
  PROVE  /\ DOMAIN stack = 1 .. Len(stack) /\ Len(stack) \in Nat
         /\ \A k \in DOMAIN stack : /\ stack[k] \in Frames
                                    /\ stack[k].type \in Types
                                    /\ stack[k].todo \subseteq Types
<1>1. stack \in Seq(Frames)
  BY DEF TypeInv
<1>2. DOMAIN stack = 1 .. Len(stack) /\ Len(stack) \in Nat
  BY <1>1, LenProperties
<1>3. ASSUME NEW k \in DOMAIN stack PROVE stack[k] \in Frames
  BY <1>1, <1>2, ElementOfSeq
<1> QED
  BY <1>2, <1>3 DEF Frames

LEMMA TopIsOpen ==
  ASSUME TypeInv, stack # <<>>
  PROVE  /\ Len(stack) \in DOMAIN stack /\ Len(stack) \in Nat \ {0}
         /\ Top = stack[Len(stack)] /\ Top \in Frames
<1>1. Len(stack) \in Nat \ {0}
  BY EmptySeq DEF TypeInv
<1> QED
  BY <1>1, OpenCalls DEF Top

LEMMA BelowIsRest ==
  ASSUME TypeInv, stack # <<>>
  PROVE  /\ Below \in Seq(Frames) /\ Len(Below) = Len(stack) - 1
         /\ \A k \in 1 .. Len(stack) - 1 : Below[k] = stack[k]
<1>1. \A k \in 1 .. Len(stack) - 1 : stack[k] \in Frames
  BY OpenCalls
<1>2. Len(stack) - 1 \in Nat /\ 1 \in Int
  BY TopIsOpen
<1>3. /\ Below \in Seq(Frames)
      /\ Len(Below) = IF 1 <= Len(stack) - 1 THEN Len(stack) - 1 - 1 + 1 ELSE 0
      /\ \A k \in 1 .. Len(stack) - 1 - 1 + 1 : Below[k] = stack[1 + k - 1]
  BY <1>1, <1>2, SubSeqProperties DEF Below
<1>4. ASSUME NEW k \in 1 .. Len(stack) - 1 PROVE Below[k] = stack[k]
  <2>1. 1 + k - 1 = k /\ k \in 1 .. Len(stack) - 1 - 1 + 1
    BY <1>2
  <2> QED
    BY <1>3, <2>1
<1>5. Len(Below) = Len(stack) - 1
  <2>1. \A l \in Nat \ {0} : (IF 1 <= l - 1 THEN l - 1 - 1 + 1 ELSE 0) = l - 1
    OBVIOUS
  <2> QED
    BY <1>3, <2>1, TopIsOpen
<1> QED
  BY <1>3, <1>4, <1>5

(* The innermost open call without one of its neighbors.                   *)
Rest(n) == Append(Below, [Top EXCEPT !.todo = @ \ {n}])

LEMMA RestOfStack ==
  ASSUME TypeInv, stack # <<>>, NEW n
  PROVE  /\ Rest(n) \in Seq(Frames) /\ Len(Rest(n)) = Len(stack)
         /\ \A k \in 1 .. Len(stack) : Rest(n)[k].type = stack[k].type
         /\ \A k \in 1 .. Len(stack) - 1 : Rest(n)[k].todo = stack[k].todo
         /\ Rest(n)[Len(stack)].todo = stack[Len(stack)].todo \ {n}
<1> DEFINE top == [Top EXCEPT !.todo = @ \ {n}]
<1>1. top \in Frames /\ top.type = Top.type /\ top.todo = Top.todo \ {n}
  BY TopIsOpen DEF Frames
<1> HIDE DEF top
<1>2. /\ Append(Below, top) \in Seq(Frames) /\ Len(Append(Below, top)) = Len(stack)
      /\ \A k \in 1 .. Len(stack) - 1 : Append(Below, top)[k] = stack[k]
      /\ Append(Below, top)[Len(stack)] = top
  BY <1>1, BelowIsRest, TopIsOpen, AppendProperties
<1>3. Rest(n) = Append(Below, top)
  BY DEF Rest, top
<1> QED
  BY <1>1, <1>2, <1>3, TopIsOpen

-----------------------------------------------------------------------------
(* Reachability *)

LEMMA ReachesRef ==
  ASSUME NEW t, NEW u \in defs[t].refs
  PROVE  Reaches(t, u)
BY DEF Reaches

LEMMA ReachesOn ==
  ASSUME NEW t, NEW u, Reaches(t, u), NEW v \in defs[u].refs
  PROVE  Reaches(t, v)
BY DEF Reaches

(* An open call's type is reached from itself if the innermost one refers  *)
(* to it.                                                                  *)
LEMMA ClosesCycle ==
  ASSUME PathInv, stack # <<>>, NEW n \in defs[Top.type].refs, n \in OnPath
  PROVE  Reaches(n, n)
<1>1. PICK k \in DOMAIN stack : n = stack[k].type
  BY DEF OnPath
<1>2. CASE k = Len(stack)
  BY <1>1, <1>2, ReachesRef, TopIsOpen DEF PathInv
<1>3. CASE k < Len(stack)
  <2>1. Reaches(n, Top.type)
    BY <1>1, <1>3, TopIsOpen DEF PathInv, LaterReached
  <2> QED
    BY <2>1, ReachesOn
<1>4. k = Len(stack) \/ k < Len(stack)
  BY OpenCalls DEF PathInv
<1> QED
  BY <1>2, <1>3, <1>4

-----------------------------------------------------------------------------
(* The path *)

LEMMA InitPath == Init => PathInv
<1> SUFFICES ASSUME Init PROVE PathInv
  OBVIOUS
<1>1. DOMAIN stack = {} /\ stack \in Seq(Frames) /\ Len(stack) = 0
  BY EmptySeq DEF Init
<1>2. \A t \in Types : defs[t].refs \subseteq Types
  BY DEF Init, Definitions
<1>3. TypeInv
  BY <1>1, <1>2 DEF TypeInv, Init
<1>4. GrayIsPath
  BY <1>1 DEF GrayIsPath, OnPath, Init
<1> QED
  BY <1>1, <1>3, <1>4 DEF PathInv, NoneTwice, TodoAreRefs, LaterReached

LEMMA StartPath ==
  ASSUME PathInv, NEW t \in Types, Start(t)
  PROVE  PathInv'
<1>1. Called(t) \in Frames /\ Called(t).type = t /\ Called(t).todo = defs[t].refs
  BY DEF PathInv, TypeInv, Called, Frames
<1>2. stack' = <<Called(t)>> /\ stack' \in Seq(Frames) /\ DOMAIN stack' = {1} /\ Len(stack') = 1
  BY <1>1 DEF Start
<1>3. stack'[1] = Called(t) /\ defs' = defs /\ boxed' = boxed
  BY <1>2 DEF Start
<1>4. TypeInv'
  BY <1>2, <1>3 DEF PathInv, TypeInv, Start
<1>5. \A u \in Types : color[u] # "gray"
  BY DEF PathInv, GrayIsPath, OnPath, Start
<1>6. GrayIsPath'
  <2>1. {u \in Types : color'[u] = "gray"} = {t}
    BY <1>5 DEF Start, PathInv, TypeInv
  <2>2. OnPath' = {t}
    BY <1>1, <1>2, <1>3 DEF OnPath
  <2> QED
    BY <1>2, <2>1, <2>2 DEF GrayIsPath
<1>7. TodoAreRefs'
  BY <1>1, <1>2, <1>3 DEF TodoAreRefs
<1> QED
  BY <1>2, <1>4, <1>6, <1>7 DEF PathInv, NoneTwice, LaterReached

(* The types stay open when a neighbor is taken.                           *)
LEMMA SamePath ==
  ASSUME PathInv, stack # <<>>, NEW n, stack' = Rest(n), UNCHANGED <<defs, color>>,
         boxed' \subseteq Types \X Types
  PROVE  PathInv'
<1>1. /\ Len(stack') = Len(stack) /\ stack' \in Seq(Frames)
      /\ DOMAIN stack = 1 .. Len(stack) /\ DOMAIN stack' = 1 .. Len(stack)
  BY RestOfStack, OpenCalls, LenProperties DEF PathInv
<1>2. \A k \in DOMAIN stack : stack'[k].type = stack[k].type
  BY <1>1, RestOfStack DEF PathInv
<1>3. \A k \in DOMAIN stack : stack'[k].todo \subseteq stack[k].todo
  BY <1>1, RestOfStack, OpenCalls DEF PathInv
<1>4. TypeInv'
  BY <1>1 DEF PathInv, TypeInv
<1>5. NoneTwice' /\ TodoAreRefs'
  BY <1>1, <1>2, <1>3 DEF PathInv, NoneTwice, TodoAreRefs
<1>6. LaterReached'
  BY <1>1, <1>2 DEF PathInv, LaterReached, Reaches
<1>7. GrayIsPath'
  <2>1. OnPath' = OnPath
    BY <1>1, <1>2 DEF OnPath
  <2>2. \A k \in 1 .. Len(stack) - 1 : k \in DOMAIN stack /\ k + 1 \in DOMAIN stack
    BY <1>1, OpenCalls DEF PathInv
  <2> QED
    BY <1>1, <1>2, <2>1, <2>2 DEF PathInv, GrayIsPath
<1> QED
  BY <1>4, <1>5, <1>6, <1>7 DEF PathInv

(* A white neighbor is opened.                                             *)
LEMMA LongerPath ==
  ASSUME PathInv, stack # <<>>, NEW n \in Top.todo, color[n] = "white",
         stack' = Append(Rest(n), Called(n)), color' = [color EXCEPT ![n] = "gray"],
         UNCHANGED <<defs, boxed>>
  PROVE  PathInv'
<1> DEFINE L == Len(stack)
<1>1. /\ L \in Nat \ {0} /\ DOMAIN stack = 1 .. L
      /\ n \in Types /\ n \in defs[Top.type].refs /\ Top = stack[L] /\ L \in DOMAIN stack
  BY TopIsOpen, OpenCalls DEF PathInv, TodoAreRefs
<1>2. Called(n) \in Frames /\ Called(n).type = n /\ Called(n).todo = defs[n].refs
  BY <1>1 DEF PathInv, TypeInv, Called, Frames
<1>3. /\ stack' \in Seq(Frames) /\ Len(stack') = L + 1 /\ stack'[L + 1] = Called(n)
      /\ \A k \in 1 .. L : stack'[k] = Rest(n)[k]
  BY <1>2, RestOfStack, AppendProperties DEF PathInv
<1>4. DOMAIN stack' = 1 .. L + 1
  BY <1>3, LenProperties
<1>5. \A k \in DOMAIN stack : stack'[k].type = stack[k].type /\ stack'[k].todo \subseteq stack[k].todo
  BY <1>1, <1>3, RestOfStack, OpenCalls DEF PathInv
<1>6. \A k \in DOMAIN stack' : k \in DOMAIN stack \/ k = L + 1
  BY <1>1, <1>4
<1>7. stack'[L + 1].type = n /\ stack'[L + 1].todo = defs[n].refs
  BY <1>2, <1>3
<1>8. \A k \in DOMAIN stack : stack[k].type # n
  BY DEF PathInv, GrayIsPath, OnPath
<1> HIDE DEF L
<1>9. TypeInv'
  BY <1>3 DEF PathInv, TypeInv
<1>10. NoneTwice'
  BY <1>1, <1>4, <1>5, <1>6, <1>7, <1>8 DEF PathInv, NoneTwice
<1>11. TodoAreRefs'
  BY <1>1, <1>4, <1>5, <1>6, <1>7 DEF PathInv, TodoAreRefs
<1>12. LaterReached'
  <2> SUFFICES ASSUME NEW j \in DOMAIN stack', NEW k \in DOMAIN stack', j < k
               PROVE  Reaches(stack'[j].type, stack'[k].type)
    BY DEF LaterReached, Reaches
  <2>1. j \in DOMAIN stack
    BY <1>1, <1>4
  <2>2. CASE k \in DOMAIN stack
    BY <1>5, <2>1, <2>2 DEF PathInv, LaterReached
  <2>3. CASE k = L + 1
    <3>1. Reaches(stack[j].type, n)
      <4>1. CASE j = L
        BY <1>1, <4>1, ReachesRef
      <4>2. CASE j < L
        BY <1>1, <2>1, <4>2, ReachesOn DEF PathInv, LaterReached
      <4> QED
        BY <1>1, <2>1, <4>1, <4>2
    <3> QED
      BY <1>5, <1>7, <2>1, <2>3, <3>1
  <2> QED
    BY <1>6, <2>2, <2>3
<1>13. GrayIsPath'
  <2>1. OnPath' = OnPath \union {n}
    BY <1>1, <1>4, <1>5, <1>6, <1>7 DEF OnPath
  <2>2. {t \in Types : color'[t] = "gray"} = {t \in Types : color[t] = "gray"} \union {n}
    BY <1>1 DEF PathInv, TypeInv
  <2>3. ASSUME NEW k \in 1 .. Len(stack') - 1 PROVE stack'[k + 1].type \in defs'[stack'[k].type].refs
    <3>1. k \in DOMAIN stack /\ (k = L \/ (k \in 1 .. L - 1 /\ k + 1 \in DOMAIN stack))
      BY <1>1, <1>3
    <3>2. CASE k = L
      BY <1>1, <1>5, <1>7, <3>1, <3>2
    <3>3. CASE k \in 1 .. L - 1 /\ k + 1 \in DOMAIN stack
      BY <1>5, <3>1, <3>3 DEF PathInv, GrayIsPath, L
    <3> QED
      BY <3>1, <3>2, <3>3
  <2> QED
    BY <2>1, <2>2, <2>3 DEF PathInv, GrayIsPath
<1> QED
  BY <1>9, <1>10, <1>11, <1>12, <1>13 DEF PathInv

LEMMA LeavePath ==
  ASSUME PathInv, Leave
  PROVE  PathInv'
<1> DEFINE L == Len(stack)
<1>1. /\ stack # <<>> /\ L \in Nat \ {0} /\ DOMAIN stack = 1 .. L /\ Top = stack[L] /\ L \in DOMAIN stack
      /\ Top.type \in Types
  BY TopIsOpen, OpenCalls DEF PathInv, Leave
<1>2. /\ stack' \in Seq(Frames) /\ Len(stack') = L - 1
      /\ \A k \in 1 .. L - 1 : stack'[k] = stack[k]
  BY <1>1, BelowIsRest DEF PathInv, Leave
<1>3. DOMAIN stack' = 1 .. L - 1
  BY <1>2, LenProperties
<1>4. \A k \in DOMAIN stack' : k \in DOMAIN stack /\ stack'[k] = stack[k] /\ k # L
  BY <1>1, <1>2, <1>3
<1>5. \A k \in DOMAIN stack : k = L \/ k \in DOMAIN stack'
  BY <1>1, <1>3
<1>6. color' = [color EXCEPT ![Top.type] = "black"] /\ UNCHANGED <<defs, boxed>>
  BY DEF Leave, Left
<1> HIDE DEF L
<1>7. TypeInv'
  BY <1>2, <1>6 DEF PathInv, TypeInv
<1>8. NoneTwice' /\ TodoAreRefs'
  BY <1>4, <1>6 DEF PathInv, NoneTwice, TodoAreRefs
<1>9. LaterReached'
  BY <1>4, <1>6 DEF PathInv, LaterReached, Reaches
<1>10. GrayIsPath'
  <2>1. OnPath' = OnPath \ {Top.type}
    BY <1>1, <1>4, <1>5 DEF OnPath, PathInv, NoneTwice
  <2>2. {t \in Types : color'[t] = "gray"} = {t \in Types : color[t] = "gray"} \ {Top.type}
    BY <1>1, <1>6 DEF PathInv, TypeInv
  <2>3. \A k \in 1 .. Len(stack') - 1 : k \in 1 .. L - 1 /\ k \in DOMAIN stack' /\ k + 1 \in DOMAIN stack'
    BY <1>1, <1>2, <1>3
  <2> QED
    BY <1>4, <1>6, <2>1, <2>2, <2>3 DEF PathInv, GrayIsPath, L
<1> QED
  BY <1>7, <1>8, <1>9, <1>10 DEF PathInv

LEMMA NextPath == PathInv /\ [Next]_vars => PathInv'
<1> SUFFICES ASSUME PathInv, [Next]_vars PROVE PathInv'
  OBVIOUS
<1>1. CASE \E t \in Types : Start(t)
  BY <1>1, StartPath
<1>2. ASSUME NEW n \in Types, Visit(n) PROVE PathInv'
  <2>1. stack # <<>> /\ n \in Top.todo /\ defs' = defs
    BY <1>2 DEF Visit
  <2>2. CASE color[n] = "gray" /\ boxed' = boxed \union CycleFields(n) /\ stack' = Rest(n) /\ UNCHANGED color
    <3>1. OnPath \subseteq Types
      BY OpenCalls DEF OnPath, PathInv
    <3>2. boxed' \subseteq Types \X Types
      BY <1>2, <2>2, <3>1 DEF CycleFields, PathInv, TypeInv
    <3> QED
      BY <2>1, <2>2, <3>2, SamePath
  <2>3. CASE /\ color[n] = "white" /\ stack' = Append(Rest(n), Called(n))
             /\ color' = [color EXCEPT ![n] = "gray"] /\ UNCHANGED boxed
    BY <2>1, <2>3, LongerPath
  <2>4. CASE color[n] = "black" /\ stack' = Rest(n) /\ UNCHANGED <<color, boxed>>
    BY <2>1, <2>4, SamePath DEF PathInv, TypeInv
  <2> QED
    BY <1>2, <2>2, <2>3, <2>4 DEF Visit, Rest
<1>3. CASE Leave
  BY <1>3, LeavePath
<1>4. CASE UNCHANGED vars
  <2>1. UNCHANGED <<defs, color, stack, boxed>>
    BY <1>4 DEF vars
  <2> QED
    BY <2>1, SMTT(30) DEF PathInv, TypeInv, NoneTwice, TodoAreRefs, LaterReached, GrayIsPath, OnPath, Reaches
<1> QED
  BY <1>1, <1>2, <1>3, <1>4 DEF Next, Step

(* The gray types are the open calls of dfs_visit, each referred to by the *)
(* one before (basic.ex:354-375), on every reference graph.                *)
THEOREM PathIsGray == Spec => []GrayIsPath
<1>1. PathInv => GrayIsPath
  BY DEF PathInv
<1> QED
  BY InitPath, NextPath, <1>1, PTL DEF Spec

-----------------------------------------------------------------------------
(* Only recursive references are boxed.                                    *)

LEMMA NextBoxed == PathInv /\ BoxedAreRecursive /\ [Next]_vars => BoxedAreRecursive'
<1> SUFFICES ASSUME PathInv, BoxedAreRecursive, [Next]_vars PROVE BoxedAreRecursive'
  OBVIOUS
<1>1. CASE UNCHANGED <<defs, boxed>>
  BY <1>1 DEF BoxedAreRecursive, Reaches
<1>2. ASSUME NEW n \in Types, stack # <<>>, n \in Top.todo, color[n] = "gray",
             boxed' = boxed \union CycleFields(n), defs' = defs
      PROVE  BoxedAreRecursive'
  <2>1. n \in defs[Top.type].refs
    BY <1>2, TopIsOpen DEF PathInv, TodoAreRefs
  <2>2. n \in OnPath
    BY <1>2 DEF PathInv, GrayIsPath
  <2>3. Reaches(n, n)
    BY <1>2, <2>1, <2>2, ClosesCycle
  <2>4. \A b \in CycleFields(n) : b[2] \in defs[b[1]].refs /\ b[2] = n
    BY DEF CycleFields
  <2> QED
    BY <1>2, <2>3, <2>4 DEF BoxedAreRecursive, Reaches
<1> QED
  BY <1>1, <1>2 DEF Next, Step, Start, Visit, Leave, vars

(* Whatever the order of the search, a field is listed only if the type it *)
(* refers to can be reached from itself (basic.ex:377-420).                *)
THEOREM BoxedIsRecursive == Spec => []BoxedAreRecursive
<1>1. Init => BoxedAreRecursive
  BY DEF Init, BoxedAreRecursive
<1> QED
  BY <1>1, InitPath, NextPath, NextBoxed, PTL DEF Spec

-----------------------------------------------------------------------------
(* Every cycle is broken, if there are no renamings.                       *)

(* What an open call has done with a neighbor: it is black, or not         *)
(* embedded, or being visited.                                             *)
Treated(k, u) ==
  color[u] = "black" \/ ~Embeds(stack[k].type, u) \/ (k < Len(stack) /\ u = stack[k + 1].type)
NeighborsTreated ==
  \A k \in DOMAIN stack : \A u \in defs[stack[k].type].refs \ stack[k].todo : Treated(k, u)

Black == {t \in Types : color[t] = "black"}
BlackEmbedsBlack == \A t \in Black : \A u \in Types : Embeds(t, u) => u \in Black
BlackBroken == \A S \in (SUBSET Black) \ {{}} : \E t \in S : \A u \in S : ~Embeds(t, u)

BrokenInv == NeighborsTreated /\ BlackEmbedsBlack /\ BlackBroken

(* More fields boxed, fewer types embedded.                                *)
LEMMA EmbedsLess ==
  ASSUME boxed \subseteq boxed', defs' = defs
  PROVE  \A t, u : Embeds(t, u)' => Embeds(t, u)
BY DEF Embeds

LEMMA SameBlack ==
  ASSUME BrokenInv, boxed \subseteq boxed', defs' = defs, Black' = Black
  PROVE  BlackEmbedsBlack' /\ BlackBroken'
BY EmbedsLess DEF BrokenInv, BlackEmbedsBlack, BlackBroken

LEMMA StartBroken ==
  ASSUME PathInv, BrokenInv, NEW t \in Types, Start(t)
  PROVE  BrokenInv'
<1>1. stack' = <<Called(t)>> /\ defs' = defs /\ boxed' = boxed
  BY DEF Start
<1>2. DOMAIN stack' = {1} /\ stack'[1].type = t /\ stack'[1].todo = defs[t].refs
  BY <1>1 DEF Called
<1>3. NeighborsTreated'
  BY <1>1, <1>2 DEF NeighborsTreated
<1>4. Black' = Black
  BY DEF Start, Black, PathInv, TypeInv
<1> QED
  BY <1>1, <1>3, <1>4, SameBlack DEF BrokenInv

(* A neighbor that is gray or black when it is visited.                    *)
LEMMA SeenBroken ==
  ASSUME PathInv, BrokenInv, stack # <<>>, NEW n \in Top.todo, stack' = Rest(n),
         UNCHANGED <<defs, color>>, boxed \subseteq boxed',
         color[n] = "black" \/ defs[Top.type].kind = "list" \/ <<Top.type, n>> \in boxed'
  PROVE  BrokenInv'
<1>1. Black' = Black
  BY DEF Black
<1>2. /\ Len(stack') = Len(stack) /\ Len(stack) \in Nat /\ Top = stack[Len(stack)]
      /\ DOMAIN stack = 1 .. Len(stack) /\ DOMAIN stack' = 1 .. Len(stack)
  BY RestOfStack, OpenCalls, TopIsOpen, LenProperties DEF PathInv
<1>3. \A k \in DOMAIN stack : stack'[k].type = stack[k].type
  BY <1>2, RestOfStack DEF PathInv
<1>4. NeighborsTreated'
  <2> SUFFICES ASSUME NEW k \in DOMAIN stack, NEW u \in defs[stack[k].type].refs, u \notin stack'[k].todo
               PROVE  Treated(k, u)'
    BY <1>2, <1>3 DEF NeighborsTreated
  <2>1. CASE u \notin stack[k].todo
    <3>1. Treated(k, u)
      BY <2>1 DEF BrokenInv, NeighborsTreated
    <3>2. k < Len(stack) => k + 1 \in DOMAIN stack
      BY <1>2
    <3> QED
      BY <1>2, <1>3, <3>1, <3>2, EmbedsLess DEF Treated
  <2>2. CASE u \in stack[k].todo
    <3>1. k = Len(stack)
      BY <1>2, <2>2, RestOfStack DEF PathInv
    <3>2. u = n
      BY <2>2, <3>1, RestOfStack DEF PathInv
    <3>3. color'[u] = "black" \/ ~Embeds(stack[k].type, u)'
      BY <1>2, <1>3, <3>1, <3>2 DEF Embeds
    <3> QED
      BY <3>3 DEF Treated
  <2> QED
    BY <2>1, <2>2
<1> QED
  BY <1>1, <1>4, SameBlack DEF BrokenInv

LEMMA OpenedBroken ==
  ASSUME PathInv, BrokenInv, stack # <<>>, NEW n \in Top.todo, color[n] = "white",
         stack' = Append(Rest(n), Called(n)), color' = [color EXCEPT ![n] = "gray"],
         UNCHANGED <<defs, boxed>>
  PROVE  BrokenInv'
<1>1. Black' = Black
  BY DEF Black, PathInv, TypeInv
<1>2. /\ Rest(n) \in Seq(Frames) /\ Len(Rest(n)) = Len(stack) /\ Len(stack) \in Nat \ {0}
      /\ DOMAIN stack = 1 .. Len(stack) /\ n \in Types
  BY RestOfStack, OpenCalls, TopIsOpen DEF PathInv
<1>3. Called(n) \in Frames /\ Called(n).type = n /\ Called(n).todo = defs[n].refs
  BY <1>2 DEF PathInv, TypeInv, Called, Frames
<1>4. /\ stack' \in Seq(Frames) /\ Len(stack') = Len(stack) + 1 /\ stack'[Len(stack) + 1] = Called(n)
      /\ \A k \in 1 .. Len(stack) : stack'[k] = Rest(n)[k]
  BY <1>2, <1>3, AppendProperties
<1>5. DOMAIN stack' = 1 .. Len(stack) + 1
  BY <1>4, LenProperties
<1>6. \A k \in DOMAIN stack : stack'[k].type = stack[k].type
  BY <1>2, <1>4, RestOfStack DEF PathInv
<1>7. NeighborsTreated'
  <2> SUFFICES ASSUME NEW k \in DOMAIN stack', NEW u \in defs[stack'[k].type].refs, u \notin stack'[k].todo
               PROVE  Treated(k, u)'
    BY DEF NeighborsTreated
  <2>1. k \in DOMAIN stack
    BY <1>2, <1>3, <1>4, <1>5
  <2>2. CASE u \notin stack[k].todo
    <3>1. Treated(k, u)
      BY <1>6, <2>1, <2>2 DEF BrokenInv, NeighborsTreated
    <3>2. k < Len(stack) => k + 1 \in DOMAIN stack
      BY <1>2, <2>1
    <3>3. color[u] = "black" => color'[u] = "black"
      BY DEF PathInv, TypeInv
    <3>4. CASE color[u] = "black" \/ ~Embeds(stack[k].type, u)
      BY <1>6, <2>1, <3>3, <3>4 DEF Treated, Embeds
    <3>5. CASE k < Len(stack) /\ u = stack[k + 1].type
      BY <1>2, <1>4, <1>6, <3>2, <3>5 DEF Treated
    <3> QED
      BY <3>1, <3>4, <3>5 DEF Treated
  <2>3. CASE u \in stack[k].todo
    <3>1. k = Len(stack)
      BY <1>2, <1>4, <2>1, <2>3, RestOfStack DEF PathInv
    <3>2. u = n
      BY <1>2, <1>4, <2>3, <3>1, RestOfStack DEF PathInv
    <3>3. k < Len(stack') /\ stack'[k + 1].type = u
      BY <1>2, <1>3, <1>4, <3>1, <3>2
    <3> QED
      BY <3>3 DEF Treated
  <2> QED
    BY <2>2, <2>3
<1> QED
  BY <1>1, <1>7, SameBlack DEF BrokenInv

(* The innermost open call turns black: it embeds only black types, and no *)
(* black type embeds it, which was gray.                                   *)
LEMMA LeaveBroken ==
  ASSUME PathInv, BrokenInv, Leave
  PROVE  BrokenInv'
<1> DEFINE L == Len(stack)
<1>1. /\ stack # <<>> /\ L \in Nat \ {0} /\ DOMAIN stack = 1 .. L /\ Top = stack[L] /\ L \in DOMAIN stack
      /\ Top.type \in Types /\ Top.todo = {}
  BY TopIsOpen, OpenCalls DEF PathInv, Leave
<1>2. /\ stack' \in Seq(Frames) /\ Len(stack') = L - 1
      /\ \A k \in 1 .. L - 1 : stack'[k] = stack[k]
  BY <1>1, BelowIsRest DEF PathInv, Leave
<1>3. DOMAIN stack' = 1 .. L - 1
  BY <1>2, LenProperties
<1>4. color' = [color EXCEPT ![Top.type] = "black"] /\ UNCHANGED <<defs, boxed>>
  BY DEF Leave, Left
<1>5. Black' = Black \union {Top.type}
  BY <1>1, <1>4 DEF Black, PathInv, TypeInv
<1>6. Top.type \notin Black
  <2>1. Top.type \in OnPath
    BY <1>1 DEF OnPath
  <2> QED
    BY <2>1 DEF PathInv, GrayIsPath, Black
<1>7. \A u \in Types : Embeds(Top.type, u) => u \in Black
  <2> SUFFICES ASSUME NEW u \in Types, Embeds(Top.type, u) PROVE u \in Black
    OBVIOUS
  <2>1. Treated(L, u)
    BY <1>1 DEF BrokenInv, NeighborsTreated, Embeds
  <2> QED
    BY <1>1, <2>1 DEF Treated, Black
<1>8. NeighborsTreated'
  <2> SUFFICES ASSUME NEW k \in 1 .. L - 1, NEW u \in defs[stack[k].type].refs, u \notin stack[k].todo
               PROVE  Treated(k, u)'
    BY <1>2, <1>3, <1>4 DEF NeighborsTreated
  <2>1. Treated(k, u)
    BY <1>1 DEF BrokenInv, NeighborsTreated
  <2>2. color[u] = "black" => color'[u] = "black"
    BY <1>1, <1>4 DEF PathInv, TypeInv
  <2>3. CASE k = L - 1 /\ u = stack[k + 1].type
    <3>1. color'[u] = "black"
      BY <1>1, <1>4, <2>3 DEF PathInv, TypeInv
    <3> QED
      BY <3>1 DEF Treated
  <2>4. CASE k < L - 1 /\ u = stack[k + 1].type
    BY <1>1, <1>2, <2>4 DEF Treated
  <2>5. CASE color[u] = "black" \/ ~Embeds(stack[k].type, u)
    BY <1>2, <1>4, <2>2, <2>5 DEF Treated, Embeds
  <2>6. k = L - 1 \/ k < L - 1
    BY <1>1
  <2> QED
    BY <2>1, <2>3, <2>4, <2>5, <2>6 DEF Treated
<1>9. BlackEmbedsBlack'
  BY <1>4, <1>5, <1>7 DEF BrokenInv, BlackEmbedsBlack, Embeds
<1>10. BlackBroken'
  <2> SUFFICES ASSUME NEW S \in (SUBSET (Black \union {Top.type})) \ {{}}
               PROVE  \E t \in S : \A u \in S : ~Embeds(t, u)
    BY <1>4, <1>5 DEF BlackBroken, Embeds
  <2>1. CASE S \ {Top.type} = {}
    BY <1>1, <1>6, <1>7, <2>1
  <2>2. CASE S \ {Top.type} # {}
    <3>1. PICK t \in S \ {Top.type} : \A u \in S \ {Top.type} : ~Embeds(t, u)
      BY <2>2 DEF BrokenInv, BlackBroken
    <3>2. ~Embeds(t, Top.type)
      BY <1>1, <1>6, <3>1 DEF BrokenInv, BlackEmbedsBlack
    <3> QED
      BY <3>1, <3>2
  <2> QED
    BY <2>1, <2>2
<1> QED
  BY <1>8, <1>9, <1>10 DEF BrokenInv

LEMMA NextBroken ==
  ASSUME \A t \in Types : defs[t].kind \in {"fields", "list"}
  PROVE  PathInv /\ BrokenInv /\ [Next]_vars => BrokenInv'
<1> SUFFICES ASSUME PathInv, BrokenInv, [Next]_vars PROVE BrokenInv'
  OBVIOUS
<1>1. CASE \E t \in Types : Start(t)
  BY <1>1, StartBroken
<1>2. ASSUME NEW n \in Types, Visit(n) PROVE BrokenInv'
  <2>1. stack # <<>> /\ n \in Top.todo /\ defs' = defs /\ n \in defs[Top.type].refs /\ Top.type \in OnPath
    BY <1>2, TopIsOpen DEF Visit, PathInv, TodoAreRefs, OnPath
  <2>2. CASE color[n] = "gray" /\ boxed' = boxed \union CycleFields(n) /\ stack' = Rest(n) /\ UNCHANGED color
    <3>1. defs[Top.type].kind = "list" \/ <<Top.type, n>> \in boxed'
      BY <2>1, <2>2, TopIsOpen DEF CycleFields, PathInv, Frames
    <3> QED
      BY <2>1, <2>2, <3>1, SeenBroken
  <2>3. CASE /\ color[n] = "white" /\ stack' = Append(Rest(n), Called(n))
             /\ color' = [color EXCEPT ![n] = "gray"] /\ UNCHANGED boxed
    BY <2>1, <2>3, OpenedBroken
  <2>4. CASE color[n] = "black" /\ stack' = Rest(n) /\ UNCHANGED <<color, boxed>>
    BY <2>1, <2>4, SeenBroken
  <2> QED
    BY <1>2, <2>2, <2>3, <2>4 DEF Visit, Rest
<1>3. CASE Leave
  BY <1>3, LeaveBroken
<1>4. CASE UNCHANGED vars
  <2>1. UNCHANGED <<defs, color, stack, boxed>>
    BY <1>4 DEF vars
  <2> QED
    BY <2>1 DEF BrokenInv, NeighborsTreated, Treated, BlackEmbedsBlack, BlackBroken, Black, Embeds
<1> QED
  BY <1>1, <1>2, <1>3, <1>4 DEF Next, Step

(* Searched from anywhere, in any order: with the fields listed by         *)
(* find_cycle_fields boxed, no definition embeds itself (basic.ex:22),     *)
(* provided none of them is a renaming; with one the run alias_cycles      *)
(* shows a cycle that stays.                                               *)
THEOREM CyclesAreBroken ==
  ASSUME "alias" \notin Kinds
  PROVE  Spec => []CyclesBroken
<1> DEFINE NoAlias == \A t \in Types : defs[t].kind \in {"fields", "list"}
           Inv == NoAlias /\ PathInv /\ BrokenInv
<1>1. Init => Inv
  <2> SUFFICES ASSUME Init PROVE NoAlias /\ BrokenInv
    BY InitPath
  <2>1. NoAlias
    BY TypeCyclesAssumption DEF Init, Definitions
  <2>2. DOMAIN stack = {} /\ Black = {}
    BY EmptySeq DEF Init, Black
  <2> QED
    BY <2>1, <2>2 DEF BrokenInv, NeighborsTreated, BlackEmbedsBlack, BlackBroken
<1>2. Inv /\ [Next]_vars => Inv'
  <2>1. NoAlias /\ [Next]_vars => NoAlias'
    BY DEF Next, Step, Start, Visit, Leave, vars
  <2> QED
    BY <2>1, NextPath, NextBroken
<1>3. Inv => CyclesBroken
  BY DEF BrokenInv, BlackBroken, Black, CyclesBroken, Searched
<1> QED
  BY <1>1, <1>2, <1>3, PTL DEF Spec
-----------------------------------------------------------------------------
(* The search ends *)

(* What there is to do: types to visit, types to leave, neighbors to look  *)
(* at.  Each is a part of a finite set.                                    *)
White == {t \in Types : color[t] = "white"}
NotBlack == {t \in Types : color[t] # "black"}
Unseen ==
  {p \in Types \X Types :
     p[1] \in NotBlack /\ \A k \in DOMAIN stack : stack[k].type = p[1] => p[2] \in stack[k].todo}

LessToDo ==
  /\ White' \subseteq White /\ NotBlack' \subseteq NotBlack /\ Unseen' \subseteq Unseen
  /\ White' # White \/ NotBlack' # NotBlack \/ Unseen' # Unseen

(* A neighbor that was looked at is not looked at again.                   *)
LEMMA SeenOnce ==
  ASSUME PathInv, stack # <<>>, NEW n \in Top.todo, NotBlack' \subseteq NotBlack,
         Len(stack') \in Nat, DOMAIN stack' = 1 .. Len(stack'), Len(stack) <= Len(stack'),
         \A k \in DOMAIN stack : stack'[k] = Rest(n)[k]
  PROVE  Unseen' \subseteq Unseen /\ Unseen' # Unseen
<1>1. /\ Len(stack) \in DOMAIN stack /\ Top = stack[Len(stack)] /\ DOMAIN stack = 1 .. Len(stack)
      /\ Len(stack) \in Nat /\ Top.type \in Types /\ n \in Types
  BY TopIsOpen, OpenCalls DEF PathInv
<1>2. DOMAIN stack \subseteq DOMAIN stack'
  BY <1>1
<1>3. \A k \in DOMAIN stack : stack'[k].type = stack[k].type /\ stack'[k].todo \subseteq stack[k].todo
  <2> SUFFICES ASSUME NEW k \in DOMAIN stack
               PROVE  stack'[k].type = stack[k].type /\ stack'[k].todo \subseteq stack[k].todo
    OBVIOUS
  <2>1. k \in 1 .. Len(stack) - 1 \/ k = Len(stack)
    BY <1>1
  <2> QED
    BY <1>1, <2>1, RestOfStack DEF PathInv
<1>4. Unseen' \subseteq Unseen
  BY <1>2, <1>3 DEF Unseen
<1>5. <<Top.type, n>> \in Unseen
  <2>1. Top.type \in NotBlack
    BY <1>1 DEF NotBlack, PathInv, GrayIsPath, OnPath
  <2>2. \A k \in DOMAIN stack : stack[k].type = Top.type => k = Len(stack)
    BY <1>1 DEF PathInv, NoneTwice
  <2> QED
    BY <1>1, <2>1, <2>2 DEF Unseen
<1>6. <<Top.type, n>> \notin Unseen'
  <2>1. stack'[Len(stack)].type = Top.type /\ n \notin stack'[Len(stack)].todo
    BY <1>1, <1>3, RestOfStack DEF PathInv
  <2> QED
    BY <1>1, <1>2, <2>1 DEF Unseen
<1> QED
  BY <1>4, <1>5, <1>6

(* By the step: a type is visited, a neighbor looked at, a type left.      *)
LEMMA StepLeavesLess == PathInv /\ Next => LessToDo
<1> SUFFICES ASSUME PathInv, Next PROVE LessToDo
  OBVIOUS
<1>1. color \in [Types -> {"white", "gray", "black"}]
  BY DEF PathInv, TypeInv
<1>2. ASSUME NEW t \in Types, Start(t) PROVE LessToDo
  <2>1. /\ stack = <<>> /\ color[t] = "white" /\ color' = [color EXCEPT ![t] = "gray"]
        /\ DOMAIN stack = {}
    BY <1>2, EmptySeq DEF Start
  <2>2. White' = White \ {t} /\ t \in White /\ NotBlack' = NotBlack
    BY <1>1, <2>1 DEF White, NotBlack
  <2>3. Unseen' \subseteq Unseen
    BY <2>1, <2>2 DEF Unseen
  <2> QED
    BY <2>2, <2>3 DEF LessToDo
<1>3. ASSUME NEW n \in Types, Visit(n) PROVE LessToDo
  <2>1. stack # <<>> /\ n \in Top.todo
    BY <1>3 DEF Visit
  <2>2. /\ Rest(n) \in Seq(Frames) /\ Len(Rest(n)) = Len(stack) /\ Len(stack) \in Nat
        /\ DOMAIN stack = 1 .. Len(stack)
    BY <2>1, RestOfStack, OpenCalls DEF PathInv
  <2>3. CASE stack' = Rest(n) /\ UNCHANGED color
    <3>1. White' = White /\ NotBlack' = NotBlack
      BY <2>3 DEF White, NotBlack
    <3>2. DOMAIN stack' = 1 .. Len(stack') /\ Len(stack') = Len(stack)
      BY <2>2, <2>3, LenProperties
    <3> QED
      BY <2>1, <2>2, <2>3, <3>1, <3>2, SeenOnce DEF LessToDo
  <2>4. CASE /\ color[n] = "white" /\ stack' = Append(Rest(n), Called(n))
             /\ color' = [color EXCEPT ![n] = "gray"]
    <3>1. White' \subseteq White /\ NotBlack' = NotBlack
      BY <1>1, <2>4 DEF White, NotBlack
    <3>2. Called(n) \in Frames
      BY DEF Called, Frames, PathInv, TypeInv
    <3>3. /\ stack' \in Seq(Frames) /\ Len(stack') = Len(stack) + 1
          /\ \A k \in 1 .. Len(stack) : stack'[k] = Rest(n)[k]
      BY <2>2, <2>4, <3>2, AppendProperties
    <3>4. DOMAIN stack' = 1 .. Len(stack')
      BY <3>3, LenProperties
    <3> QED
      BY <2>1, <2>2, <3>1, <3>3, <3>4, SeenOnce DEF LessToDo
  <2> QED
    BY <1>3, <2>3, <2>4 DEF Visit, Rest
<1>4. CASE Leave
  <2> DEFINE t == Top.type
  <2>1. /\ stack # <<>> /\ stack' = Below /\ Top.todo = {}
        /\ color' = [color EXCEPT ![t] = "black"]
    BY <1>4 DEF Leave, Left
  <2>2. /\ Len(stack) \in DOMAIN stack /\ Top = stack[Len(stack)] /\ DOMAIN stack = 1 .. Len(stack)
        /\ Len(stack) \in Nat \ {0} /\ t \in Types /\ t \in OnPath
    BY <2>1, TopIsOpen, OpenCalls DEF PathInv, OnPath
  <2>3. color[t] = "gray"
    BY <2>2 DEF PathInv, GrayIsPath
  <2>4. White' = White /\ NotBlack' = NotBlack \ {t} /\ t \in NotBlack
    BY <1>1, <2>1, <2>2, <2>3 DEF White, NotBlack
  <2>5. /\ DOMAIN stack' = 1 .. Len(stack) - 1
        /\ \A k \in 1 .. Len(stack) - 1 : stack'[k] = stack[k]
    BY <2>1, <2>2, BelowIsRest, LenProperties DEF PathInv
  <2>6. Unseen' \subseteq Unseen
    <3> SUFFICES ASSUME NEW p \in Unseen', NEW k \in DOMAIN stack, stack[k].type = p[1]
                 PROVE  p[2] \in stack[k].todo
      BY <2>4 DEF Unseen
    <3>1. p[1] # t
      BY <2>4 DEF Unseen
    <3>2. k \in 1 .. Len(stack) - 1
      BY <2>2, <3>1
    <3> QED
      BY <2>5, <3>2 DEF Unseen
  <2> QED
    BY <2>4, <2>6 DEF LessToDo
<1> QED
  BY <1>2, <1>3, <1>4 DEF Next, Step

(* Every step of dfs_visit leaves less to do, and what there is to do is a *)
(* part of finite sets: on every graph the search takes finitely many      *)
(* steps.                                                                  *)
THEOREM SearchAdvances == Spec => [][LessToDo]_vars
<1>1. PathInv /\ [Next]_vars => [LessToDo]_vars
  BY StepLeavesLess
<1> QED
  BY InitPath, NextPath, <1>1, PTL DEF Spec
=============================================================================
