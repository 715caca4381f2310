-------------------------- MODULE BerParserProofs --------------------------
(***************************************************************************)
(* Safety of the parser for every input, every capacity, every depth limit *)
(* and every width of size_t.                                              *)
(***************************************************************************)
EXTENDS BerParser, Induction, TLAPS, SequenceTheorems

(* parse_node checks the depth before it reads: once it has read, there is *)
(* room for one more frame.                                                *)
DepthChecked ==
  pc \in {"tag", "length", "octets", "content"} => Len(stack) < MaxDepth

(* The open nodes are in the array, outermost first, frame k at depth k.   *)
FramesOrdered ==
  \A k \in DOMAIN stack :
    /\ stack[k].node \in DOMAIN nodes
    /\ nodes[stack[k].node].depth = k
    /\ \A m \in 1 .. k - 1 : stack[m].node < stack[k].node

(* A complete node that ends the array is at least as deep as the node the *)
(* parser appends next, so that node is not its descendant.                *)
NextNodeOutside ==
  \A i \in DOMAIN nodes :
    ~Open(i) /\ i + nodes[i].subtree - 1 = Len(nodes) => nodes[i].depth > Len(stack)

TypeInv == TypeOK /\ DepthChecked /\ FramesOrdered
IInv == TypeInv /\ SubtreeExact /\ NextNodeOutside

-----------------------------------------------------------------------------
(* Facts about the data types *)

(* A remainder is a value of the unsigned type it is taken in.             *)
LEMMA ModRange ==
  ASSUME NEW a \in Int, NEW m \in Nat, m > 0
  PROVE  a % m \in 0 .. m - 1
  OBVIOUS

LEMMA ShiftRange ==
  ASSUME NEW l \in Sizes, NEW o \in Octets
  PROVE  (l * 256 + o) % SizeMod \in Sizes
  BY BerParserAssumption DEF Sizes, Octets

LEMMA OctetType ==
  ASSUME TypeOK, Remaining > 0
  PROVE  Octet \in Octets
  <1>1. offset + 1 \in 1 .. Len(data)
    BY DEF TypeOK, Remaining
  <1>. QED
    BY <1>1, ElementOfSeq DEF TypeOK, Octet

LEMMA HeaderType ==
  ASSUME NEW h \in Headers
  PROVE  /\ h.start \in Sizes /\ h.class \in 0 .. 3 /\ h.constructed \in BOOLEAN
         /\ h.tag \in 0 .. TagMod - 1 /\ h.read \in Nat /\ h.want \in Nat
         /\ h.indefinite \in BOOLEAN /\ h.length \in Sizes
  BY DEF Headers

LEMMA NodeType ==
  ASSUME TypeOK, Len(stack) < MaxDepth,
         NEW e \in Sizes \union {Unset}, NEW v \in Sizes \union {Unset}, NEW l \in Sizes
  PROVE  NewNode(e, v, l) \in Nodes
  BY BerParserAssumption, HeaderType DEF TypeOK, NewNode, Nodes, Depth

(* The two nodes that parse_node copies into the array, and the frame.     *)
LEMMA PrimitiveNode ==
  ASSUME TypeInv, pc = "content",
         NEW after, after = (offset + header.length) % SizeMod
  PROVE  /\ NewNode((after - header.start) % SizeMod, offset, header.length) \in Nodes
         /\ after \in Sizes
  <1>0. TypeOK /\ header \in Headers /\ Len(stack) < MaxDepth
    BY DEF TypeInv, TypeOK, DepthChecked
  <1>1. /\ header.length \in Sizes /\ header.start \in Sizes
        /\ offset \in Sizes /\ offset \in Nat /\ SizeMod \in Nat /\ SizeMod > 0
    BY <1>0, HeaderType, BerParserAssumption DEF TypeOK, Sizes
  <1>2. after \in Sizes
    <2>1. offset + header.length \in Int
      BY <1>1 DEF Sizes
    <2>. QED
      BY ONLY after = (offset + header.length) % SizeMod, <1>1, <2>1, ModRange DEF Sizes
  <1>3. (after - header.start) % SizeMod \in Sizes
    <2>1. after - header.start \in Int
      BY <1>1, <1>2 DEF Sizes
    <2>. QED
      BY ONLY <1>1, <2>1, ModRange DEF Sizes
  <1>. QED
    BY <1>0, <1>1, <1>2, <1>3, NodeType

LEMMA ConstructedNode ==
  ASSUME TypeInv, pc = "content"
  PROVE  /\ NewNode(Unset, Unset, 0) \in Nodes
         /\ [node |-> Len(nodes) + 1, indefinite |-> header.indefinite,
             end |-> offset + header.length] \in Frames
  <1>0. /\ TypeOK /\ header \in Headers /\ Len(stack) < MaxDepth
        /\ nodes \in Seq(Nodes) /\ offset \in 0 .. Len(data)
    BY DEF TypeInv, TypeOK, DepthChecked
  <1>1. 0 \in Sizes
    BY BerParserAssumption DEF Sizes
  <1>2. NewNode(Unset, Unset, 0) \in Nodes
    BY <1>0, <1>1, NodeType
  <1>. QED
    BY <1>0, <1>2, HeaderType DEF Frames, Sizes, TypeOK

(* Every assignment of the header locals keeps them in range.              *)
LEMMA HeaderUpdate ==
  ASSUME NEW h \in Headers
  PROVE  /\ NoHeader \in Headers
         /\ \A s \in Sizes, c \in 0 .. 3, b \in BOOLEAN, t \in 0 .. TagMod - 1 :
              [h EXCEPT !.start = s, !.class = c, !.constructed = b, !.tag = t] \in Headers
         /\ \A t \in 0 .. TagMod - 1, n \in Nat : [h EXCEPT !.tag = t, !.read = n] \in Headers
         /\ \A l \in Sizes, n \in Nat : [h EXCEPT !.length = l, !.read = n] \in Headers
         /\ \A l \in Sizes : [h EXCEPT !.length = l] \in Headers
         /\ \A n, m \in Nat : [h EXCEPT !.want = n, !.read = m] \in Headers
         /\ [h EXCEPT !.indefinite = TRUE] \in Headers
  <1>1. NoHeader \in Headers
    BY BerParserAssumption DEF NoHeader, Headers, Sizes
  <1>2. \A s \in Sizes, c \in 0 .. 3, b \in BOOLEAN, t \in 0 .. TagMod - 1 :
          [h EXCEPT !.start = s, !.class = c, !.constructed = b, !.tag = t] \in Headers
    BY DEF Headers
  <1>3. \A t \in 0 .. TagMod - 1, n \in Nat : [h EXCEPT !.tag = t, !.read = n] \in Headers
    BY DEF Headers
  <1>4. \A l \in Sizes, n \in Nat : [h EXCEPT !.length = l, !.read = n] \in Headers
    BY DEF Headers
  <1>5. /\ \A l \in Sizes : [h EXCEPT !.length = l] \in Headers
        /\ \A n, m \in Nat : [h EXCEPT !.want = n, !.read = m] \in Headers
        /\ [h EXCEPT !.indefinite = TRUE] \in Headers
    BY DEF Headers
  <1>. QED
    BY <1>1, <1>2, <1>3, <1>4, <1>5

-----------------------------------------------------------------------------
(* Types, and the shape of the frame stack *)

LEMMA InitTypeInv == Init => TypeInv
  BY BerParserAssumption
  DEF Init, TypeInv, TypeOK, DepthChecked, FramesOrdered, NoHeader, Headers, Sizes,
      Phases, Errors, Nodes, Frames, Octets

(* The fix-up of a constructed node writes two fields of one node.         *)
LEMMA FinishedNodes ==
  ASSUME nodes \in Seq(Nodes), NEW i \in DOMAIN nodes, NEW after \in Nat
  PROVE  /\ Finished(i, after) \in Seq(Nodes)
         /\ Len(Finished(i, after)) = Len(nodes)
         /\ \A j \in DOMAIN nodes :
              /\ Finished(i, after)[j].depth = nodes[j].depth
              /\ j # i => Finished(i, after)[j] = nodes[j]
         /\ Finished(i, after)[i].subtree = Len(nodes) - i + 1
  <1> DEFINE e == (after - nodes[i].start) % SizeMod
             n == [nodes[i] EXCEPT !.subtree = Len(nodes) - i + 1, !.encoded = e]
  <1>1. nodes[i] \in Nodes /\ i \in 1 .. Len(nodes) /\ DOMAIN nodes = 1 .. Len(nodes)
    BY ElementOfSeq
  <1>2. nodes[i].start \in Sizes
    BY <1>1 DEF Nodes
  <1>3. e \in Sizes /\ Len(nodes) - i + 1 \in Nat \ {0}
    BY <1>1, <1>2, BerParserAssumption, ModRange, SMTT(30) DEF Sizes
  <1>4. Finished(i, after) = [nodes EXCEPT ![i] = n]
    BY <1>1 DEF Finished
  <1> HIDE DEF e
  <1>5. n \in Nodes /\ n.depth = nodes[i].depth /\ n.subtree = Len(nodes) - i + 1
    BY <1>1, <1>3 DEF Nodes
  <1> HIDE DEF n
  <1>. QED
    BY <1>1, <1>4, <1>5, ExceptSeq

LEMMA PopFrames ==
  ASSUME stack \in Seq(Frames), Len(stack) > 0
  PROVE  /\ Pop(stack) \in Seq(Frames) /\ Len(Pop(stack)) = Len(stack) - 1
         /\ \A k \in 1 .. Len(stack) - 1 : Pop(stack)[k] = stack[k]
  <1> DEFINE n == Len(stack) - 1
  <1>1. n \in 0 .. Len(stack) /\ Len(stack) \in Nat
    OBVIOUS
  <1>2. \A k \in 1 .. n : stack[k] \in Frames
    BY <1>1, ElementOfSeq
  <1> HIDE DEF n
  <1>3. /\ SubSeq(stack, 1, n) \in Seq(Frames) /\ Len(SubSeq(stack, 1, n)) = n
        /\ \A k \in 1 .. n : SubSeq(stack, 1, n)[k] = stack[k]
    BY <1>1, <1>2, SMT
  <1>. QED
    BY <1>3 DEF n, Pop

(* Leaving the parser unwinds the stack, so only the data need a type.     *)
LEMMA ReturnTyped ==
  ASSUME TypeInv, UNCHANGED Args,
         nodes' \in Seq(Nodes), Len(nodes') <= capacity,
         header' \in Headers, offset' \in 0 .. Len(data),
         NEW code \in Errors \union {"OK"}, Return(code)
  PROVE  TypeInv'
  <1>1. TypeOK'
    BY BerParserAssumption DEF TypeInv, TypeOK, Args, Return, Phases
  <1>2. DepthChecked' /\ FramesOrdered'
    BY DEF Return, DepthChecked, FramesOrdered
  <1>. QED
    BY <1>1, <1>2 DEF TypeInv

(* Going on inside parse_node or between two children leaves the stack.    *)
LEMMA GoTyped ==
  ASSUME TypeInv, UNCHANGED <<nodes, Args>>,
         header' \in Headers, offset' \in 0 .. Len(data),
         NEW phase \in Phases, Go(phase),
         Len(stack) < MaxDepth \/ phase = "identifier"
  PROVE  TypeInv'
  <1>1. TypeOK'
    BY DEF TypeInv, TypeOK, Args, Go
  <1>2. DepthChecked' /\ FramesOrdered'
    BY DEF Go, DepthChecked, FramesOrdered, TypeInv
  <1>. QED
    BY <1>1, <1>2 DEF TypeInv

LEMMA TypeInvStep == TypeInv /\ [Next]_vars => TypeInv'
  <1> SUFFICES ASSUME TypeInv, [Next]_vars
               PROVE  TypeInv'
    OBVIOUS
  <1>a. TypeOK /\ DepthChecked /\ FramesOrdered /\ header \in Headers /\ offset \in 0 .. Len(data)
    BY DEF TypeInv, TypeOK
  <1>b. /\ nodes \in Seq(Nodes) /\ Len(nodes) <= capacity /\ data \in Seq(Octets)
        /\ stack \in Seq(Frames) /\ Len(stack) <= MaxDepth /\ capacity \in Nat
    BY DEF TypeInv, TypeOK
  <1>1. CASE RejectCall
    BY BerParserAssumption, <1>1, <1>a DEF TypeInv, RejectCall, TypeOK, DepthChecked, FramesOrdered, Errors
  <1>2. CASE BeginCall
    <2>1. data' \in Seq(Octets) /\ Len(data') < SizeMod /\ Len(data') \in Nat
      <3>1. data' \in Inputs
        BY BerParserAssumption, <1>2 DEF BeginCall
      <3>. QED
        BY BerParserAssumption, <3>1
    <2>2. header' \in Headers
      BY <1>2, <1>a, HeaderUpdate DEF BeginCall
    <2>3. TypeOK'
      BY BerParserAssumption, <1>2, <1>a, <2>1, <2>2 DEF BeginCall, ClearNodes, TypeOK, Phases
    <2>4. DepthChecked' /\ FramesOrdered'
      BY <1>2 DEF BeginCall, DepthChecked, FramesOrdered
    <2>. QED
      BY <2>3, <2>4 DEF TypeInv
  <1>3. CASE DepthExceeded
    BY <1>3, <1>a, <1>b, ReturnTyped DEF DepthExceeded, Errors
  <1>4. CASE InputExhausted
    BY <1>4, <1>a, <1>b, ReturnTyped DEF InputExhausted, Errors
  <1>5. CASE ReadIdentifier
    <2>1. Octet \in Octets /\ offset' \in 0 .. Len(data) /\ offset \in Sizes
      <3>1. Remaining > 0 /\ offset' = offset + 1
        BY <1>5 DEF ReadIdentifier, Reading
      <3>. QED
        BY <1>a, <1>b, <3>1, BerParserAssumption, OctetType DEF Remaining, TypeOK, Sizes
    <2>2. /\ Octet \div 64 \in 0 .. 3
          /\ (IF Octet % 32 = 31 THEN 0 ELSE Octet % 32) \in 0 .. TagMod - 1
      BY BerParserAssumption, <2>1 DEF Octets
    <2>3. header' \in Headers
      <3> DEFINE t == IF Octet % 32 = 31 THEN 0 ELSE Octet % 32
                 c == (Octet \div 32) % 2 = 1
                 k == Octet \div 64
      <3>1. header' = [NoHeader EXCEPT !.start = offset, !.class = k,
                                       !.constructed = c, !.tag = t]
        BY <1>5 DEF ReadIdentifier
      <3>2. c \in BOOLEAN /\ t \in 0 .. TagMod - 1 /\ k \in 0 .. 3
        BY <2>2
      <3> HIDE DEF t, c, k
      <3>3. NoHeader \in Headers
        BY <1>a, HeaderUpdate
      <3>. QED
        BY ONLY <2>1, <3>1, <3>2, <3>3 DEF Headers
    <2>4. Len(stack) < MaxDepth
      BY BerParserAssumption, <1>5, <1>b DEF ReadIdentifier, TooDeep, Depth
    <2>. QED
      BY <1>5, <2>1, <2>3, <2>4, GoTyped DEF ReadIdentifier, Phases
  <1>6. CASE ReadTagOctet
    <2>1. Octet \in Octets /\ offset' \in 0 .. Len(data)
      BY <1>6, <1>a, OctetType DEF ReadTagOctet, Reading, Remaining, TypeOK
    <2>2. (header.tag * 128 + (Octet % 128)) % TagMod \in 0 .. TagMod - 1
      BY BerParserAssumption, <2>1, <1>a, HeaderType, SMTT(30) DEF Octets
    <2>3. header' \in Headers
      <3> DEFINE t == (header.tag * 128 + (Octet % 128)) % TagMod
      <3>1. header' = [header EXCEPT !.tag = t, !.read = header.read + 1]
        BY <1>6 DEF ReadTagOctet
      <3>2. t \in 0 .. TagMod - 1 /\ header.read + 1 \in Nat
        BY <1>a, <2>2, HeaderType
      <3> HIDE DEF t
      <3>. QED
        BY <1>a, <3>1, <3>2, HeaderUpdate
    <2>4. Len(stack) < MaxDepth
      BY <1>6, <1>a DEF ReadTagOctet, Reading, DepthChecked
    <2>. QED
      BY <1>6, <1>b, <2>1, <2>3, <2>4, GoTyped, ReturnTyped DEF ReadTagOctet, Phases, Errors
  <1>7. CASE ReadLength
    <2>1. Octet \in Octets /\ offset' \in 0 .. Len(data)
      BY <1>7, <1>a, OctetType DEF ReadLength, Reading, Remaining, TypeOK
    <2>2. Octet < 128 => Octet \in Sizes
      BY BerParserAssumption, <2>1 DEF Octets, Sizes
    <2>3. Octet - 128 \in 1 .. SizeOctets => Octet - 128 \in Nat
      OBVIOUS
    <2>4. header' \in Headers
      <3>1. \/ header' = header
            \/ header' = [header EXCEPT !.indefinite = TRUE]
            \/ Octet \in Sizes /\ header' = [header EXCEPT !.length = Octet]
            \/ Octet - 128 \in Nat /\ header' = [header EXCEPT !.want = Octet - 128, !.read = 0]
        BY <1>7, <2>2, <2>3 DEF ReadLength
      <3>2. \A l \in Sizes : [header EXCEPT !.length = l] \in Headers
        BY <1>a, HeaderUpdate
      <3>3. \A n, m \in Nat : [header EXCEPT !.want = n, !.read = m] \in Headers
        BY <1>a, HeaderUpdate
      <3>4. [header EXCEPT !.indefinite = TRUE] \in Headers
        BY <1>a, HeaderUpdate
      <3>5. CASE Octet \in Sizes /\ header' = [header EXCEPT !.length = Octet]
        BY <3>2, <3>5
      <3>6. CASE Octet - 128 \in Nat /\ header' = [header EXCEPT !.want = Octet - 128, !.read = 0]
        BY <3>3, <3>6
      <3>. QED
        BY <1>a, <3>1, <3>4, <3>5, <3>6
    <2>5. Len(stack) < MaxDepth
      BY <1>7, <1>a DEF ReadLength, Reading, DepthChecked
    <2>. QED
      BY <1>7, <1>b, <2>1, <2>4, <2>5, GoTyped, ReturnTyped DEF ReadLength, Phases, Errors
  <1>8. CASE ReadLengthOctet
    <2>1. Octet \in Octets /\ offset' \in 0 .. Len(data)
      BY <1>8, <1>a, OctetType DEF ReadLengthOctet, Reading, Remaining, TypeOK
    <2>2. header.length \in Sizes /\ header.read + 1 \in Nat
      BY <1>a, HeaderType
    <2>3. header' \in Headers
      <3> DEFINE v == (header.length * 256 + Octet) % SizeMod
      <3>1. header' = [header EXCEPT !.length = v, !.read = header.read + 1]
        BY <1>8 DEF ReadLengthOctet
      <3>2. v \in Sizes
        BY <2>1, <2>2, ShiftRange
      <3> HIDE DEF v
      <3>. QED
        BY <1>a, <2>2, <3>1, <3>2, HeaderUpdate
    <2>4. Len(stack) < MaxDepth
      BY <1>8, <1>a DEF ReadLengthOctet, Reading, DepthChecked
    <2>. QED
      BY <1>8, <1>b, <2>1, <2>3, <2>4, GoTyped, ReturnTyped DEF ReadLengthOctet, Phases, Errors
  <1>9. CASE AddPrimitive
    <2> DEFINE after == (offset + header.length) % SizeMod
               x == NewNode((after - header.start) % SizeMod, offset, header.length)
    <2>1. pc = "content"
      BY <1>9 DEF AddPrimitive
    <2>4. x \in Nodes /\ after \in Sizes
      BY <2>1, PrimitiveNode
    <2>5. after \in 0 .. Len(data) \/ after > Len(data)
      BY <2>4, <1>a DEF Sizes, TypeOK
    <2>6. CASE \E code \in Errors : Return(code)
      <3>1. pc' = "idle"
        BY <2>6 DEF Return
      <3>2. UNCHANGED <<Args, header>>
        BY <1>9 DEF AddPrimitive
      <3>3. \/ UNCHANGED <<nodes, offset>>
            \/ UNCHANGED nodes /\ offset' = after /\ after <= Len(data)
        BY <1>9, <3>1 DEF AddPrimitive, Go
      <3>4. header' \in Headers /\ offset' \in 0 .. Len(data)
        <4>1. header' = header
          BY <3>2
        <4>2. CASE UNCHANGED <<nodes, offset>>
          BY <1>a, <4>1, <4>2
        <4>3. CASE offset' = after /\ after <= Len(data)
          <5> HIDE DEF after
          <5>. QED
            BY <1>a, <1>b, <2>4, <2>5, <4>1, <4>3 DEF Sizes
        <4>. QED
          BY <3>3, <4>2, <4>3
      <3>5. nodes' \in Seq(Nodes) /\ Len(nodes') <= capacity
        BY <1>b, <3>3
      <3>. QED
        BY <2>6, <3>2, <3>4, <3>5, ReturnTyped
    <2>7. CASE HasRoom /\ nodes' = Append(nodes, x) /\ offset' = after /\ after <= Len(data) /\ Go("children")
      <3>1. UNCHANGED <<Args, header>>
        BY <1>9 DEF AddPrimitive
      <3>2. /\ nodes' \in Seq(Nodes) /\ Len(nodes') = Len(nodes) + 1
            /\ \A i \in DOMAIN nodes : i \in DOMAIN nodes' /\ nodes'[i] = nodes[i]
        BY <2>7, <2>4, <1>b, AppendProperties
      <3>3. TypeOK'
        BY <1>a, <2>5, <2>7, <3>1, <3>2 DEF TypeOK, HasRoom, Args, Phases, Go
      <3>. QED
        BY <1>a, <2>7, <3>2, <3>3 DEF TypeInv, DepthChecked, FramesOrdered, Go
    <2>. QED
      BY <1>9, <2>5, <2>6, <2>7 DEF AddPrimitive, Errors
  <1>10. CASE OpenConstructed
    <2> DEFINE x == NewNode(Unset, Unset, 0)
               f == [node |-> Len(nodes) + 1, indefinite |-> header.indefinite,
                     end |-> offset + header.length]
    <2>1. Len(stack) < MaxDepth
      BY <1>10, <1>a DEF OpenConstructed, DepthChecked
    <2>2. x \in Nodes /\ x.depth = Len(stack) + 1
      <3>1. pc = "content"
        BY <1>10 DEF OpenConstructed
      <3>. QED
        BY <3>1, ConstructedNode DEF NewNode, Depth
    <2>3. f \in Frames
      <3>1. pc = "content"
        BY <1>10 DEF OpenConstructed
      <3>. QED
        BY <3>1, ConstructedNode
    <2>4. UNCHANGED <<Args, header, offset>>
      BY <1>10 DEF OpenConstructed
    <2>5. CASE ~HasRoom
      BY <1>10, <1>a, <1>b, <2>4, <2>5, ReturnTyped DEF OpenConstructed, Errors
    <2>6. CASE HasRoom
      <3>1. nodes' = Append(nodes, x)
        BY <1>10, <2>6 DEF OpenConstructed
      <3>2. /\ nodes' \in Seq(Nodes) /\ Len(nodes') = Len(nodes) + 1
            /\ \A i \in DOMAIN nodes : i \in DOMAIN nodes' /\ nodes'[i] = nodes[i]
            /\ nodes'[Len(nodes) + 1] = x /\ Len(nodes) + 1 \in DOMAIN nodes'
            /\ Len(nodes') <= capacity
        BY <3>1, <2>2, <2>6, <1>b, AppendProperties DEF HasRoom
      <3>3. CASE Return("TRUNCATED_FIELD")
        BY <1>a, <1>b, <2>4, <3>2, <3>3, ReturnTyped DEF Errors
      <3>4. CASE stack' = Append(stack, f) /\ pc' = "children" /\ UNCHANGED err
        <4>1. /\ stack' \in Seq(Frames) /\ Len(stack') = Len(stack) + 1
              /\ \A k \in DOMAIN stack : stack'[k] = stack[k]
              /\ stack'[Len(stack) + 1] = f
              /\ DOMAIN stack' = 1 .. Len(stack) + 1 /\ DOMAIN stack = 1 .. Len(stack)
          BY <3>4, <2>3, <1>b, AppendProperties
        <4>2. TypeOK'
          BY BerParserAssumption, <1>a, <2>1, <2>4, <3>2, <3>4, <4>1 DEF TypeOK, Args, Phases
        <4>3. FramesOrdered'
          <5>1. ASSUME NEW k \in 1 .. Len(stack)
                PROVE  /\ stack'[k].node \in DOMAIN nodes'
                       /\ nodes'[stack'[k].node].depth = k
                       /\ \A m \in 1 .. k - 1 : stack'[m].node < stack'[k].node
            <6>0. k \in DOMAIN stack /\ \A m \in 1 .. k - 1 : m \in DOMAIN stack
              BY <5>1, <1>b, <4>1
            <6>1. stack'[k] = stack[k] /\ \A m \in 1 .. k - 1 : stack'[m] = stack[m]
              BY <6>0, <4>1
            <6>2. /\ stack[k].node \in DOMAIN nodes
                  /\ nodes[stack[k].node].depth = k
                  /\ \A m \in 1 .. k - 1 : stack[m].node < stack[k].node
              BY <5>1, <1>a, <4>1 DEF FramesOrdered
            <6>. QED
              BY <3>2, <6>1, <6>2
          <5>2. /\ stack'[Len(stack) + 1].node = Len(nodes) + 1
                /\ nodes'[Len(nodes) + 1].depth = Len(stack) + 1
                /\ \A m \in 1 .. Len(stack) : stack'[m].node < Len(nodes) + 1
            <6>1. \A m \in 1 .. Len(stack) : stack'[m] = stack[m] /\ stack[m].node \in DOMAIN nodes
              BY <1>a, <4>1 DEF FramesOrdered
            <6>2. \A i \in DOMAIN nodes : i \in Int /\ i < Len(nodes) + 1
              BY <1>b
            <6>. QED
              BY <2>2, <3>2, <4>1, <6>1, <6>2
          <5>. QED
            BY <1>b, <3>2, <4>1, <5>1, <5>2 DEF FramesOrdered
        <4>. QED
          BY <3>4, <4>2, <4>3 DEF TypeInv, DepthChecked
      <3>. QED
        BY <1>10, <2>6, <3>3, <3>4 DEF OpenConstructed
    <2>. QED
      BY <2>5, <2>6
  <1>11. CASE NextChild
    BY <1>11, <1>a, GoTyped DEF NextChild, Phases
  <1>12. CASE CloseNode
    <2> DEFINE L == Len(stack)
               i == Top.node
    <2>1. /\ L \in Nat \ {0} /\ DOMAIN stack = 1 .. L /\ Top = stack[L]
          /\ i \in DOMAIN nodes /\ DOMAIN nodes = 1 .. Len(nodes) /\ Len(nodes) \in Nat
      BY <1>12, <1>a, <1>b DEF CloseNode, InChildren, FramesOrdered, Top
    <2>2. /\ offset' \in 0 .. Len(data) /\ nodes' = Finished(i, offset')
          /\ UNCHANGED <<Args, header, pc, err>> /\ stack' = Pop(stack) /\ pc = "children"
      BY <1>12, <1>a, <1>b DEF CloseNode, InChildren, Remaining
    <2>3. nodes' \in Seq(Nodes) /\ Len(nodes') = Len(nodes)
          /\ \A j \in DOMAIN nodes : nodes'[j].depth = nodes[j].depth
      BY <1>a, <1>b, <2>1, <2>2, FinishedNodes
    <2>4. /\ stack' \in Seq(Frames) /\ Len(stack') = L - 1
          /\ \A k \in 1 .. L - 1 : stack'[k] = stack[k]
      <3>1. Len(stack) > 0
        BY <2>1
      <3>. QED
        BY <1>b, <2>2, <3>1, PopFrames
    <2>5. TypeOK'
      BY BerParserAssumption, <1>a, <1>b, <2>1, <2>2, <2>3, <2>4 DEF TypeOK, Args
    <2>6. FramesOrdered'
      <3>1. DOMAIN stack' = 1 .. L - 1 /\ DOMAIN nodes' = DOMAIN nodes
        BY <1>b, <2>1, <2>3, <2>4
      <3>2. ASSUME NEW k \in 1 .. L - 1
            PROVE  /\ stack'[k].node \in DOMAIN nodes'
                   /\ nodes'[stack'[k].node].depth = k
                   /\ \A m \in 1 .. k - 1 : stack'[m].node < stack'[k].node
        <4>1. /\ k \in DOMAIN stack /\ stack'[k] = stack[k]
              /\ \A m \in 1 .. k - 1 : stack'[m] = stack[m]
          BY <2>1, <2>4
        <4>2. /\ stack[k].node \in DOMAIN nodes
              /\ nodes[stack[k].node].depth = k
              /\ \A m \in 1 .. k - 1 : stack[m].node < stack[k].node
          BY <1>a, <4>1 DEF FramesOrdered
        <4>. QED
          BY <2>3, <3>1, <4>1, <4>2
      <3>. QED
        BY <3>1, <3>2 DEF FramesOrdered
    <2>. QED
      BY <2>2, <2>5, <2>6 DEF TypeInv, DepthChecked
  <1>13. CASE ChildrenFail
    BY <1>13, <1>a, <1>b, ReturnTyped DEF ChildrenFail, Errors
  <1>14. CASE EndCall
    BY <1>14, <1>a, <1>b, ReturnTyped DEF EndCall, Errors
  <1>15. CASE UNCHANGED vars
    BY <1>15, <1>a DEF vars, TypeInv, TypeOK, DepthChecked, FramesOrdered
  <1>. QED
    BY <1>1, <1>2, <1>3, <1>4, <1>5, <1>6, <1>7, <1>8, <1>9, <1>10, <1>11, <1>12,
       <1>13, <1>14, <1>15 DEF Next, Step

(* The types hold throughout: in particular the node array never outgrows  *)
(* the caller's capacity, at most ASN1_MAX_DEPTH calls of parse_node nest, *)
(* and no read goes past the input.                                        *)
THEOREM ParserTypeCorrect == Spec => []TypeOK
  <1>1. TypeInv => TypeOK
    BY DEF TypeInv
  <1>. QED
    BY InitTypeInv, TypeInvStep, <1>1, PTL DEF Spec

-----------------------------------------------------------------------------
(* subtree_size *)

(* add_node: every open node gains a descendant, and no complete node does.*)
LEMMA AppendExact ==
  ASSUME IInv, Running, NEW x \in Nodes, NEW f \in Frames,
         x.depth = Len(stack) + 1, x.subtree = 1, nodes' = Append(nodes, x),
         \/ stack' = stack
         \/ stack' = Append(stack, f) /\ f.node = Len(nodes) + 1
  PROVE  SubtreeExact' /\ NextNodeOutside'
  <1> DEFINE N == Len(nodes)
             L == Len(stack)
  <1>1. /\ nodes \in Seq(Nodes) /\ stack \in Seq(Frames)
        /\ N \in Nat /\ L \in Nat /\ DOMAIN nodes = 1 .. N /\ DOMAIN stack = 1 .. L
    BY DEF IInv, TypeInv, TypeOK
  <1>2. /\ Len(nodes') = N + 1 /\ DOMAIN nodes' = 1 .. N + 1 /\ nodes'[N + 1] = x
        /\ \A i \in 1 .. N : nodes'[i] = nodes[i]
    BY <1>1, AppendProperties
  <1>3. \A k \in 1 .. L : stack[k].node \in 1 .. N /\ nodes[stack[k].node].depth = k
    BY <1>1 DEF IInv, TypeInv, FramesOrdered
  <1>4. /\ \A k \in 1 .. L : k \in DOMAIN stack' /\ stack'[k] = stack[k]
        /\ \/ stack' = stack
           \/ DOMAIN stack' = 1 .. L + 1 /\ stack'[L + 1] = f /\ f.node = N + 1
    BY <1>1, AppendProperties
  <1>5. \A i \in 1 .. N : Open(i)' <=> Open(i)
    <2>1. ASSUME NEW i \in 1 .. N, NEW k \in DOMAIN stack', stack'[k].node = i
          PROVE  Open(i)
      <3>1. k \in 1 .. L
        <4>1. CASE stack' = stack
          BY <1>1, <4>1
        <4>2. CASE DOMAIN stack' = 1 .. L + 1 /\ stack'[L + 1] = f /\ f.node = N + 1
          BY <1>1, <2>1, <4>2
        <4>. QED
          BY <1>4, <4>1, <4>2
      <3>. QED
        BY <1>1, <1>4, <2>1, <3>1 DEF Open
    <2>2. ASSUME NEW i \in 1 .. N, NEW k \in DOMAIN stack, stack[k].node = i
          PROVE  \E l \in DOMAIN stack' : stack'[l].node = i
      BY <1>1, <1>4, <2>2
    <2>. QED
      BY <2>1, <2>2 DEF Open
  <1>6. (\E k \in DOMAIN stack' : stack'[k].node = N + 1) \/ stack' = stack
    <2>1. CASE DOMAIN stack' = 1 .. L + 1 /\ stack'[L + 1] = f /\ f.node = N + 1
      <3>1. L + 1 \in DOMAIN stack' /\ stack'[L + 1].node = N + 1
        BY <1>1, <2>1
      <3>. QED
        BY <3>1
    <2>. QED
      BY <1>4, <2>1
  <1>7. \A i \in 1 .. N : nodes[i].depth \in Nat /\ nodes[i].subtree \in Nat \ {0}
    <2>1. \A i \in 1 .. N : nodes[i] \in Nodes
      BY <1>1, ElementOfSeq
    <2>. QED
      BY <2>1, BerParserAssumption DEF Nodes
  <1>8. \A i \in 1 .. N :
          /\ Open(i) => nodes[i].depth <= L /\ \A j \in i + 1 .. N : nodes[j].depth > nodes[i].depth
          /\ ~Open(i) => LET last == i + nodes[i].subtree - 1 IN
                         /\ last <= N
                         /\ \A j \in i + 1 .. last : nodes[j].depth > nodes[i].depth
                         /\ last < N => nodes[last + 1].depth <= nodes[i].depth
                         /\ last = N => nodes[i].depth > L
    <2>1. \A i \in 1 .. N : Open(i) => nodes[i].depth <= L
      BY <1>1, <1>3 DEF Open
    <2>. QED
      BY <1>1, <2>1 DEF IInv, SubtreeExact, NextNodeOutside
  <1>9. ASSUME NEW i \in 1 .. N, Open(i)
        PROVE  \A j \in i + 1 .. N + 1 : nodes'[j].depth > nodes'[i].depth
    <2>1. nodes'[N + 1].depth > nodes'[i].depth
      BY <1>1, <1>2, <1>7, <1>8, <1>9
    <2>2. \A j \in i + 1 .. N : nodes'[j].depth > nodes'[i].depth
      BY <1>1, <1>2, <1>8, <1>9
    <2>. QED
      BY <1>1, <2>1, <2>2
  <1>10. ASSUME NEW i \in 1 .. N, ~Open(i)
         PROVE  LET last == i + nodes'[i].subtree - 1 IN
                /\ last <= N
                /\ \A j \in i + 1 .. last : nodes'[j].depth > nodes'[i].depth
                /\ nodes'[last + 1].depth <= nodes'[i].depth
    <2> DEFINE last == i + nodes[i].subtree - 1
    <2>1. last \in Int /\ last >= i /\ nodes'[i] = nodes[i]
      BY <1>1, <1>2, <1>7
    <2>2. /\ last <= N
          /\ \A j \in i + 1 .. last : nodes[j].depth > nodes[i].depth
          /\ last < N => nodes[last + 1].depth <= nodes[i].depth
          /\ last = N => nodes[i].depth > L
      BY <1>8, <1>10
    <2> HIDE DEF last
    <2>3. \A j \in i + 1 .. last : nodes'[j] = nodes[j]
      BY <1>1, <1>2, <2>1, <2>2
    <2>4. nodes'[last + 1].depth <= nodes[i].depth
      <3>1. CASE last < N
        <4>1. last + 1 \in 1 .. N
          BY <1>1, <2>1, <3>1
        <4>2. nodes'[last + 1] = nodes[last + 1]
          BY <1>2, <4>1
        <4>. QED
          BY <2>2, <3>1, <4>2
      <3>2. CASE last = N
        <4>1. nodes'[last + 1].depth = L + 1 /\ nodes[i].depth > L /\ nodes[i].depth \in Nat
          BY <1>2, <1>7, <2>2, <3>2
        <4>. QED
          BY <1>1, <4>1
      <3>3. last < N \/ last = N
        <4>1. N \in Int
          BY <1>1
        <4>2. last \in Int /\ last <= N
          BY <2>1, <2>2
        <4> HIDE DEF N
        <4>. QED
          BY <4>1, <4>2
      <3>. QED
        BY <3>1, <3>2, <3>3
    <2>. QED
      BY <2>1, <2>2, <2>3, <2>4 DEF last
  <1>11. SubtreeExact'
    <2>1. ASSUME NEW i \in 1 .. N + 1
          PROVE  LET last == IF Open(i)' THEN N + 1 ELSE i + nodes'[i].subtree - 1 IN
                 /\ last <= N + 1
                 /\ \A j \in i + 1 .. last : nodes'[j].depth > nodes'[i].depth
                 /\ last < N + 1 => nodes'[last + 1].depth <= nodes'[i].depth
      <3>1. CASE i = N + 1
        <4>1. nodes'[i].subtree = 1
          BY <1>2, <3>1
        <4>2. IF Open(i)' THEN TRUE ELSE i + nodes'[i].subtree - 1 = N + 1
          BY <1>1, <3>1, <4>1
        <4>. QED
          BY <1>1, <3>1, <4>2
      <3>2. CASE i \in 1 .. N /\ Open(i)
        <4>1. Open(i)' /\ \A j \in i + 1 .. N + 1 : nodes'[j].depth > nodes'[i].depth
          BY <1>5, <1>9, <3>2
        <4>. QED
          BY <1>1, <4>1
      <3>3. CASE i \in 1 .. N /\ ~Open(i)
        <4> DEFINE last == i + nodes'[i].subtree - 1
        <4>1. /\ ~Open(i)' /\ last <= N
              /\ \A j \in i + 1 .. last : nodes'[j].depth > nodes'[i].depth
              /\ nodes'[last + 1].depth <= nodes'[i].depth
          BY <1>5, <1>10, <3>3
        <4>2. last \in Int
          BY <1>2, <1>7, <3>3
        <4> HIDE DEF last
        <4>3. last <= N + 1
          BY <1>1, <4>1, <4>2
        <4>. QED
          BY <4>1, <4>3 DEF last
      <3>4. i = N + 1 \/ i \in 1 .. N
        BY <1>1
      <3>. QED
        BY <3>1, <3>2, <3>3, <3>4
    <2>. QED
      BY <1>2, <2>1 DEF SubtreeExact
  <1>12. NextNodeOutside'
    <2>1. ASSUME NEW i \in 1 .. N + 1, ~Open(i)', i + nodes'[i].subtree - 1 = N + 1
          PROVE  nodes'[i].depth > Len(stack')
      <3>1. CASE i = N + 1
        <4>1. stack' = stack
          BY <1>6, <2>1, <3>1 DEF Open
        <4>2. nodes'[i].depth = L + 1
          BY <1>2, <3>1
        <4>. QED
          BY <1>1, <4>1, <4>2
      <3>2. CASE i \in 1 .. N
        BY <1>1, <1>5, <1>10, <2>1, <3>2
      <3>. QED
        BY <1>1, <3>1, <3>2
    <2>. QED
      BY <1>2, <2>1 DEF NextNodeOutside
  <1>. QED
    BY <1>11, <1>12

(* The fix-up of parse_node: the node at the top of the stack is complete, *)
(* with everything after it as its subtree.                                *)
LEMMA CloseExact ==
  ASSUME IInv, CloseNode
  PROVE  SubtreeExact' /\ NextNodeOutside'
  <1> DEFINE N == Len(nodes)
             L == Len(stack)
             i == Top.node
  <1>1. /\ nodes \in Seq(Nodes) /\ stack \in Seq(Frames) /\ Running
        /\ N \in Nat /\ L \in Nat \ {0} /\ DOMAIN nodes = 1 .. N /\ DOMAIN stack = 1 .. L
        /\ offset' \in Nat /\ nodes' = Finished(i, offset') /\ stack' = Pop(stack)
    BY DEF IInv, TypeInv, TypeOK, CloseNode, InChildren, Running
  <1>2. \A k \in 1 .. L : /\ stack[k].node \in 1 .. N
                         /\ nodes[stack[k].node].depth = k
                         /\ \A m \in 1 .. k - 1 : stack[m].node < stack[k].node
    BY <1>1 DEF IInv, TypeInv, FramesOrdered
  <1>3. /\ i \in 1 .. N /\ nodes[i].depth = L /\ \A m \in 1 .. L - 1 : stack[m].node < i
        /\ i = stack[L].node
    BY <1>1, <1>2 DEF Top
  <1>4. /\ Len(nodes') = N /\ DOMAIN nodes' = 1 .. N /\ nodes'[i].subtree = N - i + 1
        /\ \A j \in 1 .. N : nodes'[j].depth = nodes[j].depth /\ (j # i => nodes'[j] = nodes[j])
    <2>1. i \in DOMAIN nodes
      BY <1>1, <1>3
    <2> HIDE DEF i
    <2>2. nodes' \in Seq(Nodes) /\ Len(nodes') = N
      BY <1>1, <2>1, FinishedNodes
    <2>3. DOMAIN nodes' = 1 .. N
      BY <2>2, ElementOfSeq
    <2>4. nodes'[i].subtree = N - i + 1
      BY <1>1, <2>1, FinishedNodes
    <2>5. \A j \in DOMAIN nodes : nodes'[j].depth = nodes[j].depth /\ (j # i => nodes'[j] = nodes[j])
      BY <1>1, <2>1, FinishedNodes
    <2>. QED
      BY <1>1, <2>2, <2>3, <2>4, <2>5
  <1>5. Len(stack') = L - 1 /\ DOMAIN stack' = 1 .. L - 1 /\ \A k \in 1 .. L - 1 : stack'[k] = stack[k]
    <2>1. Len(stack) > 0
      BY <1>1
    <2>2. /\ stack' \in Seq(Frames) /\ Len(stack') = L - 1
          /\ \A k \in 1 .. L - 1 : stack'[k] = stack[k]
      BY <1>1, <2>1, PopFrames
    <2>3. DOMAIN stack' = 1 .. Len(stack')
      BY <2>2
    <2>. QED
      BY <2>2, <2>3
  <1> HIDE DEF i
  <1>6. ASSUME NEW j \in 1 .. N
        PROVE  Open(j)' <=> Open(j) /\ j # i
    <2>1. Open(j)' <=> \E k \in 1 .. L - 1 : stack[k].node = j
      BY <1>5 DEF Open
    <2>2. Open(j) <=> \E k \in 1 .. L : stack[k].node = j
      BY <1>1 DEF Open
    <2>3. (\E k \in 1 .. L - 1 : stack[k].node = j) => j # i
      BY <1>3
    <2>4. ASSUME NEW k \in 1 .. L, stack[k].node = j, j # i
          PROVE  k \in 1 .. L - 1
      BY <1>1, <1>3, <2>4
    <2>5. \A k \in 1 .. L - 1 : k \in 1 .. L
      BY <1>1
    <2>. QED
      BY <2>1, <2>2, <2>3, <2>4, <2>5
  <1>7. \A j \in 1 .. N : nodes[j].depth \in Nat /\ nodes[j].subtree \in Nat \ {0}
    <2>1. \A j \in 1 .. N : nodes[j] \in Nodes
      BY <1>1, ElementOfSeq
    <2>. QED
      BY <2>1, BerParserAssumption DEF Nodes
  <1>8. Open(i)
    BY <1>1, <1>3 DEF Open
  <1>9. \A j \in 1 .. N :
          LET last == IF Open(j) THEN N ELSE j + nodes[j].subtree - 1 IN
          /\ last <= N
          /\ \A m \in j + 1 .. last : nodes[m].depth > nodes[j].depth
          /\ last < N => nodes[last + 1].depth <= nodes[j].depth
    BY <1>1 DEF IInv, SubtreeExact
  <1>10. ASSUME NEW j \in 1 .. N
         PROVE  LET last == IF Open(j)' THEN N ELSE j + nodes'[j].subtree - 1 IN
                /\ last <= N
                /\ \A m \in j + 1 .. last : nodes'[m].depth > nodes'[j].depth
                /\ last < N => nodes'[last + 1].depth <= nodes'[j].depth
    <2> DEFINE last == IF Open(j) THEN N ELSE j + nodes[j].subtree - 1
    <2>1. (IF Open(j)' THEN N ELSE j + nodes'[j].subtree - 1) = last
      <3>1. CASE j = i
        BY <1>1, <1>3, <1>4, <1>6, <1>8, <3>1
      <3>2. CASE j # i
        BY <1>4, <1>6, <3>2
      <3>. QED
        BY <3>1, <3>2
    <2>2. /\ last <= N
          /\ \A m \in j + 1 .. last : nodes[m].depth > nodes[j].depth
          /\ last < N => nodes[last + 1].depth <= nodes[j].depth
      BY <1>9
    <2>3. last \in Int /\ last >= j
      BY <1>1, <1>7
    <2> HIDE DEF last
    <2>4. \A m \in j + 1 .. last : m \in 1 .. N
      BY <1>1, <2>2, <2>3
    <2>5. last < N => last + 1 \in 1 .. N
      BY <1>1, <2>3
    <2>6. /\ last <= N
          /\ \A m \in j + 1 .. last : nodes'[m].depth > nodes'[j].depth
          /\ last < N => nodes'[last + 1].depth <= nodes'[j].depth
      BY <1>4, <2>2, <2>4, <2>5
    <2>. QED
      BY <2>1, <2>6
  <1>11. SubtreeExact'
    BY <1>4, <1>10 DEF SubtreeExact
  <1>12. ASSUME NEW j \in 1 .. N, ~Open(j)', j + nodes'[j].subtree - 1 = N
         PROVE  nodes'[j].depth > L - 1
    <2>1. CASE j = i
      BY <1>1, <1>3, <1>4, <2>1, SMTT(30)
    <2>2. CASE j # i
      <3>1. ~Open(j) /\ j + nodes[j].subtree - 1 = N
        BY <1>4, <1>6, <1>12, <2>2
      <3>2. nodes[j].depth > L
        BY <1>1, <3>1 DEF IInv, NextNodeOutside
      <3>. QED
        BY <1>1, <1>4, <1>7, <3>2
    <2>. QED
      BY <2>1, <2>2
  <1>13. NextNodeOutside'
    BY <1>4, <1>5, <1>12 DEF NextNodeOutside
  <1>. QED
    BY <1>11, <1>13

(* Whatever the result of the call, nothing is open once it has returned.  *)
LEMMA ReturnOutside ==
  ASSUME TypeInv', stack' = <<>>
  PROVE  NextNodeOutside'
  <1>0. nodes' \in Seq(Nodes)
    BY DEF TypeInv, TypeOK
  <1>1. \A i \in DOMAIN nodes' : nodes'[i].depth \in 1 .. MaxDepth
    <2>1. \A i \in DOMAIN nodes' : nodes'[i] \in Nodes
      BY <1>0, ElementOfSeq
    <2>. QED
      BY <2>1 DEF Nodes
  <1>. QED
    BY <1>1, BerParserAssumption DEF NextNodeOutside

LEMMA InitIInv == Init => IInv
  BY InitTypeInv DEF Init, IInv, SubtreeExact, NextNodeOutside

LEMMA IInvStep == IInv /\ [Next]_vars => IInv'
  <1> SUFFICES ASSUME IInv, [Next]_vars
               PROVE  SubtreeExact' /\ NextNodeOutside'
    BY TypeInvStep DEF IInv
  <1>1. TypeInv'
    BY TypeInvStep DEF IInv
  <1>2. CASE UNCHANGED <<nodes, stack>> /\ pc # "idle"
    BY <1>2 DEF IInv, SubtreeExact, NextNodeOutside, Open, Running
  <1>3. CASE \E code \in Errors : UNCHANGED <<nodes, stack, pc>> /\ err' = code /\ pc = "idle"
    BY <1>3 DEF IInv, SubtreeExact, NextNodeOutside, Open, Running, Succeeded, Errors
  <1>4. CASE \E code \in Errors : Return(code)
    BY <1>1, <1>4, ReturnOutside DEF Return, SubtreeExact, Running, Succeeded, Errors
  <1>5. CASE nodes' = <<>>
    BY <1>5 DEF SubtreeExact, NextNodeOutside
  <1>6. CASE AddPrimitive
    <2> DEFINE after == (offset + header.length) % SizeMod
               x == NewNode((after - header.start) % SizeMod, offset, header.length)
               f == [node |-> Len(nodes) + 1, indefinite |-> header.indefinite,
                     end |-> offset + header.length]
    <2>1. pc = "content" /\ Running /\ TypeInv
      BY <1>6 DEF AddPrimitive, Running, IInv
    <2>2. CASE nodes' = Append(nodes, x) /\ stack' = stack
      <3>1. x \in Nodes /\ f \in Frames
        BY <2>1, PrimitiveNode, ConstructedNode
      <3>2. x.depth = Len(stack) + 1 /\ x.subtree = 1
        BY DEF NewNode, Depth
      <3> HIDE DEF x, f
      <3>. QED
        BY <2>1, <2>2, <3>1, <3>2, AppendExact
    <2>. QED
      BY <1>4, <1>6, <2>2 DEF AddPrimitive, Errors, Go
  <1>7. CASE OpenConstructed
    <2> DEFINE x == NewNode(Unset, Unset, 0)
               f == [node |-> Len(nodes) + 1, indefinite |-> header.indefinite,
                     end |-> offset + header.length]
    <2>1. pc = "content" /\ Running /\ TypeInv
      BY <1>7 DEF OpenConstructed, Running, IInv
    <2>2. CASE nodes' = Append(nodes, x) /\ stack' = Append(stack, f)
      <3>1. x \in Nodes /\ f \in Frames /\ f.node = Len(nodes) + 1
        BY <2>1, ConstructedNode
      <3>2. x.depth = Len(stack) + 1 /\ x.subtree = 1
        BY DEF NewNode, Depth
      <3> HIDE DEF x, f
      <3>. QED
        BY <2>1, <2>2, <3>1, <3>2, AppendExact
    <2>. QED
      BY <1>4, <1>7, <2>2 DEF OpenConstructed, Errors
  <1>8. CASE CloseNode
    BY <1>8, CloseExact
  <1>9. CASE RejectCall
    BY <1>3, <1>9 DEF RejectCall, Errors
  <1>10. CASE BeginCall
    BY <1>5, <1>10 DEF BeginCall, ClearNodes
  <1>11. CASE EndCall
    BY <1>11 DEF EndCall, Return, IInv, SubtreeExact, NextNodeOutside, Open, Running
  <1>12. CASE DepthExceeded \/ InputExhausted \/ ChildrenFail
    BY <1>4, <1>12 DEF DepthExceeded, InputExhausted, ChildrenFail, Errors
  <1>13. CASE ReadIdentifier \/ NextChild
    BY <1>2, <1>13 DEF ReadIdentifier, Reading, NextChild, InChildren, Go
  <1>14. CASE ReadTagOctet
    BY <1>2, <1>4, <1>14 DEF ReadTagOctet, Reading, Go, Errors
  <1>15. CASE ReadLength
    BY <1>2, <1>4, <1>15 DEF ReadLength, Reading, Go, Errors
  <1>16. CASE ReadLengthOctet
    BY <1>2, <1>4, <1>16 DEF ReadLengthOctet, Reading, Go, Errors
  <1>17. CASE UNCHANGED vars
    BY <1>17 DEF vars, IInv, SubtreeExact, NextNodeOutside, Open, Running, Succeeded
  <1>. QED
    BY <1>6, <1>7, <1>8, <1>9, <1>10, <1>11, <1>12, <1>13, <1>14, <1>15, <1>16, <1>17
    DEF Next, Step

(* subtree_size always delimits exactly the descendants of a node, also    *)
(* for the nodes complete so far while the rest is still being parsed.     *)
THEOREM SubtreesExact == Spec => []SubtreeExact
  <1>1. IInv => SubtreeExact
    BY DEF IInv
  <1>. QED
    BY InitIInv, IInvStep, <1>1, PTL DEF Spec

-----------------------------------------------------------------------------
(* Pointers to complete nodes *)

LEMMA OnlyOpenWrittenStep == TypeInv /\ [Next]_vars => [OnlyOpenWritten]_vars
  <1> SUFFICES ASSUME TypeInv, Next, Running
               PROVE  /\ Len(nodes') >= Len(nodes)
                      /\ \A i \in DOMAIN nodes : ~Open(i) => nodes'[i] = nodes[i]
    BY DEF OnlyOpenWritten
  <1>0. nodes \in Seq(Nodes) /\ Len(nodes) \in Nat
    BY DEF TypeInv, TypeOK
  <1>1. CASE UNCHANGED nodes
    BY <1>0, <1>1
  <1>2. CASE \E x : x \in Nodes /\ nodes' = Append(nodes, x)
    BY <1>0, <1>2, AppendProperties
  <1>3. CASE AddPrimitive
    <2>1. pc = "content"
      BY <1>3 DEF AddPrimitive
    <2>. QED
      BY <1>1, <1>2, <1>3, <2>1, PrimitiveNode DEF AddPrimitive
  <1>4. CASE OpenConstructed
    <2>1. pc = "content"
      BY <1>4 DEF OpenConstructed
    <2>. QED
      BY <1>1, <1>2, <1>4, <2>1, ConstructedNode DEF OpenConstructed
  <1>5. CASE CloseNode
    <2>1. /\ stack \in Seq(Frames) /\ stack # <<>> /\ offset' \in Nat
          /\ nodes' = Finished(Top.node, offset')
      BY <1>5 DEF CloseNode, InChildren, TypeInv, TypeOK
    <2>2. Len(stack) \in DOMAIN stack
      BY <2>1
    <2>3. Top.node \in DOMAIN nodes /\ Open(Top.node)
      BY <2>2 DEF Top, Open, TypeInv, FramesOrdered
    <2>. QED
      BY <1>0, <2>1, <2>3, FinishedNodes
  <1>6. CASE RejectCall \/ BeginCall
    BY <1>6 DEF RejectCall, BeginCall, Running
  <1>7. CASE ~(AddPrimitive \/ OpenConstructed \/ CloseNode \/ RejectCall \/ BeginCall)
    BY <1>1, <1>7
    DEF Next, Step, DepthExceeded, InputExhausted, ReadIdentifier, ReadTagOctet, ReadLength,
        ReadLengthOctet, NextChild, ChildrenFail, EndCall
  <1>. QED
    BY <1>3, <1>4, <1>5, <1>6, <1>7

(* While a call runs, a node whose parse_node has returned is final.       *)
THEOREM FinishedNodesStable == Spec => FinishedStable
  BY InitTypeInv, TypeInvStep, OnlyOpenWrittenStep, PTL DEF Spec, FinishedStable
-----------------------------------------------------------------------------
(* The order of the array *)

(* The array is a pre-order with one root: the depth grows by at most one  *)
(* from a node to the next, and only the first node is at depth 1.         *)
PreOrder ==
  Running \/ Succeeded =>
    /\ nodes # <<>> => nodes[1].depth = 1
    /\ \A j \in 2 .. Len(nodes) : nodes[j].depth > 1 /\ nodes[j].depth <= nodes[j - 1].depth + 1
    /\ pc = "children" \/ Succeeded => nodes # <<>>
    /\ nodes # <<>> /\ stack = <<>> => pc \in {"children", "idle"}
    /\ Succeeded => stack = <<>>

After(i) == i + nodes[i].subtree   \* the node after the subtree of a complete one

(* The depths after one more node has been added.                          *)
LEMMA AppendPreOrder ==
  ASSUME IInv, PreOrder, pc = "content", NEW x \in Nodes,
         x.depth = Len(stack) + 1, nodes' = Append(nodes, x)
  PROVE  /\ nodes' # <<>> /\ nodes'[1].depth = 1
         /\ \A j \in 2 .. Len(nodes') :
              nodes'[j].depth > 1 /\ nodes'[j].depth <= nodes'[j - 1].depth + 1
  <1> DEFINE N == Len(nodes)
             L == Len(stack)
  <1>1. /\ nodes \in Seq(Nodes) /\ stack \in Seq(Frames) /\ Running
        /\ N \in Nat /\ L \in Nat /\ DOMAIN nodes = 1 .. N /\ DOMAIN stack = 1 .. L
    BY DEF IInv, TypeInv, TypeOK, Running
  <1>2. /\ Len(nodes') = N + 1 /\ nodes'[N + 1].depth = L + 1
        /\ \A j \in 1 .. N : nodes'[j] = nodes[j]
    BY <1>1, AppendProperties
  <1>3. \A j \in 1 .. N : nodes[j].depth \in Nat
    <2>1. \A j \in 1 .. N : nodes[j] \in Nodes
      BY <1>1, ElementOfSeq
    <2>. QED
      BY <2>1, BerParserAssumption DEF Nodes
  <1>4. CASE N = 0
    <2>1. L = 0
      <3>1. ASSUME L > 0
            PROVE  FALSE
        <4>1. 1 \in DOMAIN stack
          BY <1>1, <3>1
        <4>2. stack[1].node \in DOMAIN nodes
          BY <4>1, Zenon DEF IInv, TypeInv, FramesOrdered
        <4>. QED
          BY <1>1, <1>4, <4>2
      <3> HIDE DEF L
      <3>. QED
        BY <1>1, <3>1
    <2>. QED
      BY <1>1, <1>2, <1>4, <2>1
  <1>5. CASE N > 0
    <2>1. nodes # <<>> /\ L > 0
      BY <1>1, <1>5 DEF PreOrder
    <2>2. /\ nodes[1].depth = 1
          /\ \A j \in 2 .. N : nodes[j].depth > 1 /\ nodes[j].depth <= nodes[j - 1].depth + 1
      BY <1>1, <2>1 DEF PreOrder
    <2>3. nodes[N].depth >= L
      <3> DEFINE i == stack[L].node
      <3>1. i \in 1 .. N /\ nodes[i].depth = L
        BY <1>1, <2>1 DEF IInv, TypeInv, FramesOrdered
      <3>2. Open(i)
        BY <1>1, <2>1 DEF Open
      <3>3. \A j \in i + 1 .. N : nodes[j].depth > nodes[i].depth
        BY <1>1, <3>1, <3>2 DEF IInv, SubtreeExact
      <3>4. N \in Nat /\ L \in Nat
        BY <1>1
      <3> HIDE DEF i, N, L
      <3>5. i = N \/ N \in i + 1 .. N
        BY <3>1, <3>4
      <3>6. nodes[N].depth \in Nat
        BY <1>3, <1>5, <3>4
      <3>. QED
        BY <3>1, <3>3, <3>4, <3>5, <3>6
    <2>4. ASSUME NEW j \in 2 .. N
          PROVE  nodes'[j].depth > 1 /\ nodes'[j].depth <= nodes'[j - 1].depth + 1
      <3>1. j \in 1 .. N /\ j - 1 \in 1 .. N
        BY <1>1
      <3>. QED
        BY <1>2, <2>2, <3>1
    <2>5. nodes'[N + 1].depth > 1 /\ nodes'[N + 1].depth <= nodes'[(N + 1) - 1].depth + 1
      <3>0. N \in 1 .. N /\ N \in Nat /\ L \in Nat
        BY <1>1, <1>5
      <3>1. nodes'[N] = nodes[N] /\ nodes[N].depth \in Nat
        BY <1>2, <1>3, <3>0
      <3> HIDE DEF N, L
      <3>2. (N + 1) - 1 = N
        BY <3>0
      <3>. QED
        BY <1>2, <2>1, <2>3, <3>0, <3>1, <3>2
    <2>6. nodes'[1].depth = 1
      BY <1>1, <1>2, <1>5, <2>2
    <2>7. \A j \in 2 .. N + 1 : j \in 2 .. N \/ j = N + 1
      BY <1>1
    <2>8. nodes' # <<>>
      BY <1>1, <1>2
    <2>. QED
      BY <1>2, <2>4, <2>5, <2>6, <2>7, <2>8
  <1>. QED
    BY <1>1, <1>4, <1>5

(* Every step keeps the depths in pre-order.                               *)
LEMMA PreOrderStep == IInv /\ PreOrder /\ [Next]_vars => PreOrder'
  <1> SUFFICES ASSUME IInv, PreOrder, [Next]_vars
               PROVE  PreOrder'
    OBVIOUS
  <1>1. CASE \E code \in Errors : Return(code)
    BY <1>1 DEF Return, PreOrder, Running, Succeeded, Errors
  <1>2. CASE UNCHANGED <<nodes, stack, pc>> /\ (err' # err => err' # "OK")
    BY <1>2 DEF PreOrder, Running, Succeeded
  <1>3. CASE /\ UNCHANGED <<nodes, stack>> /\ pc' # "children" /\ pc' # "idle"
             /\ pc # "idle" /\ (pc = "children" => stack # <<>>)
    BY <1>3 DEF PreOrder, Running, Succeeded
  <1>4. CASE AddPrimitive
    <2> DEFINE after == (offset + header.length) % SizeMod
               x == NewNode((after - header.start) % SizeMod, offset, header.length)
    <2>1. CASE nodes' = Append(nodes, x) /\ UNCHANGED stack /\ pc' = "children"
      <3>1. pc = "content" /\ TypeInv
        BY <1>4 DEF AddPrimitive, IInv
      <3>2. x \in Nodes /\ x.depth = Len(stack) + 1
        BY <3>1, PrimitiveNode DEF NewNode, Depth
      <3> HIDE DEF x
      <3>. QED
        BY <2>1, <3>1, <3>2, AppendPreOrder DEF PreOrder, Running, Succeeded
    <2>. QED
      BY <1>1, <1>4, <2>1 DEF AddPrimitive, Errors, Go
  <1>5. CASE OpenConstructed
    <2> DEFINE x == NewNode(Unset, Unset, 0)
    <2>1. CASE nodes' = Append(nodes, x) /\ pc' = "children"
      <3>1. pc = "content" /\ TypeInv
        BY <1>5 DEF OpenConstructed, IInv
      <3>2. x \in Nodes /\ x.depth = Len(stack) + 1
        BY <3>1, ConstructedNode DEF NewNode, Depth
      <3> HIDE DEF x
      <3>. QED
        BY <2>1, <3>1, <3>2, AppendPreOrder DEF PreOrder, Running, Succeeded
    <2>. QED
      BY <1>1, <1>5, <2>1 DEF OpenConstructed, Errors
  <1>6. CASE CloseNode
    <2>1. /\ nodes \in Seq(Nodes) /\ stack \in Seq(Frames) /\ stack # <<>> /\ offset' \in Nat
          /\ nodes' = Finished(Top.node, offset') /\ pc = "children" /\ pc' = pc
      BY <1>6 DEF CloseNode, InChildren, IInv, TypeInv, TypeOK
    <2>2. Len(stack) \in DOMAIN stack
      BY <2>1
    <2>3. Top.node \in DOMAIN nodes
      BY <2>2 DEF Top, IInv, TypeInv, FramesOrdered
    <2>4. Len(nodes') = Len(nodes) /\ \A j \in DOMAIN nodes : nodes'[j].depth = nodes[j].depth
      <3> DEFINE i == Top.node
      <3> HIDE DEF i
      <3>1. i \in DOMAIN nodes /\ nodes' = Finished(i, offset')
        BY <2>1, <2>3 DEF i
      <3>. QED
        BY <2>1, <3>1, FinishedNodes
    <2>5. Len(nodes) \in Nat /\ DOMAIN nodes = 1 .. Len(nodes) /\ nodes # <<>> /\ nodes' # <<>>
      BY <2>1, <2>3, <2>4
    <2>6. \A j \in 2 .. Len(nodes) : j \in DOMAIN nodes /\ j - 1 \in DOMAIN nodes
      BY <2>5
    <2>7. 1 \in DOMAIN nodes
      BY <2>3, <2>5
    <2>. QED
      BY <2>1, <2>4, <2>5, <2>6, <2>7 DEF PreOrder, Running, Succeeded
  <1>7. CASE RejectCall
    BY <1>2, <1>7 DEF RejectCall
  <1>8. CASE BeginCall
    BY <1>8 DEF BeginCall, ClearNodes, PreOrder, Running, Succeeded
  <1>9. CASE EndCall
    BY <1>9 DEF EndCall, Return, PreOrder, Running, Succeeded
  <1>10. CASE DepthExceeded \/ InputExhausted \/ ChildrenFail
    BY <1>1, <1>10 DEF DepthExceeded, InputExhausted, ChildrenFail, Errors
  <1>11. CASE ReadIdentifier \/ NextChild
    BY <1>3, <1>11 DEF ReadIdentifier, Reading, NextChild, InChildren, Go
  <1>12. CASE ReadTagOctet
    BY <1>1, <1>3, <1>12 DEF ReadTagOctet, Reading, Go, Errors
  <1>13. CASE ReadLength
    BY <1>1, <1>3, <1>13 DEF ReadLength, Reading, Go, Errors
  <1>14. CASE ReadLengthOctet
    BY <1>1, <1>3, <1>14 DEF ReadLengthOctet, Reading, Go, Errors
  <1>15. CASE UNCHANGED vars
    BY <1>2, <1>15 DEF vars
  <1>. QED
    BY <1>4, <1>5, <1>6, <1>7, <1>8, <1>9, <1>10, <1>11, <1>12, <1>13, <1>14, <1>15
    DEF Next, Step

-----------------------------------------------------------------------------
(* The child iterators *)

WalkSteps(w, ns, d, last) ==
  \A k \in Nat \ {0} :
    w[k] = IF k > last THEN <<>>
           ELSE IF ns[k].depth = d THEN <<k>> \o w[k + ns[k].subtree]
           ELSE w[k + 1]

(* The walk of asn1_next_child is well defined: every step goes forward.   *)
LEMMA ChildWalkSteps ==
  ASSUME NEW ns, NEW d, NEW last \in Nat, \A k \in 1 .. last : ns[k].subtree \in Nat \ {0}
  PROVE  WalkSteps(ChildWalk(ns, d, last), ns, d, last)
  <1> DEFINE From(m) == {k \in Nat : k > last - m}
             Walk(f, S) == f = [k \in S |-> IF k > last THEN <<>>
                                            ELSE IF ns[k].depth = d THEN <<k>> \o f[k + ns[k].subtree]
                                            ELSE f[k + 1]]
             Good == {m \in 0 .. last : \E f : Walk(f, From(m))}
  <1>1. 0 \in Good
    <2>1. Walk([k \in From(0) |-> <<>>], From(0))
      OBVIOUS
    <2> HIDE DEF From, Walk
    <2>2. \E f : Walk(f, From(0))
      BY <2>1
    <2>. QED
      BY <2>2
  <1>2. ASSUME NEW m \in 0 .. last - 1, m \in Good
        PROVE  m + 1 \in Good
    <2> DEFINE k0 == last - m
    <2>1. PICK f : Walk(f, From(m))
      BY <1>2
    <2>2. k0 \in 1 .. last /\ ns[k0].subtree \in Nat \ {0}
      OBVIOUS
    <2> DEFINE g == [k \in From(m + 1) |->
                       IF k # k0 THEN f[k]
                       ELSE IF ns[k].depth = d THEN <<k>> \o f[k + ns[k].subtree]
                       ELSE f[k + 1]]
    <2>3. \A k \in From(m) : k \in From(m + 1) /\ k # k0 /\ (k \in 1 .. last \/ k > last)
      OBVIOUS
    <2>4. \A k \in From(m + 1) : k \in From(m) \/ k = k0
      OBVIOUS
    <2>5. \A k \in From(m + 1) :
             k <= last => k + 1 \in From(m) /\ k + ns[k].subtree \in From(m)
      <3>1. ASSUME NEW k \in From(m + 1), k <= last
            PROVE  k + 1 \in From(m) /\ k + ns[k].subtree \in From(m)
        <4>1. k \in 1 .. last
          BY <3>1
        <4>2. ns[k].subtree \in Nat \ {0}
          BY <4>1
        <4>. QED
          BY <3>1, <4>1, <4>2
      <3>. QED
        BY <3>1
    <2>6. \A k \in From(m) : k # k0 /\ k \in From(m + 1)
      BY <2>2
    <2>7. \A k \in From(m) : g[k] = f[k]
      BY <2>6
    <2>8. \A k \in From(m) : f[k] = IF k > last THEN <<>>
                                    ELSE IF ns[k].depth = d THEN <<k>> \o f[k + ns[k].subtree]
                                    ELSE f[k + 1]
      BY <2>1
    <2>9. g[k0] = IF ns[k0].depth = d THEN <<k0>> \o f[k0 + ns[k0].subtree] ELSE f[k0 + 1]
      BY <2>2
    <2>10. k0 \in From(m + 1) /\ k0 <= last
      BY <2>2
    <2>11. g = [k \in From(m + 1) |-> g[k]]
      OBVIOUS
    <2> HIDE DEF From, k0, g
    <2>12. \A k \in From(m + 1) :
             g[k] = IF k > last THEN <<>>
                    ELSE IF ns[k].depth = d THEN <<k>> \o g[k + ns[k].subtree]
                    ELSE g[k + 1]
      <3>1. ASSUME NEW k \in From(m + 1)
            PROVE  g[k] = IF k > last THEN <<>>
                          ELSE IF ns[k].depth = d THEN <<k>> \o g[k + ns[k].subtree]
                          ELSE g[k + 1]
        <4>1. k <= last => g[k + 1] = f[k + 1] /\ g[k + ns[k].subtree] = f[k + ns[k].subtree]
          BY <2>5, <2>7
        <4>2. k \in Nat /\ (k > last <=> ~(k <= last))
          BY DEF From
        <4>3. CASE k \in From(m)
          BY <2>7, <2>8, <4>1, <4>2, <4>3
        <4>4. CASE k = k0
          BY <2>9, <2>10, <4>1, <4>2, <4>4
        <4>. QED
          BY <2>4, <4>3, <4>4
      <3>. QED
        BY <3>1
    <2>13. Walk(g, From(m + 1))
      BY <2>11, <2>12, Zenon
    <2>. QED
      BY <2>13
  <1>3. last \in Good
    <2> HIDE DEF Good
    <2>1. 0 .. last \subseteq Good
      BY <1>1, <1>2, UpTo
    <2>. QED
      BY <2>1
  <1>4. From(last) = Nat \ {0}
    OBVIOUS
  <1>5. \E f : Walk(f, Nat \ {0})
    <2> HIDE DEF From, Walk
    <2>. QED
      BY <1>3, <1>4
  <1>6. Walk(ChildWalk(ns, d, last), Nat \ {0})
    BY <1>5 DEF ChildWalk
  <1>. QED
    BY <1>6 DEF WalkSteps

(* What asn1_next_child has returned from an iterator at node k: the nodes *)
(* at depth d from k on, each the one after the subtree of the previous.   *)
Siblings(s, ns, k, d, last) ==
  /\ s \in Seq(k .. last)
  /\ k <= last => s # <<>> /\ s[1] = k
  /\ \A c \in DOMAIN s : ns[s[c]].depth = d
  /\ \A c \in 1 .. Len(s) - 1 : s[c] < s[c + 1] /\ s[c + 1] = s[c] + ns[s[c]].subtree
  /\ s # <<>> => s[Len(s)] + ns[s[Len(s)]].subtree = last + 1
  /\ \A j \in k .. last : ns[j].depth = d => \E c \in DOMAIN s : s[c] = j

(* The node after a subtree that ends before its parent's does is a sibling. *)
LEMMA AnotherSibling ==
  ASSUME NEW ns, NEW d, NEW last \in Nat, NEW k \in 1 .. last,
         ns[k].depth = d, NEW n \in k + 1 .. last + 1, n = k + ns[k].subtree,
         ns[k].subtree \in Nat,
         \A j \in k + 1 .. n - 1 : ns[j].depth # d,
         NEW t, Siblings(t, ns, n, d, last)
  PROVE  Siblings(<<k>> \o t, ns, k, d, last)
  <1> DEFINE s == <<k>> \o t
             L == Len(t)
  <1>1. t \in Seq(n .. last) /\ L \in Nat /\ DOMAIN t = 1 .. L
    BY DEF Siblings
  <1>2. /\ t \in Seq(k .. last) /\ <<k>> \in Seq(k .. last)
    <2>1. \A c \in 1 .. L : t[c] \in k .. last
      <3>1. \A c \in 1 .. L : t[c] \in n .. last
        BY <1>1, ElementOfSeq
      <3>. QED
        BY <3>1
    <2>2. t \in [1 .. L -> k .. last]
      BY <1>1, <2>1
    <2>. QED
      BY <1>1, <2>2, IsASeq
  <1>3. /\ s \in Seq(k .. last) /\ Len(s) = L + 1 /\ DOMAIN s = 1 .. L + 1
        /\ s[1] = k /\ \A c \in 1 .. L : s[c + 1] = t[c]
        /\ s # <<>>
    BY <1>1, <1>2
  <1>4. \A c \in 1 .. L : t[c] \in n .. last /\ ns[t[c]].depth = d
    BY <1>1, ElementOfSeq DEF Siblings
  <1> HIDE DEF s, L
  <1>5. \A c \in 2 .. L + 1 : c - 1 \in 1 .. L /\ s[c] = t[c - 1]
    BY <1>1, <1>3
  <1>6. ASSUME NEW c \in 1 .. L + 1
        PROVE  ns[s[c]].depth = d
    <2>1. CASE c = 1
      BY <1>3, <2>1
    <2>2. CASE c \in 2 .. L + 1
      BY <1>4, <1>5, <2>2
    <2>. QED
      BY <1>1, <2>1, <2>2
  <1>7. ASSUME NEW c \in 1 .. L
        PROVE  s[c] < s[c + 1] /\ s[c + 1] = s[c] + ns[s[c]].subtree
    <2>1. CASE c = 1
      <3>1. t # <<>> /\ t[1] = n
        <4>1. t[1] \in n .. last
          BY <1>1, <1>4, <2>1
        <4>. QED
          BY <1>1, <2>1, <4>1 DEF Siblings, L
      <3>2. 2 \in 2 .. L + 1 /\ 2 - 1 = 1
        BY <1>1, <2>1
      <3>3. s[2] = n /\ s[1] = k
        BY <1>3, <1>5, <3>1, <3>2
      <3>. QED
        BY <2>1, <3>3
    <2>2. CASE c # 1
      <3>1. c - 1 \in 1 .. L - 1 /\ c \in 2 .. L + 1 /\ (c - 1) + 1 = c
        BY <1>1, <2>2
      <3>2. t[c - 1] < t[c] /\ t[c] = t[c - 1] + ns[t[c - 1]].subtree
        BY <3>1 DEF Siblings, L
      <3>. QED
        BY <1>3, <1>5, <3>1, <3>2
    <2>. QED
      BY <2>1, <2>2
  <1>8. s[L + 1] + ns[s[L + 1]].subtree = last + 1
    <2>1. CASE L = 0
      <3>1. n = last + 1
        <4>1. t = <<>>
          BY <1>1, <2>1 DEF L
        <4>. QED
          BY <4>1 DEF Siblings
      <3>. QED
        BY <1>3, <2>1, <3>1
    <2>2. CASE L # 0
      <3>1. t # <<>> /\ L \in 1 .. L
        BY <1>1, <2>2 DEF L
      <3>. QED
        BY <1>3, <3>1 DEF Siblings, L
    <2>. QED
      BY <2>1, <2>2
  <1>9. ASSUME NEW j \in k .. last, ns[j].depth = d
        PROVE  \E c \in DOMAIN s : s[c] = j
    <2>1. CASE j = k
      <3>1. 1 \in DOMAIN s /\ s[1] = j
        BY <1>1, <1>3, <2>1
      <3>. QED
        BY <3>1
    <2>2. CASE j \in n .. last
      <3>1. PICK c \in 1 .. L : t[c] = j
        BY <1>1, <1>9, <2>2 DEF Siblings
      <3>2. c + 1 \in 1 .. L + 1
        BY <1>1
      <3>3. s[c + 1] = t[c]
        BY <1>3
      <3>4. c + 1 \in DOMAIN s /\ s[c + 1] = j
        BY <1>3, <3>1, <3>2, <3>3
      <3>. QED
        BY <3>4
    <2>3. j = k \/ j \in n .. last \/ j \in k + 1 .. n - 1
      OBVIOUS
    <2>. QED
      BY <1>9, <2>1, <2>2, <2>3
  <1>10. \A c \in 1 .. Len(s) - 1 : c \in 1 .. L
    BY <1>1, <1>3
  <1>11. Siblings(s, ns, k, d, last)
    BY <1>3, <1>6, <1>7, <1>8, <1>9, <1>10 DEF Siblings
  <1>. QED
    BY <1>11 DEF s

(* The walk from a node at depth d, or from the end, finds every sibling,  *)
(* provided that subtree_size leads from sibling to sibling.               *)
LEMMA WalkFindsSiblings ==
  ASSUME NEW ns, NEW d, NEW last \in Nat, NEW first \in 1 .. last + 1,
         \A k \in 1 .. last : ns[k].subtree \in Nat \ {0},
         first <= last => ns[first].depth = d,
         \A k \in first .. last : ns[k].depth = d =>
           /\ k + ns[k].subtree <= last + 1
           /\ k + ns[k].subtree <= last => ns[k + ns[k].subtree].depth = d
           /\ \A j \in k + 1 .. k + ns[k].subtree - 1 : ns[j].depth # d
  PROVE  Siblings(ChildWalk(ns, d, last)[first], ns, first, d, last)
  <1> DEFINE w == ChildWalk(ns, d, last)
             Wrong(k) == (k <= last => ns[k].depth = d) /\ ~Siblings(w[k], ns, k, d, last)
             T == {m \in 0 .. last + 1 - first : Wrong(last + 1 - m)}
  <1>1. WalkSteps(w, ns, d, last)
    BY ChildWalkSteps
  <1> HIDE DEF w
  <1>2. ASSUME T # {}
        PROVE  FALSE
    <2>0. T \in SUBSET Nat
      OBVIOUS
    <2>1. PICK m \in T : \A n \in T : m <= n
      <3> HIDE DEF T
      <3>. QED
        BY <1>2, <2>0, LeastNatural
    <2> DEFINE k == last + 1 - m
    <2>2. k \in first .. last + 1 /\ k \in Nat \ {0} /\ Wrong(k)
      BY <2>1
    <2>3. ASSUME NEW n \in k + 1 .. last + 1, n <= last => ns[n].depth = d
          PROVE  Siblings(w[n], ns, n, d, last)
      <3>1. last + 1 - n \in 0 .. last + 1 - first /\ last + 1 - (last + 1 - n) = n
            /\ last + 1 - n < m
        BY <2>1, <2>2
      <3>2. last + 1 - n \notin T
        BY <2>1, <3>1
      <3>. QED
        BY <2>3, <3>1, <3>2
    <2> HIDE DEF k
    <2>4. CASE k > last
      <3>1. w[k] = <<>>
        BY <1>1, <2>2, <2>4 DEF WalkSteps
      <3>2. Siblings(<<>>, ns, k, d, last)
        BY <2>2, <2>4 DEF Siblings
      <3>. QED
        BY <2>2, <3>1, <3>2
    <2>5. CASE k <= last
      <3> DEFINE n == k + ns[k].subtree
      <3>1. k \in first .. last /\ k \in 1 .. last /\ ns[k].depth = d /\ ns[k].subtree \in Nat \ {0}
        BY <2>2, <2>5
      <3>2. /\ n <= last + 1 /\ (n <= last => ns[n].depth = d) /\ n \in k + 1 .. last + 1
            /\ \A j \in k + 1 .. n - 1 : ns[j].depth # d
        BY <3>1
      <3>3. w[k] = <<k>> \o w[n]
        <4>1. ~(k > last)
          BY <3>1
        <4>2. w[k] = IF k > last THEN <<>>
                     ELSE IF ns[k].depth = d THEN <<k>> \o w[k + ns[k].subtree]
                     ELSE w[k + 1]
          BY <1>1, <2>2 DEF WalkSteps
        <4>. QED
          BY <3>1, <4>1, <4>2, Zenon
      <3>4. Siblings(w[n], ns, n, d, last)
        BY <2>3, <3>2
      <3>5. Siblings(<<k>> \o w[n], ns, k, d, last)
        <4> HIDE DEF n
        <4>. QED
          BY <3>1, <3>2, <3>4, AnotherSibling DEF n
      <3>. QED
        BY <2>2, <3>3, <3>5
    <2>. QED
      BY <2>2, <2>4, <2>5
  <1>3. last + 1 - first \notin T /\ last + 1 - (last + 1 - first) = first
    BY <1>2
  <1>. QED
    BY <1>3 DEF w

(* After a successful parse the iterator of asn1_children finds exactly    *)
(* the nodes one level deeper in the subtree, in order.                    *)
LEMMA ChildrenFound ==
  ASSUME IInv, PreOrder, Succeeded, NEW i \in DOMAIN nodes, NEW last, last = After(i) - 1
  PROVE  /\ last \in i .. Len(nodes)
         /\ \A j \in i + 1 .. last : nodes[j].depth > nodes[i].depth
         /\ last < Len(nodes) => nodes[last + 1].depth <= nodes[i].depth
         /\ Siblings(Children(nodes, i), nodes, i + 1, nodes[i].depth + 1, last)
  <1> DEFINE N == Len(nodes)
             d == nodes[i].depth + 1
  <1>1. /\ nodes \in Seq(Nodes) /\ N \in Nat /\ DOMAIN nodes = 1 .. N /\ stack = <<>>
        /\ i \in 1 .. N
    BY DEF IInv, TypeInv, TypeOK, PreOrder
  <1>2. \A j \in 1 .. N : nodes[j].depth \in Nat /\ nodes[j].subtree \in Nat \ {0}
    <2>1. \A j \in 1 .. N : nodes[j] \in Nodes
      BY <1>1, ElementOfSeq
    <2>. QED
      BY <2>1, BerParserAssumption DEF Nodes
  <1>3. ASSUME NEW k \in 1 .. N
        PROVE  /\ After(k) \in k + 1 .. N + 1
               /\ \A j \in k + 1 .. After(k) - 1 : nodes[j].depth > nodes[k].depth
               /\ After(k) <= N => nodes[After(k)].depth <= nodes[k].depth
    <2> DEFINE l == k + nodes[k].subtree - 1
    <2>1. ~Open(k)
      BY <1>1 DEF Open
    <2>2. /\ l <= N /\ \A j \in k + 1 .. l : nodes[j].depth > nodes[k].depth
          /\ l < N => nodes[l + 1].depth <= nodes[k].depth
      BY <1>1, <2>1 DEF IInv, SubtreeExact
    <2>3. nodes[k].subtree \in Nat \ {0} /\ k \in Nat
      BY <1>1, <1>2
    <2>4. l = After(k) - 1 /\ l + 1 = After(k) /\ After(k) \in Nat /\ After(k) >= k + 1 /\ l \in Nat
      BY <2>3 DEF After
    <2> HIDE DEF l
    <2>. QED
      BY <1>1, <2>2, <2>4
  <1>5. /\ last \in i .. N /\ last + 1 = After(i)
        /\ \A j \in i + 1 .. last : nodes[j].depth > nodes[i].depth
        /\ last < N => nodes[last + 1].depth <= nodes[i].depth
    <2> HIDE DEF N
    <2>1. After(i) \in i + 1 .. N + 1 /\ N \in Nat /\ i \in 1 .. N
      BY <1>1, <1>3
    <2>2. last \in i .. N /\ last + 1 = After(i)
      BY <2>1
    <2>3. last < N => After(i) <= N
      BY <2>1, <2>2
    <2>. QED
      BY <1>3, <2>1, <2>2, <2>3
  <1> HIDE DEF N
  <1>6. i + 1 <= last => nodes[i + 1].depth = d
    <2>1. SUFFICES ASSUME i + 1 <= last
                   PROVE  nodes[i + 1].depth = d
      OBVIOUS
    <2>2. i + 1 \in 2 .. N /\ (i + 1) - 1 = i /\ i + 1 \in i + 1 .. last
      BY <1>1, <1>5, <2>1
    <2>3. nodes[i + 1].depth <= nodes[(i + 1) - 1].depth + 1
      BY <2>2 DEF PreOrder, N
    <2>4. nodes[i + 1].depth \in Nat /\ nodes[i].depth \in Nat
      BY <1>1, <1>2, <2>2
    <2>. QED
      BY <1>5, <2>2, <2>3, <2>4
  <1>7. ASSUME NEW k \in i + 1 .. last, nodes[k].depth = d
        PROVE  /\ k + nodes[k].subtree <= last + 1
               /\ k + nodes[k].subtree <= last => nodes[k + nodes[k].subtree].depth = d
               /\ \A j \in k + 1 .. k + nodes[k].subtree - 1 : nodes[j].depth # d
    <2> DEFINE n == After(k)
    <2>1. k \in 1 .. N /\ i \in 1 .. N /\ nodes[i].depth \in Nat
      BY <1>1, <1>2, <1>5
    <2>2. n \in k + 1 .. N + 1 /\ (n <= N => nodes[n].depth <= d)
          /\ \A j \in k + 1 .. n - 1 : nodes[j].depth > d
      <3>1. n \in k + 1 .. N + 1 /\ (n <= N => nodes[n].depth <= nodes[k].depth)
            /\ \A j \in k + 1 .. n - 1 : nodes[j].depth > nodes[k].depth
        BY <1>3, <2>1
      <3> HIDE DEF n, d
      <3>. QED
        BY <1>7, <3>1
    <2>6. n = k + nodes[k].subtree
      BY DEF After
    <2> HIDE DEF n, d
    <2>3. n <= last + 1
      <3>1. CASE n > last + 1
        <4>1. last + 1 \in k + 1 .. n - 1 /\ last < N /\ last + 1 \in 1 .. N
          BY <1>1, <1>5, <2>1, <2>2, <3>1
        <4>2. nodes[last + 1].depth > d /\ nodes[last + 1].depth <= nodes[i].depth
              /\ nodes[last + 1].depth \in Nat
          BY <1>2, <1>5, <2>2, <4>1
        <4>. QED
          BY <2>1, <4>2 DEF d
      <3>2. n \in Int /\ last \in Int
        BY <1>5, <2>2
      <3>. QED
        BY <3>1, <3>2
    <2>4. n <= last => nodes[n].depth = d
      <3>1. SUFFICES ASSUME n <= last
                     PROVE  nodes[n].depth = d
        OBVIOUS
      <3>2. n \in i + 1 .. last /\ n \in 1 .. N
        BY <1>1, <1>5, <2>1, <2>2, <3>1
      <3>3. nodes[n].depth > nodes[i].depth /\ nodes[n].depth <= d /\ nodes[n].depth \in Nat
        BY <1>1, <1>2, <1>5, <2>2, <3>2
      <3>. QED
        BY <2>1, <3>3 DEF d
    <2>5. \A j \in k + 1 .. n - 1 : nodes[j].depth # d
      <3>1. \A j \in k + 1 .. n - 1 : nodes[j].depth \in Nat
        BY <1>1, <1>2, <2>1, <2>2
      <3>. QED
        BY <2>1, <2>2, <3>1
    <2>. QED
      <3>1. k + nodes[k].subtree <= last + 1
        BY <2>2, <2>3, <2>6
      <3>2. k + nodes[k].subtree <= last => nodes[k + nodes[k].subtree].depth = d
        BY <2>4, <2>6
      <3>3. \A j \in k + 1 .. k + nodes[k].subtree - 1 : nodes[j].depth # d
        <4>1. ASSUME NEW j \in k + 1 .. k + nodes[k].subtree - 1
              PROVE  j \in k + 1 .. n - 1
          <5>1. nodes[k].subtree \in Nat /\ k \in Nat
            BY <1>2, <2>1
          <5>. QED
            BY <2>6, <5>1
        <4>. QED
          BY <2>5, <4>1
      <3>. QED
        BY <3>1, <3>2, <3>3
  <1>8. last \in Nat /\ i + 1 \in 1 .. last + 1
        /\ \A k \in 1 .. last : nodes[k].subtree \in Nat \ {0}
    BY <1>1, <1>2, <1>5
  <1>9. Siblings(ChildWalk(nodes, d, last)[i + 1], nodes, i + 1, d, last)
    BY <1>6, <1>7, <1>8, WalkFindsSiblings
  <1>10. Children(nodes, i) = ChildWalk(nodes, d, last)[i + 1]
    <2>1. last = i + nodes[i].subtree - 1
      BY <1>1, <1>2 DEF After
    <2>. QED
      BY <2>1 DEF Children
  <1>. QED
    BY <1>5, <1>9, <1>10 DEF N

(* asn1_children and asn1_next_child visit every node but the root exactly *)
(* once, each under the nearest shallower node before it.                  *)
LEMMA CompleteChildren ==
  ASSUME IInv, PreOrder
  PROVE  ChildrenComplete
  <1>0. SUFFICES ASSUME Succeeded, NEW i \in DOMAIN nodes
                 PROVE  LET kids == Children(nodes, i) IN
                        /\ \A c \in 1 .. Len(kids) - 1 : kids[c] < kids[c + 1]
                        /\ \A j \in 2 .. Len(nodes) :
                             (\E c \in DOMAIN kids : kids[c] = j) <=> ParentOf(j) = i
    BY DEF ChildrenComplete
  <1> DEFINE N == Len(nodes)
             kids == Children(nodes, i)
             last == After(i) - 1
             Parent(p, j) == /\ nodes[p].depth < nodes[j].depth
                             /\ \A k \in p + 1 .. j - 1 : nodes[k].depth >= nodes[j].depth
  <1>1. /\ nodes \in Seq(Nodes) /\ N \in Nat /\ DOMAIN nodes = 1 .. N /\ i \in 1 .. N
    BY <1>0 DEF IInv, TypeInv, TypeOK
  <1>2. \A j \in 1 .. N : nodes[j].depth \in Nat
    <2>1. \A j \in 1 .. N : nodes[j] \in Nodes
      BY <1>1, ElementOfSeq
    <2>. QED
      BY <2>1, BerParserAssumption DEF Nodes
  <1>3. /\ last \in i .. N
        /\ \A j \in i + 1 .. last : nodes[j].depth > nodes[i].depth
        /\ last < N => nodes[last + 1].depth <= nodes[i].depth
        /\ Siblings(kids, nodes, i + 1, nodes[i].depth + 1, last)
    BY <1>0, ChildrenFound
  <1> HIDE DEF N, kids, last
  <1>4. \A c \in 1 .. Len(kids) - 1 : kids[c] < kids[c + 1]
    BY <1>3 DEF Siblings
  <1>5. ASSUME NEW j \in 2 .. N
        PROVE  (\E c \in DOMAIN kids : kids[c] = j)
                 <=> j \in i + 1 .. last /\ nodes[j].depth = nodes[i].depth + 1
    <2>1. \A c \in DOMAIN kids : kids[c] \in i + 1 .. last
      <3>1. kids \in Seq(i + 1 .. last)
        BY <1>3 DEF Siblings
      <3>2. DOMAIN kids = 1 .. Len(kids)
        BY <3>1
      <3>. QED
        BY <3>1, <3>2, ElementOfSeq
    <2>. QED
      BY <1>3, <2>1 DEF Siblings
  <1>6. ASSUME NEW j \in 2 .. N, j \in i + 1 .. last, nodes[j].depth = nodes[i].depth + 1
        PROVE  i \in 1 .. j - 1 /\ Parent(i, j)
    <2>1. i \in 1 .. j - 1 /\ nodes[i].depth \in Nat
      BY <1>1, <1>2, <1>6
    <2>2. ASSUME NEW k \in i + 1 .. j - 1
          PROVE  nodes[k].depth >= nodes[j].depth
      <3>1. k \in i + 1 .. last /\ k \in 1 .. N
        BY <1>1, <1>3, <1>6
      <3>2. nodes[k].depth > nodes[i].depth /\ nodes[k].depth \in Nat
        BY <1>2, <1>3, <3>1
      <3>. QED
        BY <1>6, <2>1, <3>2
    <2>. QED
      BY <1>6, <2>1, <2>2
  <1>7. ASSUME NEW j \in 2 .. N, NEW p \in 1 .. j - 1, NEW q \in 1 .. j - 1, Parent(p, j), Parent(q, j)
        PROVE  p = q
    <2>1. p \in 1 .. N /\ q \in 1 .. N /\ j \in 1 .. N
      BY <1>1
    <2>2. nodes[p].depth \in Nat /\ nodes[q].depth \in Nat /\ nodes[j].depth \in Nat
      BY <1>2, <2>1
    <2>3. ~(p \in q + 1 .. j - 1) /\ ~(q \in p + 1 .. j - 1)
      BY <1>7, <2>2
    <2>. QED
      BY <2>3
  <1>8. ASSUME NEW j \in 2 .. N
        PROVE  \E p \in 1 .. j - 1 : Parent(p, j)
    <2> DEFINE T == {m \in 0 .. j - 2 : nodes[(j - 1) - m].depth < nodes[j].depth}
    <2>1. nodes[1].depth < nodes[j].depth
      BY <1>0, <1>1 DEF PreOrder, N
    <2>2. j - 2 \in T /\ T \in SUBSET Nat
      <3>1. (j - 1) - (j - 2) = 1
        OBVIOUS
      <3>. QED
        BY <2>1, <3>1
    <2>3. PICK m \in T : \A n \in T : m <= n
      <3> HIDE DEF T
      <3>. QED
        BY <2>2, LeastNatural
    <2> DEFINE p == (j - 1) - m
    <2>4. p \in 1 .. j - 1 /\ nodes[p].depth < nodes[j].depth
      BY <2>3
    <2>5. ASSUME NEW k \in p + 1 .. j - 1
          PROVE  nodes[k].depth >= nodes[j].depth
      <3>1. (j - 1) - k \in 0 .. j - 2 /\ (j - 1) - k < m /\ (j - 1) - ((j - 1) - k) = k
        BY <2>3, <2>4
      <3>2. (j - 1) - k \notin T
        <4> HIDE DEF T
        <4>1. m \in Int
          BY <2>2, <2>3
        <4>. QED
          BY <2>3, <3>1, <4>1
      <3>3. ~(nodes[k].depth < nodes[j].depth)
        BY <3>1, <3>2
      <3>4. k \in 1 .. N /\ j \in 1 .. N
        BY <1>1, <2>4
      <3>. QED
        BY <1>2, <3>3, <3>4
    <2> HIDE DEF p
    <2>. QED
      BY <2>4, <2>5
  <1>9. ASSUME NEW j \in 2 .. N
        PROVE  ParentOf(j) \in 1 .. j - 1 /\ Parent(ParentOf(j), j)
    BY <1>8 DEF ParentOf
  <1>10. ASSUME NEW j \in 2 .. N, i \in 1 .. j - 1, Parent(i, j)
         PROVE  j \in i + 1 .. last /\ nodes[j].depth = nodes[i].depth + 1
    <2>1. i + 1 \in 2 .. N /\ (i + 1) - 1 = i /\ j \in 1 .. N /\ i + 1 \in 1 .. N
      BY <1>1, <1>10
    <2>2. nodes[i + 1].depth <= nodes[(i + 1) - 1].depth + 1
      BY <1>0, <2>1 DEF PreOrder, N
    <2>3. nodes[j].depth <= nodes[i + 1].depth
      <3>1. CASE j = i + 1
        BY <1>2, <2>1, <3>1
      <3>2. CASE j # i + 1
        <4>1. i + 1 \in i + 1 .. j - 1
          BY <1>10, <3>2
        <4>. QED
          BY <1>2, <1>10, <2>1, <4>1
      <3>. QED
        BY <3>1, <3>2
    <2>4. nodes[j].depth = nodes[i].depth + 1
      BY <1>1, <1>2, <1>10, <2>1, <2>2, <2>3
    <2>5. CASE j > last
      <3>1. last < N /\ last + 1 \in i + 1 .. j /\ last + 1 \in 1 .. N
        BY <1>1, <1>3, <2>5
      <3>2. nodes[last + 1].depth <= nodes[i].depth /\ nodes[last + 1].depth \in Nat
        BY <1>2, <1>3, <3>1
      <3>3. nodes[last + 1].depth >= nodes[j].depth
        <4>1. last + 1 = j \/ last + 1 \in i + 1 .. j - 1
          BY <1>3, <3>1
        <4>. QED
          BY <1>2, <1>10, <2>1, <4>1
      <3>. QED
        BY <1>1, <1>2, <2>4, <3>2, <3>3
    <2>. QED
      BY <1>3, <1>10, <2>4, <2>5
  <1>11. ASSUME NEW j \in 2 .. N
         PROVE  (\E c \in DOMAIN kids : kids[c] = j) <=> ParentOf(j) = i
    <2>1. ASSUME ParentOf(j) = i
          PROVE  \E c \in DOMAIN kids : kids[c] = j
      BY <1>5, <1>9, <1>10, <2>1
    <2>2. ASSUME \E c \in DOMAIN kids : kids[c] = j
          PROVE  ParentOf(j) = i
      <3>1. i \in 1 .. j - 1 /\ Parent(i, j)
        BY <1>5, <1>6, <2>2
      <3>. QED
        BY <1>7, <1>9, <3>1
    <2>. QED
      BY <2>1, <2>2
  <1>. QED
    BY <1>4, <1>11 DEF kids, N

(* asn1_children and asn1_next_child visit every node of a parsed tree but the *)
(* root exactly once, under its parent.                                    *)
THEOREM ChildrenFoundOnce == Spec => []ChildrenComplete
  <1>1. Init => IInv /\ PreOrder
    BY InitIInv DEF Init, PreOrder, Running, Succeeded
  <1>2. IInv /\ PreOrder /\ [Next]_vars => (IInv /\ PreOrder)'
    BY IInvStep, PreOrderStep
  <1>3. IInv /\ PreOrder => ChildrenComplete
    BY CompleteChildren
  <1>. QED
    BY <1>1, <1>2, <1>3, PTL DEF Spec

-----------------------------------------------------------------------------
(* The octets of the tree *)

(* Where the last complete node ends: the octets of the next one, whose    *)
(* header may have been read in part, start there.                         *)
Position == IF pc \in {"tag", "length", "octets", "content"} THEN header.start ELSE offset

(* The offsets while a header is read, and when everything has been.       *)
Offsets ==
  /\ pc \in {"tag", "length"} => header.start + 1 <= offset
  /\ pc \in {"octets", "content"} => header.start + 2 <= offset
  /\ Succeeded => offset = Len(data)

(* A node whose children are being parsed has its header behind it.        *)
OpenBefore ==
  \A i \in DOMAIN nodes : Open(i) => nodes[i].constructed /\ nodes[i].start + 2 <= Position

(* The root starts with the input, and a value ends with its node.         *)
RootFirst == IF nodes = <<>> THEN Running => Position = 0 ELSE nodes[1].start = 0

ValueInNode ==
  \A i \in DOMAIN nodes :
    ~nodes[i].constructed => /\ nodes[i].value \in Nat /\ nodes[i].encoded \in Nat
                             /\ nodes[i].value >= nodes[i].start + 2
                             /\ nodes[i].value + nodes[i].length = EndOf(i)

(* A complete node ends where its next sibling starts, or where the parser *)
(* is when it was the last one so far.                                     *)
SiblingsAdjacent ==
  \A i \in DOMAIN nodes : ~Open(i) =>
    /\ nodes[i].encoded \in Nat
    /\ After(i) <= Len(nodes) /\ nodes[After(i)].depth = nodes[i].depth
         => EndOf(i) = nodes[After(i)].start
    /\ After(i) = Len(nodes) + 1 /\ nodes[i].depth = Len(stack) + 1
         => EndOf(i) = Position

Layout == OpenBefore /\ RootFirst /\ ValueInNode /\ SiblingsAdjacent

(* Every step keeps the offsets.                                           *)
LEMMA OffsetsStep == TypeInv /\ Offsets /\ [Next]_vars => Offsets'
  <1> SUFFICES ASSUME TypeInv, Offsets, [Next]_vars
               PROVE  Offsets'
    OBVIOUS
  <1>1. offset \in Nat /\ offset <= Len(data) /\ Len(data) \in Nat
    BY DEF TypeInv, TypeOK
  <1>2. CASE \E code \in Errors : Return(code)
    BY <1>2 DEF Return, Offsets, Succeeded, Errors
  <1>3. CASE RejectCall \/ BeginCall \/ UNCHANGED vars
    BY <1>3 DEF RejectCall, BeginCall, vars, Offsets, Succeeded
  <1>4. CASE DepthExceeded \/ InputExhausted \/ ChildrenFail
    BY <1>2, <1>4 DEF DepthExceeded, InputExhausted, ChildrenFail, Errors
  <1>5. CASE ReadIdentifier
    <2>1. header'.start = offset /\ offset' = offset + 1 /\ pc' \in {"tag", "length"}
      BY <1>5 DEF ReadIdentifier, Reading, Go, NoHeader
    <2>. QED
      BY <1>1, <2>1 DEF Offsets, Succeeded
  <1>6. CASE ReadTagOctet
    <2>1. CASE pc' \in {"tag", "length"}
      <3>1. header'.start = header.start /\ offset' = offset + 1 /\ header.start + 1 <= offset
            /\ header.start \in Nat
        BY <1>6, HeaderType DEF ReadTagOctet, Reading, Offsets, TypeInv, TypeOK, Headers, Sizes
      <3>. QED
        BY <1>1, <2>1, <3>1 DEF Offsets, Succeeded
    <2>. QED
      BY <1>2, <1>6, <2>1 DEF ReadTagOctet, Go, Errors
  <1>7. CASE ReadLength
    <2>1. CASE pc' \in {"octets", "content"}
      <3>1. header'.start = header.start
        BY <1>7, <2>1, ZenonT(60) DEF ReadLength, Reading, TypeInv, TypeOK, Headers, Return
      <3>2. offset' = offset + 1 /\ header.start + 1 <= offset /\ header.start \in Nat
        BY <1>7, HeaderType DEF ReadLength, Reading, Offsets, TypeInv, TypeOK, Sizes
      <3>. QED
        BY <1>1, <2>1, <3>1, <3>2 DEF Offsets, Succeeded
    <2>. QED
      BY <1>2, <1>7, <2>1 DEF ReadLength, Go, Errors
  <1>8. CASE ReadLengthOctet
    <2>1. CASE pc' \in {"octets", "content"}
      <3>1. header'.start = header.start /\ offset' = offset + 1 /\ header.start + 2 <= offset
            /\ header.start \in Nat
        BY <1>8, HeaderType DEF ReadLengthOctet, Reading, Offsets, TypeInv, TypeOK, Headers, Sizes
      <3>. QED
        BY <1>1, <2>1, <3>1 DEF Offsets, Succeeded
    <2>. QED
      BY <1>2, <1>8, <2>1 DEF ReadLengthOctet, Go, Errors
  <1>9. CASE pc' = "children"
    BY <1>9 DEF Offsets, Succeeded
  <1>10. CASE AddPrimitive
    BY <1>2, <1>9, <1>10 DEF AddPrimitive, Go, Errors
  <1>11. CASE OpenConstructed
    BY <1>2, <1>9, <1>11 DEF OpenConstructed, Errors
  <1>12. CASE CloseNode
    BY <1>9, <1>12 DEF CloseNode, InChildren
  <1>13. CASE NextChild
    BY <1>13 DEF NextChild, Go, Offsets, Succeeded
  <1>14. CASE EndCall
    BY <1>1, <1>14 DEF EndCall, Return, Remaining, Offsets, Succeeded, Args
  <1>. QED
    BY <1>3, <1>4, <1>5, <1>6, <1>7, <1>8, <1>10, <1>11, <1>12, <1>13, <1>14 DEF Next, Step

-----------------------------------------------------------------------------
(* What the octets of a header say *)

(* The steps by which a number is computed.                                *)
Accumulates(f, d, lo, n, base, mod) ==
  /\ f \in [0 .. n -> 0 .. mod - 1] /\ f[0] = 0
  /\ \A k \in 1 .. n : f[k] = (f[k - 1] * base + (d[lo + k] % base)) % mod

(* Any digits can be summed up.                                            *)
LEMMA AccumulationExists ==
  ASSUME NEW d, NEW lo \in Nat, NEW n \in Nat, NEW base \in Nat \ {0}, NEW mod \in Nat \ {0},
         \A k \in 1 .. n : d[lo + k] \in Octets
  PROVE  \E f : Accumulates(f, d, lo, n, base, mod)
  <1> DEFINE S == 0 .. mod - 1
             term(k) == d[lo + k] % base
             step == [k \in 1 .. n |-> [x \in S |-> (x * base + term(k)) % mod]]
  <1>1. \A k \in 1 .. n : term(k) \in Nat
    <2>1. ASSUME NEW o \in Octets
          PROVE  o % base \in Nat
      <3>1. o \in Int
        BY DEF Octets
      <3>2. o % base \in 0 .. base - 1
        BY <3>1, ModRange
      <3>. QED
        BY <3>2
    <2>. QED
      BY <2>1
  <1> HIDE DEF term
  <1>2. ASSUME NEW k \in 1 .. n, NEW x \in S
        PROVE  (x * base + term(k)) % mod \in S
    <2>1. x * base + term(k) \in Int
      <3>1. x \in Nat /\ term(k) \in Nat
        BY <1>1
      <3>2. x * base \in Nat
        BY <3>1
      <3>. QED
        BY <3>1, <3>2
    <2>. QED
      BY <2>1, ModRange
  <1>9. 0 \in S
    OBVIOUS
  <1> HIDE DEF S
  <1>3. step \in [1 .. n -> [S -> S]] /\ 0 \in S
    BY <1>2, <1>9
  <1>4. PICK f \in [0 .. n -> S] : Loop(f, n, 0, step)
    <2> HIDE DEF step
    <2>. QED
      BY <1>3, LoopExists
  <1>5. \A k \in 0 .. n : f[k] = IF k = 0 THEN 0 ELSE step[k][f[k - 1]]
    BY <1>4 DEF Loop
  <1>6. f[0] = 0
    <2>1. 0 \in 0 .. n
      OBVIOUS
    <2> HIDE DEF step
    <2>. QED
      BY <1>5, <2>1, Zenon
  <1>7. ASSUME NEW k \in 1 .. n
        PROVE  f[k] = (f[k - 1] * base + term(k)) % mod
    <2>1. k \in 0 .. n /\ k # 0 /\ k - 1 \in 0 .. n
      OBVIOUS
    <2>2. f[k] = step[k][f[k - 1]]
      <3> HIDE DEF step
      <3>. QED
        BY <1>5, <2>1, Zenon
    <2>3. f[k - 1] \in S
      BY <2>1
    <2>. QED
      BY <2>2, <2>3, Zenon
  <1>8. Accumulates(f, d, lo, n, base, mod)
    <2> HIDE DEF step
    <2>. QED
      BY <1>4, <1>6, <1>7, Zenon DEF Accumulates, S, term
  <1>. QED
    BY <1>8

(* The steps determine the number.                                         *)
LEMMA NumberIs ==
  ASSUME NEW d, NEW lo, NEW n \in Nat, NEW base, NEW mod, NEW f,
         Accumulates(f, d, lo, n, base, mod)
  PROVE  Number(d, lo, n, base, mod) = f[n]
  <1> DEFINE next(x, k) == (x * base + (d[lo + k] % base)) % mod
             Value(v) == v = [k \in 0 .. n |-> IF k = 0 THEN 0 ELSE next(v[k - 1], k)]
             h == CHOOSE v : Value(v)
  <1>1. Number(d, lo, n, base, mod) = h[n]
    BY DEF Number
  <1>2. /\ f = [k \in 0 .. n |-> f[k]] /\ f[0] = 0
        /\ \A k \in 1 .. n : f[k] = next(f[k - 1], k)
    BY DEF Accumulates
  <1> HIDE DEF next
  <1>3. Value(f)
    <2>1. \A k \in 0 .. n : k = 0 \/ k \in 1 .. n
      OBVIOUS
    <2>2. \A k \in 0 .. n : f[k] = IF k = 0 THEN 0 ELSE next(f[k - 1], k)
      BY <1>2, <2>1, Zenon
    <2>. QED
      BY <1>2, <2>2, Zenon
  <1>4. Value(h)
    <2> HIDE DEF Value
    <2>. QED
      BY <1>3, Zenon
  <1> HIDE DEF h
  <1>5. h = [k \in 0 .. n |-> h[k]] /\ \A k \in 0 .. n : h[k] = IF k = 0 THEN 0 ELSE next(h[k - 1], k)
    BY <1>4, Zenon
  <1> HIDE DEF Value
  <1> DEFINE Same == {k \in 0 .. n : h[k] = f[k]}
  <1>6. 0 \in Same
    <2>1. 0 \in 0 .. n
      OBVIOUS
    <2>. QED
      BY <1>2, <1>5, <2>1, Zenon
  <1>7. ASSUME NEW k \in 0 .. n - 1, k \in Same
        PROVE  k + 1 \in Same
    <2>1. k + 1 \in 1 .. n /\ (k + 1) - 1 = k /\ k + 1 \in 0 .. n /\ k + 1 # 0
      OBVIOUS
    <2>2. h[k + 1] = next(h[(k + 1) - 1], k + 1)
      BY <1>5, <2>1, Zenon
    <2>3. f[k + 1] = next(f[(k + 1) - 1], k + 1)
      BY <1>2, <2>1, Zenon
    <2>4. h[k] = f[k]
      BY <1>7, Zenon
    <2>. QED
      BY <2>1, <2>2, <2>3, <2>4, Zenon
  <1>8. n \in Same
    <2> HIDE DEF Same
    <2>1. 0 .. n \subseteq Same
      BY <1>6, <1>7, UpTo
    <2>. QED
      BY <2>1
  <1>. QED
    BY <1>1, <1>8, Zenon

(* Octets to read, and what one more of them does to the number.           *)
DigitsAt(d, lo, n) == \A k \in 1 .. n : d[lo + k] \in Octets

OneMore(d, lo, n, base, mod) ==
  Number(d, lo, n + 1, base, mod)
    = (Number(d, lo, n, base, mod) * base + (d[lo + (n + 1)] % base)) % mod

(* The code reads a number one octet at a time.                            *)
LEMMA NumberStep ==
  ASSUME NEW d, NEW lo \in Nat, NEW n \in Nat, NEW base \in Nat \ {0}, NEW mod \in Nat \ {0},
         DigitsAt(d, lo, n + 1)
  PROVE  OneMore(d, lo, n, base, mod)
  <1> DEFINE m == n + 1
  <1>1. m \in Nat /\ m \in 1 .. m /\ m - 1 = n /\ n \in 0 .. m /\ \A k \in 1 .. n : k \in 1 .. m
    OBVIOUS
  <1>2. PICK f : Accumulates(f, d, lo, m, base, mod)
    <2>1. \A k \in 1 .. m : d[lo + k] \in Octets
      BY DEF DigitsAt
    <2> HIDE DEF m
    <2>. QED
      BY <1>1, <2>1, AccumulationExists
  <1>3. Number(d, lo, m, base, mod) = f[m]
    <2> HIDE DEF m
    <2>. QED
      BY <1>1, <1>2, NumberIs
  <1> DEFINE g == [k \in 0 .. n |-> f[k]]
  <1>4. /\ f \in [0 .. m -> 0 .. mod - 1] /\ f[0] = 0
        /\ \A k \in 1 .. m : f[k] = (f[k - 1] * base + (d[lo + k] % base)) % mod
    BY <1>2, Zenon DEF Accumulates
  <1>5. g[n] = f[n] /\ Accumulates(g, d, lo, n, base, mod)
    <2>1. \A k \in 0 .. n : k \in 0 .. m /\ g[k] = f[k]
      BY <1>1
    <2>2. \A k \in 1 .. n : k \in 0 .. n /\ k - 1 \in 0 .. n
      OBVIOUS
    <2>3. g \in [0 .. n -> 0 .. mod - 1]
      BY <1>4, <2>1
    <2>4. 0 \in 0 .. n /\ n \in 0 .. n
      OBVIOUS
    <2> HIDE DEF g, m
    <2>5. \A k \in 1 .. n : g[k] = (g[k - 1] * base + (d[lo + k] % base)) % mod
      BY <1>1, <1>4, <2>1, <2>2, Zenon
    <2>. QED
      BY <1>4, <2>1, <2>3, <2>4, <2>5, Zenon DEF Accumulates
  <1>6. Number(d, lo, n, base, mod) = f[n]
    <2> HIDE DEF g
    <2>. QED
      BY <1>5, NumberIs
  <1>7. f[m] = (f[n] * base + (d[lo + m] % base)) % mod
    <2> HIDE DEF m
    <2>. QED
      BY <1>1, <1>4, Zenon
  <1>. QED
    BY <1>3, <1>6, <1>7, Zenon DEF OneMore

(* Before the first octet the number is zero.                              *)
LEMMA NumberZero ==
  ASSUME NEW d, NEW lo, NEW base, NEW mod \in Nat \ {0}
  PROVE  Number(d, lo, 0, base, mod) = 0
  <1> DEFINE f == [k \in 0 .. 0 |-> 0]
  <1>1. f[0] = 0 /\ f \in [0 .. 0 -> 0 .. mod - 1] /\ 1 .. 0 = {}
    OBVIOUS
  <1> HIDE DEF f
  <1>2. Accumulates(f, d, lo, 0, base, mod)
    BY <1>1, Zenon DEF Accumulates
  <1>3. 0 \in Nat
    OBVIOUS
  <1>4. Number(d, lo, 0, base, mod) = f[0]
    BY <1>2, <1>3, NumberIs
  <1>. QED
    BY <1>1, <1>4, Zenon

(* What has been read of the header that is being read.                    *)
TagRead ==
  LET s == header.start IN
  pc = "tag" =>
    /\ offset = s + 1 + header.read /\ header.read <= TagOctets
    /\ header.class = data[s + 1] \div 64
    /\ header.constructed = ((data[s + 1] \div 32) % 2 = 1)
    /\ data[s + 1] % 32 = 31
    /\ \A k \in 1 .. header.read : data[s + 1 + k] >= 128
    /\ header.tag = Number(data, s + 1, header.read, 128, TagMod)

LengthNext == pc = "length" => Identified(data, header, offset)

LengthRead ==
  LET at == offset - 1 - header.read IN
  pc = "octets" =>
    /\ header.start + 1 <= at /\ Identified(data, header, at)
    /\ data[at + 1] > 128 /\ header.want = data[at + 1] - 128 /\ header.want <= SizeOctets
    /\ header.read < header.want
    /\ header.length = Number(data, at + 1, header.read, 256, SizeMod)

(* The header that the octets at an offset end is complete.                *)
Complete(at) ==
  /\ at \in Nat /\ header.start + 1 <= at /\ at < offset
  /\ Identified(data, header, at) /\ LengthAllowed(data, rules, at)
  /\ offset = Content(data, at) /\ header.length = Announced(data, at)
  /\ header.indefinite <=> data[at + 1] = 128

HeaderRead ==
  /\ pc \in {"tag", "length"} => header.length = 0
  /\ pc \in {"tag", "length", "octets"} => ~header.indefinite
  /\ TagRead /\ LengthNext /\ LengthRead
  /\ pc = "content" => (\E at : Complete(at)) /\ (header.indefinite => header.constructed)

(* An identifier is the one of every node or header with the same fields.  *)
LEMMA SameIdentifier ==
  ASSUME NEW d, NEW a, NEW b, NEW at, Identified(d, a, at),
         b.start = a.start, b.class = a.class, b.constructed = a.constructed, b.tag = a.tag
  PROVE  Identified(d, b, at)
  BY DEF Identified

(* Outside of a header its invariant says nothing.                         *)
LEMMA HeaderDone ==
  ASSUME pc' \notin {"tag", "length", "octets", "content"}
  PROVE  HeaderRead'
  BY DEF HeaderRead, TagRead, LengthNext, LengthRead

(* The first octet of a header.                                            *)
LEMMA HeaderIdentifier ==
  ASSUME TypeInv, ReadIdentifier
  PROVE  HeaderRead'
  <1>1. /\ header'.start = offset /\ header'.read = 0 /\ header'.length = 0 /\ header'.indefinite = FALSE
        /\ header'.class = Octet \div 64 /\ header'.constructed = ((Octet \div 32) % 2 = 1)
        /\ header'.tag = IF Octet % 32 = 31 THEN 0 ELSE Octet % 32
    BY DEF ReadIdentifier, NoHeader
  <1>2. offset \in Nat /\ offset' = offset + 1 /\ data' = data /\ Octet = data[offset + 1]
    BY DEF ReadIdentifier, Reading, Args, Octet, TypeInv, TypeOK
  <1>3. CASE Octet % 32 = 31
    <2>1. pc' = "tag"
      BY <1>3 DEF ReadIdentifier, Go
    <2>2. Number(data, offset + 1, 0, 128, TagMod) = 0
      <3> DEFINE lo == offset + 1
      <3>1. 128 \in Nat \ {0} /\ TagMod \in Nat \ {0} /\ lo \in Nat
        BY <1>2, BerParserAssumption
      <3> HIDE DEF lo
      <3>2. Number(data, lo, 0, 128, TagMod) = 0
        BY <3>1, NumberZero
      <3>. QED
        BY <3>2 DEF lo
    <2>3. TagRead'
      <3>1. offset' = header'.start + 1 + header'.read /\ header'.read <= TagOctets
        BY <1>1, <1>2, BerParserAssumption
      <3>2. \A k \in 1 .. header'.read : data'[header'.start + 1 + k] >= 128
        BY <1>1
      <3>3. header'.tag = Number(data', header'.start + 1, header'.read, 128, TagMod)
        BY <1>1, <1>2, <1>3, <2>2, Zenon
      <3>4. /\ header'.class = data'[header'.start + 1] \div 64
            /\ header'.constructed = ((data'[header'.start + 1] \div 32) % 2 = 1)
            /\ data'[header'.start + 1] % 32 = 31
        BY <1>1, <1>2, <1>3, Zenon
      <3>. QED
        BY <3>1, <3>2, <3>3, <3>4, Zenon DEF TagRead
    <2>. QED
      BY <1>1, <2>1, <2>3 DEF HeaderRead, LengthNext, LengthRead
  <1>4. CASE Octet % 32 # 31
    <2>1. pc' = "length"
      BY <1>4 DEF ReadIdentifier, Go
    <2>2. Octet % 32 < 31
      <3>1. Octet \in Octets
        BY OctetType DEF ReadIdentifier, Reading, TypeInv
      <3>. QED
        BY <1>4, <3>1 DEF Octets
    <2>3. offset' - header'.start - 1 = 0
      BY <1>1, <1>2
    <2>4. Identified(data', header', offset')
      BY <1>1, <1>2, <1>4, <2>2, <2>3, Zenon DEF Identified
    <2>5. LengthNext'
      BY <2>4, Zenon DEF LengthNext
    <2>. QED
      BY <1>1, <2>1, <2>5 DEF HeaderRead, TagRead, LengthRead
  <1>. QED
    BY <1>3, <1>4

(* An octet of the tag number.                                             *)
LEMMA HeaderTag ==
  ASSUME TypeInv, HeaderRead, Offsets, ReadTagOctet, pc' # "idle"
  PROVE  HeaderRead'
  <1> DEFINE s == header.start
             n == header.read
             tag == (header.tag * 128 + (Octet % 128)) % TagMod
  <1>1. /\ offset = s + 1 + n
        /\ header.class = data[s + 1] \div 64 /\ header.constructed = ((data[s + 1] \div 32) % 2 = 1)
        /\ data[s + 1] % 32 = 31
        /\ \A k \in 1 .. n : data[s + 1 + k] >= 128
        /\ header.tag = Number(data, s + 1, n, 128, TagMod)
        /\ header.length = 0 /\ ~header.indefinite
    BY DEF ReadTagOctet, Reading, HeaderRead, TagRead
  <1>2. header \in Headers /\ s \in Nat /\ n \in Nat /\ header.indefinite \in BOOLEAN
    BY HeaderType DEF TypeInv, TypeOK, Sizes
  <1>3. /\ header'.start = s /\ header'.read = n + 1 /\ header'.length = 0 /\ ~header'.indefinite
        /\ header'.class = header.class /\ header'.constructed = header.constructed
        /\ header'.tag = tag
    <2>1. header' = [header EXCEPT !.tag = tag, !.read = @ + 1]
      BY DEF ReadTagOctet
    <2> HIDE DEF tag
    <2>. QED
      BY <1>1, <1>2, <2>1 DEF Headers
  <1>4. /\ offset' = offset + 1 /\ data' = data /\ Octet = data[offset + 1]
        /\ offset + 1 \in 1 .. Len(data) /\ data \in Seq(Octets)
    BY DEF ReadTagOctet, Reading, Remaining, Args, Octet, TypeInv, TypeOK
  <1>5. offset + 1 = s + 1 + (n + 1) /\ Octet \in Octets
    <2>1. Octet \in Octets
      BY <1>4, ElementOfSeq, Zenon
    <2> HIDE DEF s, n
    <2>. QED
      BY <1>1, <1>2, <2>1
  <1>6. tag = Number(data, s + 1, n + 1, 128, TagMod)
    <2>1. \A k \in 1 .. n + 1 : data[s + 1 + k] \in Octets
      <3>1. \A k \in 1 .. n + 1 : s + 1 + k \in 1 .. Len(data)
        BY <1>2, <1>4, <1>5
      <3>. QED
        BY <1>4, <3>1, ElementOfSeq
    <2>2. 128 \in Nat \ {0} /\ TagMod \in Nat \ {0} /\ s + 1 \in Nat
      BY <1>2, BerParserAssumption
    <2> DEFINE lo == s + 1
    <2> HIDE DEF n, lo
    <2>3. Number(data, lo, n + 1, 128, TagMod)
            = (Number(data, lo, n, 128, TagMod) * 128 + (data[lo + (n + 1)] % 128)) % TagMod
      <3>1. lo \in Nat /\ n \in Nat /\ DigitsAt(data, lo, n + 1)
        BY <1>2, <2>1, <2>2, Zenon DEF lo, n, DigitsAt
      <3>. QED
        <4>1. OneMore(data, lo, n, 128, TagMod)
          BY <2>2, <3>1, NumberStep, Zenon
        <4>. QED
          BY <4>1, Zenon DEF OneMore
    <2>. QED
      BY <1>1, <1>4, <1>5, <2>3, Zenon DEF lo, n
  <1> HIDE DEF tag
  <1>7. CASE pc' = "tag"
    <2>1. n < TagOctets /\ Octet >= 128
      BY <1>7 DEF ReadTagOctet, Go, Return
    <2>2. n + 1 <= TagOctets /\ offset' = s + 1 + (n + 1)
      BY <1>2, <1>4, <1>5, <2>1, BerParserAssumption
    <2>3. \A k \in 1 .. n + 1 : data[s + 1 + k] >= 128
      <3>1. \A k \in 1 .. n + 1 : k \in 1 .. n \/ k = n + 1
        BY <1>2
      <3>2. data[s + 1 + (n + 1)] >= 128
        BY <1>4, <1>5, <2>1, Zenon
      <3>. QED
        BY <1>1, <3>1, <3>2, Zenon
    <2>4. TagRead'
      BY <1>1, <1>3, <1>4, <1>6, <2>2, <2>3, Zenon DEF TagRead
    <2>. QED
      BY <1>3, <1>7, <2>4 DEF HeaderRead, LengthNext, LengthRead
  <1>8. CASE pc' = "length"
    <2>1. n < TagOctets /\ Octet < 128 /\ tag >= 31
      BY <1>8 DEF ReadTagOctet, Go, Return, tag
    <2>2. offset' - s - 1 = n + 1 /\ n + 1 \in 1 .. TagOctets
      <3>1. offset' = s + 1 + (n + 1) /\ n < TagOctets /\ TagOctets \in Nat
        BY <1>4, <1>5, <2>1, BerParserAssumption, Zenon
      <3> HIDE DEF s, n
      <3>. QED
        BY ONLY <1>2, <3>1
    <2>3. \A k \in 1 .. n + 1 : (data[s + 1 + k] >= 128) <=> (k < n + 1)
      <3>1. \A k \in 1 .. n + 1 : (k \in 1 .. n /\ k < n + 1) \/ (k = n + 1 /\ ~(k < n + 1))
        BY <1>2
      <3>2. ~(data[s + 1 + (n + 1)] >= 128)
        <4>1. ~(Octet >= 128)
          BY <1>5, <2>1 DEF Octets
        <4>. QED
          BY <1>4, <1>5, <4>1, Zenon
      <3>. QED
        BY <1>1, <3>1, <3>2, Zenon
    <2>4. Identified(data', header', offset')
      BY <1>1, <1>3, <1>4, <1>6, <2>1, <2>2, <2>3, ZenonT(60) DEF Identified
    <2>5. LengthNext'
      BY <2>4, Zenon DEF LengthNext
    <2>. QED
      BY <1>3, <1>8, <2>5 DEF HeaderRead, TagRead, LengthRead
  <1>. QED
    BY <1>7, <1>8 DEF ReadTagOctet, Go, Return

(* The first length octet.                                                 *)
LEMMA HeaderLength ==
  ASSUME TypeInv, HeaderRead, Offsets, ReadLength, pc' # "idle"
  PROVE  HeaderRead'
  <1>0. PICK o : o = offset   \* a constant: offset moves on
    OBVIOUS
  <1>1. /\ Identified(data, header, offset) /\ header.start + 1 <= offset
        /\ header.length = 0 /\ header.indefinite = FALSE
    <2>1. header.indefinite \in BOOLEAN
      BY HeaderType DEF TypeInv, TypeOK
    <2>. QED
      BY <2>1 DEF ReadLength, Reading, HeaderRead, LengthNext, Offsets
  <1>2. /\ header \in Headers /\ header.start \in Nat
        /\ offset' = offset + 1 /\ data' = data /\ rules' = rules /\ Octet = data[offset + 1]
        /\ offset \in Nat /\ offset < offset' /\ offset + 1 \in 1 .. Len(data) /\ data \in Seq(Octets)
    BY HeaderType DEF ReadLength, Reading, Remaining, Args, Octet, TypeInv, TypeOK, Sizes
  <1>3. Octet \in Octets
    BY <1>2, ElementOfSeq, Zenon
  <1>4. \/ /\ Octet = 128 /\ rules = "BER" /\ header.constructed
           /\ pc' = "content" /\ header' = [header EXCEPT !.indefinite = TRUE]
        \/ /\ Octet < 128
           /\ pc' = "content" /\ header' = [header EXCEPT !.length = Octet]
        \/ /\ Octet - 128 \in 1 .. SizeOctets
           /\ pc' = "octets" /\ header' = [header EXCEPT !.want = Octet - 128, !.read = 0]
    BY DEF ReadLength, Go, Return
  <1>5. /\ header'.start = header.start /\ header'.class = header.class
        /\ header'.constructed = header.constructed /\ header'.tag = header.tag
    <2> DEFINE same(h) == /\ h.start = header.start /\ h.class = header.class
                          /\ h.constructed = header.constructed /\ h.tag = header.tag
    <2>1. same([header EXCEPT !.indefinite = TRUE])
      BY <1>2 DEF Headers
    <2>2. same([header EXCEPT !.length = Octet])
      BY <1>2 DEF Headers
    <2>3. same([header EXCEPT !.want = Octet - 128, !.read = 0])
      BY <1>2 DEF Headers
    <2> HIDE DEF same
    <2>4. same(header')
      BY <1>4, <2>1, <2>2, <2>3, Zenon
    <2>. QED
      BY <2>4 DEF same
  <1>6. Identified(data', header', offset)
    BY <1>1, <1>2, <1>5, SameIdentifier, Zenon
  <1>7. CASE /\ Octet = 128 /\ rules = "BER" /\ header.constructed
             /\ pc' = "content" /\ header' = [header EXCEPT !.indefinite = TRUE]
    <2>1. header'.indefinite = TRUE /\ header'.length = 0
      BY <1>1, <1>2, <1>7, ZenonT(60) DEF Headers
    <2>2. LengthDigits(data, offset) = 0
      BY <1>2, <1>7 DEF LengthDigits
    <2>3. Content(data, offset) = offset + 1
      BY <1>2, <2>2 DEF Content
    <2>4. Announced(data, offset) = 0
      <3> DEFINE lo == offset + 1
      <3>1. SizeMod \in Nat \ {0}
        BY BerParserAssumption
      <3> HIDE DEF lo
      <3>2. Number(data, lo, 0, 256, SizeMod) = 0
        BY <3>1, NumberZero
      <3>3. ~(128 < 128)
        OBVIOUS
      <3>. QED
        BY <1>2, <1>7, <2>2, <3>2, <3>3, Zenon DEF Announced, lo
    <2>5. LengthAllowed(data, rules, offset)
      <3>1. rules # "DER" /\ 0 <= SizeOctets
        BY <1>7, BerParserAssumption
      <3>. QED
        BY <2>2, <3>1, Zenon DEF LengthAllowed
    <2>6. Complete(o)'
      BY <1>0, <1>1, <1>2, <1>5, <1>6, <1>7, <2>1, <2>3, <2>4, <2>5, Zenon DEF Complete
    <2>. QED
      BY <1>5, <1>7, <2>1, <2>6 DEF HeaderRead, TagRead, LengthNext, LengthRead
  <1>8. CASE /\ Octet < 128
             /\ pc' = "content" /\ header' = [header EXCEPT !.length = Octet]
    <2>1. header'.indefinite = FALSE /\ header'.length = Octet
      BY <1>1, <1>2, <1>8, ZenonT(60) DEF Headers
    <2>2. LengthDigits(data, offset) = 0 /\ ~(Octet > 128) /\ Octet # 128
      <3>1. ~(Octet > 128) /\ Octet # 128
        BY <1>3, <1>8 DEF Octets
      <3>. QED
        BY <1>2, <3>1, Zenon DEF LengthDigits
    <2>3. Content(data, offset) = offset + 1
      BY <1>2, <2>2 DEF Content
    <2>4. Announced(data, offset) = Octet
      BY <1>2, <1>8, Zenon DEF Announced
    <2>5. LengthAllowed(data, rules, offset)
      <3>1. 0 <= SizeOctets
        BY BerParserAssumption
      <3>. QED
        BY <1>2, <2>2, <3>1, Zenon DEF LengthAllowed
    <2>6. Complete(o)'
      BY <1>0, <1>1, <1>2, <1>5, <1>6, <1>8, <2>1, <2>2, <2>3, <2>4, <2>5, Zenon DEF Complete
    <2>. QED
      BY <1>8, <2>1, <2>6 DEF HeaderRead, TagRead, LengthNext, LengthRead
  <1>9. CASE /\ Octet - 128 \in 1 .. SizeOctets
             /\ pc' = "octets" /\ header' = [header EXCEPT !.want = Octet - 128, !.read = 0]
    <2>1. /\ header'.indefinite = FALSE /\ header'.length = 0
          /\ header'.want = Octet - 128 /\ header'.read = 0
      BY <1>1, <1>2, <1>9, ZenonT(60) DEF Headers
    <2>2. /\ Octet > 128 /\ Octet - 128 <= SizeOctets /\ 0 < Octet - 128
          /\ offset' - 1 - 0 = offset
      <3>1. \A p \in Octets : p - 128 \in 1 .. SizeOctets => p > 128 /\ p - 128 <= SizeOctets /\ 0 < p - 128
        BY BerParserAssumption DEF Octets
      <3>2. offset' - 1 - 0 = offset
        BY <1>2
      <3>. QED
        BY <1>3, <1>9, <3>1, <3>2, Zenon
    <2>3. Number(data, offset + 1, 0, 256, SizeMod) = 0
      <3> DEFINE lo == offset + 1
      <3>1. SizeMod \in Nat \ {0}
        BY BerParserAssumption
      <3> HIDE DEF lo
      <3>2. Number(data, lo, 0, 256, SizeMod) = 0
        BY <3>1, NumberZero
      <3>. QED
        BY <3>2 DEF lo
    <2>4. LengthRead'
      BY <1>1, <1>2, <1>5, <1>6, <2>1, <2>2, <2>3, ZenonT(60) DEF LengthRead
    <2>. QED
      BY <1>9, <2>1, <2>4 DEF HeaderRead, TagRead, LengthNext
  <1>. QED
    BY <1>4, <1>7, <1>8, <1>9

(* A further length octet.                                                 *)
LEMMA HeaderOctet ==
  ASSUME TypeInv, HeaderRead, Offsets, ReadLengthOctet, pc' # "idle"
  PROVE  HeaderRead'
  <1> DEFINE n  == header.read
             at == offset - 1 - n
             value == (header.length * 256 + Octet) % SizeMod
  <1>1. /\ header.start + 1 <= at /\ Identified(data, header, at)
        /\ data[at + 1] > 128 /\ header.want = data[at + 1] - 128 /\ header.want <= SizeOctets
        /\ n < header.want
        /\ header.length = Number(data, at + 1, n, 256, SizeMod)
        /\ header.indefinite = FALSE
    <2>1. header.indefinite \in BOOLEAN
      BY HeaderType DEF TypeInv, TypeOK
    <2>. QED
      BY <2>1, Zenon DEF ReadLengthOctet, Reading, HeaderRead, LengthRead
  <1>2. /\ header \in Headers /\ header.start \in Nat /\ n \in Nat
        /\ header.want \in Nat /\ header.indefinite \in BOOLEAN
    BY HeaderType DEF TypeInv, TypeOK, Sizes
  <1>3. /\ offset' = offset + 1 /\ data' = data /\ rules' = rules /\ Octet = data[offset + 1]
        /\ offset \in Nat /\ offset + 1 \in 1 .. Len(data) /\ data \in Seq(Octets)
    BY DEF ReadLengthOctet, Reading, Remaining, Args, Octet, TypeInv, TypeOK
  <1>4. Octet \in Octets
    BY <1>3, ElementOfSeq, Zenon
  <1>5. /\ header'.start = header.start /\ header'.class = header.class
        /\ header'.constructed = header.constructed /\ header'.tag = header.tag
        /\ header'.want = header.want /\ header'.indefinite = header.indefinite
        /\ header'.read = n + 1 /\ header'.length = value
    <2>1. header' = [header EXCEPT !.length = value, !.read = @ + 1]
      BY DEF ReadLengthOctet
    <2> HIDE DEF value
    <2>. QED
      BY <1>2, <2>1, ZenonT(60) DEF Headers
  <1>6. /\ at \in Nat /\ at + 1 \in Nat /\ (at + 1) + (n + 1) = offset + 1
        /\ offset' - 1 - (n + 1) = at /\ at < offset'
        /\ \A k \in 1 .. n + 1 : at + 1 + k \in 1 .. Len(data)
    <2> HIDE DEF n
    <2>. QED
      BY <1>1, <1>2, <1>3
  <1> HIDE DEF at
  <1>0. PICK o : o = at   \* a constant
    OBVIOUS
  <1>7. value = Number(data, at + 1, n + 1, 256, SizeMod)
    <2> DEFINE lo == at + 1
    <2>1. DigitsAt(data, lo, n + 1)
      BY <1>3, <1>6, ElementOfSeq, Zenon DEF DigitsAt
    <2>2. lo \in Nat /\ n \in Nat /\ 256 \in Nat \ {0} /\ SizeMod \in Nat \ {0}
      BY <1>2, <1>6, BerParserAssumption
    <2> HIDE DEF lo, n
    <2>3. OneMore(data, lo, n, 256, SizeMod)
      BY <2>1, <2>2, NumberStep, Zenon
    <2>4. data[lo + (n + 1)] = Octet
      BY <1>3, <1>6, Zenon DEF lo
    <2>5. Octet % 256 = Octet
      BY <1>4 DEF Octets
    <2>. QED
      BY <1>1, <2>3, <2>4, <2>5, Zenon DEF OneMore, lo
  <1>8. Identified(data', header', at)
    BY <1>1, <1>3, <1>5, SameIdentifier, Zenon
  <1> DEFINE last == n + 1 >= header.want
  <1>9. \/ ~last /\ pc' = "octets"
        \/ last /\ ~NotMinimal(value, header.want) /\ pc' = "content"
    BY DEF ReadLengthOctet, Go, Return
  <1> HIDE DEF value
  <1>10. CASE ~last /\ pc' = "octets"
    <2>1. n + 1 < header.want
      BY <1>2, <1>10
    <2>2. LengthRead'
      BY <1>1, <1>3, <1>5, <1>6, <1>7, <1>8, <2>1, ZenonT(60) DEF LengthRead
    <2>. QED
      BY <1>1, <1>5, <1>10, <2>2, Zenon DEF HeaderRead, TagRead, LengthNext
  <1>11. CASE last /\ ~NotMinimal(value, header.want) /\ pc' = "content"
    <2>1. n + 1 = header.want /\ ~(data[at + 1] < 128) /\ data[at + 1] # 128
      <3>1. n + 1 = header.want
        BY <1>1, <1>2, <1>11
      <3>2. at + 1 \in 1 .. Len(data)
        BY <1>2, <1>3, <1>6
      <3>3. data[at + 1] \in Octets
        BY <1>3, <3>2, ElementOfSeq, Zenon
      <3>. QED
        BY <1>1, <3>1, <3>3 DEF Octets
    <2>2. LengthDigits(data, at) = n + 1
      BY <1>1, <2>1, Zenon DEF LengthDigits
    <2>3. Content(data, at) = offset'
      <3>1. at + 1 + (n + 1) = offset'
        BY <1>2, <1>3, <1>6
      <3>. QED
        BY <2>2, <3>1, Zenon DEF Content
    <2>4. Announced(data, at) = value
      BY <1>7, <2>1, <2>2, Zenon DEF Announced
    <2>5. LengthAllowed(data, rules, at)
      <3>1. rules = "DER" => ~(value <= 127) /\ ~(value < 256 ^ (header.want - 1))
        BY <1>11, Zenon DEF NotMinimal
      <3>3. value \in Nat
        <4>1. TypeInv'
          BY TypeInvStep DEF Next, Step
        <4>2. header'.length \in Sizes
          BY <4>1, HeaderType DEF TypeInv, TypeOK
        <4>. QED
          BY <1>5, <4>2 DEF Sizes
      <3>4. rules = "DER" => value > 127
        BY <3>1, <3>3
      <3>2. n + 1 <= SizeOctets
        BY <1>1, <2>1, Zenon
      <3>. QED
        BY <2>1, <2>2, <2>4, <3>1, <3>2, <3>4, Zenon DEF LengthAllowed
    <2>6. Complete(o)'
      BY <1>0, <1>1, <1>3, <1>5, <1>6, <1>8, <2>1, <2>3, <2>4, <2>5, Zenon DEF Complete
    <2>. QED
      BY <1>1, <1>5, <1>11, <2>6, Zenon DEF HeaderRead, TagRead, LengthNext, LengthRead
  <1>. QED
    BY <1>9, <1>10, <1>11

(* The header invariant is inductive.                                      *)
LEMMA HeaderReadStep == TypeInv /\ Offsets /\ HeaderRead /\ [Next]_vars => HeaderRead'
  <1> SUFFICES ASSUME TypeInv, Offsets, HeaderRead, [Next]_vars
               PROVE  HeaderRead'
    OBVIOUS
  <1>1. CASE pc' \notin {"tag", "length", "octets", "content"}
    BY <1>1, HeaderDone
  <1>2. CASE pc' \in {"tag", "length", "octets", "content"}
    <2>1. CASE UNCHANGED vars
      BY <2>1 DEF vars, HeaderRead, TagRead, LengthNext, LengthRead, Complete
    <2>2. CASE ReadIdentifier
      BY <2>2, HeaderIdentifier
    <2>3. CASE ReadTagOctet
      BY <1>2, <2>3, HeaderTag
    <2>4. CASE ReadLength
      BY <1>2, <2>4, HeaderLength
    <2>5. CASE ReadLengthOctet
      BY <1>2, <2>5, HeaderOctet
    <2>6. ~RejectCall /\ ~BeginCall
      BY <1>2 DEF RejectCall, BeginCall
    <2>7. ~DepthExceeded /\ ~InputExhausted /\ ~ChildrenFail /\ ~EndCall
      BY <1>2 DEF DepthExceeded, InputExhausted, ChildrenFail, EndCall, Return
    <2>8. ~AddPrimitive /\ ~OpenConstructed
      BY <1>2 DEF AddPrimitive, OpenConstructed, Go, Return
    <2>9. ~NextChild /\ ~CloseNode
      BY <1>2 DEF NextChild, CloseNode, InChildren, Go
    <2>. QED
      BY <2>1, <2>2, <2>3, <2>4, <2>5, <2>6, <2>7, <2>8, <2>9 DEF Next, Step
  <1>. QED
    BY <1>1, <1>2

-----------------------------------------------------------------------------
(* What the complete nodes and the open ones say *)

(* The header of node i ends at offset at with its length octets.          *)
HeaderAt(i, at) ==
  /\ at \in Nat /\ nodes[i].start + 1 <= at
  /\ Identified(data, nodes[i], at) /\ LengthAllowed(data, rules, at)
  /\ Content(data, at) \in Nat /\ at < Content(data, at)

ValueAt(i, at) ==
  ~nodes[i].constructed => /\ data[at + 1] # 128 /\ nodes[i].value = Content(data, at)
                           /\ nodes[i].length = Announced(data, at)

(* Its first child comes right after the header.                           *)
FirstAt(i, at) ==
  nodes[i].constructed =>
    /\ i < Len(nodes) /\ nodes[i + 1].depth > nodes[i].depth
         => nodes[i + 1].start = Content(data, at)
    /\ i = Len(nodes) /\ Open(i) => Position = Content(data, at)

(* While its children are parsed, its frame knows where they end.          *)
OpenAt(i, at) ==
  \A k \in DOMAIN stack : stack[k].node = i =>
    /\ Content(data, at) <= Position
    /\ stack[k].indefinite <=> data[at + 1] = 128
    /\ data[at + 1] # 128 => stack[k].end = Content(data, at) + Announced(data, at)

(* Once they are, the last of them has ended there.                        *)
ContentEnd(i, at) == IF data[at + 1] = 128 THEN EndOf(i) - 2 ELSE EndOf(i)

EndsRight(i, at) ==
  IF data[at + 1] = 128
  THEN data[ContentEnd(i, at) + 1] = 0 /\ data[ContentEnd(i, at) + 2] = 0
  ELSE EndOf(i) = Content(data, at) + Announced(data, at)

ClosedAt(i, at) ==
  nodes[i].constructed /\ ~Open(i) =>
    /\ at < EndOf(i)
    /\ EndsRight(i, at)
    /\ i = Len(nodes) \/ nodes[i + 1].depth <= nodes[i].depth
         => Content(data, at) = ContentEnd(i, at)
    /\ \A c \in DOMAIN nodes :
         i < c /\ After(c) = After(i) /\ nodes[c].depth = nodes[i].depth + 1
         => EndOf(c) = ContentEnd(i, at)

ReadAt(i, at) ==
  HeaderAt(i, at) /\ ValueAt(i, at) /\ FirstAt(i, at) /\ OpenAt(i, at) /\ ClosedAt(i, at)

NodesRead == \A i \in DOMAIN nodes : \E at : ReadAt(i, at)

(* Unless a length wrapped, as long as no call has failed.                 *)
Tiling == (Running \/ Succeeded) /\ NoWrap => Layout /\ NodesRead

(* Steps that leave the array alone.                                       *)
LEMMA LayoutKept ==
  ASSUME Layout, UNCHANGED <<nodes, stack, data>>, Position' = Position, Running' => Running
  PROVE  Layout'
  <1>0. \A i : (Open(i)' <=> Open(i)) /\ After(i)' = After(i) /\ EndOf(i)' = EndOf(i)
    BY DEF Open, After, EndOf
  <1>1. OpenBefore'
    BY <1>0 DEF Layout, OpenBefore
  <1>2. RootFirst'
    BY DEF Layout, RootFirst
  <1>3. ValueInNode'
    BY <1>0 DEF Layout, ValueInNode
  <1>4. SiblingsAdjacent'
    BY <1>0 DEF Layout, SiblingsAdjacent
  <1>. QED
    BY <1>1, <1>2, <1>3, <1>4 DEF Layout

(* They leave what the nodes say as it was, too.                           *)
LEMMA ReadKept ==
  ASSUME NodesRead, UNCHANGED <<nodes, stack, data, rules>>, Position' = Position
  PROVE  NodesRead'
  <1>0. \A i : (Open(i)' <=> Open(i)) /\ After(i)' = After(i) /\ EndOf(i)' = EndOf(i)
    BY DEF Open, After, EndOf
  <1>1. ASSUME NEW i, NEW at, ReadAt(i, at)
        PROVE  ReadAt(i, at)'
    <2>1. HeaderAt(i, at)' /\ ValueAt(i, at)'
      BY <1>1 DEF ReadAt, HeaderAt, ValueAt
    <2>2. FirstAt(i, at)'
      BY <1>0, <1>1 DEF ReadAt, FirstAt
    <2>3. OpenAt(i, at)'
      BY <1>1 DEF ReadAt, OpenAt
    <2>4. ClosedAt(i, at)'
      <3>1. ContentEnd(i, at)' = ContentEnd(i, at)
        BY <1>0 DEF ContentEnd
      <3>. QED
        BY <1>0, <1>1, <3>1 DEF ReadAt, ClosedAt, EndsRight
    <2>. QED
      BY <2>1, <2>2, <2>3, <2>4 DEF ReadAt
  <1>. QED
    BY <1>1, Zenon DEF NodesRead

(* What the complete nodes say of the one that is added next.              *)
LEMMA AppendFacts ==
  ASSUME IInv, PreOrder, pc = "content", NEW x \in Nodes,
         x.depth = Len(stack) + 1, x.subtree = 1, nodes' = Append(nodes, x)
  PROVE  LET N == Len(nodes) IN
         /\ N \in Nat /\ DOMAIN nodes = 1 .. N /\ DOMAIN nodes' = 1 .. N + 1 /\ Len(nodes') = N + 1
         /\ nodes'[N + 1] = x /\ \A j \in 1 .. N : nodes'[j] = nodes[j]
         /\ \A j \in 1 .. N + 1 : nodes'[j].start \in Nat
         /\ \A j \in 1 .. N : nodes[j].depth \in Nat /\ After(j) \in Nat /\ After(j) > j
         /\ \A j \in 1 .. N : ~Open(j) => After(j) <= N + 1
         /\ N > 0 => nodes[N].depth > Len(stack) \/ Open(N)
  <1> DEFINE N == Len(nodes)
             L == Len(stack)
  <1>1. /\ nodes \in Seq(Nodes) /\ stack \in Seq(Frames) /\ Running
        /\ N \in Nat /\ L \in Nat /\ DOMAIN nodes = 1 .. N /\ DOMAIN stack = 1 .. L
    BY DEF IInv, TypeInv, TypeOK, Running
  <1>2. /\ nodes' \in Seq(Nodes) /\ Len(nodes') = N + 1 /\ nodes'[N + 1] = x
        /\ \A j \in 1 .. N : nodes'[j] = nodes[j]
    BY <1>1, AppendProperties
  <1>3. \A j \in 1 .. N : nodes[j].depth \in Nat /\ nodes[j].subtree \in Nat \ {0}
    <2>1. \A j \in 1 .. N : nodes[j] \in Nodes
      BY <1>1, ElementOfSeq
    <2>. QED
      BY <2>1, BerParserAssumption DEF Nodes
  <1>4. DOMAIN nodes' = 1 .. N + 1 /\ \A j \in 1 .. N + 1 : nodes'[j].start \in Nat
    <2>1. DOMAIN nodes' = 1 .. N + 1
      BY <1>2
    <2>2. \A j \in 1 .. N + 1 : nodes'[j] \in Nodes
      BY <1>1, <1>2, ElementOfSeq
    <2>. QED
      BY <2>1, <2>2 DEF Nodes, Sizes
  <1>5. \A j \in 1 .. N : After(j) \in Nat /\ After(j) > j
    <2> HIDE DEF N
    <2>. QED
      BY <1>3 DEF After
  <1>6. ASSUME NEW j \in 1 .. N, ~Open(j)
        PROVE  After(j) <= N + 1
    <2>1. j + nodes[j].subtree - 1 <= N
      BY <1>1, <1>6 DEF IInv, SubtreeExact
    <2>2. nodes[j].subtree \in Nat
      BY <1>3
    <2>. QED
      BY <1>1, <2>1, <2>2 DEF After
  <1>7. ASSUME N > 0
        PROVE  nodes[N].depth > L \/ Open(N)
    <2> DEFINE t == stack[L].node
    <2>1. L > 0
      BY <1>1, <1>7 DEF PreOrder
    <2>2. t \in 1 .. N /\ nodes[t].depth = L /\ Open(t)
      BY <1>1, <2>1 DEF IInv, TypeInv, FramesOrdered, Open
    <2>3. \A j \in t + 1 .. N : nodes[j].depth > nodes[t].depth
      BY <1>1, <2>2 DEF IInv, SubtreeExact
    <2> HIDE DEF t, N, L
    <2>4. t = N \/ N \in t + 1 .. N
      BY <1>1, <2>2
    <2>. QED
      BY <2>2, <2>3, <2>4
  <1>. QED
    BY <1>1, <1>2, <1>3, <1>4, <1>5, <1>6, <1>7

(* A node is added where the parser is: complete when it is primitive, the *)
(* new top of the stack when it is constructed.                            *)
LEMMA AppendLayout ==
  ASSUME IInv, PreOrder, Offsets, Layout, pc = "content", UNCHANGED data,
         NEW x \in Nodes, x.depth = Len(stack) + 1, x.subtree = 1, x.start = header.start,
         nodes' = Append(nodes, x), pc' = "children", offset' \in Nat, offset <= offset',
         NEW f \in Frames, f.node = Len(nodes) + 1,
         \/ /\ stack' = Append(stack, f) /\ x.constructed
         \/ /\ stack' = stack /\ x.encoded \in Nat /\ x.start + x.encoded = offset'
            /\ ~x.constructed => /\ x.value \in Nat /\ x.value >= x.start + 2
                                 /\ x.value + x.length = offset'
  PROVE  Layout'
  <1> DEFINE N == Len(nodes)
             L == Len(stack)
             h == header.start
  <1>0. PICK M : M = N + 1   \* a constant: N' is M
    OBVIOUS
  <1>1. /\ N \in Nat /\ DOMAIN nodes = 1 .. N /\ DOMAIN nodes' = 1 .. M /\ Len(nodes') = M
        /\ nodes'[M] = x /\ \A j \in 1 .. N : nodes'[j] = nodes[j]
        /\ \A j \in 1 .. M : nodes'[j].start \in Nat
        /\ \A j \in 1 .. N : nodes[j].depth \in Nat /\ After(j) \in Nat /\ After(j) > j
        /\ \A j \in 1 .. N : ~Open(j) => After(j) <= M
        /\ N > 0 => nodes[N].depth > L \/ Open(N)
        /\ M = N + 1
    BY <1>0, AppendFacts
  <1>2. /\ stack \in Seq(Frames) /\ L \in Nat /\ Running /\ offset \in Nat
        /\ Position = h /\ Position' = offset' /\ h + 2 <= offset' /\ h \in Nat
    <2>1. stack \in Seq(Frames) /\ offset \in Nat /\ header \in Headers
      BY DEF IInv, TypeInv, TypeOK
    <2>2. h \in Nat
      BY <2>1 DEF Headers, Sizes
    <2>3. h + 2 <= offset
      BY DEF Offsets
    <2>. QED
      BY <2>1, <2>2, <2>3 DEF Running, Position
  <1>3. /\ \A j \in 1 .. N : Open(j)' <=> Open(j)
        /\ Open(M)' => x.constructed
        /\ ~Open(M)' => stack' = stack
    <2>0. \A j \in 1 .. N : j # M
      BY <1>1
    <2>1. CASE stack' = stack
      <3>1. ~Open(M)
        BY <1>1 DEF IInv, TypeInv, FramesOrdered, Open
      <3>. QED
        BY <2>1, <3>1 DEF Open
    <2>2. CASE stack' = Append(stack, f) /\ x.constructed
      <3>1. /\ DOMAIN stack' = 1 .. L + 1 /\ stack'[L + 1] = f /\ DOMAIN stack = 1 .. L
            /\ \A k \in 1 .. L : stack'[k] = stack[k]
        BY <1>2, <2>2, AppendProperties
      <3>2. \A k \in 1 .. L + 1 : k \in 1 .. L \/ k = L + 1
        BY <1>2
      <3>3. \A k \in 1 .. L : k \in 1 .. L + 1
        BY <1>2
      <3>4. \A j \in 1 .. N : Open(j)' <=> Open(j)
        BY <2>0, <3>1, <3>2, <3>3 DEF Open
      <3>5. L + 1 \in DOMAIN stack' /\ stack'[L + 1].node = M
        BY <1>1, <1>2, <3>1
      <3>6. Open(M)'
        <4>1. \E k \in DOMAIN stack' : stack'[k].node = M
          BY <3>5
        <4>. QED
          BY <4>1 DEF Open
      <3>. QED
        BY <2>2, <3>4, <3>6
    <2>. QED
      BY <2>1, <2>2
  <1>4. /\ \A j \in 1 .. N : After(j)' = After(j) /\ EndOf(j)' = EndOf(j)
        /\ After(M)' = M + 1
    BY <1>1 DEF After, EndOf
  <1>5. \A j \in 1 .. M : j \in 1 .. N \/ j = M
    BY <1>1
  <1>6. \A j \in 1 .. N : j \in Nat /\ j # M
    BY <1>1
  <1>7. ~Open(M)' => /\ x.encoded \in Nat /\ EndOf(M)' = offset' /\ stack' = stack
                     /\ ~x.constructed => /\ x.value \in Nat /\ x.value >= x.start + 2
                                          /\ x.value + x.length = offset'
    <2>1. Append(stack, f) # stack
      <3>1. Len(Append(stack, f)) = L + 1
        BY <1>2
      <3>. QED
        BY <1>2, <3>1
    <2>2. ~Open(M)' => stack' # Append(stack, f)
      BY <1>3, <2>1
    <2>3. EndOf(M)' = x.start + x.encoded
      BY <1>1 DEF EndOf
    <2>. QED
      BY <1>3, <2>2, <2>3
  <1> HIDE DEF N, L, h
  <1>8. OpenBefore'
    <2>1. ASSUME NEW j \in 1 .. N, Open(j)
          PROVE  nodes'[j].constructed /\ nodes'[j].start + 2 <= Position'
      <3>1. nodes[j].constructed /\ nodes[j].start + 2 <= h
        BY <1>1, <1>2, <2>1 DEF Layout, OpenBefore
      <3>2. nodes[j].start \in Nat
        BY <1>1, <1>5
      <3>. QED
        BY <1>1, <1>2, <3>1, <3>2
    <2>2. x.start + 2 <= Position'
      BY <1>2 DEF h
    <2>3. ASSUME NEW j \in 1 .. M, Open(j)'
          PROVE  nodes'[j].constructed /\ nodes'[j].start + 2 <= Position'
      <3>1. CASE j \in 1 .. N
        BY <1>3, <2>1, <2>3, <3>1
      <3>2. CASE j = M
        BY <1>1, <1>3, <2>2, <2>3, <3>2
      <3>. QED
        BY <1>5, <3>1, <3>2
    <2>. QED
      BY <1>1, <2>3 DEF OpenBefore
  <1>9. RootFirst'
    <2>1. nodes' # <<>> /\ 1 \in DOMAIN nodes'
      <3>1. M \in DOMAIN nodes' /\ 1 \in DOMAIN nodes'
        BY <1>1
      <3>. QED
        BY <3>1
    <2>2. CASE N = 0
      <3>1. nodes = <<>>
        BY <1>1, <2>2 DEF N, IInv, TypeInv, TypeOK
      <3>2. h = 0
        BY <1>2, <3>1 DEF Layout, RootFirst
      <3>. QED
        BY <1>1, <2>1, <2>2, <3>2 DEF RootFirst, h
    <2>3. CASE N > 0
      <3>1. nodes # <<>> /\ 1 \in 1 .. N
        BY <1>1, <2>3 DEF N
      <3>. QED
        BY <1>1, <2>1, <3>1 DEF Layout, RootFirst
    <2>. QED
      BY <1>1, <2>2, <2>3
  <1>11. ValueInNode'
    <2>1. ASSUME NEW j \in 1 .. N, ~nodes'[j].constructed
          PROVE  /\ nodes'[j].value \in Nat /\ nodes'[j].encoded \in Nat
                 /\ nodes'[j].value >= nodes'[j].start + 2
                 /\ nodes'[j].value + nodes'[j].length = EndOf(j)'
      BY <1>1, <1>4, <2>1 DEF Layout, ValueInNode
    <2>2. ASSUME ~x.constructed
          PROVE  /\ x.value \in Nat /\ x.encoded \in Nat /\ x.value >= x.start + 2
                 /\ x.value + x.length = EndOf(M)'
      BY <1>3, <1>7, <2>2
    <2>3. ASSUME NEW j \in 1 .. M, ~nodes'[j].constructed
          PROVE  /\ nodes'[j].value \in Nat /\ nodes'[j].encoded \in Nat
                 /\ nodes'[j].value >= nodes'[j].start + 2
                 /\ nodes'[j].value + nodes'[j].length = EndOf(j)'
      <3>1. CASE j \in 1 .. N
        BY <2>1, <2>3, <3>1
      <3>2. CASE j = M
        BY <1>1, <2>2, <2>3, <3>2
      <3>. QED
        BY <1>5, <3>1, <3>2
    <2>. QED
      BY <1>1, <2>3 DEF ValueInNode
  <1>12. SiblingsAdjacent'
    <2>1. ASSUME NEW j \in 1 .. N, ~Open(j)
          PROVE  /\ nodes'[j].encoded \in Nat
                 /\ After(j) <= M /\ nodes'[After(j)].depth = nodes'[j].depth
                      => EndOf(j) = nodes'[After(j)].start
                 /\ After(j) # M + 1
      <3>1. After(j) \in 1 .. M
        BY <1>1, <1>6, <2>1
      <3>2. nodes[j].encoded \in Nat /\ nodes'[j] = nodes[j]
        BY <1>1, <2>1 DEF Layout, SiblingsAdjacent
      <3>3. CASE After(j) \in 1 .. N
        <4>1. /\ nodes'[After(j)] = nodes[After(j)] /\ After(j) <= N
              /\ nodes[After(j)].depth = nodes[j].depth => EndOf(j) = nodes[After(j)].start
          <5>1. After(j) <= N /\ nodes'[After(j)] = nodes[After(j)]
            BY <1>1, <3>3
          <5>2. After(j) <= Len(nodes)
            BY <5>1 DEF N
          <5>. QED
            BY <1>1, <2>1, <5>1, <5>2 DEF Layout, SiblingsAdjacent
        <4>. QED
          BY <1>1, <3>2, <3>3, <4>1, SMTT(30)
      <3>4. CASE After(j) = M
        <4>1. nodes[j].depth = L + 1 => EndOf(j) = Position
          BY <1>1, <2>1, <3>4 DEF Layout, SiblingsAdjacent, N, L
        <4>2. nodes'[After(j)] = x /\ x.depth = L + 1 /\ x.start = h
          BY <1>1, <3>4 DEF L, h
        <4>3. nodes'[After(j)].depth = nodes'[j].depth => EndOf(j) = nodes'[After(j)].start
          BY <1>2, <3>2, <4>1, <4>2
        <4>4. After(j) # M + 1
          BY <1>1, <3>4
        <4>. QED
          BY <3>2, <4>3, <4>4
      <3>. QED
        BY <1>5, <3>1, <3>3, <3>4
    <2>2. ASSUME ~Open(M)'
          PROVE  /\ x.encoded \in Nat /\ ~(M + 1 <= M) /\ EndOf(M)' = Position'
      BY <1>1, <1>2, <1>7, <2>2
    <2>4. ASSUME NEW j \in 1 .. M, ~Open(j)'
          PROVE  /\ nodes'[j].encoded \in Nat
                 /\ After(j)' <= M /\ nodes'[After(j)'].depth = nodes'[j].depth
                      => EndOf(j)' = nodes'[After(j)'].start
                 /\ After(j)' = M + 1 => EndOf(j)' = Position'
      <3>1. CASE j \in 1 .. N
        <4>1. After(j)' = After(j) /\ EndOf(j)' = EndOf(j) /\ ~Open(j)
          BY <1>3, <1>4, <2>4, <3>1
        <4>. QED
          BY <2>1, <3>1, <4>1
      <3>2. CASE j = M
        <4>1. After(j)' = M + 1 /\ nodes'[j] = x
          BY <1>1, <1>4, <3>2
        <4>. QED
          BY <2>2, <2>4, <3>2, <4>1
      <3>. QED
        BY <1>5, <3>1, <3>2
    <2>. QED
      BY <1>1, <2>4 DEF SiblingsAdjacent
  <1>. QED
    BY <1>8, <1>9, <1>11, <1>12 DEF Layout

(* A node that has just been added has the fields of the header, and leaves*)
(* what the others say as it was.                                          *)
LEMMA AppendRead ==
  ASSUME IInv, PreOrder, Offsets, NodesRead, pc = "content", UNCHANGED <<data, rules>>,
         NEW x \in Nodes, x.depth = Len(stack) + 1, x.subtree = 1, x.start = header.start,
         x.class = header.class, x.tag = header.tag, x.constructed = header.constructed,
         nodes' = Append(nodes, x), pc' = "children", offset' \in Nat, offset <= offset',
         NEW f \in Frames, f.node = Len(nodes) + 1, f.indefinite = header.indefinite,
         f.end = offset + header.length,
         NEW end, Complete(end), header.indefinite => header.constructed,
         \/ stack' = Append(stack, f) /\ x.constructed /\ offset' = offset
         \/ stack' = stack /\ ~x.constructed /\ x.value = offset /\ x.length = header.length
  PROVE  NodesRead'
  <1> DEFINE N == Len(nodes)
             L == Len(stack)
             h == header.start
  <1>0. PICK M : M = N + 1   \* a constant: N' is M
    OBVIOUS
  <1>1. /\ N \in Nat /\ DOMAIN nodes = 1 .. N /\ DOMAIN nodes' = 1 .. M /\ Len(nodes') = M
        /\ nodes'[M] = x /\ \A j \in 1 .. N : nodes'[j] = nodes[j]
        /\ \A j \in 1 .. N : nodes[j].depth \in Nat /\ After(j) \in Nat /\ After(j) > j
        /\ \A j \in 1 .. N : ~Open(j) => After(j) <= M
        /\ N > 0 => nodes[N].depth > L \/ Open(N)
        /\ M = N + 1
    BY <1>0, AppendFacts
  <1>2. /\ stack \in Seq(Frames) /\ L \in Nat /\ offset \in Nat /\ h \in Nat
        /\ Position = h /\ Position' = offset' /\ h <= offset' /\ DOMAIN stack = 1 .. L
    <2>1. stack \in Seq(Frames) /\ offset \in Nat /\ header \in Headers
      BY DEF IInv, TypeInv, TypeOK
    <2>2. h \in Nat
      BY <2>1 DEF Headers, Sizes
    <2>3. h + 2 <= offset
      BY DEF Offsets
    <2>. QED
      BY <2>1, <2>2, <2>3 DEF Position
  <1>3. /\ \A j \in 1 .. N : j # M /\ j \in 1 .. M
        /\ \A k \in 1 .. L : stack[k].node \in 1 .. N
        /\ \A j \in 1 .. M : j \in 1 .. N \/ j = M
    BY <1>1, <1>2, SMTT(30) DEF IInv, TypeInv, FramesOrdered
  <1>4. /\ \A k \in 1 .. L : k \in DOMAIN stack' /\ stack'[k] = stack[k]
        /\ \A k \in DOMAIN stack' : k \in 1 .. L \/ (stack'[k] = f /\ x.constructed)
        /\ x.constructed => \E k \in DOMAIN stack' : stack'[k] = f
    <2>1. CASE stack' = stack /\ ~x.constructed
      BY <1>2, <2>1
    <2>2. CASE stack' = Append(stack, f) /\ x.constructed
      <3>1. /\ DOMAIN stack' = 1 .. L + 1 /\ stack'[L + 1] = f
            /\ \A k \in 1 .. L : stack'[k] = stack[k]
        BY <1>2, <2>2, AppendProperties
      <3>2. /\ \A k \in 1 .. L + 1 : k \in 1 .. L \/ k = L + 1
            /\ \A k \in 1 .. L : k \in 1 .. L + 1
            /\ L + 1 \in 1 .. L + 1
        BY <1>2
      <3>. QED
        BY <2>2, <3>1, <3>2
    <2>. QED
      BY <2>1, <2>2
  <1>5. /\ \A j \in 1 .. N : (Open(j)' <=> Open(j)) /\ After(j)' = After(j) /\ EndOf(j)' = EndOf(j)
        /\ After(M)' = M + 1
        /\ x.constructed => Open(M)'
    <2>1. \A j \in 1 .. N : Open(j)' <=> Open(j)
      <3>1. ASSUME NEW j \in 1 .. N, Open(j)
            PROVE  Open(j)'
        BY <1>2, <1>4, <3>1 DEF Open
      <3>2. ASSUME NEW j \in 1 .. N, Open(j)'
            PROVE  Open(j)
        <4>1. PICK k \in DOMAIN stack' : stack'[k].node = j
          BY <3>2 DEF Open
        <4>2. k \in 1 .. L
          BY <1>0, <1>3, <1>4, <4>1
        <4>. QED
          BY <1>2, <1>4, <4>1, <4>2 DEF Open
      <3>. QED
        BY <3>1, <3>2
    <2>2. \A j \in 1 .. N : After(j)' = After(j) /\ EndOf(j)' = EndOf(j)
      BY <1>1 DEF After, EndOf
    <2>3. After(M)' = M + 1
      BY <1>1 DEF After
    <2>4. x.constructed => Open(M)'
      BY <1>0, <1>4 DEF Open
    <2>. QED
      BY <2>1, <2>2, <2>3, <2>4
  <1> HIDE DEF N, L, h
  <1>6. ASSUME NEW j \in 1 .. N, NEW at, ReadAt(j, at)
        PROVE  ReadAt(j, at)'
    <2> DEFINE content == Content(data, at)
    <2>0. nodes'[j] = nodes[j] /\ j \in Nat /\ data' = data /\ rules' = rules
          /\ Content(data, at)' = content /\ content \in Nat
          /\ Announced(data, at)' = Announced(data, at)
      BY <1>1, <1>6 DEF ReadAt, HeaderAt
    <2>1. HeaderAt(j, at)'
      BY <1>6, <2>0, Zenon DEF ReadAt, HeaderAt
    <2>2. ValueAt(j, at)'
      BY <1>6, <2>0, Zenon DEF ReadAt, ValueAt
    <2>3. FirstAt(j, at)'
      <3>0. /\ nodes[j].constructed /\ j < Len(nodes) /\ nodes[j + 1].depth > nodes[j].depth
                 => nodes[j + 1].start = content
            /\ nodes[j].constructed /\ j = Len(nodes) /\ Open(j) => Position = content
        BY <1>6 DEF ReadAt, FirstAt
      <3>1. CASE j < N
        <4>1. nodes'[j + 1] = nodes[j + 1] /\ j # M
          BY <1>1, <2>0, <3>1
        <4>. QED
          BY <1>1, <2>0, <3>0, <3>1, <4>1 DEF FirstAt, N
      <3>2. CASE j = N
        <4>1. nodes'[j + 1] = x /\ j # M /\ N > 0
          BY <1>1, <2>0, <3>2
        <4>2. ASSUME nodes[j].constructed, x.depth > nodes[j].depth
              PROVE  x.start = content
          <5>1. Open(j)
            BY <1>1, <1>2, <3>2, <4>1, <4>2 DEF L
          <5>. QED
            BY <1>2, <3>0, <3>2, <4>2, <5>1 DEF N, h
        <4>. QED
          BY <1>1, <2>0, <4>1, <4>2 DEF FirstAt
      <3>. QED
        BY <1>1, <3>1, <3>2
    <2>4. OpenAt(j, at)'
      <3>1. ASSUME NEW k \in DOMAIN stack', stack'[k].node = j
            PROVE  /\ content <= Position'
                   /\ stack'[k].indefinite <=> data[at + 1] = 128
                   /\ data[at + 1] # 128 => stack'[k].end = content + Announced(data, at)
        <4>1. k \in 1 .. L /\ stack'[k] = stack[k]
          BY <1>0, <1>3, <1>4, <3>1 DEF N
        <4>2. /\ content <= Position
              /\ stack[k].indefinite <=> data[at + 1] = 128
              /\ data[at + 1] # 128 => stack[k].end = content + Announced(data, at)
          BY <1>2, <1>6, <3>1, <4>1 DEF ReadAt, OpenAt
        <4>3. content <= Position'
          BY <1>2, <2>0, <4>2
        <4>. QED
          BY <4>1, <4>2, <4>3
      <3>. QED
        BY <2>0, <3>1, ZenonT(60) DEF OpenAt
    <2>5. ClosedAt(j, at)'
      <3>1. SUFFICES ASSUME nodes[j].constructed, ~Open(j)
                     PROVE  ClosedAt(j, at)'
        BY <1>5, <2>0 DEF ClosedAt
      <3>2. EndOf(j)' = EndOf(j) /\ ContentEnd(j, at)' = ContentEnd(j, at)
        BY <1>5, <2>0, Zenon DEF ContentEnd
      <3>3. /\ at < EndOf(j)
            /\ EndsRight(j, at)
            /\ j = Len(nodes) \/ nodes[j + 1].depth <= nodes[j].depth
                 => content = ContentEnd(j, at)
            /\ \A c \in DOMAIN nodes :
                 j < c /\ After(c) = After(j) /\ nodes[c].depth = nodes[j].depth + 1
                 => EndOf(c) = ContentEnd(j, at)
        BY <1>6, <3>1, Zenon DEF ReadAt, ClosedAt
      <3>4. j = M \/ nodes'[j + 1].depth <= nodes[j].depth => content = ContentEnd(j, at)
        <4>1. j # M
          BY <1>3
        <4>2. CASE j < N
          <5>1. nodes'[j + 1] = nodes[j + 1]
            BY <1>1, <2>0, <4>2
          <5>. QED
            BY <3>3, <4>1, <5>1
        <4>3. CASE j = N
          BY <3>3, <4>3 DEF N
        <4>. QED
          BY <1>1, <4>2, <4>3
      <3>5. ASSUME NEW c \in 1 .. M, j < c, After(c)' = After(j)',
                   nodes'[c].depth = nodes'[j].depth + 1
            PROVE  EndOf(c)' = ContentEnd(j, at)
        <4>1. After(j)' = After(j) /\ After(j) <= M /\ After(j) \in Nat
          BY <1>1, <1>5, <3>1
        <4>2. c \in 1 .. N
          <5>1. CASE c = M
            <6>1. After(j) = M + 1
              BY <1>5, <3>5, <4>1, <5>1
            <6>. QED
              BY <1>1, <4>1, <6>1
          <5>. QED
            BY <1>3, <5>1
        <4>3. /\ After(c) = After(j) /\ EndOf(c)' = EndOf(c)
              /\ nodes[c].depth = nodes[j].depth + 1
          BY <1>1, <1>5, <2>0, <3>5, <4>1, <4>2
        <4>. QED
          BY <1>1, <3>3, <3>5, <4>2, <4>3
      <3>. QED
        <4>1. at < EndOf(j)' /\ EndsRight(j, at)'
          <5>1. at < EndOf(j) /\ EndsRight(j, at)
            BY <3>3, Zenon
          <5>2. EndsRight(j, at)'
            BY <2>0, <3>2, <5>1 DEF EndsRight
          <5>. QED
            BY <3>2, <5>1, <5>2, Zenon
        <4>2. j = Len(nodes') \/ nodes'[j + 1].depth <= nodes'[j].depth
                => Content(data, at)' = ContentEnd(j, at)'
          BY <1>1, <2>0, <3>2, <3>4, Zenon
        <4>3. \A c \in DOMAIN nodes' :
                j < c /\ After(c)' = After(j)' /\ nodes'[c].depth = nodes'[j].depth + 1
                => EndOf(c)' = ContentEnd(j, at)'
          BY <1>1, <3>2, <3>5, Zenon
        <4>. QED
          BY <4>1, <4>2, <4>3, Zenon DEF ClosedAt
    <2>. QED
      BY <2>1, <2>2, <2>3, <2>4, <2>5 DEF ReadAt
  <1>7. ReadAt(M, end)'
    <2>0. /\ nodes'[M] = x /\ data' = data /\ rules' = rules /\ Len(nodes') = M
          /\ Content(data, end) = offset /\ Announced(data, end) = header.length
          /\ end \in Nat /\ h + 1 <= end /\ end < offset
          /\ header.indefinite <=> data[end + 1] = 128
          /\ Identified(data, header, end) /\ LengthAllowed(data, rules, end)
      BY <1>1, Zenon DEF Complete, h
    <2>1. HeaderAt(M, end)'
      <3>1. Identified(data, x, end)
        BY <2>0, SameIdentifier, Zenon
      <3>. QED
        BY <1>2, <2>0, <3>1, Zenon DEF HeaderAt, h
    <2>2. ValueAt(M, end)'
      <3>1. ~x.constructed => x.value = offset /\ x.length = header.length /\ data[end + 1] # 128
        BY <2>0
      <3>. QED
        BY <2>0, <3>1, Zenon DEF ValueAt
    <2>3. FirstAt(M, end)'
      <3>1. x.constructed => Position' = offset
        BY <1>2
      <3>2. ~(M < M)
        BY <1>1
      <3>. QED
        BY <2>0, <3>1, <3>2, Zenon DEF FirstAt
    <2>4. OpenAt(M, end)'
      <3>1. ASSUME NEW k \in DOMAIN stack', stack'[k].node = M
            PROVE  stack'[k] = f
        BY <1>3, <1>4, <3>1
      <3>2. offset <= Position'
        BY <1>2
      <3>. QED
        BY <2>0, <3>1, <3>2, Zenon DEF OpenAt
    <2>5. ClosedAt(M, end)'
      BY <1>5, <2>0, Zenon DEF ClosedAt
    <2>. QED
      BY <2>1, <2>2, <2>3, <2>4, <2>5 DEF ReadAt
  <1>8. ASSUME NEW j \in 1 .. M
        PROVE  \E at : ReadAt(j, at)'
    <2>1. CASE j = M
      BY <1>7, <2>1
    <2>2. CASE j \in 1 .. N
      <3>1. PICK at : ReadAt(j, at)
        BY <1>1, <2>2 DEF NodesRead
      <3>. QED
        BY <1>6, <2>2, <3>1
    <2>. QED
      BY <1>3, <2>1, <2>2
  <1>. QED
    BY <1>1, <1>8, Zenon DEF NodesRead

(* The fix-up of a constructed node keeps its other fields.                *)
LEMMA FinishedFields ==
  ASSUME nodes \in Seq(Nodes), NEW i \in DOMAIN nodes, NEW after \in Nat
  PROVE  /\ \A j \in DOMAIN nodes :
              /\ Finished(i, after)[j].start = nodes[j].start
              /\ Finished(i, after)[j].constructed = nodes[j].constructed
              /\ Finished(i, after)[j].value = nodes[j].value
              /\ Finished(i, after)[j].length = nodes[j].length
              /\ Finished(i, after)[j].class = nodes[j].class
              /\ Finished(i, after)[j].tag = nodes[j].tag
         /\ Finished(i, after)[i].encoded = (after - nodes[i].start) % SizeMod
  <1> DEFINE e == (after - nodes[i].start) % SizeMod
             n == [nodes[i] EXCEPT !.subtree = Len(nodes) - i + 1, !.encoded = e]
  <1>1. nodes[i] \in Nodes /\ DOMAIN nodes = 1 .. Len(nodes)
    BY ElementOfSeq
  <1>2. Finished(i, after) = [nodes EXCEPT ![i] = n]
    BY <1>1 DEF Finished
  <1> HIDE DEF e
  <1>3. /\ n.start = nodes[i].start /\ n.constructed = nodes[i].constructed
        /\ n.value = nodes[i].value /\ n.length = nodes[i].length /\ n.encoded = e
        /\ n.class = nodes[i].class /\ n.tag = nodes[i].tag
    BY <1>1 DEF Nodes
  <1>4. Finished(i, after)[i] = n /\ \A j \in DOMAIN nodes : j # i => Finished(i, after)[j] = nodes[j]
    <2> HIDE DEF n
    <2>. QED
      BY <1>1, <1>2
  <1> HIDE DEF n
  <1>. QED
    BY <1>3, <1>4 DEF e

(* The node at the top of the stack ends where its content does: at the    *)
(* end its length announced, or with the end-of-contents octets.           *)
LEMMA CloseLayout ==
  ASSUME IInv, Layout, NodesRead, CloseNode
  PROVE  Layout' /\ NodesRead'
  <1>0. PICK i : i = Top.node
    OBVIOUS
  <1> DEFINE N == Len(nodes)
             L == Len(stack)
  <1>1. /\ nodes \in Seq(Nodes) /\ stack \in Seq(Frames) /\ Running
        /\ data' = data /\ rules' = rules
        /\ N \in Nat /\ L \in Nat \ {0} /\ DOMAIN nodes = 1 .. N /\ DOMAIN stack = 1 .. L
        /\ nodes' = Finished(i, offset') /\ stack' = Pop(stack)
        /\ Position = offset /\ Position' = offset' /\ Len(data) \in Nat /\ Len(data) < SizeMod
        /\ offset \in Nat
    BY <1>0 DEF IInv, TypeInv, TypeOK, CloseNode, InChildren, Running, Position, Args
  <1>2. /\ offset' \in Nat /\ offset <= offset' /\ offset' <= Len(data)
        /\ \/ offset' = offset /\ ~stack[L].indefinite /\ offset = stack[L].end
           \/ /\ offset' = offset + 2 /\ stack[L].indefinite
              /\ data[offset + 1] = 0 /\ data[offset + 2] = 0
    BY <1>1 DEF CloseNode, Remaining, EndOfContents, Octet, IInv, TypeInv, TypeOK, Top
  <1>3. /\ i \in 1 .. N /\ nodes[i].depth = L /\ i = stack[L].node /\ i \in DOMAIN nodes
        /\ L \in DOMAIN stack /\ \A m \in 1 .. L - 1 : stack[m].node < i
    BY <1>0, <1>1 DEF Top, IInv, TypeInv, FramesOrdered
  <1>4. /\ Len(nodes') = N /\ DOMAIN nodes' = 1 .. N /\ nodes'[i].subtree = N - i + 1
        /\ nodes'[i].encoded = (offset' - nodes[i].start) % SizeMod
        /\ \A j \in 1 .. N : /\ nodes'[j].depth = nodes[j].depth
                             /\ nodes'[j].start = nodes[j].start
                             /\ nodes'[j].constructed = nodes[j].constructed
                             /\ nodes'[j].class = nodes[j].class
                             /\ nodes'[j].tag = nodes[j].tag
                             /\ nodes'[j].value = nodes[j].value
                             /\ nodes'[j].length = nodes[j].length
                             /\ j # i => nodes'[j] = nodes[j]
    <2>1. nodes' \in Seq(Nodes) /\ Len(nodes') = N
      BY <1>1, <1>2, <1>3, FinishedNodes
    <2>2. DOMAIN nodes' = 1 .. N
      BY <2>1
    <2>3. nodes'[i].subtree = N - i + 1
      BY <1>1, <1>2, <1>3, FinishedNodes
    <2>4. \A j \in DOMAIN nodes : nodes'[j].depth = nodes[j].depth /\ (j # i => nodes'[j] = nodes[j])
      BY <1>1, <1>2, <1>3, FinishedNodes, SMTT(30)
    <2>5. nodes'[i].encoded = (offset' - nodes[i].start) % SizeMod
      BY <1>1, <1>2, <1>3, FinishedFields
    <2>6. \A j \in DOMAIN nodes : /\ nodes'[j].start = nodes[j].start
                                  /\ nodes'[j].constructed = nodes[j].constructed
                                  /\ nodes'[j].value = nodes[j].value
                                  /\ nodes'[j].length = nodes[j].length
      BY <1>1, <1>2, <1>3, FinishedFields
    <2>7. \A j \in DOMAIN nodes : nodes'[j].class = nodes[j].class /\ nodes'[j].tag = nodes[j].tag
      BY <1>1, <1>2, <1>3, FinishedFields
    <2>. QED
      BY <1>1, <2>1, <2>2, <2>3, <2>4, <2>5, <2>6, <2>7
  <1>5. Len(stack') = L - 1 /\ DOMAIN stack' = 1 .. L - 1 /\ \A k \in 1 .. L - 1 : stack'[k] = stack[k]
    <2>1. Len(stack) > 0
      BY <1>1
    <2>2. /\ stack' \in Seq(Frames) /\ Len(stack') = L - 1
          /\ \A k \in 1 .. L - 1 : stack'[k] = stack[k]
      BY <1>1, <2>1, PopFrames
    <2>3. DOMAIN stack' = 1 .. Len(stack')
      BY <2>2
    <2>. QED
      BY <2>2, <2>3
  <1>6. /\ Open(i)
        /\ \A j \in 1 .. N : Open(j)' <=> Open(j) /\ j # i
        /\ \A j \in 1 .. N : j > i => ~Open(j)
        /\ \A k \in 1 .. L - 1 : k \in 1 .. L /\ k \in DOMAIN stack /\ stack[k].node # i
    <2>1. ASSUME NEW j \in 1 .. N
          PROVE  (Open(j)' <=> Open(j) /\ j # i) /\ (j > i => ~Open(j))
      <3>1. Open(j)' <=> \E k \in 1 .. L - 1 : stack[k].node = j
        BY <1>5 DEF Open
      <3>2. Open(j) <=> \E k \in 1 .. L : stack[k].node = j
        BY <1>1 DEF Open
      <3>3. (\E k \in 1 .. L - 1 : stack[k].node = j) => j # i /\ ~(j > i)
        BY <1>3
      <3>4. \A k \in 1 .. L : k \in 1 .. L - 1 \/ k = L
        <4>1. L \in Nat \ {0}
          BY <1>1
        <4> HIDE DEF L
        <4>. QED
          BY <4>1
      <3>5. \A k \in 1 .. L - 1 : k \in 1 .. L
        BY <1>1
      <3>. QED
        BY <1>3, <3>1, <3>2, <3>3, <3>4, <3>5
    <2>2. Open(i)
      BY <1>1, <1>3 DEF Open
    <2>3. \A k \in 1 .. L - 1 : k \in 1 .. L /\ k \in DOMAIN stack /\ stack[k].node # i
      <3>1. \A k \in 1 .. L - 1 : k \in 1 .. L
        BY <1>1
      <3>2. ASSUME NEW k \in 1 .. L - 1
            PROVE  stack[k].node # i
        BY <1>3
      <3>. QED
        BY <1>1, <3>1, <3>2
    <2>. QED
      BY <2>1, <2>2, <2>3
  <1>7. \A j \in 1 .. N : nodes[j].depth \in Nat /\ nodes[j].subtree \in Nat \ {0} /\ nodes[j].start \in Nat
    <2>1. \A j \in 1 .. N : nodes[j] \in Nodes
      BY <1>1, ElementOfSeq
    <2>. QED
      BY <2>1, BerParserAssumption DEF Nodes, Sizes
  <1>8. nodes[i].constructed /\ nodes[i].start + 2 <= offset
    BY <1>1, <1>3, <1>6 DEF Layout, OpenBefore
  <1>9. nodes'[i].encoded = offset' - nodes[i].start /\ nodes'[i].encoded \in Nat
    <2>1. offset' - nodes[i].start \in 0 .. SizeMod - 1 /\ SizeMod \in Nat
      BY <1>1, <1>2, <1>3, <1>7, <1>8, BerParserAssumption, SMTT(30)
    <2> DEFINE d == offset' - nodes[i].start
    <2>2. nodes'[i].encoded = d % SizeMod
      BY <1>4
    <2> HIDE DEF d
    <2>3. d % SizeMod = d
      BY <2>1 DEF d
    <2>. QED
      BY <2>1, <2>2, <2>3 DEF d
  <1>10. /\ After(i)' = N + 1 /\ EndOf(i)' = offset'
         /\ \A j \in 1 .. N : j # i => After(j)' = After(j) /\ EndOf(j)' = EndOf(j)
    <2>1. After(i)' = N + 1
      <3>1. After(i)' = i + (N - i + 1)
        BY <1>4, Zenon DEF After
      <3> HIDE DEF N
      <3>. QED
        BY <1>1, <1>3, <3>1
    <2>2. EndOf(i)' = offset'
      BY <1>2, <1>3, <1>4, <1>7, <1>9, SMTT(30) DEF EndOf
    <2>3. \A j \in 1 .. N : j # i => After(j)' = After(j) /\ EndOf(j)' = EndOf(j)
      BY <1>4 DEF After, EndOf
    <2>. QED
      BY <2>1, <2>2, <2>3
  <1>11. \A j \in 1 .. N : After(j) \in Nat /\ (~Open(j) /\ After(j) = N + 1 => nodes[j].depth > L)
    <2>1. ASSUME NEW j \in 1 .. N
          PROVE  After(j) \in Nat /\ (~Open(j) /\ After(j) = N + 1 => nodes[j].depth > L)
      <3>1. After(j) = N + 1 => j + nodes[j].subtree - 1 = N
        BY <1>1, <1>7 DEF After
      <3>2. After(j) \in Nat
        BY <1>7 DEF After
      <3>. QED
        BY <1>1, <3>1, <3>2 DEF IInv, NextNodeOutside
    <2>. QED
      BY <2>1
  <1> HIDE DEF N, L
  <1>12. OpenBefore'
    <2>1. ASSUME NEW j \in 1 .. N, Open(j)'
          PROVE  nodes'[j].constructed /\ nodes'[j].start + 2 <= Position'
      <3>1. nodes[j].constructed /\ nodes[j].start + 2 <= offset
        BY <1>1, <1>6, <2>1 DEF Layout, OpenBefore
      <3>. QED
        BY <1>1, <1>2, <1>4, <1>7, <3>1
    <2>. QED
      BY <1>4, <2>1 DEF OpenBefore
  <1>13. RootFirst'
    <2>1. 1 \in 1 .. N /\ nodes # <<>> /\ nodes' # <<>>
      <3>1. 1 \in 1 .. N
        BY <1>1, <1>3
      <3>. QED
        BY <1>1, <1>4, <3>1
    <2>. QED
      BY <1>4, <2>1 DEF Layout, RootFirst
  <1>14. ValueInNode'
    <2>1. ASSUME NEW j \in 1 .. N, ~nodes'[j].constructed
          PROVE  /\ nodes'[j].value \in Nat /\ nodes'[j].encoded \in Nat
                 /\ nodes'[j].value >= nodes'[j].start + 2
                 /\ nodes'[j].value + nodes'[j].length = EndOf(j)'
      <3>1. ~nodes[j].constructed /\ j # i /\ nodes'[j] = nodes[j] /\ EndOf(j)' = EndOf(j)
        BY <1>4, <1>8, <1>10, <2>1
      <3>. QED
        BY <1>1, <3>1 DEF Layout, ValueInNode
    <2>. QED
      BY <1>4, <2>1 DEF ValueInNode
  <1>15. SiblingsAdjacent'
    <2>1. ASSUME NEW j \in 1 .. N, ~Open(j)'
          PROVE  /\ nodes'[j].encoded \in Nat
                 /\ After(j)' <= N /\ nodes'[After(j)'].depth = nodes'[j].depth
                      => EndOf(j)' = nodes'[After(j)'].start
                 /\ After(j)' = N + 1 /\ nodes'[j].depth = Len(stack') + 1
                      => EndOf(j)' = Position'
      <3>1. CASE j = i
        <4>1. ~(After(j)' <= N)
          BY <1>1, <1>10, <3>1
        <4>. QED
          BY <1>1, <1>9, <1>10, <3>1, <4>1
      <3>2. CASE j # i
        <4>1. After(j)' = After(j) /\ EndOf(j)' = EndOf(j) /\ ~Open(j) /\ nodes'[j] = nodes[j]
          BY <1>4, <1>6, <1>10, <2>1, <3>2
        <4>2. /\ nodes[j].encoded \in Nat
              /\ After(j) <= N /\ nodes[After(j)].depth = nodes[j].depth
                   => EndOf(j) = nodes[After(j)].start
          BY <1>1, <4>1 DEF Layout, SiblingsAdjacent, N
        <4>3. After(j) <= N => After(j) \in 1 .. N
          BY <1>1, <1>7, <1>11 DEF After
        <4>4. After(j) = N + 1 => nodes[j].depth # Len(stack') + 1
          BY <1>1, <1>5, <1>7, <1>11, <4>1
        <4>. QED
          BY <1>4, <4>1, <4>2, <4>3, <4>4
      <3>. QED
        BY <3>1, <3>2
    <2>. QED
      BY <1>4, <2>1 DEF SiblingsAdjacent
  <1>16. ASSUME NEW j \in 1 .. N, NEW at, ReadAt(j, at)
         PROVE  ReadAt(j, at)'
    <2> DEFINE content == Content(data, at)
    <2>0. /\ data' = data /\ rules' = rules /\ j \in Nat /\ content \in Nat
          /\ at \in Nat /\ at < content
          /\ Content(data, at)' = content /\ Announced(data, at)' = Announced(data, at)
      BY <1>1, <1>16 DEF ReadAt, HeaderAt
    <2>1. HeaderAt(j, at)'
      <3>1. Identified(data', nodes'[j], at)
        <4>1. /\ Identified(data, nodes[j], at)
              /\ nodes'[j].start = nodes[j].start /\ nodes'[j].tag = nodes[j].tag
              /\ nodes'[j].class = nodes[j].class
              /\ nodes'[j].constructed = nodes[j].constructed
          BY <1>4, <1>16 DEF ReadAt, HeaderAt
        <4>. QED
          BY <2>0, <4>1, SameIdentifier, Zenon
      <3>. QED
        BY <1>4, <1>16, <2>0, <3>1, Zenon DEF ReadAt, HeaderAt
    <2>2. ValueAt(j, at)'
      BY <1>4, <1>16, <2>0, Zenon DEF ReadAt, ValueAt
    <2>3. FirstAt(j, at)'
      <3>0. /\ nodes[j].constructed /\ j < N /\ nodes[j + 1].depth > nodes[j].depth
                 => nodes[j + 1].start = content
            /\ nodes[j].constructed /\ j = N /\ Open(j) => Position = content
        BY <1>16 DEF ReadAt, FirstAt, N
      <3>1. j < N => j + 1 \in 1 .. N
        BY <1>1, <2>0
      <3>2. ~(j = N /\ Open(j)')
        <4>1. N > i \/ N = i
          BY <1>1, <1>3
        <4>. QED
          BY <1>6, <4>1
      <3>. QED
        BY <1>4, <2>0, <3>0, <3>1, <3>2, Zenon DEF FirstAt
    <2>4. OpenAt(j, at)'
      <3>1. ASSUME NEW k \in DOMAIN stack', stack'[k].node = j
            PROVE  /\ content <= Position'
                   /\ stack'[k].indefinite <=> data[at + 1] = 128
                   /\ data[at + 1] # 128 => stack'[k].end = content + Announced(data, at)
        <4>1. k \in DOMAIN stack /\ stack'[k] = stack[k]
          BY <1>5, <1>6
        <4>2. /\ content <= Position
              /\ stack[k].indefinite <=> data[at + 1] = 128
              /\ data[at + 1] # 128 => stack[k].end = content + Announced(data, at)
          BY <1>16, <3>1, <4>1 DEF ReadAt, OpenAt
        <4>3. content <= Position'
          BY <1>1, <1>2, <2>0, <4>2
        <4>. QED
          BY <4>1, <4>2, <4>3
      <3>. QED
        BY <2>0, <3>1, ZenonT(60) DEF OpenAt
    <2>5. ClosedAt(j, at)'
      <3>1. SUFFICES ASSUME nodes[j].constructed, ~Open(j)'
                     PROVE  ClosedAt(j, at)'
        BY <1>4 DEF ClosedAt
      <3>2. CASE j = i
        <4>1. /\ content <= offset
              /\ stack[L].indefinite <=> data[at + 1] = 128
              /\ data[at + 1] # 128 => stack[L].end = content + Announced(data, at)
          BY <1>1, <1>3, <1>16, <3>2 DEF ReadAt, OpenAt
        <4>2. /\ ContentEnd(j, at)' = offset /\ EndOf(j)' = offset'
              /\ data[at + 1] # 128 => offset' = offset
              /\ data[at + 1] = 128 => data[offset + 1] = 0 /\ data[offset + 2] = 0
          <5>1. EndOf(j)' = offset'
            BY <1>10, <3>2
          <5>2. CASE data[at + 1] = 128
            <6>1. offset' - 2 = offset /\ data[offset + 1] = 0 /\ data[offset + 2] = 0
              <7>1. stack[L].indefinite
                BY <4>1, <5>2, Zenon
              <7>2. offset' = offset + 2 /\ data[offset + 1] = 0 /\ data[offset + 2] = 0
                BY <1>2, <7>1, Zenon
              <7>. QED
                BY <1>1, <7>2
            <6>. QED
              BY <2>0, <5>1, <5>2, <6>1 DEF ContentEnd
          <5>3. CASE data[at + 1] # 128
            BY <1>2, <2>0, <4>1, <5>1, <5>3 DEF ContentEnd
          <5>. QED
            BY <5>2, <5>3
        <4>3. at < EndOf(j)'
          BY <1>1, <1>2, <2>0, <4>1, <4>2
        <4>4. EndsRight(j, at)'
          BY <1>2, <2>0, <4>1, <4>2 DEF EndsRight
        <4>5. j = N \/ nodes'[j + 1].depth <= nodes'[j].depth => content = ContentEnd(j, at)'
          <5>1. CASE j = N
            <6>1. Position = content
              BY <1>6, <1>16, <3>1, <3>2, <5>1 DEF ReadAt, FirstAt, N
            <6>. QED
              BY <1>1, <4>2, <6>1
          <5>2. CASE j # N
            <6>1. j + 1 \in 1 .. N /\ j + 1 \in j + 1 .. Len(nodes)
              BY <1>1, <1>3, <3>2, <5>2 DEF N
            <6>2. nodes[j + 1].depth > nodes[j].depth
              BY <1>1, <1>3, <1>6, <3>2, <6>1 DEF IInv, SubtreeExact
            <6>3. nodes[j + 1].depth \in Nat /\ nodes[j].depth \in Nat
              BY <1>7, <6>1
            <6>4. ~(nodes'[j + 1].depth <= nodes'[j].depth)
              BY <1>4, <6>1, <6>2, <6>3
            <6>. QED
              BY <5>2, <6>4
          <5>. QED
            BY <5>1, <5>2
        <4>6. ASSUME NEW c \in 1 .. N, j < c, After(c)' = After(j)',
                     nodes'[c].depth = nodes'[j].depth + 1
              PROVE  EndOf(c)' = ContentEnd(j, at)'
          <5>1. c # i /\ ~Open(c) /\ After(c) = N + 1 /\ nodes[c].depth = L + 1 /\ EndOf(c)' = EndOf(c)
            <6>1. c # i /\ c > i
              BY <1>3, <3>2, <4>6
            <6>. QED
              BY <1>3, <1>4, <1>6, <1>10, <3>2, <4>6, <6>1
          <5>2. EndOf(c) = offset
            BY <1>1, <5>1 DEF Layout, SiblingsAdjacent, N, L
          <5>. QED
            BY <4>2, <5>1, <5>2
        <4>. QED
          BY <1>4, <2>0, <4>3, <4>4, <4>5, <4>6, Zenon DEF ClosedAt
      <3>3. CASE j # i
        <4>1. ~Open(j) /\ After(j)' = After(j) /\ EndOf(j)' = EndOf(j)
          BY <1>6, <1>10, <3>1, <3>3
        <4>2. ContentEnd(j, at)' = ContentEnd(j, at)
          BY <2>0, <4>1, Zenon DEF ContentEnd
        <4>3. /\ at < EndOf(j)
              /\ EndsRight(j, at)
              /\ j = N \/ nodes[j + 1].depth <= nodes[j].depth
                   => content = ContentEnd(j, at)
              /\ \A c \in DOMAIN nodes :
                   j < c /\ After(c) = After(j) /\ nodes[c].depth = nodes[j].depth + 1
                   => EndOf(c) = ContentEnd(j, at)
          BY <1>16, <3>1, <4>1, Zenon DEF ReadAt, ClosedAt, N
        <4>4. j = N \/ nodes'[j + 1].depth <= nodes'[j].depth => content = ContentEnd(j, at)
          <5>1. j = N \/ j + 1 \in 1 .. N
            BY <1>1, <2>0
          <5>. QED
            BY <1>4, <4>3, <5>1
        <4>5. ASSUME NEW c \in 1 .. N, j < c, After(c)' = After(j)',
                     nodes'[c].depth = nodes'[j].depth + 1
              PROVE  EndOf(c)' = ContentEnd(j, at)
          <5>1. nodes[c].depth = nodes[j].depth + 1 /\ nodes[j].depth \in Nat
            BY <1>4, <1>7, <4>5
          <5>2. c # i
            <6>1. ASSUME c = i
                  PROVE  FALSE
              <7>1. After(j) = N + 1 /\ nodes[j].depth > L /\ nodes[j].depth + 1 = L
                BY <1>3, <1>10, <1>11, <4>1, <4>5, <5>1, <6>1
              <7>. QED
                BY <1>1, <5>1, <7>1
            <6>. QED
              BY <6>1
          <5>3. After(c) = After(j) /\ EndOf(c)' = EndOf(c)
            BY <1>10, <4>1, <4>5, <5>2
          <5>. QED
            BY <1>1, <4>3, <4>5, <5>1, <5>3
        <4>6. at < EndOf(j)' /\ EndsRight(j, at)'
          BY <2>0, <4>1, <4>2, <4>3, Zenon DEF EndsRight
        <4>. QED
          BY <1>4, <2>0, <4>2, <4>4, <4>5, <4>6, Zenon DEF ClosedAt
      <3>. QED
        BY <3>2, <3>3
    <2>. QED
      BY <2>1, <2>2, <2>3, <2>4, <2>5 DEF ReadAt
  <1>17. ASSUME NEW j \in 1 .. N
         PROVE  \E at : ReadAt(j, at)'
    <2>1. PICK at : ReadAt(j, at)
      BY <1>1 DEF NodesRead
    <2>. QED
      BY <1>16, <2>1
  <1>18. NodesRead'
    BY <1>4, <1>17, Zenon DEF NodesRead
  <1>. QED
    BY <1>12, <1>13, <1>14, <1>15, <1>18 DEF Layout

(* What did not wrap in the next state did not wrap before.                *)
LEMMA NoWrapKept ==
  ASSUME IInv, NoWrap', CloseNode \/ (\E x \in Nodes : nodes' = Append(nodes, x)) \/ UNCHANGED nodes
  PROVE  NoWrap
  <1>1. nodes \in Seq(Nodes) /\ DOMAIN nodes = 1 .. Len(nodes) /\ Len(nodes) \in Nat
    BY DEF IInv, TypeInv, TypeOK
  <1>2. CASE UNCHANGED nodes
    BY <1>2 DEF NoWrap
  <1>3. ASSUME NEW x \in Nodes, nodes' = Append(nodes, x)
        PROVE  NoWrap
    <2>1. \A j \in DOMAIN nodes : j \in DOMAIN nodes' /\ nodes'[j] = nodes[j]
      <3>1. /\ Len(nodes') = Len(nodes) + 1 /\ nodes' \in Seq(Nodes)
            /\ \A j \in 1 .. Len(nodes) : nodes'[j] = nodes[j]
        <4>1. /\ Len(Append(nodes, x)) = Len(nodes) + 1 /\ Append(nodes, x) \in Seq(Nodes)
              /\ \A j \in 1 .. Len(nodes) : Append(nodes, x)[j] = nodes[j]
          BY <1>1, AppendProperties
        <4>. QED
          BY <1>3, <4>1, Zenon
      <3>2. DOMAIN nodes' = 1 .. Len(nodes) + 1
        BY <3>1
      <3>. QED
        BY <1>1, <3>1, <3>2
    <2>. QED
      BY <2>1 DEF NoWrap
  <1>4. CASE CloseNode
    <2>1. PICK i \in DOMAIN nodes : nodes' = Finished(i, offset') /\ offset' \in Nat
      <3>1. stack \in Seq(Frames) /\ stack # <<>> /\ offset' \in Nat
        BY <1>4 DEF CloseNode, InChildren, IInv, TypeInv, TypeOK
      <3>2. Len(stack) \in DOMAIN stack
        BY <3>1
      <3>. QED
        BY <1>4, <3>1, <3>2 DEF CloseNode, Top, IInv, TypeInv, FramesOrdered
    <2>2. /\ nodes' \in Seq(Nodes) /\ Len(nodes') = Len(nodes)
          /\ \A j \in DOMAIN nodes : nodes'[j].value = nodes[j].value /\ nodes'[j].length = nodes[j].length
      BY <1>1, <2>1, FinishedNodes, FinishedFields
    <2>3. DOMAIN nodes' = DOMAIN nodes
      BY <1>1, <2>2
    <2>. QED
      BY <2>2, <2>3 DEF NoWrap
  <1>. QED
    BY <1>2, <1>3, <1>4

(* Every step keeps the nodes what their octets say.                       *)
LEMMA TilingStep ==
  ASSUME IInv, PreOrder, Offsets, HeaderRead, Tiling, [Next]_vars
  PROVE  Tiling'
  <1>0. SUFFICES ASSUME (Running \/ Succeeded)', NoWrap'
                 PROVE  Layout' /\ NodesRead'
    BY DEF Tiling
  <1>1. CASE UNCHANGED <<nodes, stack, data, rules>> /\ (Running \/ Succeeded) /\ (Running' => Running)
             /\ Position' = Position
    <2>1. NoWrap
      BY <1>0, <1>1, NoWrapKept
    <2>. QED
      BY <1>1, <2>1, LayoutKept, ReadKept DEF Tiling
  <1>2. CASE \E code \in Errors : Return(code)
    BY <1>0, <1>2 DEF Return, Running, Succeeded, Errors
  <1>3. CASE AddPrimitive
    <2> DEFINE after == (offset + header.length) % SizeMod
               x == NewNode((after - header.start) % SizeMod, offset, header.length)
               f == [node |-> Len(nodes) + 1, indefinite |-> header.indefinite,
                     end |-> offset + header.length]
    <2>1. pc = "content" /\ TypeInv /\ ~header.constructed
      BY <1>3 DEF AddPrimitive, IInv
    <2>2. CASE /\ nodes' = Append(nodes, x) /\ UNCHANGED <<stack, data, rules>> /\ pc' = "children"
               /\ offset' = after /\ after <= Len(data)
      <3>1. /\ x \in Nodes /\ f \in Frames /\ after \in Sizes /\ x.depth = Len(stack) + 1
            /\ x.subtree = 1 /\ x.start = header.start /\ ~x.constructed /\ x.value = offset
            /\ x.length = header.length /\ x.encoded = (after - header.start) % SizeMod
            /\ f.node = Len(nodes) + 1
        BY <2>1, PrimitiveNode, ConstructedNode DEF NewNode, Depth
      <3>2. /\ offset \in Nat /\ header.length \in Nat /\ header.start \in Nat
            /\ header.start + 2 <= offset /\ SizeMod \in Nat /\ SizeMod > 0
            /\ header.start \in 0 .. SizeMod - 1
        <4>1. header \in Headers /\ offset \in Nat
          BY <2>1 DEF TypeInv, TypeOK
        <4>2. header.start \in Sizes /\ header.length \in Sizes
          BY <4>1, HeaderType
        <4>. QED
          BY <2>1, <4>1, <4>2, BerParserAssumption DEF Offsets, Sizes
      <3>3. offset + header.length < SizeMod
        <4>1. nodes \in Seq(Nodes) /\ Len(nodes) + 1 \in DOMAIN nodes' /\ nodes'[Len(nodes) + 1] = x
          <5> HIDE DEF x
          <5>. QED
            BY <2>1, <2>2, <3>1, AppendProperties DEF TypeInv, TypeOK
        <4>2. x.value + x.length < SizeMod
          BY <1>0, <4>1 DEF NoWrap
        <4>. QED
          BY <3>1, <4>2
      <3>4. after = offset + header.length
        BY <3>2, <3>3
      <3>5. x.encoded = after - header.start /\ x.encoded \in Nat
        <4> DEFINE d == after - header.start
        <4>1. d \in 0 .. SizeMod - 1
          BY <3>2, <3>3, <3>4
        <4>2. x.encoded = d % SizeMod
          BY <3>1
        <4> HIDE DEF d, x, after
        <4>3. d % SizeMod = d
          BY <3>2, <4>1
        <4>. QED
          BY <4>1, <4>2, <4>3 DEF d
      <3>6. /\ x.start + x.encoded = offset' /\ x.value \in Nat /\ x.value >= x.start + 2
            /\ x.value + x.length = offset' /\ offset' \in Nat /\ offset <= offset'
        <4> HIDE DEF after, x
        <4>0. offset' = after
          BY <2>2
        <4>1. after \in Nat /\ offset' = after /\ offset <= after
          BY <3>2, <3>4, <4>0
        <4>2. header.start + (after - header.start) = after
          BY <3>2, <4>1
        <4>3. x.start + x.encoded = offset'
          BY <3>1, <3>5, <4>1, <4>2
        <4>4. x.value \in Nat /\ x.value >= x.start + 2 /\ x.value + x.length = offset'
          BY <3>1, <3>2, <3>4, <4>1
        <4>. QED
          BY <4>1, <4>3, <4>4
      <3>7. NoWrap /\ Running
        <4>1. \E y \in Nodes : nodes' = Append(nodes, y)
          <5> HIDE DEF x
          <5>. QED
            BY <2>2, <3>1
        <4>. QED
          BY <1>0, <2>1, <4>1, NoWrapKept DEF Running
      <3>8. PICK end : Complete(end)
        BY <2>1 DEF HeaderRead
      <3>9. /\ x.class = header.class /\ x.tag = header.tag /\ x.constructed = header.constructed
            /\ f.indefinite = header.indefinite /\ f.end = offset + header.length
            /\ header.indefinite => header.constructed
        BY <2>1 DEF NewNode, HeaderRead
      <3> HIDE DEF x, f, after
      <3>10. Layout'
        BY <2>1, <2>2, <3>1, <3>5, <3>6, <3>7, AppendLayout DEF Tiling
      <3>11. NodesRead'
        BY <2>1, <2>2, <3>1, <3>6, <3>7, <3>8, <3>9, AppendRead DEF Tiling
      <3>. QED
        BY <3>10, <3>11
    <2>. QED
      BY <1>2, <1>3, <2>2 DEF AddPrimitive, Errors, Go, Args
  <1>4. CASE OpenConstructed
    <2> DEFINE x == NewNode(Unset, Unset, 0)
               f == [node |-> Len(nodes) + 1, indefinite |-> header.indefinite,
                     end |-> offset + header.length]
    <2>1. pc = "content" /\ TypeInv /\ header.constructed /\ offset \in Nat
      BY <1>4 DEF OpenConstructed, IInv, TypeInv, TypeOK
    <2>2. CASE /\ nodes' = Append(nodes, x) /\ stack' = Append(stack, f) /\ UNCHANGED <<data, rules, offset>>
               /\ pc' = "children"
      <3>1. /\ x \in Nodes /\ f \in Frames /\ x.depth = Len(stack) + 1
            /\ x.subtree = 1 /\ x.start = header.start /\ x.constructed
            /\ f.node = Len(nodes) + 1
        BY <2>1, ConstructedNode DEF NewNode, Depth
      <3>2. NoWrap /\ Running
        <4>1. \E y \in Nodes : nodes' = Append(nodes, y)
          <5> HIDE DEF x
          <5>. QED
            BY <2>2, <3>1
        <4>. QED
          BY <1>0, <2>1, <4>1, NoWrapKept DEF Running
      <3>3. offset' \in Nat /\ offset <= offset'
        BY <2>1, <2>2
      <3>4. PICK end : Complete(end)
        BY <2>1 DEF HeaderRead
      <3>5. /\ x.class = header.class /\ x.tag = header.tag /\ x.constructed = header.constructed
            /\ f.indefinite = header.indefinite /\ f.end = offset + header.length
        BY <2>1 DEF NewNode
      <3> HIDE DEF x, f
      <3>6. Layout'
        BY <2>1, <2>2, <3>1, <3>2, <3>3, AppendLayout DEF Tiling
      <3>7. NodesRead'
        BY <2>1, <2>2, <3>1, <3>2, <3>3, <3>4, <3>5, AppendRead DEF Tiling
      <3>. QED
        BY <3>6, <3>7
    <2>. QED
      BY <1>2, <1>4, <2>2 DEF OpenConstructed, Errors, Args
  <1>5. CASE CloseNode
    <2>1. NoWrap /\ Running
      BY <1>0, <1>5, NoWrapKept DEF CloseNode, InChildren, Running
    <2>. QED
      BY <1>5, <2>1, CloseLayout DEF Tiling
  <1>6. CASE RejectCall
    BY <1>0, <1>6 DEF RejectCall, Running, Succeeded
  <1>7. CASE BeginCall
    BY <1>7 DEF BeginCall, ClearNodes, Layout, OpenBefore, RootFirst, ValueInNode,
                SiblingsAdjacent, NodesRead, Position
  <1>8. CASE EndCall
    BY <1>1, <1>8 DEF EndCall, Return, Running, Position, Args
  <1>9. CASE DepthExceeded \/ InputExhausted \/ ChildrenFail
    BY <1>2, <1>9 DEF DepthExceeded, InputExhausted, ChildrenFail, Errors
  <1>10. CASE ReadIdentifier
    <2>1. header'.start = offset
      BY <1>10 DEF ReadIdentifier, NoHeader
    <2>. QED
      BY <1>1, <1>10, <2>1 DEF ReadIdentifier, Reading, Go, Args, Running, Position
  <1>11. CASE NextChild
    BY <1>1, <1>11 DEF NextChild, InChildren, Go, Args, Running, Position
  <1>12. CASE ReadTagOctet
    <2>1. header'.start = header.start
      BY <1>12 DEF ReadTagOctet, IInv, TypeInv, TypeOK, Headers
    <2>. QED
      BY <1>1, <1>2, <1>12, <2>1 DEF ReadTagOctet, Reading, Go, Args, Errors, Running, Position
  <1>13. CASE ReadLength
    <2>1. CASE pc' \in {"octets", "content"}
      <3>1. header'.start = header.start
        BY <1>13, <2>1, ZenonT(60) DEF ReadLength, Return, IInv, TypeInv, TypeOK, Headers
      <3>. QED
        BY <1>1, <1>13, <2>1, <3>1 DEF ReadLength, Reading, Go, Return, Args, Running, Position
    <2>. QED
      BY <1>2, <1>13, <2>1 DEF ReadLength, Go, Errors
  <1>14. CASE ReadLengthOctet
    <2>1. header'.start = header.start
      BY <1>14 DEF ReadLengthOctet, IInv, TypeInv, TypeOK, Headers
    <2>. QED
      BY <1>1, <1>2, <1>14, <2>1 DEF ReadLengthOctet, Reading, Go, Args, Errors, Running, Position
  <1>15. CASE UNCHANGED vars
    <2>1. Position' = Position /\ UNCHANGED <<nodes, stack, data, rules, pc, err>>
      BY <1>15 DEF vars, Position
    <2>. QED
      BY <1>0, <1>1, <2>1 DEF Running, Succeeded
  <1>. QED
    BY <1>3, <1>4, <1>5, <1>6, <1>7, <1>8, <1>9, <1>10, <1>11, <1>12, <1>13, <1>14, <1>15
    DEF Next, Step

(* A successful parse accounts for every octet of the input: the children  *)
(* found by the iterator are the ones that SiblingsAdjacent speaks of.     *)
LEMMA TiledBytes ==
  ASSUME IInv, PreOrder, Offsets, Tiling
  PROVE  BytesTiled
  <1>0. SUFFICES ASSUME Succeeded, NoWrap
                 PROVE  /\ nodes[1].start = 0 /\ EndOf(1) = Len(data)
                        /\ \A i \in DOMAIN nodes : Tiled(i)
    BY DEF BytesTiled
  <1> DEFINE N == Len(nodes)
  <1>1. /\ nodes \in Seq(Nodes) /\ N \in Nat \ {0} /\ DOMAIN nodes = 1 .. N /\ nodes # <<>>
        /\ stack = <<>> /\ Layout /\ NodesRead /\ offset = Len(data) /\ Position = offset /\ 1 \in 1 .. N
        /\ \A i \in 1 .. N : ~Open(i)
    BY <1>0 DEF IInv, TypeInv, TypeOK, PreOrder, Offsets, Tiling, Position, Succeeded, Open
  <1>2. \A j \in 1 .. N : nodes[j].depth \in Nat /\ nodes[j].subtree \in Nat \ {0}
    <2>1. \A j \in 1 .. N : nodes[j] \in Nodes
      BY <1>1, ElementOfSeq
    <2>. QED
      BY <2>1, BerParserAssumption DEF Nodes
  <1>3. nodes[1].start = 0
    BY <1>1 DEF Layout, RootFirst
  <1>4. EndOf(1) = Len(data)
    <2> DEFINE last == After(1) - 1
    <2>1. /\ last \in 1 .. N
          /\ last < N => nodes[last + 1].depth <= nodes[1].depth
      BY <1>0, <1>1, ChildrenFound
    <2> HIDE DEF last, N
    <2>2. nodes[1].depth = 1 /\ \A j \in 2 .. N : nodes[j].depth > 1
      BY <1>0, <1>1 DEF PreOrder, N
    <2>3. last = N
      <3>1. CASE last < N
        <4>1. last + 1 \in 2 .. N /\ last + 1 \in 1 .. N
          BY <1>1, <2>1, <3>1
        <4>. QED
          BY <1>2, <2>1, <2>2, <3>1, <4>1
      <3>. QED
        BY <1>1, <2>1, <3>1
    <2>4. After(1) = Len(nodes) + 1 /\ nodes[1].depth = Len(stack) + 1
      <3>1. After(1) \in Int
        BY <1>1, <1>2 DEF After
      <3>2. Len(stack) = 0
        BY <1>1
      <3>. QED
        BY <1>1, <2>2, <2>3, <3>1, <3>2 DEF last, N
    <2>. QED
      BY <1>1, <2>4 DEF Layout, SiblingsAdjacent
  <1>5. ASSUME NEW i \in 1 .. N
        PROVE  Tiled(i)
    <2> DEFINE kids == Children(nodes, i)
               k == Len(kids)
               last == After(i) - 1
               d == nodes[i].depth + 1
    <2>1. /\ last \in i .. N /\ Siblings(kids, nodes, i + 1, d, last)
          /\ last < N => nodes[last + 1].depth <= nodes[i].depth
      BY <1>0, <1>1, ChildrenFound
    <2>2. After(i) \in Nat /\ last + 1 = After(i) /\ nodes[i].depth \in Nat
      BY <1>1, <1>2 DEF After
    <2>3. PICK at : ReadAt(i, at)
      BY <1>1 DEF NodesRead
    <2> DEFINE content == Content(data, at)
               end == ContentEnd(i, at)
    <2>4. /\ nodes[i].start \in Nat /\ nodes[i].length \in Nat /\ EndOf(i) \in Int
          /\ ~nodes[i].constructed => nodes[i].value + nodes[i].length = EndOf(i)
      <3>1. nodes[i] \in Nodes
        BY <1>1, ElementOfSeq
      <3>2. nodes[i].start \in Nat /\ nodes[i].length \in Nat
        BY <3>1 DEF Nodes, Sizes
      <3>3. nodes[i].encoded \in Nat
        BY <1>1 DEF Layout, SiblingsAdjacent
      <3>. QED
        BY <1>1, <3>2, <3>3 DEF EndOf, Layout, ValueInNode
    <2>5. /\ at \in Nat /\ nodes[i].start + 1 <= at /\ content \in Nat /\ at < content
          /\ Identified(data, nodes[i], at) /\ LengthAllowed(data, rules, at)
      BY <2>3 DEF ReadAt, HeaderAt
    <2>6. end = IF data[at + 1] = 128 THEN EndOf(i) - 2 ELSE EndOf(i)
      BY DEF ContentEnd
    <2> HIDE DEF kids, last, N, content, end
    <2>7. CASE ~nodes[i].constructed
      <3>1. /\ data[at + 1] # 128 /\ nodes[i].value = content
            /\ nodes[i].length = Announced(data, at)
        BY <2>3, <2>7 DEF ReadAt, ValueAt, content
      <3>2. EndOf(i) = content + Announced(data, at) /\ at < EndOf(i)
        BY <2>4, <2>5, <2>7, <3>1
      <3>3. at \in nodes[i].start + 1 .. EndOf(i) - 1
        BY <2>4, <2>5, <3>2
      <3>. QED
        BY <2>5, <2>7, <3>1, <3>2, <3>3, Zenon DEF Tiled, content
    <2>8. CASE nodes[i].constructed
      <3>1. /\ at < EndOf(i)
            /\ IF data[at + 1] = 128 THEN data[end + 1] = 0 /\ data[end + 2] = 0
               ELSE EndOf(i) = content + Announced(data, at)
            /\ i = Len(nodes) \/ nodes[i + 1].depth <= nodes[i].depth => content = end
            /\ \A c \in DOMAIN nodes :
                 i < c /\ After(c) = After(i) /\ nodes[c].depth = d => EndOf(c) = end
        BY <1>1, <2>3, <2>8, ZenonT(60) DEF ReadAt, ClosedAt, EndsRight, content, end
      <3>2. at \in nodes[i].start + 1 .. EndOf(i) - 1
        BY <2>4, <2>5, <3>1
      <3>3. /\ kids \in Seq(i + 1 .. last) /\ k \in Nat /\ DOMAIN kids = 1 .. k
            /\ \A c \in 1 .. k : kids[c] \in i + 1 .. last
        <4>1. kids \in Seq(i + 1 .. last)
          BY <2>1 DEF Siblings
        <4>2. k \in Nat /\ DOMAIN kids = 1 .. k
          BY <4>1
        <4>3. \A c \in 1 .. Len(kids) : kids[c] \in i + 1 .. last
          BY <4>1, ElementOfSeq
        <4>. QED
          BY <4>1, <4>2, <4>3
      <3>4. k = 0 => content = end
        <4>1. ASSUME k = 0
              PROVE  i = Len(nodes) \/ nodes[i + 1].depth <= nodes[i].depth
          <5>1. kids = <<>>
            BY <3>3, <4>1, EmptySeq
          <5>2. ~(i + 1 <= last)
            BY <2>1, <5>1 DEF Siblings
          <5>3. last = i
            BY <1>1, <2>1, <5>2
          <5>4. i = N \/ i < N
            BY <1>1
          <5>. QED
            BY <2>1, <5>3, <5>4, Zenon DEF N
        <4>. QED
          BY <3>1, <4>1
      <3> HIDE DEF k
      <3>5. ASSUME k # 0
            PROVE  /\ nodes[kids[1]].start = content
                   /\ \A c \in 1 .. k - 1 : EndOf(kids[c]) = nodes[kids[c + 1]].start
                   /\ EndOf(kids[k]) = end
        <4>0. 1 \in 1 .. k /\ k \in 1 .. k /\ kids # <<>>
          BY <3>3, <3>5
        <4>1. \A c \in 1 .. k : nodes[kids[c]].depth = d
          BY <2>1, <3>3 DEF Siblings
        <4>2. nodes[kids[1]].start = content
          <5>1. i + 1 <= last /\ i < Len(nodes)
            BY <1>1, <2>1, <3>3, <4>0 DEF N
          <5>2. kids[1] = i + 1
            BY <2>1, <5>1 DEF Siblings
          <5>3. nodes[i + 1].depth > nodes[i].depth
            BY <2>2, <4>0, <4>1, <5>2
          <5>. QED
            BY <2>3, <2>8, <5>1, <5>2, <5>3 DEF ReadAt, FirstAt, content
        <4>3. ASSUME NEW c \in 1 .. k - 1
              PROVE  EndOf(kids[c]) = nodes[kids[c + 1]].start
          <5>1. c \in 1 .. k /\ c + 1 \in 1 .. k
            BY <3>3
          <5>2. kids[c + 1] = After(kids[c])
            BY <2>1 DEF Siblings, After, k
          <5>3. kids[c] \in 1 .. N /\ kids[c + 1] \in 1 .. N
            BY <1>1, <2>1, <3>3, <5>1, SMTT(30)
          <5>4. After(kids[c]) <= Len(nodes) /\ nodes[After(kids[c])].depth = nodes[kids[c]].depth
            BY <4>1, <5>1, <5>2, <5>3 DEF N
          <5>. QED
            BY <1>1, <5>2, <5>3, <5>4 DEF Layout, SiblingsAdjacent
        <4>4. EndOf(kids[k]) = end
          <5>1. After(kids[k]) = After(i)
            BY <2>1, <2>2, <4>0 DEF Siblings, After, k
          <5>2. kids[k] \in DOMAIN nodes /\ i < kids[k] /\ nodes[kids[k]].depth = d
            BY <1>1, <2>1, <3>3, <4>0, <4>1
          <5>. QED
            BY <3>1, <5>1, <5>2
        <4>. QED
          BY <4>2, <4>3, <4>4
      <3>. QED
        BY <2>5, <2>6, <2>8, <3>1, <3>2, <3>4, <3>5, ZenonT(60) DEF Tiled, content, kids, k
    <2>. QED
      BY <2>7, <2>8
  <1>. QED
    BY <1>1, <1>3, <1>4, <1>5

(* Every octet of the input belongs to exactly one part of the tree, and   *)
(* every node is what its octets encode under the rules of the call, as the*)
(* users of encoded_bytes and of the fields of a node rely on.             *)
THEOREM BytesAccountedFor == Spec => []BytesTiled
  <1> DEFINE Inv == IInv /\ PreOrder /\ Offsets /\ HeaderRead /\ Tiling
  <1>1. Init => Inv
    BY InitIInv
    DEF Init, PreOrder, Offsets, HeaderRead, TagRead, LengthNext, LengthRead, Tiling, Running, Succeeded
  <1>2. Inv /\ [Next]_vars => Inv'
    BY IInvStep, PreOrderStep, OffsetsStep, HeaderReadStep, TilingStep DEF IInv
  <1>3. Inv => BytesTiled
    BY TiledBytes
  <1>. QED
    BY <1>1, <1>2, <1>3, PTL DEF Spec
-----------------------------------------------------------------------------
(* A call ends *)

(* The input not read yet, the nodes not finished, and whether a child has *)
(* to be looked for.                                                       *)
Work == Remaining + Len(stack) + (IF pc = "children" THEN 1 ELSE 0)

(* Every step of a call that goes on fills the node array further, which   *)
(* its capacity limits, or leaves less to do.                              *)
Advances ==
  Running' => \/ Len(nodes') > Len(nodes)
              \/ Len(nodes') = Len(nodes) /\ Work' < Work

(* By the action: reading takes an octet, a finished node a frame, and a    *)
(* new node a place in the array.                                          *)
LEMMA StepAdvances ==
  ASSUME TypeInv, Step
  PROVE  Advances
  <1>1. /\ Len(data) \in Nat /\ offset \in Nat /\ Len(stack) \in Nat /\ Len(nodes) \in Nat
        /\ stack \in Seq(Frames) /\ nodes \in Seq(Nodes)
    BY DEF TypeInv, TypeOK
  <1>2. CASE \E code : Return(code)
    BY <1>2 DEF Return, Advances, Running
  <1>3. CASE DepthExceeded \/ InputExhausted \/ ChildrenFail \/ EndCall
    BY <1>2, <1>3 DEF DepthExceeded, InputExhausted, ChildrenFail, EndCall
  <1>4. ASSUME NEW p \in Phases, NEW q \in Phases, Reading(p), Go(q), UNCHANGED <<Args, nodes>>,
               p # "children", q # "children"
        PROVE  Advances
    <2>1. /\ offset' = offset + 1 /\ data' = data /\ stack' = stack /\ nodes' = nodes
          /\ pc = p /\ pc' = q
      BY <1>4 DEF Reading, Go, Args
    <2>2. Work' < Work
      BY <1>1, <1>4, <2>1 DEF Work, Remaining
    <2>. QED
      BY <2>1, <2>2 DEF Advances
  <1>5. CASE ReadIdentifier
    <2>1. PICK q \in {"tag", "length"} : Go(q)
      BY <1>5 DEF ReadIdentifier
    <2>2. Reading("identifier") /\ UNCHANGED <<Args, nodes>>
      BY <1>5 DEF ReadIdentifier
    <2>. QED
      BY <1>4, <2>1, <2>2 DEF Phases
  <1>6. CASE ReadTagOctet
    <2>1. Reading("tag") /\ UNCHANGED <<Args, nodes>>
          /\ ((\E code : Return(code)) \/ Go("tag") \/ Go("length"))
      BY <1>6 DEF ReadTagOctet
    <2>. QED
      BY <1>2, <1>4, <2>1 DEF Phases
  <1>7. CASE ReadLength
    <2>1. Reading("length") /\ UNCHANGED <<Args, nodes>>
          /\ ((\E code : Return(code)) \/ Go("content") \/ Go("octets"))
      BY <1>7 DEF ReadLength
    <2>. QED
      BY <1>2, <1>4, <2>1 DEF Phases
  <1>8. CASE ReadLengthOctet
    <2>1. Reading("octets") /\ UNCHANGED <<Args, nodes>>
          /\ ((\E code : Return(code)) \/ Go("content") \/ Go("octets"))
      BY <1>8 DEF ReadLengthOctet
    <2>. QED
      BY <1>2, <1>4, <2>1 DEF Phases
  <1>9. ASSUME NEW x, nodes' = Append(nodes, x)
        PROVE  Advances
    <2>1. Len(nodes') = Len(nodes) + 1
      BY <1>1, <1>9
    <2>. QED
      BY <1>1, <2>1 DEF Advances
  <1>10. CASE AddPrimitive
    BY <1>2, <1>9, <1>10 DEF AddPrimitive
  <1>11. CASE OpenConstructed
    BY <1>2, <1>9, <1>11 DEF OpenConstructed
  <1>12. CASE NextChild
    <2>1. /\ offset' = offset /\ data' = data /\ stack' = stack /\ nodes' = nodes
          /\ pc = "children" /\ pc' = "identifier"
      BY <1>12 DEF NextChild, InChildren, Go, Args
    <2>2. Work' < Work
      BY <1>1, <2>1 DEF Work, Remaining
    <2>. QED
      BY <2>1, <2>2 DEF Advances
  <1>13. CASE CloseNode
    <2>1. /\ offset' \in Nat /\ offset <= offset' /\ data' = data /\ stack' = Pop(stack)
          /\ nodes' = Finished(Top.node, offset') /\ pc = "children" /\ pc' = "children"
          /\ stack # <<>>
      BY <1>1, <1>13 DEF CloseNode, InChildren, Args
    <2>2. Len(stack) > 0
      BY <1>1, <2>1
    <2>3. Top.node \in DOMAIN nodes
      <3>1. Len(stack) \in DOMAIN stack
        BY <1>1, <2>2
      <3>. QED
        BY <3>1 DEF TypeInv, FramesOrdered, Top
    <2>4. Len(nodes') = Len(nodes)
      BY <1>1, <2>1, <2>3, FinishedNodes
    <2>5. Len(stack') = Len(stack) - 1
      BY <1>1, <2>1, <2>2, PopFrames
    <2>6. Work' < Work
      BY <1>1, <2>1, <2>5 DEF Work, Remaining
    <2>. QED
      BY <2>4, <2>6 DEF Advances
  <1>. QED
    BY <1>3, <1>5, <1>6, <1>7, <1>8, <1>10, <1>11, <1>12, <1>13 DEF Step

(* Every step of a call fills the node array, up to its capacity, or leaves *)
(* less to do, of which there is never less than nothing: whatever the     *)
(* input, a call takes finitely many steps.                                *)
THEOREM StepsAdvance ==
  Spec => []((Work \in Nat) /\ Len(nodes) \in 0 .. capacity) /\ [][Step => Advances]_vars
  <1>1. TypeInv => (Work \in Nat) /\ Len(nodes) \in 0 .. capacity
    BY DEF TypeInv, TypeOK, Work, Remaining
  <1>2. TypeInv /\ [Next]_vars => [Step => Advances]_vars
    BY StepAdvances
  <1>. QED
    BY InitTypeInv, TypeInvStep, <1>1, <1>2, PTL DEF Spec
=============================================================================
