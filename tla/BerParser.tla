------------------------------ MODULE BerParser ------------------------------
(***************************************************************************)
(* asn1_parse of the C99 runtime (Languages/C99/Parser/src/asn1_parser.c): *)
(* a recursive descent over one TLV that fills the caller's node array in  *)
(* pre-order.  The recursion of parse_node is an explicit stack with one   *)
(* frame per constructed node whose children are being parsed; each        *)
(* iteration of each loop of the code is a step.                           *)
(*                                                                         *)
(* Offsets count from 0 as in the code (octet o is data[o + 1]); node      *)
(* indices count from 1 (nodes[i] is result->nodes[i - 1]).  Pointers into *)
(* the input are offsets.  size_t and uint32_t arithmetic wraps.           *)
(***************************************************************************)
EXTENDS Integers, Sequences, NodeIterator

CONSTANTS
  Inputs,      \* the octet strings callers pass to asn1_parse
  Again,       \* those passed with a result used before: bounds the model only
  Rules,       \* the encoding rules they ask for
  Capacities,  \* the sizes of the node arrays they provide
  MaxDepth,    \* ASN1_MAX_DEPTH
  SizeOctets,  \* sizeof(size_t)
  SizeMod,     \* 2^(8 * SizeOctets): size_t is 0 .. SizeMod - 1
  TagOctets,   \* septets parse_base128_uint accepts
  TagMod,      \* 2^32: the width of tag_number
  MaxCalls     \* how often a caller reuses one result: bounds the model only

Octets == 0 .. 255

ASSUME BerParserAssumption ==
  /\ Inputs \subseteq Seq(Octets)
  /\ \A d \in Inputs : Len(d) < SizeMod
  /\ Again \subseteq Inputs
  /\ Rules \subseteq {"BER", "DER"}
  /\ Capacities \subseteq Nat
  /\ MaxDepth \in Nat \ {0}
  /\ SizeOctets \in Nat \ {0}
  /\ SizeMod \in Nat /\ SizeMod > 255
  /\ TagOctets \in Nat \ {0}
  /\ TagMod \in Nat /\ TagMod > 31
  /\ MaxCalls \in Nat

VARIABLES
  data,      \* the input of the current (or last) call
  rules,     \* its encoding rules
  capacity,  \* result->capacity, fixed by the caller
  nodes,     \* result->nodes[0 .. count - 1]
  offset,    \* buf.offset
  stack,     \* the constructed nodes being parsed, outermost first
  header,    \* locals of parse_identifier, parse_length and parse_node
  pc,        \* which loop or function is about to take a step
  err,       \* what the last call returned, "PENDING" while one runs
  calls      \* calls that got past the argument checks

vars == <<data, rules, capacity, nodes, offset, stack, header, pc, err, calls>>

-----------------------------------------------------------------------------
(* Types *)

Sizes == 0 .. SizeMod - 1
Unset == -1   \* NULL, or a field never written

Errors == {"TRUNCATED_FIELD", "INVALID_OBJECT", "UNSUPPORTED_LENGTH",
           "EXCESSIVE_DEPTH", "CAPACITY_EXCEEDED", "TRAILING_DATA"}

Phases == {"idle", "identifier", "tag", "length", "octets", "content", "children"}

Headers == [start : Sizes, class : 0 .. 3, constructed : BOOLEAN,
            tag : 0 .. TagMod - 1, read : Nat, want : Nat,
            indefinite : BOOLEAN, length : Sizes]

Nodes == [class : 0 .. 3, tag : 0 .. TagMod - 1, constructed : BOOLEAN,
          start : Sizes, encoded : Sizes \union {Unset},
          value : Sizes \union {Unset}, length : Sizes,
          depth : 1 .. MaxDepth, subtree : Nat \ {0}]

Frames == [node : Nat \ {0}, indefinite : BOOLEAN, end : Nat]

-----------------------------------------------------------------------------
(* Reading the input and leaving the parser *)

Octet == data[offset + 1]
Remaining == Len(data) - offset
Depth == Len(stack) + 1   \* of the node parse_node is working on

Reading(phase) ==
  /\ pc = phase
  /\ Remaining > 0
  /\ offset' = offset + 1

(* An error propagates through every open parse_node at once; nodes keeps  *)
(* what was added so far.                                                  *)
Return(code) ==
  /\ err' = code
  /\ pc' = "idle"
  /\ stack' = <<>>

Go(phase) ==
  /\ pc' = phase
  /\ UNCHANGED <<stack, err>>

Args == <<data, rules, capacity, calls>>   \* what stays fixed while a call runs

-----------------------------------------------------------------------------
(* asn1_parse up to the first parse_node *)

NoHeader == [start |-> 0, class |-> 0, constructed |-> FALSE, tag |-> 0,
             read |-> 0, want |-> 0, indefinite |-> FALSE, length |-> 0]

Init ==
  /\ capacity \in Capacities
  /\ rules \in Rules
  /\ data = <<>>
  /\ nodes = <<>>
  /\ offset = 0
  /\ stack = <<>>
  /\ header = NoHeader
  /\ pc = "idle"
  /\ err = "NONE"
  /\ calls = 0

(* The two early returns leave the result of the previous call in place.   *)
RejectCall ==
  /\ pc = "idle"
  /\ data' = <<>>
  /\ offset' = 0   \* no buffer was set up
  /\ err' \in {"INVALID_OBJECT", "TRUNCATED_FIELD"}   \* NULL, length 0
  /\ UNCHANGED <<rules, capacity, nodes, stack, header, pc, calls>>

KeepNodes == UNCHANGED nodes   \* mutant
ClearNodes == nodes' = <<>>    \* result->count = 0

BeginCall ==
  /\ pc = "idle" /\ calls < MaxCalls
  /\ data' \in (IF calls = 0 THEN Inputs ELSE Again) \ {<<>>}
  /\ rules' \in Rules
  /\ ClearNodes
  /\ offset' = 0
  /\ stack' = <<>>
  /\ header' = NoHeader
  /\ pc' = "identifier"
  /\ err' = "PENDING"
  /\ calls' = calls + 1
  /\ UNCHANGED capacity

-----------------------------------------------------------------------------
(* parse_identifier and parse_base128_uint *)

TooDeepOffByOne == Depth >= MaxDepth   \* mutant
TooDeep == Depth > MaxDepth

DepthExceeded ==
  /\ pc = "identifier"
  /\ TooDeep
  /\ Return("EXCESSIVE_DEPTH")
  /\ UNCHANGED <<Args, nodes, offset, header>>

(* asn1_buffer_read_byte fails: any of the reads below finds no octet.     *)
InputExhausted ==
  /\ pc \in {"identifier", "tag", "length", "octets"}
  /\ pc = "identifier" => ~TooDeep
  /\ Remaining <= 0
  /\ Return("TRUNCATED_FIELD")
  /\ UNCHANGED <<Args, nodes, offset, header>>

ReadIdentifier ==
  /\ Reading("identifier")
  /\ ~TooDeep
  /\ header' = [NoHeader EXCEPT !.start = offset,
                                !.class = Octet \div 64,
                                !.constructed = (Octet \div 32) % 2 = 1,
                                !.tag = IF Octet % 32 = 31 THEN 0 ELSE Octet % 32]
  /\ Go(IF Octet % 32 = 31 THEN "tag" ELSE "length")
  /\ UNCHANGED <<Args, nodes>>

ReadTagOctet ==
  LET tag == (header.tag * 128 + (Octet % 128)) % TagMod IN
  /\ Reading("tag")
  /\ header' = [header EXCEPT !.tag = tag, !.read = @ + 1]
  /\ \/ header.read >= TagOctets /\ Return("INVALID_OBJECT")
     \/ header.read < TagOctets /\ Octet >= 128 /\ Go("tag")
     \/ header.read < TagOctets /\ Octet < 128 /\ tag < 31 /\ Return("INVALID_OBJECT")
     \/ header.read < TagOctets /\ Octet < 128 /\ tag >= 31 /\ Go("length")
  /\ UNCHANGED <<Args, nodes>>

-----------------------------------------------------------------------------
(* parse_length, and the check of parse_node that only a constructed node  *)
(* may have the indefinite form                                            *)

ReadLength ==
  LET want == Octet - 128 IN
  /\ Reading("length")
  /\ \/ /\ Octet = 128
        /\ rules = "DER" \/ ~header.constructed
        /\ Return("UNSUPPORTED_LENGTH") /\ UNCHANGED header
     \/ /\ Octet = 128 /\ rules = "BER" /\ header.constructed
        /\ Go("content") /\ header' = [header EXCEPT !.indefinite = TRUE]
     \/ /\ Octet < 128
        /\ Go("content") /\ header' = [header EXCEPT !.length = Octet]
     \/ /\ want > SizeOctets
        /\ Return("UNSUPPORTED_LENGTH") /\ UNCHANGED header
     \/ /\ want \in 1 .. SizeOctets
        /\ Go("octets") /\ header' = [header EXCEPT !.want = want, !.read = 0]
  /\ UNCHANGED <<Args, nodes>>

(* DER: the short form must not have done, and no leading zero octet       *)
(* (num_bytes > required_bytes).                                           *)
NotMinimal(value, octets) ==
  rules = "DER" /\ (value <= 127 \/ value < 256 ^ (octets - 1))

ReadLengthOctet ==
  LET value == (header.length * 256 + Octet) % SizeMod
      last  == header.read + 1 >= header.want IN
  /\ Reading("octets")
  /\ header' = [header EXCEPT !.length = value, !.read = @ + 1]
  /\ \/ ~last /\ Go("octets")
     \/ last /\ NotMinimal(value, header.want) /\ Return("UNSUPPORTED_LENGTH")
     \/ last /\ ~NotMinimal(value, header.want) /\ Go("content")
  /\ UNCHANGED <<Args, nodes>>

-----------------------------------------------------------------------------
(* parse_node after the header: add_node, and either the value of a        *)
(* primitive node or the loop over the children of a constructed one       *)

HasRoomOffByOne == Len(nodes) <= capacity   \* mutant
HasRoom == Len(nodes) < capacity

(* The node as add_node copies it; the encoded length of a constructed     *)
(* node is not written until its children are parsed.                      *)
NewNode(encoded, value, length) ==
  [class |-> header.class, tag |-> header.tag, constructed |-> header.constructed,
   start |-> header.start, encoded |-> encoded, value |-> value, length |-> length,
   depth |-> Depth, subtree |-> 1]

(* asn1_buffer_read_bytes adds in size_t before it compares.               *)
AddPrimitive ==
  LET after == (offset + header.length) % SizeMod IN
  /\ pc = "content" /\ ~header.constructed
  /\ \/ /\ after > Len(data)
        /\ Return("TRUNCATED_FIELD") /\ UNCHANGED <<nodes, offset>>
     \/ /\ after <= Len(data) /\ ~HasRoom
        /\ Return("CAPACITY_EXCEEDED") /\ offset' = after /\ UNCHANGED nodes
     \/ /\ after <= Len(data) /\ HasRoom
        /\ offset' = after
        /\ nodes' = Append(nodes, NewNode((after - header.start) % SizeMod,
                                          offset, header.length))
        /\ Go("children")
  /\ UNCHANGED <<Args, header>>

OpenConstructed ==
  /\ pc = "content" /\ header.constructed
  /\ \/ ~HasRoom /\ Return("CAPACITY_EXCEEDED") /\ UNCHANGED nodes
     \/ /\ HasRoom
        /\ nodes' = Append(nodes, NewNode(Unset, Unset, 0))
        /\ \/ /\ ~header.indefinite /\ Remaining < header.length
              /\ Return("TRUNCATED_FIELD")
           \/ /\ header.indefinite \/ Remaining >= header.length
              /\ stack' = Append(stack, [node |-> Len(nodes) + 1,
                                         indefinite |-> header.indefinite,
                                         end |-> offset + header.length])
              /\ pc' = "children" /\ UNCHANGED err
  /\ UNCHANGED <<Args, offset, header>>

-----------------------------------------------------------------------------
(* parse_definite_children and parse_indefinite_children: a child has just *)
(* been parsed, or the loop has just been entered                          *)

Top == stack[Len(stack)]

InChildren == pc = "children" /\ stack # <<>>

EndOfContentsOneOctet == Octet = 0   \* mutant
EndOfContents == Octet = 0 /\ data[offset + 2] = 0

NextChild ==
  /\ InChildren
  /\ \/ ~Top.indefinite /\ offset < Top.end
     \/ Top.indefinite /\ Remaining >= 2 /\ ~EndOfContents
  /\ Go("identifier")
  /\ UNCHANGED <<Args, nodes, offset, header>>

FinishedWithoutSelf(i, after) ==   \* mutant: counts the descendants only
  [nodes EXCEPT ![i].subtree = Len(nodes) - i,
                ![i].encoded = (after - nodes[i].start) % SizeMod]
FinishedLast(i, after) ==   \* mutant: writes nodes[count - 1] for nodes[node_index]
  [nodes EXCEPT ![Len(nodes)].subtree = Len(nodes) - i + 1,
                ![Len(nodes)].encoded = (after - nodes[i].start) % SizeMod]

(* Back in parse_node: the fix-up of the constructed node.                 *)
Finished(i, after) ==
  [nodes EXCEPT ![i].subtree = Len(nodes) - i + 1,
                ![i].encoded = (after - nodes[i].start) % SizeMod]

PopNothing(s) == s   \* mutant
Pop(s) == SubSeq(s, 1, Len(s) - 1)

CloseNode ==
  /\ InChildren
  /\ \/ ~Top.indefinite /\ offset = Top.end /\ offset' = offset
     \/ Top.indefinite /\ Remaining >= 2 /\ EndOfContents /\ offset' = offset + 2
  /\ nodes' = Finished(Top.node, offset')
  /\ stack' = Pop(stack)
  /\ UNCHANGED <<Args, header, pc, err>>

ChildrenFail ==
  /\ InChildren
  /\ \/ ~Top.indefinite /\ offset > Top.end /\ Return("INVALID_OBJECT")
     \/ Top.indefinite /\ Remaining < 2 /\ Return("TRUNCATED_FIELD")
  /\ UNCHANGED <<Args, nodes, offset, header>>

(* asn1_parse after the outermost parse_node.                              *)
EndCall ==
  /\ pc = "children" /\ stack = <<>>
  /\ Return(IF Remaining > 0 THEN "TRAILING_DATA" ELSE "OK")
  /\ UNCHANGED <<Args, nodes, offset, header>>

-----------------------------------------------------------------------------

Step ==
  \/ DepthExceeded \/ InputExhausted
  \/ ReadIdentifier \/ ReadTagOctet \/ ReadLength \/ ReadLengthOctet
  \/ AddPrimitive \/ OpenConstructed
  \/ NextChild \/ CloseNode \/ ChildrenFail \/ EndCall

Next ==
  \/ RejectCall
  \/ BeginCall
  \/ Step

(* The function runs on its caller's thread and blocks on nothing.         *)
Spec == Init /\ [][Next]_vars /\ WF_vars(Step)
-----------------------------------------------------------------------------
(* Correctness *)

(* Every variable has its type; the node array never outgrows the caller's *)
(* capacity, recursion never exceeds ASN1_MAX_DEPTH, and the read position *)
(* never leaves the input.                                                 *)
TypeOK ==
  /\ data \in Seq(Octets) /\ Len(data) < SizeMod
  /\ rules \in {"BER", "DER"}
  /\ capacity \in Nat
  /\ nodes \in Seq(Nodes) /\ Len(nodes) <= capacity
  /\ offset \in 0 .. Len(data)
  /\ stack \in Seq(Frames) /\ Len(stack) <= MaxDepth
  /\ header \in Headers
  /\ pc \in Phases
  /\ err \in Errors \union {"OK", "PENDING", "NONE"}
  /\ calls \in 0 .. MaxCalls

Open(i) == \E k \in DOMAIN stack : stack[k].node = i

Succeeded == pc = "idle" /\ err = "OK"
Running == pc # "idle"

(* The node array is the pre-order of the tree and subtree_size delimits   *)
(* it exactly: the nodes it counts lie deeper than the node, and the first *)
(* one it does not count does not.  While a node is open, everything after *)
(* it is its descendant.                                                   *)
SubtreeExact ==
  Running \/ Succeeded =>
    \A i \in DOMAIN nodes :
      LET last == IF Open(i) THEN Len(nodes) ELSE i + nodes[i].subtree - 1 IN
      /\ last <= Len(nodes)
      /\ \A j \in i + 1 .. last : nodes[j].depth > nodes[i].depth
      /\ last < Len(nodes) => nodes[last + 1].depth <= nodes[i].depth

(* No length whose sum with the offset wrapped around size_t.              *)
NoWrap == \A i \in DOMAIN nodes : nodes[i].value + nodes[i].length < SizeMod

EndOf(i) == nodes[i].start + nodes[i].encoded

(* What n digits from offset lo on denote, in arithmetic that wraps at mod.*)
Number(d, lo, n, base, mod) ==
  LET value[k \in 0 .. n] ==
        IF k = 0 THEN 0 ELSE (value[k - 1] * base + (d[lo + k] % base)) % mod
  IN value[n]

(* X.690, 8.1.2: octets d hold the node's identifier from where it starts  *)
(* up to offset at.                                                        *)
Identified(d, node, at) ==
  LET first   == d[node.start + 1]
      septets == at - node.start - 1
  IN /\ node.class = first \div 64 /\ node.constructed = ((first \div 32) % 2 = 1)
     /\ \/ septets = 0 /\ first % 32 < 31 /\ node.tag = first % 32
        \/ /\ septets \in 1 .. TagOctets /\ first % 32 = 31
           /\ \A k \in 1 .. septets : (d[node.start + 1 + k] >= 128) <=> (k < septets)
           /\ node.tag = Number(d, node.start + 1, septets, 128, TagMod) /\ node.tag >= 31

(* X.690, 8.1.3 and 10.1: the length octets at offset at, the number they  *)
(* denote, where the content begins and what is allowed there.             *)
LengthDigits(d, at) == IF d[at + 1] > 128 THEN d[at + 1] - 128 ELSE 0
Announced(d, at) ==
  IF d[at + 1] < 128 THEN d[at + 1] ELSE Number(d, at + 1, LengthDigits(d, at), 256, SizeMod)
Content(d, at) == at + 1 + LengthDigits(d, at)
LengthAllowed(d, r, at) ==
  /\ LengthDigits(d, at) <= SizeOctets
  /\ r = "DER" => /\ d[at + 1] # 128
                  /\ d[at + 1] > 128 => /\ Announced(d, at) > 127
                                        /\ ~(Announced(d, at) < 256 ^ (LengthDigits(d, at) - 1))

(* A parsed node is what the octets it spans encode: its fields are those  *)
(* of the identifier and length octets at its start, and right after them, *)
(* up to the length they announce or to the end-of-contents octets, comes  *)
(* its value or come its children, without gap or overlap.                 *)
Tiled(i) ==
  LET node == nodes[i]
      kids == Children(nodes, i)
      k    == Len(kids)
  IN \E at \in node.start + 1 .. EndOf(i) - 1 :
       LET content == Content(data, at)
           end     == IF data[at + 1] = 128 THEN EndOf(i) - 2 ELSE EndOf(i)
       IN /\ Identified(data, node, at) /\ LengthAllowed(data, rules, at)
          /\ IF data[at + 1] = 128
             THEN node.constructed /\ data[end + 1] = 0 /\ data[end + 2] = 0
             ELSE end = content + Announced(data, at)
          /\ IF ~node.constructed THEN node.value = content /\ node.length = Announced(data, at)
             ELSE IF k = 0 THEN content = end
             ELSE /\ nodes[kids[1]].start = content
                  /\ \A c \in 1 .. k - 1 : EndOf(kids[c]) = nodes[kids[c + 1]].start
                  /\ EndOf(kids[k]) = end

(* A successful parse accounts for every octet of the input exactly once,  *)
(* as the users of encoded_bytes (signature input, re-serialisation) need. *)
BytesTiled ==
  Succeeded /\ NoWrap =>
    /\ nodes[1].start = 0 /\ EndOf(1) = Len(data)
    /\ \A i \in DOMAIN nodes : Tiled(i)

(* asn1_children and asn1_next_child visit every node but the root exactly *)
(* once, each under the nearest shallower node before it.                  *)
ParentOf(j) ==
  CHOOSE i \in 1 .. j - 1 :
    nodes[i].depth < nodes[j].depth /\ \A k \in i + 1 .. j - 1 : nodes[k].depth >= nodes[j].depth

ChildrenComplete ==
  Succeeded =>
    \A i \in DOMAIN nodes :
      LET kids == Children(nodes, i) IN
      /\ \A c \in 1 .. Len(kids) - 1 : kids[c] < kids[c + 1]
      /\ \A j \in 2 .. Len(nodes) : (\E c \in DOMAIN kids : kids[c] = j) <=> ParentOf(j) = i

(* Within one call nodes are only appended, and a node whose parse_node    *)
(* has returned is never written again.                                    *)
OnlyOpenWritten ==
  Running => /\ Len(nodes') >= Len(nodes)
             /\ \A i \in DOMAIN nodes : ~Open(i) => nodes'[i] = nodes[i]

FinishedStable == [][OnlyOpenWritten]_vars

(* A parse always returns, whatever the input: every loop of the code      *)
(* consumes input or uses up the node array.                               *)
ParseReturns == Running ~> ~Running
====
