-------------------------- MODULE CmpClientProofs --------------------------
(***************************************************************************)
(* What leaves the CMP client is covered by its MAC, whatever the          *)
(* compression function, the encodings and the sizes of the buffers; the   *)
(* MAC is the one the standards define; what the client reports of the     *)
(* response is what the server sent, whatever the responses, the receive   *)
(* buffer and the segments the response arrives in.                        *)
(***************************************************************************)
EXTENDS CmpClient, Induction, SequenceTheorems, TLAPS

Before == {"start", "csr", "protect_header", "protect_body", "mac", "outer", "encode"}
After == {"connect", "send_head", "send_body", "receive", "find", "parse", "decode", "close",
          "failed", "killed", "done"}

(* The buffer holds what the two encoders, checked or not, left behind.    *)
HoldsHeader == content \in Written(<<>>, header)
HoldsBoth == \E c \in Written(<<>>, header) : content \in Written(c, body)

(* Where the client is tells what it has computed so far; the message is   *)
(* there only when nothing of this changes any more.                       *)
Progress ==
  /\ pc \in Before \union After
  /\ header \in Headers
  /\ pc \in {"protect_header", "protect_body", "mac", "outer", "encode"} => body \in Bodies
  /\ pc = "protect_body" => HoldsHeader
  /\ pc \in {"mac", "outer", "encode"} => HoldsBoth
  /\ pc = "outer" => mac = InnerDigest(key, ProtectedPart)
  /\ pc = "encode" => mac = HmacSha256(key, ProtectedPart)
  /\ pc \in Before => message = <<>>

IInv == Progress /\ MacCoversMessage

(* If the final encoding succeeds, so did the two before the MAC.          *)
LEMMA EncodableIsHeld ==
  ASSUME header \in Headers, body \in Bodies, Encodable, HoldsBoth
  PROVE  content = header.octets \o body.octets
<1>1. header.octets \in Seq(Octets) /\ body.octets \in Seq(Octets)
  BY CmpClientAssumption DEF Encodings
<1>2. PICK c \in Written(<<>>, header) : content \in Written(c, body)
  BY DEF HoldsBoth
<1>3. c = header.octets
  BY <1>1, <1>2 DEF Encodable, Written
<1> QED
  BY <1>2, <1>3 DEF Encodable, Written

LEMMA InitInv == Init => IInv
BY DEF Init, IInv, Progress, Before, After, MacCoversMessage

LEMMA NextInv == IInv /\ [Next]_vars => IInv'
<1> SUFFICES ASSUME IInv, [Next]_vars PROVE IInv'
  OBVIOUS
<1> USE DEF IInv, Before, After
<1>1. CASE DeriveKey
  BY <1>1 DEF DeriveKey, Progress, MacCoversMessage
<1>2. CASE BuildMessage
  BY <1>2 DEF BuildMessage, Goto, Exit, Progress, MacCoversMessage, request
<1>3. CASE HydrateCsr
  BY <1>3 DEF HydrateCsr, Goto, Exit, Progress, MacCoversMessage
<1>4. CASE ProtectHeader
  <2>1. HoldsHeader'
    BY <1>4 DEF ProtectHeader, HoldsHeader, Written, Encodes
  <2> QED
    BY <1>4, <2>1 DEF ProtectHeader, Goto, Progress, MacCoversMessage
<1>5. CASE ProtectBody
  <2>1. HoldsBoth'
    BY <1>5 DEF ProtectBody, Progress, HoldsHeader, HoldsBoth, Written, Encodes
  <2> QED
    BY <1>5, <2>1 DEF ProtectBody, Goto, Progress, MacCoversMessage
<1>6. CASE ComputeMac
  <2>1. UNCHANGED <<key, header, body, content, message>> /\ ProtectedPart' = ProtectedPart
    BY <1>6 DEF ComputeMac, ProtectedPart
  <2>2. pc \in {"mac", "outer"} /\ pc' \in {"outer", "encode"} /\ message = <<>>
    BY <1>6 DEF ComputeMac, Goto, Progress
  <2>3. HoldsBoth'
    BY <2>1, <2>2 DEF Progress, HoldsBoth, Written, Encodes
  <2>4. pc' = "outer" => mac' = InnerDigest(key, ProtectedPart)
    BY <1>6 DEF ComputeMac, Goto
  <2>5. pc' = "encode" => mac' = HmacSha256(key, ProtectedPart)
    BY <1>6 DEF ComputeMac, Goto, Progress, HmacSha256
  <2>6. InnerDigest(key, ProtectedPart)' = InnerDigest(key, ProtectedPart)
        /\ HmacSha256(key, ProtectedPart)' = HmacSha256(key, ProtectedPart)
    BY <2>1
  <2> QED
    BY <2>1, <2>2, <2>3, <2>4, <2>5, <2>6 DEF Progress, MacCoversMessage
<1>7. CASE EncodeMessage
  <2>1. CASE Encodable /\ pc' = "connect"
    <3>1. content = header.octets \o body.octets
      BY <1>7, <2>1, EncodableIsHeld DEF EncodeMessage, Progress
    <3>2. mac = HmacSha256(key, Element(Sequence, TRUE, header.octets \o body.octets))
      BY <1>7, <3>1 DEF EncodeMessage, Progress, ProtectedPart
    <3>3. MacCoversMessage'
      BY <1>7, <2>1, <3>2 DEF EncodeMessage, MacCoversMessage
    <3> QED
      BY <1>7, <2>1, <3>3 DEF EncodeMessage, Progress
  <2>2. CASE pc' = "failed" /\ UNCHANGED message
    BY <1>7, <2>2 DEF EncodeMessage, Progress, MacCoversMessage
  <2> QED
    BY <1>7, <2>1, <2>2 DEF EncodeMessage, Goto, Exit
<1>8. CASE /\ UNCHANGED request
           /\ pc \in After /\ pc' \in After
  BY <1>8 DEF Progress, MacCoversMessage, request
<1>9. CASE UNCHANGED request /\ UNCHANGED pc
  <2>1. UNCHANGED <<pc, key, header, body, content, mac, message>>
    BY <1>9 DEF request
  <2>2. (HoldsHeader => HoldsHeader') /\ (HoldsBoth => HoldsBoth') /\ ProtectedPart' = ProtectedPart
    BY <2>1 DEF HoldsHeader, HoldsBoth, ProtectedPart, Written, Encodes
  <2> QED
    BY <2>1, <2>2 DEF Progress, MacCoversMessage
<1>10. Connect \/ SendHead \/ SendBody \/ Receive \/ FindBody \/ ParseBody \/ DecodeBody \/ Close
         => UNCHANGED request /\ pc \in After /\ pc' \in After
  BY DEF Connect, SendHead, SendBody, Receive, FindBody, ParseBody, DecodeBody, Close, Goto, Exit, Report
<1>11. Server \/ UNCHANGED vars => UNCHANGED request /\ UNCHANGED pc
  BY DEF Server, ServerAnswers, ServerCloses, vars
<1> QED
  BY <1>1, <1>2, <1>3, <1>4, <1>5, <1>6, <1>7, <1>8, <1>9, <1>10, <1>11 DEF Next, Client

(* No message leaves the client unless its MAC was computed over exactly   *)
(* the header and body that are in it (c99_client.c:406-440), although the *)
(* results of encoding them for the MAC are ignored.                       *)
THEOREM MessageIsCovered == Spec => []MacCoversMessage
<1>1. IInv => MacCoversMessage
  BY DEF IInv
<1> QED
  BY InitInv, NextInv, <1>1, PTL DEF Spec

-----------------------------------------------------------------------------
(* Prefixes of an answer *)

(* A sequence cut in two and joined.                                       *)
LEMMA Cuts ==
  ASSUME NEW s \in Seq(Octets), NEW a \in 1 .. Len(s) + 1, NEW b \in a - 1 .. Len(s)
  PROVE  /\ SubSeq(s, a, b) \in Seq(Octets) /\ Len(SubSeq(s, a, b)) = b - a + 1
         /\ \A i \in 1 .. b - a + 1 : SubSeq(s, a, b)[i] = s[a + i - 1]
  <1>1. a \in Int /\ b \in Int /\ a >= 1 /\ a <= b + 1 /\ b <= Len(s)
    OBVIOUS
  <1>2. \A i \in a .. b : s[i] \in Octets
    <2>1. \A i \in a .. b : i \in 1 .. Len(s)
      BY <1>1
    <2>. QED
      BY <2>1, ElementOfSeq
  <1>3. (IF a <= b THEN b - a + 1 ELSE 0) = b - a + 1
    BY <1>1
  <1>. QED
    BY <1>1, <1>2, <1>3, SubSeqProperties

(* A delimiter in the common part of two sequences is in both.             *)
LEMMA DelimiterCommon ==
  ASSUME NEW s \in Seq(Octets), NEW t \in Seq(Octets), NEW n \in Nat, n <= Len(s), n <= Len(t),
         \A j \in 1 .. n : s[j] = t[j], NEW i \in DelimitersIn(s), i + 4 <= n
  PROVE  i \in DelimitersIn(t)
  <1>1. i \in Nat /\ i + 4 <= Len(s) /\ i + 4 <= Len(t) /\ SubSeq(s, i + 1, i + 4) = Delimiter
    BY DEF DelimitersIn
  <1> DEFINE a == i + 1
             b == i + 4
             u == SubSeq(s, a, b)
             v == SubSeq(t, a, b)
  <1>2. a \in 1 .. Len(s) + 1 /\ b \in a - 1 .. Len(s) /\ a \in 1 .. Len(t) + 1 /\ b \in a - 1 .. Len(t)
        /\ b - a + 1 = 4 /\ \A j \in 1 .. 4 : a + j - 1 \in 1 .. n
    BY <1>1
  <1> HIDE DEF a, b
  <1>3. /\ u \in Seq(Octets) /\ Len(u) = 4 /\ \A j \in 1 .. 4 : u[j] = s[a + j - 1]
        /\ v \in Seq(Octets) /\ Len(v) = 4 /\ \A j \in 1 .. 4 : v[j] = t[a + j - 1]
    <2>1. u \in Seq(Octets) /\ Len(u) = b - a + 1 /\ \A j \in 1 .. b - a + 1 : u[j] = s[a + j - 1]
      BY <1>2, Cuts
    <2>2. v \in Seq(Octets) /\ Len(v) = b - a + 1 /\ \A j \in 1 .. b - a + 1 : v[j] = t[a + j - 1]
      BY <1>2, Cuts
    <2> HIDE DEF u, v
    <2>. QED
      BY <1>2, <2>1, <2>2
  <1> HIDE DEF u, v
  <1>4. \A j \in 1 .. 4 : u[j] = v[j]
    BY <1>2, <1>3
  <1>5. u = v
    BY <1>3, <1>4, SeqEqual
  <1>6. SubSeq(t, i + 1, i + 4) = Delimiter
    BY <1>1, <1>5 DEF u, v, a, b
  <1>7. i \in 0 .. Len(t) - 4
    BY <1>1
  <1>. QED
    BY <1>6, <1>7 DEF DelimitersIn

(* The parts of an answer have their types.                                *)
LEMMA HeadTypes ==
  ASSUME NEW r \in Responses
  PROVE  /\ r.head \in Seq(Octets) /\ r.body \in Seq(Octets) /\ r.message \in BOOLEAN
         /\ Len(r.head) \in Nat /\ Len(r.head) >= 4 /\ Len(r.body) \in Nat
  <1> DEFINE h == r.head
  <1>1. h \in Seq(Octets) /\ r.body \in Seq(Octets) /\ r.message \in BOOLEAN /\ DelimitersIn(h) = {Len(h) - 4}
    BY ResponsesAssumption
  <1>2. Len(h) \in Nat /\ Len(r.body) \in Nat
    BY <1>1
  <1>3. Len(h) - 4 \in 0 .. Len(h) - 4
    BY <1>1 DEF DelimitersIn
  <1>. QED
    BY <1>1, <1>2, <1>3

(* An answer is its head, then its body.                                   *)
LEMMA HeadLength ==
  ASSUME NEW r \in Responses
  PROVE  /\ r.head \o r.body \in Seq(Octets) /\ Len(r.head \o r.body) = Len(r.head) + Len(r.body)
         /\ \A i \in 1 .. Len(r.head) : (r.head \o r.body)[i] = r.head[i]
         /\ \A i \in 1 .. Len(r.body) : (r.head \o r.body)[Len(r.head) + i] = r.body[i]
  <1> DEFINE h == r.head
             b == r.body
             w == h \o b
  <1>1. h \in Seq(Octets) /\ b \in Seq(Octets)
    BY HeadTypes
  <1>2. Len(h) \in Nat /\ Len(b) \in Nat
    BY <1>1
  <1> HIDE DEF h, b
  <1>5. /\ w \in Seq(Octets) /\ Len(w) = Len(h) + Len(b)
        /\ \A i \in 1 .. Len(h) + Len(b) : w[i] = IF i <= Len(h) THEN h[i] ELSE b[i - Len(h)]
    BY <1>1, ConcatProperties
  <1> HIDE DEF w
  <1>6. \A i \in 1 .. Len(h) : w[i] = h[i]
    <2>1. \A i \in 1 .. Len(h) : i \in 1 .. Len(h) + Len(b) /\ i <= Len(h)
      BY <1>2
    <2>. QED
      BY <1>5, <2>1
  <1>7. \A i \in 1 .. Len(b) : w[Len(h) + i] = b[i]
    <2>1. \A i \in 1 .. Len(b) : Len(h) + i \in 1 .. Len(h) + Len(b) /\ ~(Len(h) + i <= Len(h)) /\ Len(h) + i - Len(h) = i
      BY <1>2
    <2>. QED
      BY <1>5, <2>1
  <1>. QED
    BY <1>5, <1>6, <1>7 DEF h, b, w

(* The first delimiter of what was received of an answer ends its head.    *)
LEMMA FirstDelimiter ==
  ASSUME NEW r \in Responses,
         NEW w \in Seq(Octets), Len(w) >= Len(r.head), \A i \in 1 .. Len(r.head) : w[i] = r.head[i],
         NEW x \in Seq(Octets), Len(x) <= Len(w), \A i \in 1 .. Len(x) : x[i] = w[i]
  PROVE  /\ DelimitersIn(x) # {} <=> Len(x) >= Len(r.head)
         /\ DelimitersIn(x) # {} =>
              (CHOOSE i \in DelimitersIn(x) : \A j \in DelimitersIn(x) : i <= j) = Len(r.head) - 4
  <1> DEFINE h == r.head
             D == DelimitersIn(x)
  <1>1. /\ h \in Seq(Octets) /\ Len(h) \in Nat /\ Len(h) >= 4 /\ w \in Seq(Octets)
        /\ Len(w) \in Nat /\ Len(w) >= Len(h) /\ \A i \in 1 .. Len(h) : w[i] = h[i]
        /\ DelimitersIn(h) = {Len(h) - 4} /\ Len(x) \in Nat /\ Len(x) <= Len(w)
        /\ \A i \in 1 .. Len(x) : x[i] = w[i]
    <2>1. h \in Seq(Octets) /\ Len(h) \in Nat /\ Len(h) >= 4 /\ DelimitersIn(h) = {Len(h) - 4}
      BY HeadTypes, ResponsesAssumption
    <2>. QED
      BY <2>1
  <1> HIDE DEF h
  <1>2. ASSUME NEW i \in D
        PROVE  i >= Len(h) - 4 /\ i \in Nat /\ Len(x) >= Len(h)
    <2>1. i \in Nat /\ i + 4 <= Len(x)
      BY <1>1 DEF DelimitersIn
    <2>2. CASE i + 4 <= Len(h)
      <3> DEFINE n == i + 4
      <3>1. n \in Nat /\ n <= Len(x) /\ n <= Len(h) /\ \A j \in 1 .. n : x[j] = h[j]
        BY <1>1, <2>1, <2>2
      <3>2. i \in DelimitersIn(h)
        <4>1. i \in DelimitersIn(x) /\ i + 4 <= n
          BY <2>1
        <4> HIDE DEF n
        <4>. QED
          BY <1>1, <3>1, <4>1, DelimiterCommon
      <3>. QED
        BY <1>1, <2>1, <3>2
    <2>. QED
      BY <1>1, <2>1, <2>2
  <1>3. ASSUME Len(x) >= Len(h)
        PROVE  Len(h) - 4 \in D
    <2>1. Len(h) <= Len(h) /\ Len(h) <= Len(x) /\ \A j \in 1 .. Len(h) : h[j] = x[j]
      BY <1>1, <1>3
    <2> DEFINE p == Len(h) - 4
               n == Len(h)
    <2>2. p \in DelimitersIn(h) /\ p + 4 <= n /\ n \in Nat
      BY <1>1
    <2>3. p \in DelimitersIn(x)
      <3>1. n <= Len(h) /\ n <= Len(x) /\ \A j \in 1 .. n : h[j] = x[j]
        BY <2>1
      <3> HIDE DEF p, n
      <3>. QED
        BY <1>1, <2>2, <3>1, DelimiterCommon
    <2>. QED
      BY <2>3
  <1>4. D # {} <=> Len(x) >= Len(h)
    BY <1>2, <1>3
  <1>5. ASSUME D # {}
        PROVE  (CHOOSE i \in D : \A j \in D : i <= j) = Len(h) - 4
    <2>1. Len(h) - 4 \in D /\ \A j \in D : j >= Len(h) - 4 /\ j \in Nat
      BY <1>2, <1>3, <1>4, <1>5
    <2> HIDE DEF D
    <2>2. \A j \in D : Len(h) - 4 <= j
      BY <1>1, <2>1
    <2>3. \E i \in D : \A j \in D : i <= j
      BY <2>1, <2>2
    <2> DEFINE c == CHOOSE i \in D : \A j \in D : i <= j
    <2>4. c \in D /\ \A j \in D : c <= j
      BY <2>3
    <2> HIDE DEF c
    <2>5. c \in Nat /\ c >= Len(h) - 4 /\ c <= Len(h) - 4
      BY <2>1, <2>4
    <2>6. c = Len(h) - 4
      BY <1>1, <2>5
    <2>. QED
      BY <2>6 DEF c
  <1>. QED
    BY <1>4, <1>5 DEF h

(* No proper prefix of an element is an element.                           *)
LEMMA ElementIsWhole ==
  ASSUME NEW b \in Seq(Octets), NEW c \in Seq(Octets), OneElement(b), OneElement(c), Len(c) <= Len(b),
         \A i \in 1 .. Len(c) : c[i] = b[i]
  PROVE  c = b
  <1> DEFINE more == IF c[2] < 128 THEN 0 ELSE c[2] - 128
             m == 2 + more
             u == SubSeq(c, 3, m)
             v == SubSeq(b, 3, m)
  <1>1. /\ Len(b) \in Nat /\ Len(c) \in Nat /\ Len(c) >= 2 /\ b[2] = c[2] /\ c[2] \in Nat
        /\ more \in Nat /\ Len(c) >= m /\ Len(b) >= m
    <2>1. Len(b) \in Nat /\ Len(c) \in Nat /\ Len(c) >= 2
      BY DEF OneElement
    <2>2. 2 \in 1 .. Len(c)
      BY <2>1
    <2>3. b[2] = c[2] /\ c[2] \in Octets
      BY <2>2, ElementOfSeq
    <2>4. more \in Nat /\ c[2] \in Nat
      <3> DEFINE q == c[2]
      <3>1. q \in 0 .. 255
        BY <2>3 DEF Octets
      <3> HIDE DEF q
      <3>2. q \in Nat /\ (IF q < 128 THEN 0 ELSE q - 128) \in Nat
        BY <3>1
      <3>. QED
        BY <3>2 DEF q
    <2>5. Len(c) >= m /\ Len(b) >= m
      BY <2>3 DEF OneElement
    <2> HIDE DEF m, more
    <2>. QED
      BY <2>1, <2>3, <2>4, <2>5
  <1>2. /\ Len(b) = 2 + more + IF c[2] < 128 THEN c[2] ELSE Number(v)
        /\ Len(c) = 2 + more + IF c[2] < 128 THEN c[2] ELSE Number(u)
    BY <1>1 DEF OneElement
  <1>3. u = v
    <2>1. 3 \in 1 .. Len(c) + 1 /\ m \in 3 - 1 .. Len(c) /\ 3 \in 1 .. Len(b) + 1 /\ m \in 3 - 1 .. Len(b)
          /\ m - 3 + 1 \in Nat
      BY <1>1
    <2>2. \A i \in 1 .. m - 3 + 1 : 3 + i - 1 \in 1 .. Len(c)
      BY <1>1
    <2> HIDE DEF m
    <2>3. /\ u \in Seq(Octets) /\ Len(u) = m - 3 + 1 /\ \A i \in 1 .. m - 3 + 1 : u[i] = c[3 + i - 1]
      BY <2>1, Cuts
    <2>4. /\ v \in Seq(Octets) /\ Len(v) = m - 3 + 1 /\ \A i \in 1 .. m - 3 + 1 : v[i] = b[3 + i - 1]
      BY <2>1, Cuts
    <2> HIDE DEF u, v
    <2>5. \A i \in 1 .. m - 3 + 1 : u[i] = v[i]
      BY <2>2, <2>3, <2>4
    <2>. QED
      BY <2>3, <2>4, <2>5, SeqEqual
  <1>4. Len(b) = Len(c)
    <2> HIDE DEF u, v, more
    <2>. QED
      BY <1>2, <1>3
  <1>. QED
    BY <1>4, SeqEqual

(* The length of octets is a number.                                       *)
LEMMA LengthIsNatural ==
  ASSUME NEW s \in Seq(Octets)
  PROVE  Len(s) \in Nat
  OBVIOUS

(* Arithmetic of positions behind the head.                                *)
LEMMA Offsets ==
  ASSUME NEW lw \in Nat, NEW lx \in Nat, NEW lh \in Nat, NEW lb \in Nat, lw = lh + lb, lx <= lw
  PROVE  /\ lh <= lw
         /\ lx - lh <= lb
         /\ \A i \in 1 .. lx - lh : (lh + 1) + i - 1 = lh + i /\ lh + i \in 1 .. lx /\ i \in 1 .. lb
  OBVIOUS

First(octets) == CHOOSE i \in DelimitersIn(octets) : \A j \in DelimitersIn(octets) : i <= j
Rest(octets) == SubSeq(octets, First(octets) + 4 + 1, Len(octets))

(* What the client takes for the body of an answer of which it has got a   *)
(* part is a part of the body, the whole if nothing is missing.            *)
LEMMA PartReceived ==
  ASSUME NEW r \in Responses, NEW w \in Seq(Octets), NEW x \in Seq(Octets),
         Len(w) = Len(r.head) + Len(r.body),
         \A i \in 1 .. Len(r.head) : w[i] = r.head[i],
         \A i \in 1 .. Len(r.body) : w[Len(r.head) + i] = r.body[i],
         Len(x) <= Len(w), \A i \in 1 .. Len(x) : x[i] = w[i]
  PROVE  /\ DelimitersIn(x) # {} =>
              /\ Rest(x) \in Seq(Octets) /\ Len(Rest(x)) <= Len(r.body)
              /\ \A i \in 1 .. Len(Rest(x)) : Rest(x)[i] = r.body[i]
         /\ Len(x) = Len(w) => DelimitersIn(x) # {} /\ Rest(x) = r.body
  <1> DEFINE h == r.head
             b == r.body
  <1>1. /\ h \in Seq(Octets) /\ b \in Seq(Octets) /\ Len(h) \in Nat /\ Len(h) >= 4 /\ Len(b) \in Nat
        /\ Len(x) \in Nat /\ Len(w) \in Nat
    <2>1. h \in Seq(Octets) /\ b \in Seq(Octets) /\ Len(h) \in Nat /\ Len(h) >= 4 /\ Len(b) \in Nat
      BY HeadTypes
    <2>2. Len(x) \in Nat /\ Len(w) \in Nat
      BY LengthIsNatural, Zenon
    <2>. QED
      BY <2>1, <2>2
  <1>2. /\ Len(w) = Len(h) + Len(b) /\ Len(x) <= Len(w)
        /\ \A i \in 1 .. Len(h) : w[i] = h[i]
        /\ \A i \in 1 .. Len(b) : w[Len(h) + i] = b[i]
    OBVIOUS
  <1>3. /\ DelimitersIn(x) # {} <=> Len(x) >= Len(h)
        /\ DelimitersIn(x) # {} => First(x) = Len(h) - 4
    <2>1. Len(h) <= Len(w)
      BY <1>1, <1>2, Offsets, Zenon
    <2>2. Len(w) >= Len(h)
      BY <1>1, <2>1
    <2>. QED
      BY <2>2, FirstDelimiter DEF First
  <1> HIDE DEF h, b
  <1>4. /\ Len(x) - Len(h) <= Len(b)
        /\ \A i \in 1 .. Len(x) - Len(h) :
             (Len(h) + 1) + i - 1 = Len(h) + i /\ Len(h) + i \in 1 .. Len(x) /\ i \in 1 .. Len(b)
    BY <1>1, <1>2, Offsets, Zenon
  <1>5. ASSUME DelimitersIn(x) # {}
        PROVE  /\ Rest(x) \in Seq(Octets) /\ Len(Rest(x)) = Len(x) - Len(h)
               /\ \A i \in 1 .. Len(Rest(x)) : Rest(x)[i] = b[i]
    <2> DEFINE a == Len(h) + 1
               n == Len(x)
               u == SubSeq(x, a, n)
    <2>1. First(x) + 4 + 1 = a /\ Len(x) >= Len(h)
      BY <1>1, <1>3, <1>5
    <2>2. a \in 1 .. Len(x) + 1 /\ n \in a - 1 .. Len(x) /\ n - a + 1 = Len(x) - Len(h)
      BY <1>1, <2>1
    <2>5. ASSUME NEW i \in 1 .. Len(x) - Len(h)
          PROVE  x[a + i - 1] = b[i]
      <3>1. a + i - 1 = Len(h) + i /\ Len(h) + i \in 1 .. Len(x) /\ i \in 1 .. Len(b)
        BY <1>4, <2>5, Zenon
      <3> HIDE DEF a
      <3>. QED
        BY <1>1, <1>2, <3>1
    <2>4. Rest(x) = u
      BY <2>1 DEF Rest
    <2> HIDE DEF a, n
    <2>3. /\ u \in Seq(Octets) /\ Len(u) = n - a + 1
          /\ \A i \in 1 .. n - a + 1 : u[i] = x[a + i - 1]
      BY <2>2, Cuts
    <2> HIDE DEF u
    <2>. QED
      BY <2>2, <2>3, <2>4, <2>5
  <1>6. DelimitersIn(x) # {} => Len(Rest(x)) <= Len(b)
    BY <1>4, <1>5, Zenon
  <1>7. ASSUME Len(x) = Len(w)
        PROVE  DelimitersIn(x) # {} /\ Rest(x) = b
    <2>2. DelimitersIn(x) # {} /\ Len(x) - Len(h) = Len(b)
      BY <1>1, <1>2, <1>3, <1>7
    <2>. QED
      BY <1>1, <1>5, <2>2, SeqEqual
  <1>. QED
    BY <1>5, <1>6, <1>7 DEF b

(* Octets that are joined begin with the first of the two.                 *)
LEMMA Joined ==
  ASSUME NEW x \in Seq(Octets), NEW y \in Seq(Octets)
  PROVE  /\ x \o y \in Seq(Octets) /\ Len(x) <= Len(x \o y)
         /\ \A i \in 1 .. Len(x) : x[i] = (x \o y)[i]
         /\ y = <<>> => Len(x) = Len(x \o y)
  <1> DEFINE w == x \o y
  <1>1. Len(x) \in Nat /\ Len(y) \in Nat
    OBVIOUS
  <1>2. /\ w \in Seq(Octets) /\ Len(w) = Len(x) + Len(y)
        /\ \A i \in 1 .. Len(x) + Len(y) : w[i] = IF i <= Len(x) THEN x[i] ELSE y[i - Len(x)]
    BY ConcatProperties
  <1> HIDE DEF w
  <1>3. \A i \in 1 .. Len(x) : i \in 1 .. Len(x) + Len(y) /\ i <= Len(x)
    BY <1>1
  <1>4. y = <<>> => Len(y) = 0
    OBVIOUS
  <1>5. Len(x) <= Len(w) /\ (y = <<>> => Len(x) = Len(w))
    <2> DEFINE m == Len(w)
    <2>1. m = Len(x) + Len(y)
      BY <1>2
    <2> HIDE DEF m
    <2>2. Len(x) <= m /\ (Len(y) = 0 => Len(x) = m)
      BY <1>1, <2>1
    <2>. QED
      BY <1>4, <2>2 DEF m
  <1>. QED
    BY <1>2, <1>3, <1>5 DEF w

(* What is found behind the delimiter is the beginning of the body.        *)
LEMMA ReceivedPart ==
  ASSUME NEW r \in Responses, resp \in Seq(Octets), inflight \in Seq(Octets),
         resp \o inflight = r.head \o r.body
  PROVE  /\ Delimiters # {} => /\ ReceivedBody \in Seq(Octets) /\ Len(ReceivedBody) <= Len(r.body)
                               /\ \A i \in 1 .. Len(ReceivedBody) : ReceivedBody[i] = r.body[i]
         /\ inflight = <<>> => Delimiters # {} /\ ReceivedBody = r.body
  <1>1. Delimiters = DelimitersIn(resp) /\ ReceivedBody = Rest(resp)
    BY DEF Delimiters, ReceivedBody, HeaderLength, First, Rest
  <1>2. PICK w : w = resp \o inflight
    OBVIOUS
  <1>3. /\ w \in Seq(Octets) /\ Len(resp) <= Len(w)
        /\ \A i \in 1 .. Len(resp) : resp[i] = w[i]
        /\ inflight = <<>> => Len(resp) = Len(w)
    <2>1. /\ resp \o inflight \in Seq(Octets) /\ Len(resp) <= Len(resp \o inflight)
          /\ \A i \in 1 .. Len(resp) : resp[i] = (resp \o inflight)[i]
          /\ inflight = <<>> => Len(resp) = Len(resp \o inflight)
      BY Joined
    <2>. QED
      BY Zenon, <1>2, <2>1
  <1>4. /\ Len(w) = Len(r.head) + Len(r.body)
        /\ \A i \in 1 .. Len(r.head) : w[i] = r.head[i]
        /\ \A i \in 1 .. Len(r.body) : w[Len(r.head) + i] = r.body[i]
    <2>1. w = r.head \o r.body
      BY <1>2
    <2>. QED
      BY <2>1, HeadLength
  <1>5. /\ DelimitersIn(resp) # {} =>
             /\ Rest(resp) \in Seq(Octets) /\ Len(Rest(resp)) <= Len(r.body)
             /\ \A i \in 1 .. Len(Rest(resp)) : Rest(resp)[i] = r.body[i]
        /\ Len(resp) = Len(w) => DelimitersIn(resp) # {} /\ Rest(resp) = r.body
    BY <1>3, <1>4, PartReceived
  <1>. QED
    BY <1>1, <1>3, <1>5

-----------------------------------------------------------------------------
(* The response *)

(* What was received and what is under way make up the answer; where the   *)
(* client is tells what it knows of the part received.                     *)
Stream ==
  /\ resp \in Seq(Octets) /\ inflight \in Seq(Octets)
  /\ answer = <<>> \/ \E r \in Responses : answer = <<r>>
  /\ answer = <<>> => inflight = <<>> /\ resp = <<>>
  /\ answer # <<>> => resp \o inflight = answer[1].head \o answer[1].body

Reported == {"decoded", "no delimiter", "empty", "unparsed", "undecoded"}

Knows ==
  /\ pc \in Before \union {"connect", "send_head", "send_body", "receive"} => resp = <<>> /\ outcome = "none"
  /\ pc \in {"find", "parse", "decode"} => outcome = "none" /\ answer # <<>>
  /\ pc = "parse" => Delimiters # {} /\ ReceivedBody # <<>>
  /\ pc = "decode" => Delimiters # {} /\ OneElement(ReceivedBody)
  /\ outcome \in Reported => answer # <<>>
  /\ outcome = "decoded" => answer[1].message /\ Delimiters # {} /\ OneElement(ReceivedBody)
  /\ outcome \in Reported \ {"decoded"} /\ answer[1].message => inflight # <<>>

ResponseInv == Stream /\ Knows /\ pc \in Before \union After

(* If the element that has come is complete, so is the message; and all    *)
(* that comes is a complete element.                                       *)
LEMMA AMessageIsReceivedWhole ==
  ASSUME Stream, answer # <<>>, answer[1].message
  PROVE  /\ Delimiters # {} /\ OneElement(ReceivedBody) => ReceivedBody = answer[1].body
         /\ inflight = <<>> => Delimiters # {} /\ ReceivedBody # <<>> /\ OneElement(ReceivedBody)
  <1>1. PICK r \in Responses : answer[1] = r
    BY DEF Stream
  <1>2. /\ resp \in Seq(Octets) /\ inflight \in Seq(Octets) /\ resp \o inflight = r.head \o r.body
    BY <1>1 DEF Stream
  <1>3. OneElement(r.body) /\ r.body \in Seq(Octets) /\ Len(r.body) >= 2
    BY <1>1, ResponsesAssumption DEF OneElement
  <1>4. r.body # <<>>
    BY <1>3
  <1>5. ASSUME Delimiters # {}, OneElement(ReceivedBody)
        PROVE  ReceivedBody = r.body
    BY <1>2, <1>3, <1>5, ReceivedPart, ElementIsWhole
  <1>6. inflight = <<>> => Delimiters # {} /\ ReceivedBody = r.body
    BY <1>2, ReceivedPart
  <1>. QED
    BY <1>1, <1>3, <1>4, <1>5, <1>6

(* Nothing has been received initially.                                    *)
LEMMA ResponseInit == Init => ResponseInv
  <1> SUFFICES ASSUME Init PROVE ResponseInv
    OBVIOUS
  <1>1. <<>> \in Seq(Octets)
    OBVIOUS
  <1>. QED
    BY <1>1 DEF Init, ResponseInv, Stream, Knows, Reported, Before, After

(* Receiving keeps the stream.                                             *)
LEMMA ReceiveStep ==
  ASSUME ResponseInv, Receive
  PROVE  ResponseInv'
  <1>1. pc = "receive" /\ UNCHANGED answer /\ resp = <<>> /\ outcome = "none"
    BY DEF ResponseInv, Knows, Receive
  <1>2. ASSUME NEW n \in Deliverable, resp' = SubSeq(inflight, 1, n),
               inflight' = SubSeq(inflight, n + 1, Len(inflight)), pc' = "find", UNCHANGED outcome
        PROVE  ResponseInv'
    <2>1. inflight \in Seq(Octets) /\ Len(inflight) \in Nat /\ n \in Nat /\ 1 <= n /\ n <= Len(inflight)
      <3>1. inflight \in Seq(Octets) /\ Len(inflight) \in Nat
        BY DEF ResponseInv, Stream
      <3>. QED
        BY <3>1, CmpClientAssumption DEF Deliverable, Min2
    <2>2. answer # <<>>
      BY <2>1 DEF ResponseInv, Stream
    <2>3. resp' \in Seq(Octets) /\ inflight' \in Seq(Octets) /\ resp' \o inflight' = inflight
      <3> DEFINE L == Len(inflight)
                 u == SubSeq(inflight, 1, n)
                 v == SubSeq(inflight, n + 1, L)
                 w == u \o v
      <3>1. /\ u \in Seq(Octets) /\ Len(u) = n /\ \A i \in 1 .. n : u[i] = inflight[i]
        <4>1. 1 \in 1 .. L + 1 /\ n \in 1 - 1 .. L /\ n - 1 + 1 = n /\ \A i \in 1 .. n : 1 + i - 1 = i
          BY <2>1
        <4>2. /\ u \in Seq(Octets) /\ Len(u) = n - 1 + 1 /\ \A i \in 1 .. n - 1 + 1 : u[i] = inflight[1 + i - 1]
          BY <2>1, <4>1, Cuts
        <4> HIDE DEF u
        <4>. QED
          BY <4>1, <4>2
      <3>2. /\ v \in Seq(Octets) /\ Len(v) = L - n /\ \A i \in 1 .. L - n : v[i] = inflight[n + i]
        <4> DEFINE a == n + 1
        <4>1. a \in 1 .. L + 1 /\ L \in a - 1 .. L /\ L - a + 1 = L - n /\ \A i \in 1 .. L - n : a + i - 1 = n + i
          BY <2>1
        <4> HIDE DEF a
        <4>2. SubSeq(inflight, a, L) = v
          BY DEF a
        <4> HIDE DEF v
        <4>3. /\ v \in Seq(Octets) /\ Len(v) = L - a + 1 /\ \A i \in 1 .. L - a + 1 : v[i] = inflight[a + i - 1]
          BY <2>1, <4>1, <4>2, Cuts
        <4>. QED
          BY <4>1, <4>3
      <3> HIDE DEF u, v
      <3>3. /\ w \in Seq(Octets) /\ Len(w) = Len(u) + Len(v)
            /\ \A i \in 1 .. Len(u) + Len(v) : w[i] = IF i <= Len(u) THEN u[i] ELSE v[i - Len(u)]
        BY <3>1, <3>2, ConcatProperties
      <3> HIDE DEF w
      <3>4. Len(w) = L
        BY <2>1, <3>1, <3>2, <3>3
      <3>5. ASSUME NEW i \in 1 .. L
            PROVE  w[i] = inflight[i]
        <4>1. CASE i <= n
          BY <2>1, <3>1, <3>2, <3>3, <4>1
        <4>2. CASE i > n
          <5>1. i - n \in 1 .. L - n /\ n + (i - n) = i /\ ~(i <= n)
            BY <2>1, <4>2
          <5>. QED
            BY <2>1, <3>1, <3>2, <3>3, <3>4, <5>1
        <4>. QED
          BY <2>1, <4>1, <4>2
      <3>6. w = inflight
        BY <2>1, <3>3, <3>4, <3>5, SeqEqual
      <3>. QED
        BY <1>2, <3>1, <3>2, <3>6 DEF u, v, w
    <2>4. <<>> \o inflight = inflight
      BY <2>1, ConcatEmptySeq
    <2>5. Stream'
      BY <1>1, <2>2, <2>3, <2>4 DEF ResponseInv, Stream
    <2>6. Knows' /\ pc' \in Before \union After
      BY <1>1, <1>2, <2>2 DEF Knows, Reported, Before, After
    <2>. QED
      BY <2>5, <2>6 DEF ResponseInv
  <1>3. CASE outcome' \in {"no data", "receive error"} /\ pc' = "close" /\ UNCHANGED <<resp, inflight>>
    BY <1>1, <1>3 DEF ResponseInv, Stream, Knows, Reported, Before, After
  <1>. QED
    BY <1>2, <1>3 DEF Receive, Goto

(* Every step keeps what is known of the answer.                           *)
LEMMA ResponseStep == ResponseInv /\ [Next]_vars => ResponseInv'
  <1> SUFFICES ASSUME ResponseInv, [Next]_vars
               PROVE  ResponseInv'
    OBVIOUS
  <1> USE DEF Before, After
  <1>1. ASSUME UNCHANGED <<server, resp, outcome>>,
               \/ pc \in Before /\ pc' \in Before \union {"connect", "failed"}
               \/ pc = "connect" /\ pc' \in {"send_head", "failed"}
               \/ pc = "send_head" /\ pc' \in {"send_body", "killed"}
               \/ pc = "send_body" /\ pc' \in {"receive", "killed"}
               \/ pc = "close" /\ pc' = "done"
               \/ pc' = pc
        PROVE  ResponseInv'
    <2>1. UNCHANGED <<answer, inflight, resp, outcome>> /\ Delimiters' = Delimiters /\ ReceivedBody' = ReceivedBody
      BY <1>1 DEF server, Delimiters, ReceivedBody, HeaderLength
    <2>2. Stream'
      BY <2>1 DEF ResponseInv, Stream
    <2>3. Knows'
      BY <1>1, <2>1 DEF ResponseInv, Knows, Reported
    <2>. QED
      BY <1>1, <2>2, <2>3 DEF ResponseInv
  <1>2. CASE DeriveKey \/ BuildMessage \/ HydrateCsr \/ ProtectHeader \/ ProtectBody \/ ComputeMac \/ EncodeMessage
    BY <1>1, <1>2 DEF DeriveKey, BuildMessage, HydrateCsr, ProtectHeader, ProtectBody, ComputeMac, EncodeMessage,
                      Goto, Exit
  <1>3. CASE Connect \/ SendHead \/ SendBody \/ Close \/ UNCHANGED vars
    BY <1>1, <1>3 DEF Connect, SendHead, SendBody, Close, Goto, Exit, vars
  <1>4. CASE Receive
    BY <1>4, ReceiveStep
  <1>5. ASSUME UNCHANGED <<server, resp>>
        PROVE  /\ UNCHANGED <<answer, inflight, resp>>
               /\ Delimiters' = Delimiters /\ ReceivedBody' = ReceivedBody /\ Stream'
    <2>1. UNCHANGED <<answer, inflight, resp>>
      BY <1>5 DEF server
    <2>. QED
      BY <2>1 DEF ResponseInv, Stream, Delimiters, ReceivedBody, HeaderLength
  <1>6. CASE FindBody
    <2>1. pc = "find" /\ outcome = "none" /\ answer # <<>> /\ Stream
      BY <1>6 DEF FindBody, ResponseInv, Knows
    <2>2. /\ UNCHANGED <<answer, inflight, resp>>
          /\ Delimiters' = Delimiters /\ ReceivedBody' = ReceivedBody /\ Stream'
      BY <1>5, <1>6 DEF FindBody
    <2>3. Delimiters = {} \/ ReceivedBody = <<>> => (answer[1].message => inflight # <<>>)
      BY <2>1, AMessageIsReceivedWhole
    <2>4. Knows' /\ pc' \in Before \union After
      BY <1>6, <2>1, <2>2, <2>3 DEF FindBody, Knows, Report, Goto, Reported
    <2>. QED
      BY <2>2, <2>4 DEF ResponseInv
  <1>7. CASE ParseBody
    <2>1. pc = "parse" /\ outcome = "none" /\ answer # <<>> /\ Stream /\ Delimiters # {}
      BY <1>7 DEF ParseBody, ResponseInv, Knows
    <2>2. /\ UNCHANGED <<answer, inflight, resp>>
          /\ Delimiters' = Delimiters /\ ReceivedBody' = ReceivedBody /\ Stream'
      BY <1>5, <1>7 DEF ParseBody
    <2>3. ~(OneElement(ReceivedBody) /\ answer[1].message) => (answer[1].message => inflight # <<>>)
      BY <2>1, AMessageIsReceivedWhole
    <2>4. Knows' /\ pc' \in Before \union After
      BY <1>7, <2>1, <2>2, <2>3 DEF ParseBody, Knows, Report, Goto, Reported
    <2>. QED
      BY <2>2, <2>4 DEF ResponseInv
  <1>8. CASE DecodeBody
    <2>1. pc = "decode" /\ outcome = "none" /\ answer # <<>> /\ Stream /\ Delimiters # {} /\ OneElement(ReceivedBody)
      BY <1>8 DEF DecodeBody, ResponseInv, Knows
    <2>2. /\ UNCHANGED <<answer, inflight, resp>>
          /\ Delimiters' = Delimiters /\ ReceivedBody' = ReceivedBody /\ Stream'
      BY <1>5, <1>8 DEF DecodeBody
    <2>3. Knows' /\ pc' \in Before \union After
      BY <1>8, <2>1, <2>2 DEF DecodeBody, Knows, Report, Goto, Reported
    <2>. QED
      BY <2>2, <2>3 DEF ResponseInv
  <1>9. CASE ServerAnswers
    <2>1. /\ Connected /\ answer = <<>> /\ resp = <<>> /\ outcome = "none" /\ UNCHANGED <<pc, resp, outcome>>
      BY <1>9 DEF ServerAnswers, Connected, ResponseInv, Knows
    <2>2. PICK r \in Responses : answer' = <<r>> /\ inflight' = r.head \o r.body
      BY <1>9 DEF ServerAnswers
    <2>0. <<>> \in Seq(Octets)
      OBVIOUS
    <2>3. r.head \o r.body \in Seq(Octets) /\ <<>> \in Seq(Octets)
      BY <2>0, HeadLength
    <2>4. <<>> \o (r.head \o r.body) = r.head \o r.body
      BY <2>3, ConcatEmptySeq
    <2>5. Stream'
      BY <2>1, <2>2, <2>3, <2>4 DEF Stream
    <2>6. Knows' /\ pc' \in Before \union After
      BY <2>1 DEF Connected, Knows, ResponseInv, Reported
    <2>. QED
      BY <2>5, <2>6 DEF ResponseInv
  <1>10. CASE ServerCloses
    <2>1. UNCHANGED <<pc, answer, inflight, resp, outcome>>
      BY <1>10 DEF ServerCloses
    <2>2. Delimiters' = Delimiters /\ ReceivedBody' = ReceivedBody
      BY <2>1 DEF Delimiters, ReceivedBody, HeaderLength
    <2>. QED
      BY <2>1, <2>2 DEF ResponseInv, Stream, Knows
  <1>. QED
    BY <1>2, <1>3, <1>4, <1>6, <1>7, <1>8, <1>9, <1>10 DEF Next, Client, Server

(* However an answer is cut, a message is reported as decoded only if it   *)
(* is the whole message that the server sent, and only octets that one     *)
(* recv did not return keep it from being decoded (c99_client.c:481-545).  *)
THEOREM AnswerIsReported == Spec => []ReportsTheAnswer
  <1>1. ResponseInv => ReportsTheAnswer
    <2> SUFFICES ASSUME ResponseInv
                 PROVE  ReportsTheAnswer
      OBVIOUS
    <2>1. outcome = "decoded" => answer[1].message /\ ReceivedBody = answer[1].body
      BY AMessageIsReceivedWhole DEF ResponseInv, Knows, Reported
    <2>2. outcome \in {"no delimiter", "empty", "unparsed", "undecoded"} /\ answer[1].message => inflight # <<>>
      BY DEF ResponseInv, Knows, Reported
    <2>. QED
      BY <2>1, <2>2 DEF ReportsTheAnswer
  <1>. QED
    BY ResponseInit, ResponseStep, <1>1, PTL DEF Spec

-----------------------------------------------------------------------------
(* Blocks and the states after them *)

(* The recursive definition of Compressed defines a function.              *)
LEMMA CompressedSteps ==
  ASSUME NEW st, NEW s, Whole(s) \in Nat
  PROVE  /\ Compressed(st, s)[0] = st
         /\ \A i \in 1 .. Whole(s) : Compressed(st, s)[i] = Compress(Compressed(st, s)[i - 1], BlockOf(s, i))
  <1> DEFINE n == Whole(s)
             Chain(f, m) == f = [i \in 0 .. m |-> IF i = 0 THEN st ELSE Compress(f[i - 1], BlockOf(s, i))]
             Good == {m \in 0 .. n : \E f : Chain(f, m)}
  <1>0. n \in Nat
    OBVIOUS
  <1> HIDE DEF n
  <1>1. 0 \in Good
    <2>1. Chain([i \in 0 .. 0 |-> st], 0)
      OBVIOUS
    <2>2. 0 \in 0 .. n
      BY <1>0
    <2> HIDE DEF Chain
    <2>3. \E f : Chain(f, 0)
      BY <2>1, Zenon
    <2>. QED
      BY <2>2, <2>3
  <1>2. ASSUME NEW m \in 0 .. n - 1, m \in Good
        PROVE  m + 1 \in Good
    <2>0. m \in Nat /\ m + 1 \in 0 .. n
      BY <1>0
    <2>1. PICK f : Chain(f, m)
      BY <1>2
    <2> DEFINE g == [i \in 0 .. m + 1 |-> IF i = m + 1 THEN Compress(f[m], BlockOf(s, m + 1)) ELSE f[i]]
    <2>2. \A i \in 0 .. m : g[i] = f[i]
      BY <2>0
    <2>3. g[m + 1] = Compress(f[m], BlockOf(s, m + 1))
      BY <2>0
    <2>4. g = [i \in 0 .. m + 1 |-> g[i]]
      OBVIOUS
    <2> HIDE DEF g
    <2>5. \A i \in 0 .. m : f[i] = IF i = 0 THEN st ELSE Compress(f[i - 1], BlockOf(s, i))
      BY <2>1
    <2>6. ASSUME NEW i \in 0 .. m + 1
          PROVE  g[i] = IF i = 0 THEN st ELSE Compress(g[i - 1], BlockOf(s, i))
      <3>1. CASE i = m + 1
        <4>1. i # 0 /\ i - 1 = m /\ m \in 0 .. m
          BY <2>0, <3>1
        <4>. QED
          BY <2>2, <2>3, <3>1, <4>1
      <3>2. CASE i = 0
        BY <2>0, <2>2, <2>5, <3>2
      <3>3. CASE i \in 1 .. m
        <4>1. i \in 0 .. m /\ i - 1 \in 0 .. m /\ i # 0
          BY <2>0, <3>3
        <4>. QED
          BY <2>2, <2>5, <4>1
      <3>. QED
        BY <2>0, <3>1, <3>2, <3>3
    <2>7. Chain(g, m + 1)
      BY <2>4, <2>6, Zenon
    <2>. QED
      BY <2>0, <2>7
  <1>3. n \in Good
    <2> HIDE DEF Good
    <2>1. 0 .. n \subseteq Good
      BY <1>0, <1>1, <1>2, UpTo
    <2>. QED
      BY <1>0, <2>1
  <1>4. \E f : Chain(f, n)
    BY <1>3
  <1>5. Compressed(st, s) = CHOOSE f : Chain(f, n)
    BY DEF Compressed, n
  <1>6. Chain(Compressed(st, s), n)
    <2> HIDE DEF Chain
    <2>. QED
      BY <1>4, <1>5, Zenon
  <1>. QED
    <2> DEFINE c == Compressed(st, s)
    <2>1. Chain(c, n)
      BY <1>6
    <2> HIDE DEF c
    <2>2. \A i \in 0 .. n : c[i] = IF i = 0 THEN st ELSE Compress(c[i - 1], BlockOf(s, i))
      BY <2>1, Zenon
    <2>3. 0 \in 0 .. n /\ \A i \in 1 .. n : i \in 0 .. n /\ i # 0
      BY <1>0
    <2>. QED
      BY <2>2, <2>3, Zenon DEF c, n

(* Sequences that have their blocks in common from some block on.          *)
LEMMA SameBlocks ==
  ASSUME NEW s, NEW t, Whole(s) \in Nat, Whole(t) \in Nat, NEW u,
         NEW n \in 0 .. Whole(s), NEW k \in Nat, k + n <= Whole(t),
         \A i \in 1 .. n : BlockOf(s, i) = BlockOf(t, k + i)
  PROVE  Compressed(Compressed(u, t)[k], s)[n] = Compressed(u, t)[k + n]
  <1> DEFINE c == Compressed(u, t)
             d == Compressed(c[k], s)
             Good == {i \in 0 .. n : d[i] = c[k + i]}
  <1>1. d[0] = c[k] /\ \A i \in 1 .. Whole(s) : d[i] = Compress(d[i - 1], BlockOf(s, i))
    BY CompressedSteps
  <1>2. \A i \in 1 .. Whole(t) : c[i] = Compress(c[i - 1], BlockOf(t, i))
    BY CompressedSteps
  <1> HIDE DEF d, c
  <1>3. 0 \in Good
    BY <1>1
  <1>4. ASSUME NEW i \in 0 .. n - 1, i \in Good
        PROVE  i + 1 \in Good
    <2>1. /\ i + 1 \in 1 .. n /\ i + 1 \in 1 .. Whole(s) /\ (i + 1) - 1 = i
          /\ k + (i + 1) \in 1 .. Whole(t) /\ (k + (i + 1)) - 1 = k + i
      OBVIOUS
    <2>2. d[i + 1] = Compress(d[i], BlockOf(s, i + 1))
      BY <1>1, <2>1
    <2>3. c[k + (i + 1)] = Compress(c[k + i], BlockOf(t, k + (i + 1)))
      BY <1>2, <2>1
    <2>4. BlockOf(s, i + 1) = BlockOf(t, k + (i + 1))
      BY <2>1
    <2>5. d[i] = c[k + i]
      BY <1>4
    <2>6. d[i + 1] = c[k + (i + 1)]
      BY <2>2, <2>3, <2>4, <2>5, Zenon
    <2>. QED
      BY <2>1, <2>6
  <1>5. n \in Good
    <2>0. n \in Nat
      OBVIOUS
    <2> HIDE DEF Good
    <2>1. 0 .. n \subseteq Good
      BY <1>3, <1>4, <2>0, UpTo
    <2>. QED
      BY <2>0, <2>1
  <1>. QED
    BY <1>5 DEF c, d

(* The whole blocks of a message are no longer than it.                    *)
LEMMA WholeBlocks ==
  ASSUME NEW S, NEW s \in Seq(S)
  PROVE  /\ Whole(s) \in Nat /\ Whole(s) * Block <= Len(s) /\ Len(s) < Whole(s) * Block + Block
         /\ \A w \in Nat : w * Block <= Len(s) /\ Len(s) < w * Block + Block => Whole(s) = w
  <1>1. Block \in Nat \ {0} /\ Len(s) \in Nat
    BY Sha256Assumption
  <1>. QED
    BY <1>1, Division, Quotient DEF Whole

(* The block before octet a + Block.                                       *)
LEMMA BlockFacts ==
  ASSUME NEW S, NEW s \in Seq(S), NEW i \in Nat \ {0}, i * Block <= Len(s)
  PROVE  /\ BlockOf(s, i) \in Seq(S) /\ Len(BlockOf(s, i)) = Block
         /\ \A j \in 1 .. Block : BlockOf(s, i)[j] = s[(i - 1) * Block + j]
  <1> DEFINE a == (i - 1) * Block
             b == i * Block
             L == Len(s)
             B == Block
  <1>1. B \in Nat /\ L \in Nat /\ a \in Nat /\ b = a + B /\ b <= L
    <2>1. Block \in Nat /\ i - 1 \in Nat /\ 1 \in Nat /\ i = (i - 1) + 1
      BY Sha256Assumption
    <2>2. PICK h \in Nat : h = i - 1 /\ i = h + 1
      BY <2>1
    <2>3. h * Block \in Nat /\ (h + 1) * Block = h * Block + 1 * Block /\ 1 * Block = Block
      BY <2>1, Multiples
    <2>4. a = h * Block /\ b = h * Block + Block
      BY <2>2, <2>3
    <2>. QED
      BY <2>1, <2>3, <2>4
  <1>2. BlockOf(s, i) = SubSeq(s, a + 1, b)
    BY DEF BlockOf
  <1> HIDE DEF a, b, B
  <1>3. \A j \in a + 1 .. b : s[j] \in S
    <2>1. \A j \in a + 1 .. b : j \in 1 .. Len(s)
      BY <1>1
    <2>. QED
      BY <2>1, ElementOfSeq
  <1> HIDE DEF L
  <1>4. a + 1 \in Int /\ b \in Int /\ (IF a + 1 <= b THEN b - (a + 1) + 1 ELSE 0) = B
        /\ \A j \in 1 .. B : j \in 1 .. b - (a + 1) + 1 /\ (a + 1) + j - 1 = a + j
    BY <1>1
  <1>5. /\ SubSeq(s, a + 1, b) \in Seq(S) /\ Len(SubSeq(s, a + 1, b)) = B
        /\ \A j \in 1 .. b - (a + 1) + 1 : SubSeq(s, a + 1, b)[j] = s[(a + 1) + j - 1]
    BY <1>1, <1>3, <1>4, SubSeqProperties
  <1>. QED
    BY <1>2, <1>4, <1>5 DEF a, B

(* A part of t that begins after whole blocks has blocks of t.             *)
LEMMA ShiftedBlocks ==
  ASSUME NEW S, NEW s \in Seq(S), NEW t \in Seq(S), NEW k \in Nat,
         k * Block + Len(s) <= Len(t), \A j \in 1 .. Len(s) : s[j] = t[k * Block + j]
  PROVE  /\ k + Whole(s) <= Whole(t)
         /\ \A i \in 1 .. Whole(s) : BlockOf(s, i) = BlockOf(t, k + i)
  <1> DEFINE v == Whole(s)
             w == Whole(t)
             p == k * Block
             ls == Len(s)
             lt == Len(t)
  <1>1. /\ v \in Nat /\ v * Block <= ls /\ w \in Nat /\ lt < w * Block + Block
        /\ ls \in Nat /\ lt \in Nat /\ Block \in Nat /\ p \in Nat /\ p + ls <= lt
    BY WholeBlocks, Sha256Assumption
  <1>2. (k + v) * Block = p + v * Block /\ v * Block \in Nat /\ w * Block \in Nat
    BY <1>1, Multiples
  <1>3. k + v <= w
    <2>1. w < k + v => w * Block + Block <= (k + v) * Block
      <3>1. k + v \in Nat
        BY <1>1
      <3> HIDE DEF v, w
      <3>. QED
        BY <1>1, <3>1, Multiples
    <2> HIDE DEF v, w, p, ls, lt
    <2>. QED
      BY <1>1, <1>2, <2>1
  <1>4. ASSUME NEW i \in 1 .. v
        PROVE  BlockOf(s, i) = BlockOf(t, k + i)
    <2> DEFINE h == i - 1
               q == h * Block
    <2>1. h \in Nat /\ i = h + 1 /\ i \in Nat \ {0} /\ k + i \in Nat \ {0} /\ (k + i) - 1 = k + h /\ i <= v
      BY <1>1
    <2>2. q \in Nat /\ (k + h) * Block = p + q
      BY <1>1, <2>1, Multiples
    <2>3. i * Block <= ls /\ i * Block = q + Block
      <3>1. i < v => i * Block + Block <= v * Block
        BY <1>1, <2>1, Multiples
      <3>2. i * Block \in Nat
        BY <1>1, <2>1, Multiples
      <3>3. i * Block = q + Block
        <4>1. (h + 1) * Block = h * Block + 1 * Block /\ 1 * Block = Block
          BY <1>1, <2>1, Multiples
        <4>. QED
          BY <2>1, <4>1
      <3>4. i = v => i * Block = v * Block
        OBVIOUS
      <3> DEFINE x == i * Block
                 y == v * Block
      <3>5. /\ i < v => x + Block <= y
            /\ i = v => x = y
            /\ x \in Nat /\ y \in Nat /\ y <= ls /\ ls \in Nat /\ Block \in Nat /\ i \in Nat /\ v \in Nat /\ i <= v
        BY <1>1, <1>2, <2>1, <3>1, <3>2, <3>4
      <3> HIDE DEF x, y, ls, v, q, h
      <3>6. x <= ls
        BY <3>5
      <3>. QED
        BY <3>3, <3>6 DEF x
    <2>4. (k + i) * Block <= lt
      <3>1. (k + i) * Block = p + i * Block /\ i * Block \in Nat
        BY <1>1, <2>1, Multiples
      <3> HIDE DEF p, ls, lt
      <3>. QED
        BY <1>1, <2>3, <3>1
    <2>5. /\ BlockOf(s, i) \in Seq(S) /\ Len(BlockOf(s, i)) = Block
          /\ \A j \in 1 .. Block : BlockOf(s, i)[j] = s[q + j]
      <3>1. i * Block <= Len(s) /\ i \in Nat \ {0} /\ h = i - 1
        BY <2>1, <2>3
      <3> HIDE DEF h
      <3>2. /\ BlockOf(s, i) \in Seq(S) /\ Len(BlockOf(s, i)) = Block
            /\ \A j \in 1 .. Block : BlockOf(s, i)[j] = s[(i - 1) * Block + j]
        BY <3>1, BlockFacts
      <3>. QED
        BY <3>1, <3>2 DEF q
    <2>6. /\ BlockOf(t, k + i) \in Seq(S) /\ Len(BlockOf(t, k + i)) = Block
          /\ \A j \in 1 .. Block : BlockOf(t, k + i)[j] = t[(p + q) + j]
      <3>1. /\ BlockOf(t, k + i) \in Seq(S) /\ Len(BlockOf(t, k + i)) = Block
            /\ \A j \in 1 .. Block : BlockOf(t, k + i)[j] = t[((k + i) - 1) * Block + j]
        BY <2>1, <2>4, BlockFacts
      <3>2. ((k + i) - 1) * Block = p + q
        BY <2>1, <2>2
      <3> HIDE DEF p, q
      <3>. QED
        BY <3>1, <3>2
    <2> DEFINE x == BlockOf(s, i)
               y == BlockOf(t, k + i)
    <2>7. \A j \in 1 .. Block : x[j] = y[j]
      <3>1. ASSUME NEW j \in 1 .. Block
            PROVE  s[q + j] = t[(p + q) + j]
        <4>1. q + j \in 1 .. ls /\ p + (q + j) = (p + q) + j
          <5> HIDE DEF q, p, ls
          <5>. QED
            BY <1>1, <2>2, <2>3
        <4>. QED
          BY <4>1
      <3> HIDE DEF p, q
      <3>. QED
        BY <2>5, <2>6, <3>1
    <2> HIDE DEF x, y
    <2>. QED
      BY <2>5, <2>6, <2>7, SeqEqual DEF x, y
  <1>. QED
    BY <1>3, <1>4

(* Blocks are compressed one after the other.                              *)
LEMMA ChainedBlocks ==
  ASSUME NEW S, NEW s \in Seq(S), NEW t \in Seq(S), NEW k \in Nat, NEW u,
         k * Block + Len(s) <= Len(t), \A j \in 1 .. Len(s) : s[j] = t[k * Block + j]
  PROVE  Compressed(Compressed(u, t)[k], s)[Whole(s)] = Compressed(u, t)[k + Whole(s)]
  <1>1. /\ k + Whole(s) <= Whole(t)
        /\ \A i \in 1 .. Whole(s) : BlockOf(s, i) = BlockOf(t, k + i)
    BY ShiftedBlocks
  <1>2. Whole(s) \in Nat /\ Whole(t) \in Nat /\ Whole(s) \in 0 .. Whole(s)
    BY WholeBlocks
  <1>. QED
    BY <1>1, <1>2, SameBlocks

(* The whole blocks of a prefix.                                           *)
LEMMA PrefixBlocks ==
  ASSUME NEW S, NEW s \in Seq(S), NEW t \in Seq(S), NEW u,
         Len(s) <= Len(t), \A j \in 1 .. Len(s) : s[j] = t[j]
  PROVE  Compressed(u, s)[Whole(s)] = Compressed(u, t)[Whole(s)]
  <1>1. 0 * Block = 0 /\ Len(s) \in Nat /\ Len(t) \in Nat
    BY Sha256Assumption
  <1>2. 0 * Block + Len(s) <= Len(t) /\ \A j \in 1 .. Len(s) : s[j] = t[0 * Block + j]
    BY <1>1
  <1>3. Compressed(Compressed(u, t)[0], s)[Whole(s)] = Compressed(u, t)[0 + Whole(s)]
    BY <1>2, ChainedBlocks
  <1>4. Compressed(u, t)[0] = u /\ 0 + Whole(s) = Whole(s)
    BY WholeBlocks, CompressedSteps
  <1>. QED
    BY <1>3, <1>4

(* A context that has taken the octets of m.                               *)
Absorbed(ctx, m) ==
  /\ Len(ctx.data) = Len(m) - Whole(m) * Block
  /\ \A j \in 1 .. Len(ctx.data) : ctx.data[j] = m[Whole(m) * Block + j]
  /\ ctx.bitlen = 8 * (Whole(m) * Block)
  /\ ctx.state = Compressed(InitialState, m)[Whole(m)]

(* A new context has absorbed nothing.                                     *)
LEMMA InitAbsorbed ==
  ASSUME NEW S
  PROVE  Absorbed(Sha256Init, <<>>) /\ Sha256Init.data \in Seq(S)
  <1>1. Whole(<<>>) = 0
    <2>1. <<>> \in Seq({}) /\ Len(<<>>) = 0 /\ 0 \in Nat /\ 0 * Block <= 0 /\ 0 < 0 * Block + Block
      BY Sha256Assumption
    <2>2. PICK e : e = <<>>
      OBVIOUS
    <2>3. e \in Seq({}) /\ 0 * Block <= Len(e) /\ Len(e) < 0 * Block + Block
      BY <2>1, <2>2
    <2>4. Whole(e) = 0
      BY <2>1, <2>3, WholeBlocks
    <2>. QED
      BY <2>2, <2>4
  <1>2. Compressed(InitialState, <<>>)[0] = InitialState
    BY <1>1, CompressedSteps
  <1>3. 0 * Block = 0
    BY Sha256Assumption
  <1>. QED
    BY <1>1, <1>2, <1>3 DEF Absorbed, Sha256Init

(* sha256_update absorbs what it is fed.                                   *)
LEMMA UpdateAbsorbs ==
  ASSUME NEW S, NEW m \in Seq(S), NEW o \in Seq(S), NEW ctx, ctx.data \in Seq(S), Absorbed(ctx, m)
  PROVE  Absorbed(Sha256Update(ctx, o), m \o o) /\ Sha256Update(ctx, o).data \in Seq(S)
  <1> DEFINE d == ctx.data
             w == Whole(m)
             p == w * Block
  <1>1. PICK held : held = d \o o
    OBVIOUS
  <1>2. PICK t : t = m \o o
    OBVIOUS
  <1>3. /\ held \in Seq(S) /\ Len(held) = Len(d) + Len(o)
        /\ \A j \in 1 .. Len(d) + Len(o) : held[j] = IF j <= Len(d) THEN d[j] ELSE o[j - Len(d)]
    BY <1>1, ConcatProperties
  <1>4. /\ t \in Seq(S) /\ Len(t) = Len(m) + Len(o)
        /\ \A j \in 1 .. Len(m) + Len(o) : t[j] = IF j <= Len(m) THEN m[j] ELSE o[j - Len(m)]
    BY <1>2, ConcatProperties
  <1> DEFINE v == Whole(held)
             rest == v * Block
  <1>5. Sha256Update(ctx, o) =
          [data |-> SubSeq(held, rest + 1, Len(held)), bitlen |-> ctx.bitlen + 8 * rest,
           state |-> Compressed(ctx.state, held)[v]]
    BY <1>1, Zenon DEF Sha256Update
  <1>6. /\ w \in Nat /\ p <= Len(m) /\ Len(m) < p + Block
        /\ v \in Nat /\ rest <= Len(held) /\ Len(held) < rest + Block
        /\ Block \in Nat /\ Block > 0 /\ p \in Nat /\ rest \in Nat
        /\ Len(m) \in Nat /\ Len(o) \in Nat /\ Len(d) \in Nat
    <2>1. Block \in Nat /\ Block > 0 /\ Len(m) \in Nat /\ Len(o) \in Nat /\ Len(d) \in Nat
      BY Sha256Assumption
    <2>2. w \in Nat /\ p <= Len(m) /\ Len(m) < p + Block
      BY WholeBlocks
    <2>3. v \in Nat /\ rest <= Len(held) /\ Len(held) < rest + Block
      BY <1>3, WholeBlocks
    <2>4. p \in Nat /\ rest \in Nat
      BY <2>1, <2>2, <2>3, Multiples
    <2>. QED
      BY <2>1, <2>2, <2>3, <2>4
  <1>7. /\ Len(d) = Len(m) - p /\ \A j \in 1 .. Len(d) : d[j] = m[p + j]
        /\ ctx.bitlen = 8 * p /\ ctx.state = Compressed(InitialState, m)[w]
    BY DEF Absorbed
  <1>8. (w + v) * Block = p + rest /\ w + v \in Nat
    BY <1>6, Multiples, SMTT(30)
  <1> HIDE DEF d, p, rest
  <1>9. p + Len(held) = Len(t) /\ Len(held) \in Nat /\ Len(t) \in Nat
    BY <1>3, <1>4, <1>6, <1>7
  <1>10. Whole(t) = w + v
    <2>1. (w + v) * Block <= Len(t) /\ Len(t) < (w + v) * Block + Block
      <3> DEFINE x == (w + v) * Block
      <3>1. x = p + rest
        BY <1>8
      <3> HIDE DEF x, w, v
      <3>2. x <= Len(t) /\ Len(t) < x + Block
        BY <1>6, <1>9, <3>1
      <3>. QED
        BY <3>2 DEF x
    <2>. QED
      BY <1>4, <1>8, <2>1, WholeBlocks
  <1>11. ASSUME NEW j \in 1 .. Len(held)
         PROVE  held[j] = t[p + j]
    <2>0. j \in 1 .. Len(d) + Len(o) /\ p + j \in 1 .. Len(m) + Len(o) /\ j \in Nat
      BY <1>3, <1>4, <1>6, <1>9
    <2>1. CASE j <= Len(d)
      <3>1. j \in 1 .. Len(d) /\ p + j <= Len(m)
        BY <1>6, <1>7, <2>0, <2>1
      <3>. QED
        <4>1. held[j] = d[j]
          BY <1>3, <2>0, <2>1
        <4>2. d[j] = m[p + j]
          BY <1>7, <3>1
        <4>3. t[p + j] = m[p + j]
          BY <1>4, <2>0, <3>1
        <4>. QED
          BY <4>1, <4>2, <4>3
    <2>2. CASE ~(j <= Len(d))
      <3>1. ~(p + j <= Len(m)) /\ (p + j) - Len(m) = j - Len(d)
        BY <1>6, <1>7, <2>0, <2>2
      <3>2. held[j] = o[j - Len(d)]
        BY <1>3, <2>0, <2>2
      <3>3. t[p + j] = o[(p + j) - Len(m)]
        BY <1>4, <2>0, <3>1
      <3>. QED
        <4> DEFINE x == j - Len(d)
                   y == (p + j) - Len(m)
        <4>1. held[j] = o[x] /\ t[p + j] = o[y] /\ y = x
          BY <3>1, <3>2, <3>3
        <4> HIDE DEF x, y
        <4>. QED
          BY <4>1
    <2>. QED
      BY <2>1, <2>2
  <1>12. Compressed(InitialState, m)[w] = Compressed(InitialState, t)[w]
    <2>1. Len(m) <= Len(t)
      BY <1>4, <1>6
    <2>2. \A j \in 1 .. Len(m) : m[j] = t[j]
      <3>1. \A j \in 1 .. Len(m) : j \in 1 .. Len(m) + Len(o) /\ j <= Len(m)
        BY <1>6
      <3>. QED
        BY <1>4, <3>1
    <2>. QED
      BY <1>4, <2>1, <2>2, PrefixBlocks
  <1>13. Compressed(ctx.state, held)[v] = Compressed(InitialState, t)[w + v]
    <2>1. p + Len(held) <= Len(t)
      BY <1>9
    <2>2. Compressed(Compressed(InitialState, t)[w], held)[v] = Compressed(InitialState, t)[w + v]
      <3>1. /\ held \in Seq(S) /\ t \in Seq(S) /\ w \in Nat
            /\ w * Block + Len(held) <= Len(t)
            /\ \A j \in 1 .. Len(held) : held[j] = t[w * Block + j]
        BY <1>3, <1>4, <1>6, <1>11, <2>1 DEF p
      <3> HIDE DEF w
      <3>. QED
        BY <3>1, ChainedBlocks
    <2>. QED
      BY <1>7, <1>12, <2>2
  <1>14. /\ SubSeq(held, rest + 1, Len(held)) \in Seq(S)
         /\ Len(SubSeq(held, rest + 1, Len(held))) = Len(held) - rest
         /\ \A j \in 1 .. Len(held) - rest : SubSeq(held, rest + 1, Len(held))[j] = held[rest + j]
    <2> DEFINE a == rest + 1
               b == Len(held)
    <2>1. /\ a \in Int /\ b \in Int /\ b - a + 1 = Len(held) - rest /\ (IF a <= b THEN b - a + 1 ELSE 0) = Len(held) - rest
          /\ \A j \in 1 .. b - a + 1 : a + j - 1 = rest + j
          /\ \A j \in a .. b : j \in 1 .. Len(held)
      BY <1>6, <1>9
    <2>2. \A j \in a .. b : held[j] \in S
      BY <1>3, <2>1, ElementOfSeq
    <2> HIDE DEF a, b
    <2>3. /\ SubSeq(held, a, b) \in Seq(S)
          /\ Len(SubSeq(held, a, b)) = IF a <= b THEN b - a + 1 ELSE 0
          /\ \A j \in 1 .. b - a + 1 : SubSeq(held, a, b)[j] = held[a + j - 1]
      BY <2>1, <2>2, SubSeqProperties
    <2>4. /\ SubSeq(held, a, b) \in Seq(S)
          /\ Len(SubSeq(held, a, b)) = Len(held) - rest
          /\ \A j \in 1 .. Len(held) - rest : SubSeq(held, a, b)[j] = held[rest + j]
      BY <2>1, <2>3
    <2>. QED
      BY <2>4 DEF a, b
  <1>15. PICK c : c = Sha256Update(ctx, o)
    OBVIOUS
  <1>16. /\ c.data \in Seq(S) /\ Len(c.data) = Len(held) - rest
         /\ \A j \in 1 .. Len(held) - rest : c.data[j] = held[rest + j]
         /\ c.bitlen = ctx.bitlen + 8 * rest /\ c.state = Compressed(InitialState, t)[w + v]
    <2>1. c.data = SubSeq(held, rest + 1, Len(held)) /\ c.bitlen = ctx.bitlen + 8 * rest
          /\ c.state = Compressed(ctx.state, held)[v]
      <3> DEFINE x == SubSeq(held, rest + 1, Len(held))
                 y == ctx.bitlen + 8 * rest
                 z == Compressed(ctx.state, held)[v]
      <3>1. c = [data |-> x, bitlen |-> y, state |-> z]
        BY <1>5, <1>15
      <3> HIDE DEF x, y, z
      <3>2. c.data = x /\ c.bitlen = y /\ c.state = z
        BY <3>1
      <3>. QED
        BY <3>2 DEF x, y, z
    <2>. QED
      BY <1>13, <1>14, <2>1
  <1>17. Whole(t) * Block = p + rest
    BY <1>8, <1>10
  <1>18. Absorbed(c, t)
    <2>1. Len(c.data) = Len(t) - Whole(t) * Block
      <3> DEFINE q == Whole(t) * Block
                 lc == Len(c.data)
      <3>1. lc = Len(held) - rest /\ q = p + rest
        BY <1>16, <1>17
      <3> HIDE DEF q, lc
      <3>2. lc = Len(t) - q
        BY <1>6, <1>9, <3>1
      <3>. QED
        BY <3>2 DEF q, lc
    <2>2. \A j \in 1 .. Len(c.data) : c.data[j] = t[Whole(t) * Block + j]
      <3>1. ASSUME NEW j \in 1 .. Len(c.data)
            PROVE  c.data[j] = t[(p + rest) + j]
        <4>1. j \in 1 .. Len(held) - rest /\ rest + j \in 1 .. Len(held) /\ p + (rest + j) = (p + rest) + j
          BY <1>6, <1>9, <1>16
        <4>. QED
          BY <1>11, <1>16, <4>1
      <3>. QED
        BY <1>17, <3>1
    <2>3. c.bitlen = 8 * (Whole(t) * Block)
      BY <1>6, <1>7, <1>16, <1>17
    <2>4. c.state = Compressed(InitialState, t)[Whole(t)]
      BY <1>10, <1>16
    <2>. QED
      BY <2>1, <2>2, <2>3, <2>4 DEF Absorbed
  <1>. QED
    BY <1>2, <1>15, <1>16, <1>18
-----------------------------------------------------------------------------
(* Padding *)

(* Sequences over a set are sequences over a larger one.                   *)
LEMMA WiderSeq ==
  ASSUME NEW S, NEW T, S \subseteq T, NEW s \in Seq(S)
  PROVE  s \in Seq(T)
  <1>1. s \in [1 .. Len(s) -> S] /\ Len(s) \in Nat
    BY LenProperties
  <1>2. s \in [1 .. Len(s) -> T]
    BY <1>1
  <1>. QED
    BY <1>1, <1>2, SeqDef

(* x is the message m, the marker and z zeros.                             *)
IsMarked(x, m, z, S) ==
  /\ x \in Seq(S)
  /\ Len(x) = Len(m) + 1 + z
  /\ \A j \in 1 .. Len(m) + 1 + z : x[j] = IF j <= Len(m) THEN m[j] ELSE IF j = Len(m) + 1 THEN 128 ELSE 0

(* The padding begins with the octet 128.                                  *)
LEMMA Marked ==
  ASSUME NEW S, 128 \in S, 0 \in S, NEW m \in Seq(S), NEW z \in Nat
  PROVE  IsMarked(Append(m, 128) \o Zeros(z), m, z, S)
  <1> DEFINE a == Append(m, 128)
             o == Zeros(z)
             x == a \o o
             L == Len(m)
  <1>1. /\ a \in Seq(S) /\ Len(a) = L + 1 /\ L \in Nat
        /\ \A j \in 1 .. L + 1 : a[j] = IF j <= L THEN m[j] ELSE 128
    BY AppendProperties
  <1>2. o \in Seq(S) /\ Len(o) = z /\ \A j \in 1 .. z : o[j] = 0
    BY DEF Zeros
  <1> HIDE DEF a, o, L
  <1>3. /\ x \in Seq(S) /\ Len(x) = Len(a) + Len(o)
        /\ \A j \in 1 .. Len(a) + Len(o) : x[j] = IF j <= Len(a) THEN a[j] ELSE o[j - Len(a)]
    <2>1. a \in Seq(S) /\ o \in Seq(S)
      BY <1>1, <1>2
    <2>. QED
      BY <2>1, ConcatProperties
  <1> HIDE DEF x
  <1>4. ASSUME NEW j \in 1 .. L + 1 + z
        PROVE  x[j] = IF j <= L THEN m[j] ELSE IF j = L + 1 THEN 128 ELSE 0
    <2>1. CASE j <= L + 1
      <3>1. j \in 1 .. L + 1 /\ j \in 1 .. Len(a) + Len(o) /\ j <= Len(a)
        BY <1>1, <1>2, <2>1
      <3>2. x[j] = a[j]
        BY <1>3, <3>1
      <3>. QED
        BY <1>1, <2>1, <3>1, <3>2
    <2>2. CASE j > L + 1
      <3>1. j \in 1 .. Len(a) + Len(o) /\ ~(j <= Len(a)) /\ j - Len(a) \in 1 .. z
        BY <1>1, <1>2, <2>2
      <3>2. x[j] = 0
        BY <1>2, <1>3, <3>1
      <3>. QED
        BY <1>1, <2>2, <3>2
    <2>. QED
      BY <1>1, <2>1, <2>2
  <1>5. Len(x) = L + 1 + z
    BY <1>1, <1>2, <1>3
  <1>. QED
    BY <1>3, <1>4, <1>5 DEF x, a, o, L, IsMarked

(* FIPS's number of zeros is the one that fills a block.                   *)
LEMMA ZerosFill ==
  ASSUME NEW l \in Nat, NEW z \in 0 .. Block - 1, NEW q \in Nat, l + 1 + z + LengthOctets = q * Block
  PROVE  (CHOOSE k \in 0 .. Block - 1 : (l + 1 + k + LengthOctets) % Block = 0) = z
  <1>1. Block \in Nat \ {0} /\ LengthOctets \in Nat /\ z \in Nat
    BY Sha256Assumption
  <1>2. (l + 1 + z + LengthOctets) % Block = 0
    BY <1>1, Remainder
  <1>3. ASSUME NEW k \in 0 .. Block - 1, (l + 1 + k + LengthOctets) % Block = 0
        PROVE  k = z
    <2>1. PICK n \in Nat : n = l + 1 + k + LengthOctets
      BY <1>1
    <2>2. PICK r \in Nat : r = n \div Block /\ n = r * Block
      <3>1. n \div Block \in Nat /\ n = (n \div Block) * Block + (n % Block) /\ n % Block = 0
        BY <1>1, <1>3, <2>1, Division
      <3>2. (n \div Block) * Block \in Nat
        BY <1>1, <3>1, Multiples
      <3>3. n = (n \div Block) * Block
        <4> DEFINE x == (n \div Block) * Block
                   y == n % Block
        <4>1. n = x + y /\ x \in Nat /\ y = 0
          BY <3>1, <3>2
        <4> HIDE DEF x, y
        <4>2. n = x
          BY <4>1
        <4>. QED
          BY <4>2 DEF x
      <3>. QED
        BY <3>1, <3>3
    <2>3. (r < q => r * Block + Block <= q * Block) /\ (q < r => q * Block + Block <= r * Block)
      BY <1>1, Multiples
    <2> DEFINE x == r * Block
               y == q * Block
    <2>4. /\ r < q => x + Block <= y
          /\ q < r => y + Block <= x
          /\ r = q => x = y
          /\ x \in Nat /\ y \in Nat /\ x = l + 1 + k + LengthOctets /\ y = l + 1 + z + LengthOctets
      BY <1>1, <2>1, <2>2, <2>3, Multiples
    <2> HIDE DEF x, y
    <2>. QED
      BY <1>1, <2>4
  <1>. QED
    BY <1>2, <1>3

Bits(m) == BigEndian(8 * Len(m), LengthOctets)

(* The padding of a message whose last block holds d of its octets.        *)
LEMMA PaddedIs ==
  ASSUME NEW S, 128 \in S, 0 \in S, NEW m \in Seq(S), NEW q \in Nat, NEW z \in 0 .. Block - 1,
         Len(m) + 1 + z + LengthOctets = q * Block, Bits(m) \in Seq(S)
  PROVE  /\ Padded(m) \in Seq(S) /\ Len(Padded(m)) = q * Block
         /\ \A j \in 1 .. Len(m) : Padded(m)[j] = m[j]
         /\ Padded(m)[Len(m) + 1] = 128
         /\ \A j \in Len(m) + 2 .. Len(m) + 1 + z : Padded(m)[j] = 0
         /\ \A j \in 1 .. LengthOctets : Padded(m)[Len(m) + 1 + z + j] = Bits(m)[j]
  <1> DEFINE x == Append(m, 128) \o Zeros(z)
             bits == Bits(m)
             p == x \o bits
             L == Len(m)
  <1>1. Padded(m) = p
    <2>1. (CHOOSE k \in 0 .. Block - 1 : (Len(m) + 1 + k + LengthOctets) % Block = 0) = z
      BY ZerosFill
    <2>. QED
      BY <2>1, Zenon DEF Padded, Bits
  <1>2. /\ x \in Seq(S) /\ Len(x) = L + 1 + z
        /\ \A j \in 1 .. L + 1 + z : x[j] = IF j <= L THEN m[j] ELSE IF j = L + 1 THEN 128 ELSE 0
    <2>1. z \in Nat
      BY Sha256Assumption
    <2>2. IsMarked(x, m, z, S)
      BY <2>1, Marked, Zenon
    <2> HIDE DEF x, bits, p
    <2>. QED
      BY <2>2 DEF IsMarked
  <1>3. Len(bits) = LengthOctets /\ L \in Nat /\ LengthOctets \in Nat /\ bits \in Seq(S) /\ z \in Nat
    BY Sha256Assumption DEF Bits, BigEndian
  <1> HIDE DEF x, bits
  <1>4. /\ p \in Seq(S) /\ Len(p) = Len(x) + Len(bits)
        /\ \A j \in 1 .. Len(x) + Len(bits) : p[j] = IF j <= Len(x) THEN x[j] ELSE bits[j - Len(x)]
    <2>1. x \in Seq(S) /\ bits \in Seq(S)
      BY <1>2, <1>3
    <2>. QED
      BY <2>1, ConcatProperties
  <1> HIDE DEF p
  <1>5. Len(p) = q * Block
    <2> DEFINE y == q * Block
    <2>1. y = L + 1 + z + LengthOctets
      OBVIOUS
    <2> HIDE DEF y, L
    <2>2. Len(p) = y
      BY <1>2, <1>3, <1>4, <2>1
    <2>. QED
      BY <2>2 DEF y
  <1> HIDE DEF L
  <1>6. ASSUME NEW j \in 1 .. L + 1 + z
        PROVE  p[j] = x[j]
    <2>1. j \in 1 .. Len(x) + Len(bits) /\ j <= Len(x)
      BY <1>2, <1>3
    <2>. QED
      BY <1>4, <2>1
  <1>7. /\ \A j \in 1 .. L : p[j] = m[j]
        /\ p[L + 1] = 128
        /\ \A j \in L + 2 .. L + 1 + z : p[j] = 0
    <2>1. \A j \in 1 .. L : j \in 1 .. L + 1 + z /\ j <= L
      BY <1>3
    <2>2. L + 1 \in 1 .. L + 1 + z /\ ~(L + 1 <= L)
      BY <1>3
    <2>3. \A j \in L + 2 .. L + 1 + z : j \in 1 .. L + 1 + z /\ ~(j <= L) /\ j # L + 1
      BY <1>3
    <2>. QED
      BY <1>2, <1>6, <2>1, <2>2, <2>3
  <1>8. ASSUME NEW j \in 1 .. LengthOctets
        PROVE  p[L + 1 + z + j] = bits[j]
    <2> DEFINE i == L + 1 + z + j
    <2>1. i \in 1 .. Len(x) + Len(bits) /\ ~(i <= Len(x)) /\ i - Len(x) = j
      BY <1>2, <1>3
    <2> HIDE DEF i
    <2>2. p[i] = bits[j]
      BY <1>4, <2>1
    <2>. QED
      BY <2>2 DEF i
  <1>. QED
    BY <1>1, <1>4, <1>5, <1>7, <1>8 DEF bits, L

(* The last blocks: the octets in data, the marker, zeros, the bit count.  *)
LEMMA FinalIsStandard ==
  ASSUME NEW S0, NEW m \in Seq(S0), NEW ctx, ctx.data \in Seq(S0), Absorbed(ctx, m)
  PROVE  Sha256Final(ctx) = StandardHash(m)
  <1> DEFINE bits == Bits(m)
             S == S0 \union {128, 0} \union {bits[i] : i \in 1 .. LengthOctets}
             B == Block
             room == Block - LengthOctets
             data == ctx.data
             w == Whole(m)
             p == w * B
             d == Len(data)
             P == Padded(m)
             full == Append(data, 128) \o Zeros(B - 1 - d)
             C == Compressed(InitialState, P)
  <1>1. 128 \in S /\ 0 \in S /\ S0 \subseteq S
    OBVIOUS
  <1>2. bits \in Seq(S) /\ Len(bits) = LengthOctets
    <2>1. LengthOctets \in Nat
      BY Sha256Assumption
    <2>2. bits = [i \in 1 .. LengthOctets |-> bits[i]]
      BY DEF Bits, BigEndian
    <2> HIDE DEF bits
    <2>3. bits \in [1 .. LengthOctets -> S]
      BY <2>2
    <2>. QED
      BY <2>1, <2>3, SMTT(30)
  <1> HIDE DEF S
  <1>3. m \in Seq(S) /\ data \in Seq(S)
    BY <1>1, WiderSeq
  <1>4. /\ B \in Nat /\ LengthOctets \in Nat /\ LengthOctets >= 1 /\ LengthOctets <= B - 1 /\ Len(m) \in Nat /\ d \in Nat
        /\ w \in Nat /\ p \in Nat /\ p <= Len(m) /\ Len(m) < p + B /\ d = Len(m) - p
    <2>1. Block \in Nat /\ Len(m) \in Nat /\ d \in Nat /\ LengthOctets \in Nat /\ LengthOctets >= 1 /\ LengthOctets <= Block - 1
      BY Sha256Assumption
    <2>2. w \in Nat /\ p <= Len(m) /\ Len(m) < p + B
      BY WholeBlocks
    <2>3. p \in Nat
      BY <2>1, <2>2, Multiples
    <2>4. d = Len(m) - p
      BY DEF Absorbed
    <2>. QED
      BY <2>1, <2>2, <2>3, <2>4
  <1>5. /\ \A j \in 1 .. d : data[j] = m[p + j]
        /\ ctx.bitlen = 8 * p /\ ctx.state = Compressed(InitialState, m)[w]
    BY DEF Absorbed
  <1>6. (w + 1) * B = p + B /\ (w + 2) * B = p + B + B /\ w + 1 \in Nat /\ w + 2 \in Nat
    <2>1. 1 \in Nat /\ 2 \in Nat /\ 1 * B = B /\ 2 * B = B + B /\ B \in Nat /\ w \in Nat
      BY <1>4
    <2>2. (w + 1) * B = w * B + 1 * B /\ (w + 2) * B = w * B + 2 * B
      BY <2>1, Multiples
    <2>. QED
      BY <1>4, <2>1, <2>2, SMTT(30)
  <1>7. BigEndian(ctx.bitlen + 8 * d, LengthOctets) = bits
    <2>1. ctx.bitlen + 8 * d = 8 * Len(m)
      BY <1>4, <1>5
    <2>. QED
      BY <2>1, Zenon DEF Bits
  <1>8. /\ full \in Seq(S) /\ Len(full) = B
        /\ \A j \in 1 .. d : full[j] = data[j]
        /\ full[d + 1] = 128
        /\ \A j \in d + 2 .. B : full[j] = 0
    <2>1. B - 1 - d \in Nat /\ d + 1 + (B - 1 - d) = B /\ d \in Nat /\ B \in Nat /\ d + 1 <= B
      <3> HIDE DEF p, d, B, w
      <3>. QED
        BY <1>4
    <2>2. /\ full \in Seq(S) /\ Len(full) = d + 1 + (B - 1 - d)
          /\ \A j \in 1 .. d + 1 + (B - 1 - d) :
               full[j] = IF j <= d THEN data[j] ELSE IF j = d + 1 THEN 128 ELSE 0
      <3>1. IsMarked(full, data, B - 1 - d, S)
        BY <1>1, <1>3, <2>1, Marked, Zenon
      <3> HIDE DEF full, B
      <3>. QED
        BY <3>1 DEF IsMarked
    <2> HIDE DEF full, d, data, B
    <2>3. /\ \A j \in 1 .. d : j \in 1 .. B /\ j <= d
          /\ d + 1 \in 1 .. B /\ ~(d + 1 <= d)
          /\ \A j \in d + 2 .. B : j \in 1 .. B /\ ~(j <= d) /\ j # d + 1
      BY <2>1
    <2>4. \A j \in 1 .. B : full[j] = IF j <= d THEN data[j] ELSE IF j = d + 1 THEN 128 ELSE 0
      BY <2>1, <2>2
    <2>. QED
      BY <2>1, <2>2, <2>3, <2>4
  <1> HIDE DEF full, d, data, B, p, w, P, bits, room, C
  <1>9. ASSUME NEW q \in Nat, NEW z \in 0 .. B - 1, Len(m) + 1 + z + LengthOctets = q * B
        PROVE  /\ P \in Seq(S) /\ Len(P) = q * B
               /\ \A j \in 1 .. Len(m) : P[j] = m[j]
               /\ P[Len(m) + 1] = 128
               /\ \A j \in Len(m) + 2 .. Len(m) + 1 + z : P[j] = 0
               /\ \A j \in 1 .. LengthOctets : P[Len(m) + 1 + z + j] = bits[j]
               /\ Whole(P) = q /\ C[0] = InitialState
               /\ \A i \in 1 .. q : C[i] = Compress(C[i - 1], BlockOf(P, i))
               /\ ctx.state = C[w]
    <2>1. /\ P \in Seq(S) /\ Len(P) = q * B
          /\ \A j \in 1 .. Len(m) : P[j] = m[j]
          /\ P[Len(m) + 1] = 128
          /\ \A j \in Len(m) + 2 .. Len(m) + 1 + z : P[j] = 0
          /\ \A j \in 1 .. LengthOctets : P[Len(m) + 1 + z + j] = bits[j]
      BY <1>1, <1>2, <1>3, <1>9, PaddedIs DEF B, P, bits
    <2>2. Whole(P) = q
      <3>1. q * Block <= Len(P) /\ Len(P) < q * Block + Block
        <4> DEFINE x == q * B
        <4>1. x \in Nat /\ Len(P) = x /\ B \in Nat /\ B > 0
          BY <1>4, <2>1, Multiples
        <4> HIDE DEF x
        <4>2. x <= Len(P) /\ Len(P) < x + B
          BY <4>1
        <4>. QED
          BY <4>2 DEF x, B
      <3>. QED
        BY <2>1, <3>1, WholeBlocks
    <2>3. C[0] = InitialState /\ \A i \in 1 .. q : C[i] = Compress(C[i - 1], BlockOf(P, i))
      BY <2>2, CompressedSteps DEF C
    <2>4. ctx.state = C[w]
      <3>1. Len(m) <= Len(P)
        <4> DEFINE x == q * B
        <4>1. Len(P) = x /\ Len(m) + 1 + z + LengthOctets = x /\ z \in Nat
          BY <1>4, <1>9, <2>1
        <4> HIDE DEF x
        <4>. QED
          BY <1>4, <4>1
      <3>2. Compressed(InitialState, m)[w] = C[w]
        BY <1>3, <2>1, <3>1, PrefixBlocks DEF C, w
      <3>. QED
        BY <1>5, <3>2
    <2>. QED
      BY <2>1, <2>2, <2>3, <2>4
  <1>10. StandardHash(m) = BigEndian(C[Whole(P)], DigestOctets)
    BY DEF StandardHash, C, P
  <1>11. room \in Nat /\ room + LengthOctets = B /\ room >= 1
    BY <1>4 DEF room, B
  <1>12. CASE LengthFits(d)
    <2> DEFINE z == room - 1 - d
               start == SubSeq(full, 1, room)
               x == start \o bits
    <2>1. d < room /\ z \in 0 .. B - 1 /\ Len(m) + 1 + z + LengthOctets = (w + 1) * B
      <3>1. d < room
        BY <1>12 DEF LengthFits, room
      <3>. QED
        BY <1>4, <1>6, <1>11, <3>1
    <2>2. /\ P \in Seq(S) /\ Len(P) = (w + 1) * B
          /\ \A j \in 1 .. Len(m) : P[j] = m[j]
          /\ P[Len(m) + 1] = 128
          /\ \A j \in Len(m) + 2 .. Len(m) + 1 + z : P[j] = 0
          /\ \A j \in 1 .. LengthOctets : P[Len(m) + 1 + z + j] = bits[j]
          /\ Whole(P) = w + 1 /\ \A i \in 1 .. w + 1 : C[i] = Compress(C[i - 1], BlockOf(P, i))
          /\ ctx.state = C[w]
      <3> HIDE DEF z
      <3>. QED
        BY <1>6, <1>9, <2>1
    <2>3. start \in Seq(S) /\ Len(start) = room /\ \A j \in 1 .. room : start[j] = full[j]
      <3>1. \A j \in 1 .. room : j \in 1 .. Len(full)
        BY <1>4, <1>8, <1>11
      <3>2. \A j \in 1 .. room : full[j] \in S
        BY <1>8, <3>1, ElementOfSeq
      <3>3. 1 \in Int /\ room \in Int /\ (IF 1 <= room THEN room - 1 + 1 ELSE 0) = room
            /\ \A j \in 1 .. room : j \in 1 .. room - 1 + 1 /\ 1 + j - 1 = j
        BY <1>11
      <3>4. /\ start \in Seq(S) /\ Len(start) = IF 1 <= room THEN room - 1 + 1 ELSE 0
            /\ \A j \in 1 .. room - 1 + 1 : start[j] = full[1 + j - 1]
        BY <3>2, <3>3, SubSeqProperties
      <3> HIDE DEF start
      <3>. QED
        BY <3>3, <3>4
    <2> HIDE DEF start
    <2>4. /\ x \in Seq(S) /\ Len(x) = Len(start) + Len(bits)
          /\ \A j \in 1 .. Len(start) + Len(bits) :
               x[j] = IF j <= Len(start) THEN start[j] ELSE bits[j - Len(start)]
      <3>1. start \in Seq(S) /\ bits \in Seq(S)
        BY <1>2, <2>3
      <3>. QED
        BY <3>1, ConcatProperties
    <2> HIDE DEF x
    <2>5. /\ BlockOf(P, w + 1) \in Seq(S) /\ Len(BlockOf(P, w + 1)) = B
          /\ \A j \in 1 .. B : BlockOf(P, w + 1)[j] = P[p + j]
      <3>1. w + 1 \in Nat \ {0} /\ (w + 1) - 1 = w
        BY <1>4
      <3>2. (w + 1) * B <= Len(P)
        <4> DEFINE l == Len(P)
        <4>1. l = p + B
          BY <1>6, <2>2
        <4> HIDE DEF l
        <4>2. p + B <= l
          BY <1>4, <4>1
        <4>. QED
          BY <1>6, <4>2 DEF l
      <3>3. /\ BlockOf(P, w + 1) \in Seq(S) /\ Len(BlockOf(P, w + 1)) = B
            /\ \A j \in 1 .. B : BlockOf(P, w + 1)[j] = P[((w + 1) - 1) * Block + j]
        BY <2>2, <3>1, <3>2, BlockFacts, SMTT(30) DEF B
      <3>4. ((w + 1) - 1) * Block = p
        BY <3>1 DEF p, B
      <3>. QED
        BY <3>3, <3>4
    <2>6. ASSUME NEW j \in 1 .. B
          PROVE  x[j] = P[p + j]
      <3>1. CASE j <= room
        <4>1. x[j] = full[j]
          <5>1. j \in 1 .. Len(start) + Len(bits) /\ j <= Len(start) /\ j \in 1 .. room
            BY <1>2, <1>4, <1>11, <2>3, <3>1
          <5>. QED
            BY <2>3, <2>4, <5>1
        <4>2. CASE j <= d
          <5>1. j \in 1 .. d /\ p + j \in 1 .. Len(m)
            BY <1>4, <4>2
          <5>2. full[j] = m[p + j]
            BY <1>5, <1>8, <5>1
          <5>3. P[p + j] = m[p + j]
            BY <2>2, <5>1
          <5>. QED
            BY <4>1, <5>2, <5>3
        <4>3. CASE j = d + 1
          <5>1. p + j = Len(m) + 1
            BY <1>4, <4>3
          <5>2. full[j] = 128 /\ P[p + j] = 128
            BY <1>8, <2>2, <4>3, <5>1
          <5>. QED
            BY <4>1, <5>2
        <4>4. CASE j > d + 1
          <5>1. j \in d + 2 .. B /\ p + j \in Len(m) + 2 .. Len(m) + 1 + z
            BY <1>4, <1>11, <2>1, <3>1, <4>4
          <5>2. full[j] = 0 /\ P[p + j] = 0
            <6> HIDE DEF z
            <6>. QED
              BY <1>8, <2>2, <5>1
          <5>. QED
            BY <4>1, <5>2
        <4>. QED
          BY <1>4, <4>2, <4>3, <4>4, SMTT(30)
      <3>2. CASE j > room
        <4> DEFINE i == j - room
                   k == Len(m) + 1 + z + i
        <4>1. /\ i \in 1 .. LengthOctets /\ j - Len(start) = i /\ p + j = k
              /\ j \in 1 .. Len(start) + Len(bits) /\ ~(j <= Len(start))
          BY <1>2, <1>4, <1>11, <2>1, <2>3, <3>2
        <4> HIDE DEF i, z
        <4>2. x[j] = bits[i]
          BY <2>4, <4>1
        <4>3. P[k] = bits[i]
          BY <2>2, <4>1
        <4> HIDE DEF k
        <4>. QED
          BY <4>1, <4>2, <4>3
      <3>. QED
        BY <1>11, <3>1, <3>2
    <2>7. BlockOf(P, w + 1) = x
      <3>1. Len(x) = B
        BY <1>2, <1>4, <1>11, <2>3, <2>4
      <3> DEFINE y == BlockOf(P, w + 1)
      <3>2. y \in Seq(S) /\ Len(y) = B /\ \A j \in 1 .. B : y[j] = x[j]
        BY <2>5, <2>6
      <3> HIDE DEF y
      <3>3. y = x
        BY <2>4, <3>1, <3>2, SeqEqual
      <3>. QED
        BY <3>3 DEF y
    <2>8. C[w + 1] = Compress(ctx.state, x)
      <3>1. w + 1 \in 1 .. w + 1 /\ (w + 1) - 1 = w
        BY <1>4
      <3>2. C[w + 1] = Compress(C[(w + 1) - 1], BlockOf(P, w + 1))
        BY <2>2, <3>1
      <3>. QED
        BY <2>2, <2>7, <3>1, <3>2
    <2>9. Sha256Final(ctx) = BigEndian(Compress(ctx.state, x), DigestOctets)
      BY <1>7, <1>12, Zenon DEF Sha256Final, full, data, d, B, x, start, room
    <2>. QED
      BY <1>10, <2>2, <2>8, <2>9, Zenon
  <1>13. CASE ~LengthFits(d)
    <2> DEFINE z == (B - 1 - d) + room
               start == Zeros(room)
               x == start \o bits
    <2>1. d >= room /\ z \in 0 .. B - 1 /\ Len(m) + 1 + z + LengthOctets = (w + 2) * B
      <3>1. d >= room
        BY <1>4, <1>11, <1>13 DEF LengthFits, room
      <3>. QED
        BY <1>4, <1>6, <1>11, <3>1
    <2>2. /\ P \in Seq(S) /\ Len(P) = (w + 2) * B
          /\ \A j \in 1 .. Len(m) : P[j] = m[j]
          /\ P[Len(m) + 1] = 128
          /\ \A j \in Len(m) + 2 .. Len(m) + 1 + z : P[j] = 0
          /\ \A j \in 1 .. LengthOctets : P[Len(m) + 1 + z + j] = bits[j]
          /\ Whole(P) = w + 2 /\ \A i \in 1 .. w + 2 : C[i] = Compress(C[i - 1], BlockOf(P, i))
          /\ ctx.state = C[w]
      <3> HIDE DEF z
      <3>. QED
        BY <1>6, <1>9, <2>1
    <2>3. start \in Seq(S) /\ Len(start) = room /\ \A j \in 1 .. room : start[j] = 0
      BY <1>1, <1>11 DEF Zeros
    <2> HIDE DEF start
    <2>4. /\ x \in Seq(S) /\ Len(x) = Len(start) + Len(bits)
          /\ \A j \in 1 .. Len(start) + Len(bits) :
               x[j] = IF j <= Len(start) THEN start[j] ELSE bits[j - Len(start)]
      <3>1. start \in Seq(S) /\ bits \in Seq(S)
        BY <1>2, <2>3
      <3>. QED
        BY <3>1, ConcatProperties
    <2> HIDE DEF x
    <2>5. ASSUME NEW i \in {w + 1, w + 2}
          PROVE  /\ BlockOf(P, i) \in Seq(S) /\ Len(BlockOf(P, i)) = B
                 /\ \A j \in 1 .. B : BlockOf(P, i)[j] = P[(i - 1) * B + j]
      <3>1. i \in Nat \ {0} /\ (i = w + 1 \/ i = w + 2)
        BY <1>4
      <3>2. i * B <= Len(P)
        <4> DEFINE l == Len(P)
                   y == i * B
        <4>1. l = p + B + B /\ (y = p + B \/ y = p + B + B)
          BY <1>6, <2>2, <3>1
        <4> HIDE DEF l, y
        <4>2. y <= l
          BY <1>4, <4>1
        <4>. QED
          BY <4>2 DEF l, y
      <3>. QED
        BY <2>2, <3>1, <3>2, BlockFacts, SMTT(30) DEF B
    <2>6. ((w + 1) - 1) * B = p /\ ((w + 2) - 1) * B = p + B
      <3>1. (w + 1) - 1 = w /\ (w + 2) - 1 = w + 1
        BY <1>4
      <3>. QED
        BY <1>6, <3>1 DEF p
    <2>7. ASSUME NEW j \in 1 .. B
          PROVE  full[j] = P[p + j]
      <3>1. CASE j <= d
        <4>1. j \in 1 .. d /\ p + j \in 1 .. Len(m)
          BY <1>4, <3>1
        <4>2. full[j] = m[p + j]
          BY <1>5, <1>8, <4>1
        <4>3. P[p + j] = m[p + j]
          BY <2>2, <4>1
        <4>. QED
          BY <4>2, <4>3
      <3>2. CASE j = d + 1
        <4>1. p + j = Len(m) + 1
          BY <1>4, <3>2
        <4>. QED
          BY <1>8, <2>2, <3>2, <4>1
      <3>3. CASE j > d + 1
        <4>1. j \in d + 2 .. B /\ p + j \in Len(m) + 2 .. Len(m) + 1 + z
          BY <1>4, <1>11, <2>1, <3>3
        <4> HIDE DEF z
        <4>. QED
          BY <1>8, <2>2, <4>1
      <3>. QED
        BY <1>4, <3>1, <3>2, <3>3
    <2>8. ASSUME NEW j \in 1 .. B
          PROVE  x[j] = P[(p + B) + j]
      <3>1. CASE j <= room
        <4>1. /\ j \in 1 .. Len(start) + Len(bits) /\ j <= Len(start) /\ j \in 1 .. room
              /\ (p + B) + j \in Len(m) + 2 .. Len(m) + 1 + z
          BY <1>2, <1>4, <1>11, <2>1, <2>3, <3>1
        <4> HIDE DEF z
        <4>2. x[j] = 0
          BY <2>3, <2>4, <4>1
        <4>3. P[(p + B) + j] = 0
          BY <2>2, <4>1
        <4>. QED
          BY <4>2, <4>3
      <3>2. CASE j > room
        <4> DEFINE i == j - room
                   k == Len(m) + 1 + z + i
        <4>1. /\ i \in 1 .. LengthOctets /\ j - Len(start) = i /\ (p + B) + j = k
              /\ j \in 1 .. Len(start) + Len(bits) /\ ~(j <= Len(start))
          BY <1>2, <1>4, <1>11, <2>1, <2>3, <3>2
        <4> HIDE DEF i, z
        <4>2. x[j] = bits[i]
          BY <2>4, <4>1
        <4>3. P[k] = bits[i]
          BY <2>2, <4>1
        <4> HIDE DEF k
        <4>. QED
          BY <4>1, <4>2, <4>3
      <3>. QED
        BY <1>11, <3>1, <3>2
    <2>9. BlockOf(P, w + 1) = full
      <3> DEFINE y == BlockOf(P, w + 1)
      <3>1. y \in Seq(S) /\ Len(y) = B /\ \A j \in 1 .. B : y[j] = P[((w + 1) - 1) * B + j]
        BY <2>5
      <3> HIDE DEF y
      <3>2. \A j \in 1 .. B : y[j] = full[j]
        BY <2>6, <2>7, <3>1
      <3>3. y = full
        BY <1>8, <3>1, <3>2, SeqEqual
      <3>. QED
        BY <3>3 DEF y
    <2>10. BlockOf(P, w + 2) = x
      <3> DEFINE y == BlockOf(P, w + 2)
      <3>1. y \in Seq(S) /\ Len(y) = B /\ \A j \in 1 .. B : y[j] = P[((w + 2) - 1) * B + j]
        BY <2>5
      <3> HIDE DEF y
      <3>2. \A j \in 1 .. B : y[j] = x[j]
        BY <2>6, <2>8, <3>1
      <3>3. Len(x) = B
        BY <1>2, <1>4, <1>11, <2>3, <2>4
      <3>4. y = x
        BY <2>4, <3>1, <3>2, <3>3, SeqEqual
      <3>. QED
        BY <3>4 DEF y
    <2>11. C[w + 2] = Compress(Compress(ctx.state, full), x)
      <3>1. w + 1 \in 1 .. w + 2 /\ (w + 1) - 1 = w /\ w + 2 \in 1 .. w + 2 /\ (w + 2) - 1 = w + 1
        BY <1>4
      <3>2. C[w + 1] = Compress(C[(w + 1) - 1], BlockOf(P, w + 1)) /\ C[w + 2] = Compress(C[(w + 2) - 1], BlockOf(P, w + 2))
        BY <2>2, <3>1
      <3>. QED
        BY <2>2, <2>9, <2>10, <3>1, <3>2
    <2>12. Sha256Final(ctx) = BigEndian(Compress(Compress(ctx.state, full), x), DigestOctets)
      BY <1>7, <1>13, Zenon DEF Sha256Final, full, data, d, B, x, start, room
    <2>. QED
      BY <1>10, <2>2, <2>11, <2>12, Zenon
  <1>. QED
    BY <1>12, <1>13
-----------------------------------------------------------------------------
(* Hashes and MACs *)

(* A message hashed in one piece.                                          *)
LEMMA HashIsStandard ==
  ASSUME NEW S, NEW m \in Seq(S)
  PROVE  Hash(m) = StandardHash(m)
  <1>1. Absorbed(Sha256Init, <<>>) /\ Sha256Init.data \in Seq(S) /\ <<>> \in Seq(S)
    BY InitAbsorbed
  <1>2. PICK ctx : ctx = Sha256Update(Sha256Init, m)
    OBVIOUS
  <1>3. Absorbed(ctx, <<>> \o m) /\ ctx.data \in Seq(S)
    BY <1>1, <1>2, UpdateAbsorbs
  <1>4. <<>> \o m = m
    BY ConcatEmptySeq
  <1>5. Sha256Final(ctx) = StandardHash(m)
    BY <1>3, <1>4, FinalIsStandard
  <1>. QED
    BY <1>2, <1>5 DEF Hash

(* It makes no difference that a hash is fed in two pieces.                *)
LEMMA HashOfPieces ==
  ASSUME NEW S, NEW a \in Seq(S), NEW b \in Seq(S)
  PROVE  Sha256Of2(a, b) = StandardHash(a \o b)
  <1>1. Absorbed(Sha256Init, <<>>) /\ Sha256Init.data \in Seq(S) /\ <<>> \in Seq(S)
    BY InitAbsorbed
  <1>2. PICK ctx : ctx = Sha256Update(Sha256Init, a)
    OBVIOUS
  <1>3. Absorbed(ctx, a) /\ ctx.data \in Seq(S)
    <2>1. Absorbed(ctx, <<>> \o a) /\ ctx.data \in Seq(S)
      BY <1>1, <1>2, UpdateAbsorbs
    <2>2. <<>> \o a = a
      BY ConcatEmptySeq
    <2>. QED
      BY <2>1, <2>2
  <1>4. PICK both : both = Sha256Update(ctx, b)
    OBVIOUS
  <1>5. PICK m : m = a \o b
    OBVIOUS
  <1>6. Absorbed(both, m) /\ both.data \in Seq(S) /\ m \in Seq(S)
    BY <1>3, <1>4, <1>5, UpdateAbsorbs, ConcatProperties
  <1>7. Sha256Final(both) = StandardHash(m)
    BY <1>6, FinalIsStandard
  <1>. QED
    BY <1>2, <1>4, <1>5, <1>7, Zenon DEF Sha256Of2

(* A digest is a sequence.                                                 *)
LEMMA DigestSeq ==
  ASSUME NEW n, NEW k \in Nat
  PROVE  \E S : BigEndian(n, k) \in Seq(S)
  <1> DEFINE d == BigEndian(n, k)
             S == {d[i] : i \in 1 .. k}
  <1>1. d = [i \in 1 .. k |-> d[i]]
    BY DEF BigEndian
  <1> HIDE DEF d
  <1>2. d \in [1 .. k -> S]
    BY <1>1
  <1>3. d \in Seq(S)
    BY <1>2
  <1>. QED
    BY <1>3 DEF d

(* A digest is a sequence.                                                 *)
LEMMA StandardHashSeq ==
  ASSUME NEW m
  PROVE  \E S : StandardHash(m) \in Seq(S)
  <1>1. DigestOctets \in Nat
    BY Sha256Assumption
  <1>2. PICK st : StandardHash(m) = BigEndian(st, DigestOctets)
    BY DEF StandardHash
  <1>. QED
    BY <1>1, <1>2, DigestSeq

(* Keys are sequences of what may be different sets.                       *)
LEMMA Common ==
  ASSUME NEW S, NEW T, NEW a \in Seq(S), NEW b \in Seq(T)
  PROVE  a \in Seq(S \union T) /\ b \in Seq(S \union T)
  BY WiderSeq

(* A message hashed in two pieces.                                         *)
LEMMA HashOfMixedPieces ==
  ASSUME NEW S, NEW T, NEW a \in Seq(S), NEW b \in Seq(T)
  PROVE  Sha256Of2(a, b) = StandardHash(a \o b)
  <1>1. a \in Seq(S \union T) /\ b \in Seq(S \union T)
    BY Common
  <1>. QED
    BY <1>1, HashOfPieces

(* hmac_sha256 is the HMAC of RFC 2104.                                    *)
LEMMA HmacIsStandard ==
  ASSUME NEW S, NEW T, NEW secret \in Seq(S), NEW m \in Seq(T)
  PROVE  HmacSha256(secret, m) = StandardHmac(secret, m)
  <1> DEFINE k == IF Len(secret) > Block THEN StandardHash(secret) ELSE secret
             pad(octet) == [i \in 1 .. Block |-> Xor(IF i <= Len(k) THEN k[i] ELSE 0, octet)]
  <1>1. (IF Len(secret) > Block THEN Hash(secret) ELSE secret) = k
    BY HashIsStandard
  <1>2. ASSUME NEW octet
        PROVE  KeyPad(secret, octet) = pad(octet) /\ \E U : pad(octet) \in Seq(U)
    <2>1. KeyPad(secret, octet) = pad(octet)
      BY <1>1, Zenon DEF KeyPad
    <2> DEFINE p == pad(octet)
               U == {p[i] : i \in 1 .. Block}
    <2>2. p = [i \in 1 .. Block |-> p[i]]
      OBVIOUS
    <2> HIDE DEF p
    <2>3. p \in [1 .. Block -> U]
      BY <2>2
    <2>4. p \in Seq(U)
      <3>1. Block \in Nat
        BY Sha256Assumption
      <3> HIDE DEF U
      <3>. QED
        BY <2>3, <3>1, SeqDef, Zenon
    <2>. QED
      BY <2>1, <2>4 DEF p
  <1> HIDE DEF pad, k
  <1>3. PICK U : pad(54) \in Seq(U)
    BY <1>2
  <1>4. InnerDigest(secret, m) = StandardHash(pad(54) \o m)
    BY <1>2, <1>3, HashOfMixedPieces DEF InnerDigest
  <1>5. PICK V : pad(92) \in Seq(V)
    BY <1>2
  <1>6. PICK W : StandardHash(pad(54) \o m) \in Seq(W)
    BY StandardHashSeq
  <1>7. OuterDigest(secret, StandardHash(pad(54) \o m)) = StandardHash(pad(92) \o StandardHash(pad(54) \o m))
    BY <1>2, <1>5, <1>6, HashOfMixedPieces DEF OuterDigest
  <1>8. StandardHmac(secret, m) = StandardHash(pad(92) \o StandardHash(pad(54) \o m))
    BY Zenon DEF StandardHmac, pad, k
  <1>. QED
    BY <1>4, <1>7, <1>8 DEF HmacSha256

(* The iterated hash is a function.                                        *)
LEMMA StandardKeySteps ==
  ASSUME NEW a, NEW b, NEW n \in Nat
  PROVE  /\ StandardKeys(a, b, n)[0] = a \o b
         /\ \A i \in 1 .. n : StandardKeys(a, b, n)[i] = StandardHash(StandardKeys(a, b, n)[i - 1])
  <1> DEFINE base == a \o b
             Chain(f, m) == f = [i \in 0 .. m |-> IF i = 0 THEN base ELSE StandardHash(f[i - 1])]
             Good == {m \in 0 .. n : \E f : Chain(f, m)}
  <1>1. 0 \in Good
    <2>1. Chain([i \in 0 .. 0 |-> base], 0)
      OBVIOUS
    <2>2. 0 \in 0 .. n
      OBVIOUS
    <2> HIDE DEF Chain
    <2>3. \E f : Chain(f, 0)
      BY <2>1, Zenon
    <2>. QED
      BY <2>2, <2>3
  <1> HIDE DEF base
  <1>2. ASSUME NEW m \in 0 .. n - 1, m \in Good
        PROVE  m + 1 \in Good
    <2>0. m \in Nat /\ m + 1 \in 0 .. n
      OBVIOUS
    <2>1. PICK f : Chain(f, m)
      BY <1>2
    <2> DEFINE g == [i \in 0 .. m + 1 |-> IF i = m + 1 THEN StandardHash(f[m]) ELSE f[i]]
    <2>2. \A i \in 0 .. m : g[i] = f[i]
      BY <2>0
    <2>3. g[m + 1] = StandardHash(f[m])
      BY <2>0
    <2>4. g = [i \in 0 .. m + 1 |-> g[i]]
      OBVIOUS
    <2> HIDE DEF g
    <2>5. \A i \in 0 .. m : f[i] = IF i = 0 THEN base ELSE StandardHash(f[i - 1])
      BY <2>1
    <2>6. ASSUME NEW i \in 0 .. m + 1
          PROVE  g[i] = IF i = 0 THEN base ELSE StandardHash(g[i - 1])
      <3>1. CASE i = m + 1
        <4>1. i # 0 /\ i - 1 = m /\ m \in 0 .. m
          BY <2>0, <3>1
        <4>. QED
          BY <2>2, <2>3, <3>1, <4>1
      <3>2. CASE i = 0
        BY <2>0, <2>2, <2>5, <3>2
      <3>3. CASE i \in 1 .. m
        <4>1. i \in 0 .. m /\ i - 1 \in 0 .. m /\ i # 0
          BY <2>0, <3>3
        <4>. QED
          BY <2>2, <2>5, <4>1
      <3>. QED
        BY <2>0, <3>1, <3>2, <3>3
    <2>7. Chain(g, m + 1)
      BY <2>4, <2>6, Zenon
    <2>. QED
      BY <2>0, <2>7
  <1>3. n \in Good
    <2> HIDE DEF Good
    <2>1. 0 .. n \subseteq Good
      BY <1>1, <1>2, UpTo
    <2>. QED
      BY <2>1
  <1>4. Chain(StandardKeys(a, b, n), n)
    <2>1. \E f : Chain(f, n)
      BY <1>3
    <2>2. StandardKeys(a, b, n) = CHOOSE f : Chain(f, n)
      BY DEF StandardKeys, base
    <2> HIDE DEF Chain
    <2>. QED
      BY <2>1, <2>2, Zenon
  <1>. QED
    <2> DEFINE c == StandardKeys(a, b, n)
    <2>1. Chain(c, n)
      BY <1>4
    <2> HIDE DEF c
    <2>2. \A i \in 0 .. n : c[i] = IF i = 0 THEN base ELSE StandardHash(c[i - 1])
      BY <2>1, Zenon
    <2>3. 0 \in 0 .. n /\ \A i \in 1 .. n : i \in 0 .. n /\ i # 0
      OBVIOUS
    <2>. QED
      BY <2>2, <2>3, Zenon DEF c, base

(* An element of octets is a sequence.                                     *)
LEMMA ElementSeq ==
  ASSUME NEW S, NEW octets \in Seq(S)
  PROVE  \E T : Element(Sequence, TRUE, octets) \in Seq(T)
  <1> DEFINE n == Len(octets)
             bytes == DigitCount(n, 256, SizeOctets)
             first == Sequence.class * 64 + 32 + Sequence.tag
  <1>1. EncodeIdentifier(Sequence, TRUE) = <<first>>
    BY DEF EncodeIdentifier, Sequence
  <1>2. bytes \in Nat
    <2>1. IsFiniteSet(0 .. SizeOctets - 1)
      BY DerHeaderAssumption, FS_Interval
    <2>2. IsFiniteSet({i \in 0 .. SizeOctets - 1 : n \div 256 ^ i > 0})
      BY <2>1, FS_Subset
    <2>. QED
      BY <2>2, FS_CardinalityType DEF DigitCount
  <1>3. \E U : EncodeLength(n) \in Seq(U)
    <2> DEFINE e == EncodeLength(n)
               U == {e[i] : i \in 1 .. bytes + 1}
    <2>1. CASE n <= 127
      <3>1. EncodeLength(n) = <<n>>
        BY <2>1 DEF EncodeLength
      <3>. QED
        BY <3>1
    <2>2. CASE ~(n <= 127)
      <3>1. e = [i \in 1 .. bytes + 1 |-> IF i = 1 THEN 128 + bytes ELSE Digit(n, 256, bytes, i - 1)]
        BY <2>2 DEF EncodeLength
      <3>2. e = [i \in 1 .. bytes + 1 |-> e[i]]
        BY <3>1
      <3> HIDE DEF e, bytes
      <3>3. e \in [1 .. bytes + 1 -> U]
        BY <3>2
      <3>4. e \in Seq(U)
        BY <1>2, <3>3, SMTT(30)
      <3>. QED
        BY <3>4 DEF e
    <2>. QED
      BY <2>1, <2>2
  <1>4. PICK U : EncodeLength(n) \in Seq(U)
    BY <1>3
  <1> DEFINE T == {first} \union U \union S
  <1>5. <<first>> \in Seq({first})
    OBVIOUS
  <1> HIDE DEF first, n
  <1>6. <<first>> \in Seq(T) /\ EncodeLength(n) \in Seq(T) /\ octets \in Seq(T)
    <2>1. {first} \subseteq T /\ U \subseteq T /\ S \subseteq T
      OBVIOUS
    <2> HIDE DEF T
    <2>. QED
      BY <1>4, <1>5, <2>1, WiderSeq
  <1> HIDE DEF T
  <1>7. <<first>> \o EncodeLength(n) \in Seq(T)
    BY <1>6, ConcatProperties
  <1>8. (<<first>> \o EncodeLength(n)) \o octets \in Seq(T)
    BY <1>6, <1>7, ConcatProperties
  <1>9. Element(Sequence, TRUE, octets) = (<<first>> \o EncodeLength(n)) \o octets
    BY <1>1, Zenon DEF Element, n
  <1>. QED
    BY <1>8, <1>9

-----------------------------------------------------------------------------
(* The key *)

Sending == {"connect", "send_head", "send_body", "receive"}
SentPart == Element(Sequence, TRUE, header.octets \o body.octets)

(* The key is the standard's after as many iterations; what is sent was    *)
(* protected with the last.                                                *)
KeyInv ==
  /\ rounds \in 0 .. Iterations
  /\ rounds > 0 => key = StandardKeys(Password, Salt, Iterations)[rounds]
  /\ pc # "start" => rounds = Iterations
  /\ pc \in Sending =>
       /\ body \in Bodies
       /\ mac = HmacSha256(key, SentPart)
       /\ message = Element(Sequence, TRUE, header.octets \o body.octets \o Protection(mac).octets)

(* Every iterated key is a sequence.                                       *)
LEMMA KeyIsHash ==
  ASSUME NEW n \in 1 .. Iterations
  PROVE  \E S : StandardKeys(Password, Salt, Iterations)[n] \in Seq(S)
  <1>1. Iterations \in Nat
    BY CmpClientAssumption
  <1>2. PICK keys : keys = StandardKeys(Password, Salt, Iterations)
    OBVIOUS
  <1>3. \A i \in 1 .. Iterations : keys[i] = StandardHash(keys[i - 1])
    BY <1>1, <1>2, StandardKeySteps
  <1>4. keys[n] = StandardHash(keys[n - 1])
    BY <1>3
  <1>. QED
    BY <1>2, <1>4, StandardHashSeq

(* No key has been derived initially.                                      *)
LEMMA KeyInit == Init => KeyInv
  BY CmpClientAssumption DEF Init, KeyInv, Sending

(* An iteration hashes the key once more.                                  *)
LEMMA DeriveKeyStep ==
  ASSUME KeyInv, DeriveKey
  PROVE  KeyInv'
  <1> DEFINE K(i) == StandardKeys(Password, Salt, Iterations)[i]
  <1>1. Iterations \in Nat /\ rounds \in 0 .. Iterations - 1 /\ rounds' = rounds + 1 /\ pc = "start" /\ pc' = "start"
    BY CmpClientAssumption DEF KeyInv, DeriveKey
  <1>2. K(0) = Password \o Salt /\ \A i \in 1 .. Iterations : K(i) = StandardHash(K(i - 1))
    BY <1>1, StandardKeySteps, Zenon
  <1> HIDE DEF K
  <1>3. rounds + 1 \in 1 .. Iterations /\ (rounds + 1) - 1 = rounds
    BY <1>1
  <1>4. K(rounds + 1) = StandardHash(K(rounds))
    BY <1>2, <1>3
  <1>5. key' = StandardHash(K(rounds))
    <2>1. CASE rounds = 0
      <3>1. key' = Sha256Of2(Password, Salt)
        BY <2>1 DEF DeriveKey
      <3>2. Sha256Of2(Password, Salt) = StandardHash(Password \o Salt)
        BY CmpClientAssumption, HashOfPieces
      <3>. QED
        BY <1>2, <2>1, <3>1, <3>2
    <2>2. CASE rounds # 0
      <3>1. rounds \in 1 .. Iterations /\ rounds > 0
        BY <1>1, <2>2
      <3>2. key = K(rounds)
        BY <3>1 DEF KeyInv, K
      <3>3. PICK S : key \in Seq(S)
        BY <3>1, <3>2, KeyIsHash DEF K
      <3>4. key' = Hash(key) /\ Hash(key) = StandardHash(key)
        BY <2>2, <3>3, HashIsStandard DEF DeriveKey
      <3>. QED
        BY <3>2, <3>4
    <2>. QED
      BY <2>1, <2>2
  <1>6. rounds' \in 0 .. Iterations /\ (rounds' > 0 => key' = K(rounds'))
    BY <1>1, <1>3, <1>4, <1>5
  <1>. QED
    BY <1>1, <1>6 DEF KeyInv, Sending, K

(* Every step keeps the key and the MAC the standard's.                    *)
LEMMA KeyStep == IInv /\ KeyInv /\ [Next]_vars => KeyInv'
  <1> SUFFICES ASSUME IInv, KeyInv, [Next]_vars
               PROVE  KeyInv'
    OBVIOUS
  <1>1. CASE DeriveKey
    BY <1>1, DeriveKeyStep
  <1>2. CASE BuildMessage
    <2>1. UNCHANGED <<key, rounds>> /\ pc' \in {"csr", "failed"} /\ rounds = Iterations
      BY <1>2 DEF BuildMessage, request, Goto, Exit
    <2>. QED
      BY <2>1 DEF KeyInv, Sending
  <1>3. CASE HydrateCsr \/ ProtectHeader \/ ProtectBody \/ ComputeMac
    <2>1. UNCHANGED <<key, rounds>> /\ pc' \notin Sending \union {"start"} /\ pc # "start"
      BY <1>3 DEF HydrateCsr, ProtectHeader, ProtectBody, ComputeMac, Goto, Exit, Sending
    <2>. QED
      BY <2>1 DEF KeyInv
  <1>4. CASE EncodeMessage
    <2>1. UNCHANGED <<key, rounds, header, body, mac>> /\ pc = "encode" /\ pc' \in {"connect", "failed"}
      BY <1>4 DEF EncodeMessage, Goto, Exit
    <2>2. CASE pc' = "connect"
      <3>1. Encodable /\ message' = Element(Sequence, TRUE, header.octets \o body.octets \o Protection(mac).octets)
        BY <1>4, <2>2 DEF EncodeMessage, Goto, Exit
      <3>2. header \in Headers /\ body \in Bodies /\ HoldsBoth /\ mac = HmacSha256(key, ProtectedPart)
        BY <2>1 DEF IInv, Progress
      <3>3. content = header.octets \o body.octets
        BY <3>1, <3>2, EncodableIsHeld
      <3>4. mac = HmacSha256(key, SentPart) /\ SentPart' = SentPart
        BY <2>1, <3>2, <3>3 DEF ProtectedPart, SentPart
      <3>. QED
        BY <2>1, <2>2, <3>1, <3>2, <3>4 DEF KeyInv, Sending
    <2>3. CASE pc' = "failed"
      BY <2>1, <2>3 DEF KeyInv, Sending
    <2>. QED
      BY <2>1, <2>2, <2>3
  <1>5. CASE /\ UNCHANGED request
             /\ pc # "start" /\ pc' # "start" /\ (pc' \in Sending => pc \in Sending)
    <2>1. UNCHANGED <<key, rounds, header, body, mac, message, SentPart>>
      BY <1>5 DEF request, SentPart
    <2>. QED
      BY <1>5, <2>1 DEF KeyInv
  <1>6. CASE UNCHANGED request /\ UNCHANGED pc
    <2>1. UNCHANGED <<key, rounds, header, body, mac, message, SentPart>>
      BY <1>6 DEF request, SentPart
    <2>. QED
      BY <1>6, <2>1 DEF KeyInv
  <1>7. Connect \/ SendHead \/ SendBody \/ Receive \/ FindBody \/ ParseBody \/ DecodeBody \/ Close
          => /\ UNCHANGED request
             /\ pc # "start" /\ pc' # "start" /\ (pc' \in Sending => pc \in Sending)
    BY DEF Connect, SendHead, SendBody, Receive, FindBody, ParseBody, DecodeBody, Close, Goto, Exit, Report, Sending
  <1>8. Server \/ UNCHANGED vars => UNCHANGED request /\ UNCHANGED pc
    BY DEF Server, ServerAnswers, ServerCloses, vars
  <1>. QED
    BY <1>1, <1>2, <1>3, <1>4, <1>5, <1>6, <1>7, <1>8 DEF Next, Client

(* A server that has the whole message and the password finds the MAC      *)
(* right: hashes fed in pieces, cut into blocks and padded as              *)
(* sha256_update and sha256_final do (c99_client.c:119-166), keyed as      *)
(* hmac_sha256 and derive_key do (168-212), are those of the standards.    *)
THEOREM ServerAcceptsMac == Spec => []MacVerifies
  <1>1. IInv /\ KeyInv => MacVerifies
    <2> SUFFICES ASSUME IInv, KeyInv, pc = "receive", wire = message
                 PROVE  LET part == header.octets \o body.octets
                            m == StandardHmac(StandardKey(Password, Salt, Iterations), Element(Sequence, TRUE, part))
                        IN wire = Element(Sequence, TRUE, part \o Protection(m).octets)
      BY DEF MacVerifies
    <2>1. Iterations \in 1 .. Iterations /\ rounds = Iterations /\ rounds > 0
      BY CmpClientAssumption DEF KeyInv
    <2>2. key = StandardKey(Password, Salt, Iterations)
      BY <2>1 DEF KeyInv, StandardKey
    <2>3. PICK S : key \in Seq(S)
      BY <2>1, <2>2, KeyIsHash DEF StandardKey
    <2>4. header.octets \in Seq(Octets) /\ body.octets \in Seq(Octets)
      BY CmpClientAssumption DEF IInv, Progress, KeyInv, Sending, Encodings
    <2>5. header.octets \o body.octets \in Seq(Octets)
      BY <2>4, ConcatProperties
    <2>6. PICK T : SentPart \in Seq(T)
      BY <2>5, ElementSeq DEF SentPart
    <2>7. mac = StandardHmac(key, SentPart)
      BY <2>3, <2>6, HmacIsStandard DEF KeyInv, Sending
    <2>8. wire = Element(Sequence, TRUE, header.octets \o body.octets \o Protection(mac).octets)
      BY DEF KeyInv, Sending
    <2>. QED
      BY <2>2, <2>7, <2>8 DEF SentPart
  <1>. QED
    BY InitInv, NextInv, KeyInit, KeyStep, <1>1, PTL DEF Spec
=============================================================================
