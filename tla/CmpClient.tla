----------------------------- MODULE CmpClient -----------------------------
(***************************************************************************)
(* The CMP client of the C99 port (c99_client.c) and the server it talks   *)
(* to: one request, protected by a MAC, over one connection.               *)
(*                                                                         *)
(* The generated encoders are abstracted to the octets they write: an      *)
(* encoding needs "peak" octets of buffer (open elements reserve more than *)
(* they keep) and, if it does not have them or the value is not encodable, *)
(* leaves a part of its octets behind.  Addresses and log lines are left   *)
(* out, and the failures of calloc, socket and connect are any failures.   *)
(***************************************************************************)
EXTENDS Sha256

CONSTANTS
  Password, Salt, Iterations,
  Headers, Bodies,   \* encodings of the header and of the body: [octets, peak, valid]
  Capacity,          \* sizeof(buffer) = sizeof(final_buf)
  Reserved,          \* octets reserved for a length
  Responses,         \* what the server may answer: [head, body, message]
  RespSize           \* sizeof(resp)

(* Length octets as asn1_parse reads them.                                 *)
Number(octets) == FoldLeft(LAMBDA n, o : 256 * n + o, 0, octets)

Encodings == {e \in [octets : Seq(Octets), peak : Nat, valid : BOOLEAN] : Len(e.octets) <= e.peak}

ASSUME CmpClientAssumption ==
  /\ Password \in Seq(Octets) /\ Salt \in Seq(Octets)
  /\ Iterations \in Nat \ {0}
  /\ Headers \subseteq Encodings
  /\ Bodies \subseteq Encodings
  /\ Capacity \in Nat /\ Reserved \in Nat
  /\ Capacity >= 1 + Reserved
  /\ RespSize \in Nat \ {0, 1}

Delimiter == <<13, 10, 13, 10>>
DelimitersIn(octets) == {i \in 0 .. Len(octets) - 4 : SubSeq(octets, i + 1, i + 4) = Delimiter}

AnElementBegins(octets) == Len(octets) >= 2   \* mutant: the octets may end early
(* asn1_parse accepts one element, whole and with nothing after it; its    *)
(* identifier here is one octet, as that of a PKIMessage.                  *)
OneElement(octets) ==
  LET first == octets[2]
      more  == IF first < 128 THEN 0 ELSE first - 128
  IN /\ Len(octets) >= 2 /\ Len(octets) >= 2 + more
     /\ first >= 128 => more > 0 /\ octets[3] # 0 /\ (more = 1 => octets[3] >= 128)
     /\ Len(octets) = 2 + more + IF first < 128 THEN first ELSE Number(SubSeq(octets, 3, 2 + more))

(* The first delimiter ends an HTTP header; a message is an element, and   *)
(* one that asn1_parse accepts: well-formed to the last octet, and not too *)
(* deep or more nodes than nodes[512].                                     *)
ASSUME ResponsesAssumption ==
  \A r \in Responses :
    /\ r \in [head : Seq(Octets), body : Seq(Octets), message : BOOLEAN]
    /\ DelimitersIn(r.head) = {Len(r.head) - 4}
    /\ r.message => OneElement(r.body)

(* strstr ends at a NUL, and an HTTP header has none.                      *)
ASSUME HeadsAssumption == \A r \in Responses : \A i \in DOMAIN r.head : r.head[i] # 0

VARIABLES
  pc,          \* the client's next step, or how it ended
  key, rounds, \* the output of derive_key, and its iterations
  header, body,
  content,     \* the ProtectedPart's content in buffer, after its placeholder
  mac,         \* the output of hmac_sha256
  message,     \* final_buf
  wire,        \* what the server has got of it
  answer,      \* <<>>, or the server's answer
  inflight,    \* octets of the answer not yet received
  closed,      \* has the server closed the connection?
  resp,        \* resp[0 .. n - 1]
  outcome      \* what the client reports of the response

request == <<key, rounds, header, body, content, mac, message>>
server == <<answer, inflight, closed>>
vars == <<pc, request, wire, server, resp, outcome>>

-----------------------------------------------------------------------------
Sequence == [class |-> 0, tag |-> 16]
Element(id, constructed, octets) ==
  EncodeIdentifier(id, constructed) \o EncodeLength(Len(octets)) \o octets

(* PKIMessage's protection.                                                *)
Protection(m) ==
  LET octets == Element([class |-> 2, tag |-> 0], TRUE,
                        Element([class |-> 0, tag |-> 3], FALSE, <<0>> \o m))
  IN [octets |-> octets, peak |-> Len(octets) + Reserved, valid |-> TRUE]

Encodes(out, e) == e.valid /\ 1 + Reserved + Len(out) + e.peak <= Capacity

(* What an encoder may leave behind out.                                   *)
Written(out, e) ==
  IF Encodes(out, e) THEN {out \o e.octets}
  ELSE {out \o SubSeq(e.octets, 1, k) : k \in 0 .. Len(e.octets)}

Exit == pc' = "failed"
Goto(step) == pc' = step

(* derive_key: SHA-256 of the password and the salt, which counts as the   *)
(* first of the iterations.                                                *)
DeriveKey ==
  /\ pc = "start" /\ rounds < Iterations
  /\ key' = IF rounds = 0 THEN Sha256Of2(Password, Salt) ELSE Hash(key)
  /\ rounds' = rounds + 1
  /\ UNCHANGED <<pc, header, body, content, mac, message, wire, server, resp, outcome>>

(* The message's structure on the heap.                                    *)
BuildMessage ==
  /\ pc = "start" /\ rounds = Iterations
  /\ Goto("csr") \/ Exit
  /\ UNCHANGED <<request, wire, server, resp, outcome>>

(* The certificate request is parsed, or the program exits; whether it was *)
(* decoded shows only in the body that will be encoded.                    *)
HydrateCsr ==
  /\ pc = "csr"
  /\ \/ body' \in Bodies /\ Goto("protect_header")
     \/ UNCHANGED body /\ Exit
  /\ UNCHANGED <<key, rounds, header, content, mac, message, wire, server, resp, outcome>>

(* The results of the encoders are ignored.                                *)
ProtectHeader ==
  /\ pc = "protect_header"
  /\ content' \in Written(<<>>, header)
  /\ Goto("protect_body")
  /\ UNCHANGED <<key, rounds, header, body, mac, message, wire, server, resp, outcome>>

ProtectBody ==
  /\ pc = "protect_body"
  /\ content' \in Written(content, body)
  /\ Goto("mac")
  /\ UNCHANGED <<key, rounds, header, body, mac, message, wire, server, resp, outcome>>

ProtectedPart == Element(Sequence, TRUE, content)

ComputeMac ==
  /\ \/ pc = "mac" /\ mac' = InnerDigest(key, ProtectedPart) /\ Goto("outer")
     \/ pc = "outer" /\ mac' = OuterDigest(key, mac) /\ Goto("encode")
  /\ UNCHANGED <<key, rounds, header, body, content, message, wire, server, resp, outcome>>

EncodableUnchecked == TRUE   \* mutant: the final encode's result is ignored too
Encodable ==
  /\ Encodes(<<>>, header)
  /\ Encodes(header.octets, body)
  /\ Encodes(header.octets \o body.octets, Protection(mac))

EncodeMessage ==
  /\ pc = "encode"
  /\ \/ /\ Encodable
        /\ message' = Element(Sequence, TRUE, header.octets \o body.octets \o Protection(mac).octets)
        /\ Goto("connect")
     \/ ~Encodable /\ UNCHANGED message /\ Exit
  /\ UNCHANGED <<key, rounds, header, body, content, mac, wire, server, resp, outcome>>

(* socket, gethostbyname and connect                                       *)
Connect ==
  /\ pc = "connect"
  /\ \/ Goto("send_head") \/ Exit
  /\ UNCHANGED <<request, wire, server, resp, outcome>>

(* The results of send are ignored; writing to a connection that the       *)
(* server has closed may end the process (SIGPIPE).  Nothing is sent, a    *)
(* part, or all.                                                           *)
SendHead ==
  /\ pc = "send_head"
  /\ \/ Goto("send_body")
     \/ closed /\ Goto("killed")
  /\ UNCHANGED <<request, wire, server, resp, outcome>>

SendBody ==
  /\ pc = "send_body"
  /\ \/ \E n \in {0, Len(message) \div 2, Len(message)} : wire' = SubSeq(message, 1, n) /\ Goto("receive")
     \/ closed /\ UNCHANGED wire /\ Goto("killed")
  /\ UNCHANGED <<request, server, resp, outcome>>

Min2(a, b) == IF a < b THEN a ELSE b

WholeBuffer == {n \in {RespSize - 1} : n <= Len(inflight)}   \* mutant: MSG_WAITALL
(* What one recv may return of the stream.                                 *)
Deliverable == 1 .. Min2(Len(inflight), RespSize - 1)

(* One recv, which waits for octets or for the end of the stream.          *)
Receive ==
  /\ pc = "receive"
  /\ \/ \E n \in Deliverable :
          /\ resp' = SubSeq(inflight, 1, n)
          /\ inflight' = SubSeq(inflight, n + 1, Len(inflight))
          /\ Goto("find") /\ UNCHANGED outcome
     \/ /\ closed /\ (inflight = <<>>)
        /\ outcome' \in {"no data", "receive error"}
        /\ Goto("close") /\ UNCHANGED <<resp, inflight>>
  /\ UNCHANGED <<request, wire, answer, closed>>

Delimiters == DelimitersIn(resp)
HeaderLength == (CHOOSE i \in Delimiters : \A j \in Delimiters : i <= j) + 4
ReceivedBody == SubSeq(resp, HeaderLength + 1, Len(resp))

Report(o) == outcome' = o /\ Goto("close")

(* strstr for the end of the HTTP header (without NULs: HeadsAssumption).  *)
(* resp is not terminated after its n octets: if the delimiter is not      *)
(* among them, strstr goes on in what the array held before, and a         *)
(* delimiter that ends there leaves a negative length for the parser (read *)
(* as a size_t), which fails, or reads beyond the array.                   *)
FindBody ==
  /\ pc = "find"
  /\ \/ Delimiters = {} /\ Report("no delimiter")
     \/ Delimiters = {} /\ Report("unparsed")
     \/ Delimiters = {} /\ UNCHANGED outcome /\ Goto("killed")
     \/ Delimiters # {} /\ ReceivedBody = <<>> /\ Report("empty")
     \/ Delimiters # {} /\ ReceivedBody # <<>> /\ UNCHANGED outcome /\ Goto("parse")
  /\ UNCHANGED <<request, wire, server, resp>>

(* asn1_parse refuses what is no element as a whole; of an element that is *)
(* no message it may refuse the content, the depth or the number of nodes. *)
ParseBody ==
  /\ pc = "parse"
  /\ \/ OneElement(ReceivedBody) /\ Goto("decode") /\ UNCHANGED outcome
     \/ ~(OneElement(ReceivedBody) /\ answer[1].message) /\ Report("unparsed")
  /\ UNCHANGED <<request, wire, server, resp>>

(* The generated decoder on the structure of a message, if there is memory *)
(* for it.                                                                 *)
DecodeBody ==
  /\ pc = "decode"
  /\ \/ Report("no memory")
     \/ answer[1].message /\ Report("decoded")
     \/ ~answer[1].message /\ Report("undecoded")
  /\ UNCHANGED <<request, wire, server, resp>>

(* close, free and return 0, whatever was received                         *)
Close ==
  /\ pc = "close"
  /\ Goto("done")
  /\ UNCHANGED <<request, wire, server, resp, outcome>>

Client ==
  \/ DeriveKey \/ BuildMessage \/ HydrateCsr \/ ProtectHeader \/ ProtectBody \/ ComputeMac \/ EncodeMessage
  \/ Connect \/ SendHead \/ SendBody \/ Receive \/ FindBody \/ ParseBody \/ DecodeBody \/ Close

-----------------------------------------------------------------------------
(* The server: it answers once, and may close at any time.                 *)

Connected == pc \in {"send_head", "send_body", "receive"}

ServerAnswers ==
  /\ Connected /\ ~closed /\ answer = <<>>
  /\ \E r \in Responses : answer' = <<r>> /\ inflight' = r.head \o r.body
  /\ UNCHANGED <<pc, request, wire, closed, resp, outcome>>

ServerCloses ==
  /\ Connected /\ ~closed
  /\ closed' = TRUE
  /\ UNCHANGED <<pc, request, wire, answer, inflight, resp, outcome>>

Server == ServerAnswers \/ ServerCloses

Init ==
  /\ pc = "start"
  /\ header \in Headers
  /\ body = [octets |-> <<>>, peak |-> 0, valid |-> FALSE]
  /\ key = <<>> /\ rounds = 0 /\ content = <<>> /\ mac = <<>> /\ message = <<>> /\ wire = <<>>
  /\ answer = <<>> /\ inflight = <<>> /\ closed = FALSE
  /\ resp = <<>> /\ outcome = "none"

Next == Client \/ Server

(* The client runs; the server answers or closes: recv has no timeout.     *)
Spec == Init /\ [][Next]_vars /\ WF_vars(Client) /\ WF_vars(Server)
-----------------------------------------------------------------------------
(* Correctness *)

Ended == pc \in {"failed", "killed", "done"}

(* Nothing goes to the server unless the MAC was computed over exactly     *)
(* that message's header and body: the results ignored before the MAC are  *)
(* those of an encoding that the final encoding, into a buffer of the same *)
(* size, repeats and checks.                                               *)
MacCoversMessage ==
  message # <<>> =>
    /\ mac = HmacSha256(key, Element(Sequence, TRUE, header.octets \o body.octets))
    /\ message = Element(Sequence, TRUE, header.octets \o body.octets \o Protection(mac).octets)

(* A server that has the whole message and the password finds the MAC      *)
(* right, by the standards' definitions of the key and of HMAC.            *)
MacVerifies ==
  pc = "receive" /\ wire = message =>
    LET part == header.octets \o body.octets
        m == StandardHmac(StandardKey(Password, Salt, Iterations), Element(Sequence, TRUE, part))
    IN wire = Element(Sequence, TRUE, part \o Protection(m).octets)

(* However the answer is cut into segments, a message is reported as       *)
(* decoded only if it is the whole message the server sent, and only a     *)
(* shorter read keeps a message that fits from being decoded.              *)
ReportsTheAnswer ==
  /\ outcome = "decoded" => answer[1].message /\ ReceivedBody = answer[1].body
  /\ outcome \in {"no delimiter", "empty", "unparsed", "undecoded"} /\ answer[1].message =>
       inflight # <<>>

(* The client ends, if the server answers or closes.                       *)
ClientEnds == <>Ended
=============================================================================
