------------------------------ MODULE MCGmitm ------------------------------
(* Instances of Gmitm for TLC: the messages of one outgoing call with its  *)
(* BYE, CANCEL and both kinds of ACK, and of one incoming call.            *)
EXTENDS Gmitm

CONSTANTS c1, c2, vInv, vAck, vBye, vIn, vInv2, vAck2

Req(from, method, cid, via, seq, sdp) ==
  [kind |-> "request", from |-> from, method |-> method, cid |-> cid,
   via |-> via, seq |-> seq, sdp |-> sdp, toMe |-> TRUE]
Rsp(from, method, cid, via, seq, sdp, code) ==
  [kind |-> "response", from |-> from, method |-> method, cid |-> cid,
   via |-> via, seq |-> seq, sdp |-> sdp, code |-> code]

\* An outgoing call with CSeq 1 and its BYE with CSeq 2.
OutgoingRequests ==
  { Req("loc", "INVITE", c1, vInv, 1, "raw"), Req("loc", "CANCEL", c1, vInv, 1, "none"),
    Req("loc", "ACK", c1, vInv, 1, "none"), Req("loc", "ACK", c1, vAck, 1, "none"),
    Req("loc", "BYE", c1, vBye, 2, "none") }
OutgoingResponses ==
  { Rsp("ext", "INVITE", c1, vInv, 1, "raw", 180), Rsp("ext", "INVITE", c1, vInv, 1, "raw", 200),
    Rsp("ext", "INVITE", c1, vInv, 1, "none", 407), Rsp("ext", "INVITE", c1, vInv, 1, "nocon", 488),
    Rsp("ext", "CANCEL", c1, vInv, 1, "none", 200), Rsp("ext", "BYE", c1, vBye, 2, "none", 200) }

\* An incoming call whose SDP has no audio, or no address.
IncomingRequests ==
  { Req("ext", "INVITE", c2, vIn, 1, "bad"), Req("ext", "INVITE", c2, vIn, 1, "nocon") }

MCRequests  == OutgoingRequests \cup IncomingRequests
MCResponses == OutgoingResponses

\* Two outgoing calls whose user agents both count from CSeq 1.
TwoCallRequests ==
  { Req("loc", "INVITE", c1, vInv, 1, "raw"), Req("loc", "ACK", c1, vAck, 1, "none"),
    Req("loc", "INVITE", c2, vInv2, 1, "raw"), Req("loc", "ACK", c2, vAck2, 1, "none") }
TwoCallResponses ==
  { Rsp("ext", "INVITE", c1, vInv, 1, "raw", 200), Rsp("ext", "INVITE", c2, vInv2, 1, "raw", 200) }

\* A call that is given up with BYE while it rings.
EarlyByeRequests ==
  { Req("loc", "INVITE", c1, vInv, 1, "raw"), Req("loc", "BYE", c1, vBye, 2, "none") }
EarlyByeResponses ==
  { Rsp("ext", "INVITE", c1, vInv, 1, "none", 180), Rsp("ext", "BYE", c1, vBye, 2, "none", 200) }

\* User agents that send nothing unprovoked: a response answers a request that
\* was forwarded, an ACK a final and a BYE some response to the INVITE.
Provoked(m) ==
  \/ m.method \in {"INVITE", "REGISTER"} /\ m.kind = "request"
  \/ \E k \in Vias : branchmap[k] # None /\
       LET q == branchmap[k].reqs[m.method]
           p == branchmap[k].rsps["INVITE"]
       IN
       \/ m.kind = "response" /\ q # None /\ q.via = m.via
       \/ m.kind = "request" /\ p # None /\ p.cid = m.cid /\ (m.method = "ACK" => Final(p.code))

OrderlyNext ==
  \/ \E m \in Requests : Provoked(m) /\ Request(m)
  \/ \E m \in Responses : Provoked(m) /\ Response(m)
  \/ Timeout
OrderlySpec == Init /\ [][OrderlyNext]_vars
=============================================================================
