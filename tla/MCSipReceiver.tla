--------------------------- MODULE MCSipReceiver ---------------------------
(* Instances of SipReceiver for TLC: the phone's call with an answer that   *)
(* has no audio, or a datagram that is no proper message, in between.       *)
EXTENDS SipReceiver, SequencesExt

CONSTANTS c1, vInv, vAck, vBye

Req(from, method, via, seq, sdp) ==
  [kind |-> "request", from |-> from, method |-> method, cid |-> c1,
   via |-> via, seq |-> seq, sdp |-> sdp, toMe |-> TRUE]
Rsp(method, via, seq, sdp, code) ==
  [kind |-> "response", from |-> "ext", method |-> method, cid |-> c1,
   via |-> via, seq |-> seq, sdp |-> sdp, code |-> code]

Call   == Req("loc", "INVITE", vInv, 1, "raw")
Ack    == Req("loc", "ACK", vAck, 1, "none")
Bye    == Req("ext", "BYE", vBye, 2, "none")
Ok     == Rsp("INVITE", vInv, 1, "raw", 200)
NoSdp  == Rsp("INVITE", vInv, 1, "bad", 488)
Improper == [kind |-> "malformed", from |-> "loc"]
Requested == {Call, Ack, Bye}
Responded == {Ok, NoSdp}

MCRequests  == Requested \cup {Garbled(m) : m \in Requested}
MCResponses == Responded \cup {Garbled(m) : m \in Responded}
MCMalformed == {Improper}

----------------------------------------------------------------------------
(* How a user agent writes messages: the length counts bytes.              *)

First(m) == [k |-> "first", m |-> m]
Char(m)  == [k |-> "data", m |-> m]
Wide(m)  == [k |-> "wide", m |-> m]
Length(t, n) == [k |-> t, n |-> n]
Plain(m) == IF BodyLength(m) = 0 THEN <<>> ELSE <<Char(m), Char(m)>>
Accented(m) == IF BodyLength(m) = 0 THEN <<>> ELSE <<Char(m), Wide(m)>>
InBytes(body) == Len(body) + Cardinality({i \in DOMAIN body : Bytes(body[i]) = 2})
Wire(m, length, body) ==
  <<First(m), Length(length, InBytes(body)), Line("blank")>> \o body

\* Whole messages, two of them in one datagram.
Whole1(m) == [from |-> m.from, data |-> Wire(m, "length", Plain(m)), msgs |-> <<m>>]
Whole2(m1, m2) ==
  [from |-> m1.from, msgs |-> <<m1, m2>>,
   data |-> Wire(m1, "length", Plain(m1)) \o Wire(m2, "length", Plain(m2))]
\* What is cut short, what is not UTF-8, and the short form of Content-Length
\* with a body of other than plain characters.
CutBody(m) == [from |-> m.from, data |-> Front(Wire(m, "length", Plain(m))), msgs |-> <<>>]
CutLine(m1, m2) ==
  [from |-> m1.from, msgs |-> <<m1>>,
   data |-> Wire(m1, "length", Plain(m1)) \o <<First(m2), Line("part")>>]
NotUtf8(m) ==
  [from |-> m.from, msgs |-> <<>>,
   data |-> <<First(m), Line("odd"), Length("length", 0), Line("blank")>>]
Short(m) == [from |-> m.from, data |-> Wire(m, "compact", Accented(m)), msgs |-> <<>>]

MCDatagrams ==
  { Whole1(Call), CutLine(Ok, Bye), Whole2(Ok, NoSdp), Whole2(Ack, Improper), CutBody(Call),
    NotUtf8(Bye), Short(Ok) }
=============================================================================
