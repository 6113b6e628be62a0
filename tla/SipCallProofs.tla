--------------------------- MODULE SipCallProofs ---------------------------
(***************************************************************************)
(* Theorems about a call through zsipos: they hold for every set of        *)
(* scenarios, every CSeq number of the callee and every number of ports,    *)
(* under the assumptions each theorem states.                              *)
(***************************************************************************)
EXTENDS SipCall, GmitmProofs

----------------------------------------------------------------------------
(* The messages of the call, and where they are.                           *)

Tries == {1, 2}

Progress(i)      == Rsp(Invite(i), "none", 180)
Challenge(i)     == Rsp(Invite(i), "none", 407)
Ok(i)            == Rsp(Invite(i), "raw", 200)
Refusal(i, code) == Rsp(Invite(i), "none", code)
CancelOk(i)      == Rsp(Cancel(i), "none", 200)
ByeOk(i)         == Rsp(Bye(i), "none", 200)
CalleeByeOk      == Rsp(CalleeBye, "none", 200)
HoldOk           == Rsp(Hold, "raw", 200)
HoldNo           == Rsp(Hold, "none", 488)
HeldAck          == HoldAck(<<"held", 1>>)
HoldNoAck        == HoldAck(<<"hold", 1>>)

FromCaller(m) ==
  \/ \E i \in Tries : m \in {Invite(i), Cancel(i), AckFail(i), AckOk(i), Bye(i)}
  \/ m \in {CalleeByeOk, HoldOk, HoldNo}
FromCallee(m) ==
  \/ \E i \in Tries : m \in {Progress(i), Ok(i), Challenge(i), Refusal(i, 486), Refusal(i, 487),
                             CancelOk(i), ByeOk(i)}
  \/ m \in {Hold, HeldAck, HoldNoAck, CalleeBye}
Mail == {m \in MessageType : FromCaller(m) \/ FromCallee(m)}

OnWire(m) == [to |-> "mitm", msg |-> m] \in wire    \* zsipos may still receive it
Passed(m) == Got(Opposite(m.from), m)               \* it has come through zsipos
Seen(m)   == OnWire(m) \/ Passed(m)

Redirected(i)   == [to |-> side, msg |-> [Ok(i) EXCEPT !.sdp = "fixed"]] \in wire
Unredirected(i) == [to |-> side, msg |-> Ok(i)] \in wire

Setting ==
  /\ side \in Sides /\ allowed \subseteq Optional
  /\ \E sc \in Scenarios : side \in sc.sides /\ allowed = sc.allowed

\* What a message says of itself.
Says(m, kind, from, method, via, seq, sdp) ==
  /\ m.kind = kind /\ m.from = from /\ m.method = method /\ m.via = via
  /\ m.seq = seq /\ m.sdp = sdp /\ m.cid = Cid

\* The requests of both ends.
LEMMA RequestFields ==
  ASSUME NEW i \in Tries
  PROVE  /\ Says(Invite(i), "request", side, "INVITE", <<"inv", i>>, i, "raw")
         /\ Says(Cancel(i), "request", side, "CANCEL", <<"inv", i>>, i, "none")
         /\ Says(AckFail(i), "request", side, "ACK", <<"inv", i>>, i, "none")
         /\ Says(AckOk(i), "request", side, "ACK", <<"ack", i>>, i, "none")
         /\ Says(Bye(i), "request", side, "BYE", <<"bye", i>>, i + 1, "none")
         /\ Says(Hold, "request", far, "INVITE", <<"hold", 1>>, CalleeSeq, "raw")
         /\ Says(HeldAck, "request", far, "ACK", <<"held", 1>>, CalleeSeq, "none")
         /\ Says(HoldNoAck, "request", far, "ACK", <<"hold", 1>>, CalleeSeq, "none")
         /\ Says(CalleeBye, "request", far, "BYE", <<"hang", 1>>, CalleeBye.seq, "none")
         /\ CalleeBye.seq \in {CalleeSeq, CalleeSeq + 1}
         /\ Invite(i).toMe /\ Hold.toMe
  <1>1. CalleeBye.seq \in {CalleeSeq, CalleeSeq + 1}
    BY DEF CalleeBye, Req
  <1>2. Says(CalleeBye, "request", far, "BYE", <<"hang", 1>>, CalleeBye.seq, "none")
    BY DEF Says, CalleeBye, Req
  <1>3. /\ Says(Invite(i), "request", side, "INVITE", <<"inv", i>>, i, "raw")
        /\ Says(Cancel(i), "request", side, "CANCEL", <<"inv", i>>, i, "none")
        /\ Says(AckFail(i), "request", side, "ACK", <<"inv", i>>, i, "none")
        /\ Says(AckOk(i), "request", side, "ACK", <<"ack", i>>, i, "none")
        /\ Says(Bye(i), "request", side, "BYE", <<"bye", i>>, i + 1, "none")
        /\ Invite(i).toMe /\ Hold.toMe
    BY DEF Says, Invite, Cancel, AckFail, AckOk, Bye, Hold, Req
  <1>4. /\ Says(Hold, "request", far, "INVITE", <<"hold", 1>>, CalleeSeq, "raw")
        /\ Says(HeldAck, "request", far, "ACK", <<"held", 1>>, CalleeSeq, "none")
        /\ Says(HoldNoAck, "request", far, "ACK", <<"hold", 1>>, CalleeSeq, "none")
    BY DEF Says, Hold, HeldAck, HoldNoAck, HoldAck, Req
  <1> QED BY <1>1, <1>2, <1>3, <1>4

\* A response says what its request says, from the other side.
LEMMA ResponseFields ==
  ASSUME NEW q, NEW sdp, NEW code
  PROVE  /\ Says(Rsp(q, sdp, code), "response", Opposite(q.from), q.method, q.via, q.seq, sdp)
         /\ Rsp(q, sdp, code).code = code
  BY DEF Says, Rsp

\* The responses of both ends.
LEMMA AnswerFields ==
  ASSUME side \in Sides, NEW i \in Tries
  PROVE  /\ Says(Progress(i), "response", far, "INVITE", <<"inv", i>>, i, "none") /\ Progress(i).code = 180
         /\ Says(Challenge(i), "response", far, "INVITE", <<"inv", i>>, i, "none") /\ Challenge(i).code = 407
         /\ Says(Ok(i), "response", far, "INVITE", <<"inv", i>>, i, "raw") /\ Ok(i).code = 200
         /\ \A code : /\ Says(Refusal(i, code), "response", far, "INVITE", <<"inv", i>>, i, "none")
                      /\ Refusal(i, code).code = code
         /\ Says(CancelOk(i), "response", far, "CANCEL", <<"inv", i>>, i, "none") /\ CancelOk(i).code = 200
         /\ Says(ByeOk(i), "response", far, "BYE", <<"bye", i>>, i + 1, "none") /\ ByeOk(i).code = 200
         /\ Says(CalleeByeOk, "response", side, "BYE", <<"hang", 1>>, CalleeBye.seq, "none") /\ CalleeByeOk.code = 200
         /\ Says(HoldOk, "response", side, "INVITE", <<"hold", 1>>, CalleeSeq, "raw") /\ HoldOk.code = 200
         /\ Says(HoldNo, "response", side, "INVITE", <<"hold", 1>>, CalleeSeq, "none") /\ HoldNo.code = 488
  <1>1. Opposite(far) = side
    BY DEF far, Opposite, Sides
  <1>2. /\ Invite(i).from = side /\ Invite(i).method = "INVITE" /\ Invite(i).via = <<"inv", i>> /\ Invite(i).seq = i
        /\ Cancel(i).from = side /\ Cancel(i).method = "CANCEL" /\ Cancel(i).via = <<"inv", i>> /\ Cancel(i).seq = i
        /\ Bye(i).from = side /\ Bye(i).method = "BYE" /\ Bye(i).via = <<"bye", i>> /\ Bye(i).seq = i + 1
        /\ Hold.from = far /\ Hold.method = "INVITE" /\ Hold.via = <<"hold", 1>> /\ Hold.seq = CalleeSeq
        /\ CalleeBye.from = far /\ CalleeBye.method = "BYE" /\ CalleeBye.via = <<"hang", 1>>
    BY RequestFields DEF Says
  <1>3. /\ Says(Progress(i), "response", far, "INVITE", <<"inv", i>>, i, "none") /\ Progress(i).code = 180
        /\ Says(Challenge(i), "response", far, "INVITE", <<"inv", i>>, i, "none") /\ Challenge(i).code = 407
        /\ Says(Ok(i), "response", far, "INVITE", <<"inv", i>>, i, "raw") /\ Ok(i).code = 200
    BY <1>2, ResponseFields DEF Progress, Challenge, Ok, far
  <1>4. \A code : /\ Says(Refusal(i, code), "response", far, "INVITE", <<"inv", i>>, i, "none")
                  /\ Refusal(i, code).code = code
    BY <1>2, ResponseFields DEF Refusal, far
  <1>5. /\ Says(CancelOk(i), "response", far, "CANCEL", <<"inv", i>>, i, "none") /\ CancelOk(i).code = 200
        /\ Says(ByeOk(i), "response", far, "BYE", <<"bye", i>>, i + 1, "none") /\ ByeOk(i).code = 200
    BY <1>2, ResponseFields DEF CancelOk, ByeOk, far
  <1>6. /\ Says(CalleeByeOk, "response", side, "BYE", <<"hang", 1>>, CalleeBye.seq, "none") /\ CalleeByeOk.code = 200
        /\ Says(HoldOk, "response", side, "INVITE", <<"hold", 1>>, CalleeSeq, "raw") /\ HoldOk.code = 200
        /\ Says(HoldNo, "response", side, "INVITE", <<"hold", 1>>, CalleeSeq, "none") /\ HoldNo.code = 488
    BY <1>1, <1>2, ResponseFields DEF CalleeByeOk, HoldOk, HoldNo
  <1> QED BY <1>3, <1>4, <1>5, <1>6

\* All of them are messages that Gmitm knows how to handle.
LEMMA MailType ==
  ASSUME side \in Sides, NEW m, FromCaller(m) \/ FromCallee(m)
  PROVE  m \in Mail
  <1>1. \A i \in Tries : /\ <<"inv", i>> \in Vias /\ <<"ack", i>> \in Vias /\ <<"bye", i>> \in Vias
                         /\ i \in Seqs /\ i + 1 \in Seqs
    BY CallAssumption DEF Tries
  <1>2. /\ <<"hang", 1>> \in Vias /\ <<"hold", 1>> \in Vias /\ <<"held", 1>> \in Vias
        /\ CalleeSeq \in Seqs /\ CalleeSeq + 1 \in Seqs /\ Cid \in Cids
    BY CallAssumption
  <1>3. far \in Sides /\ Opposite(far) = side
    BY DEF far, Opposite, Sides
  <1>4. ASSUME NEW from \in Sides, NEW method \in Methods, NEW via \in Vias, NEW seq \in Seqs,
               NEW sdp \in SdpForms
        PROVE  Req(from, method, via, seq, sdp) \in RequestType
    BY <1>2 DEF Req, RequestType
  <1>5. {"INVITE", "CANCEL", "ACK", "BYE"} \subseteq Methods /\ {"none", "raw"} \subseteq SdpForms
    BY DEF Methods, SdpForms
  <1>6. \A i \in Tries : /\ Invite(i) \in RequestType /\ Cancel(i) \in RequestType /\ Bye(i) \in RequestType
                         /\ AckFail(i) \in RequestType /\ AckOk(i) \in RequestType
    BY <1>1, <1>4, <1>5 DEF Invite, Cancel, AckFail, AckOk, Bye
  <1>7. Hold \in RequestType /\ HeldAck \in RequestType /\ HoldNoAck \in RequestType /\ CalleeBye \in RequestType
    BY <1>2, <1>3, <1>4, <1>5 DEF Hold, HeldAck, HoldNoAck, HoldAck, CalleeBye
  <1>8. ASSUME NEW q \in RequestType, NEW sdp \in SdpForms, NEW code \in Codes
        PROVE  Rsp(q, sdp, code) \in ResponseType
    <2>1. /\ q.method \in Methods /\ q.via \in Vias /\ q.seq \in Seqs /\ Opposite(q.from) \in Sides
      BY DEF RequestType, Opposite, Sides
    <2> QED BY <1>2, <2>1 DEF Rsp, ResponseType
  <1>9. {180, 200, 407, 486, 487, 488} \subseteq Codes
    BY DEF Codes
  <1>10. \A i \in Tries : m \in {Progress(i), Ok(i), Challenge(i), Refusal(i, 486), Refusal(i, 487),
                                 CancelOk(i), ByeOk(i)} => m \in ResponseType
    BY <1>5, <1>6, <1>8, <1>9 DEF Progress, Ok, Challenge, Refusal, CancelOk, ByeOk
  <1>11. m \in {CalleeByeOk, HoldOk, HoldNo} => m \in ResponseType
    BY <1>5, <1>7, <1>8, <1>9 DEF CalleeByeOk, HoldOk, HoldNo
  <1>12. \A i \in Tries : m \in {Invite(i), Cancel(i), AckFail(i), AckOk(i), Bye(i)} => m \in RequestType
    BY <1>6
  <1> QED BY <1>7, <1>10, <1>11, <1>12 DEF Mail, FromCaller, FromCallee, MessageType

\* Two messages that agree in all but the body.
Alike(m, n) == [m EXCEPT !.sdp = n.sdp] = n

LEMMA AlikeFields ==
  ASSUME NEW m \in MessageType, NEW n \in MessageType, Alike(m, n)
  PROVE  /\ m.kind = n.kind /\ m.from = n.from /\ m.method = n.method /\ m.via = n.via
         /\ m.seq = n.seq /\ m.cid = n.cid
         /\ m.kind = "response" => m.code = n.code
  <1>1. CASE m \in RequestType
    BY <1>1 DEF Alike, RequestType, ResponseType, MessageType
  <1>2. CASE m \in ResponseType
    BY <1>2 DEF Alike, RequestType, ResponseType, MessageType
  <1> QED BY <1>1, <1>2 DEF MessageType

\* Which of them a message of the call can be, by its kind and its sender.
LEMMA MailKinds ==
  ASSUME side \in Sides, NEW m \in Mail
  PROVE  /\ m.kind = "request" /\ m.from = side =>
              \E i \in Tries : m \in {Invite(i), Cancel(i), AckFail(i), AckOk(i), Bye(i)}
         /\ m.kind = "request" /\ m.from = far => m \in {Hold, HeldAck, HoldNoAck, CalleeBye}
         /\ m.kind = "response" /\ m.from = side => m \in {CalleeByeOk, HoldOk, HoldNo}
         /\ m.kind = "response" /\ m.from = far =>
              \E i \in Tries : m \in {Progress(i), Ok(i), Challenge(i), Refusal(i, 486), Refusal(i, 487),
                                      CancelOk(i), ByeOk(i)}
         /\ m.kind \in {"request", "response"} /\ m.from \in {side, far} /\ m.cid = Cid
         /\ m \in RequestType <=> m.kind = "request"
         /\ m \in ResponseType <=> m.kind = "response"
         /\ m.sdp \in {"none", "raw"}
  <1>1. side # far
    BY DEF far, Opposite, Sides
  <1>2. m \in MessageType /\ (FromCaller(m) \/ FromCallee(m))
    BY DEF Mail
  <1>3. /\ m.kind \in {"request", "response"}
        /\ m \in RequestType <=> m.kind = "request"
        /\ m \in ResponseType <=> m.kind = "response"
    BY <1>2 DEF MessageType, RequestType, ResponseType
  <1>4. ASSUME NEW i \in Tries, m \in {Invite(i), Cancel(i), AckFail(i), AckOk(i), Bye(i)}
        PROVE  m.kind = "request" /\ m.from = side /\ m.cid = Cid /\ m.sdp \in {"none", "raw"}
    BY <1>4, RequestFields DEF Says
  <1>5. ASSUME m \in {Hold, HeldAck, HoldNoAck, CalleeBye}
        PROVE  m.kind = "request" /\ m.from = far /\ m.cid = Cid /\ m.sdp \in {"none", "raw"}
    BY <1>5, RequestFields DEF Says, Tries
  <1>6. ASSUME m \in {CalleeByeOk, HoldOk, HoldNo}
        PROVE  m.kind = "response" /\ m.from = side /\ m.cid = Cid /\ m.sdp \in {"none", "raw"}
    BY <1>6, AnswerFields DEF Says, Tries
  <1>7. ASSUME NEW i \in Tries, m \in {Progress(i), Ok(i), Challenge(i), Refusal(i, 486), Refusal(i, 487),
                                       CancelOk(i), ByeOk(i)}
        PROVE  m.kind = "response" /\ m.from = far /\ m.cid = Cid /\ m.sdp \in {"none", "raw"}
    BY <1>7, AnswerFields DEF Says
  <1>8. CASE \E i \in Tries : m \in {Invite(i), Cancel(i), AckFail(i), AckOk(i), Bye(i)}
    BY <1>1, <1>3, <1>4, <1>8
  <1>9. CASE m \in {Hold, HeldAck, HoldNoAck, CalleeBye}
    BY <1>1, <1>3, <1>5, <1>9
  <1>10. CASE m \in {CalleeByeOk, HoldOk, HoldNo}
    BY <1>1, <1>3, <1>6, <1>10
  <1>11. CASE \E i \in Tries : m \in {Progress(i), Ok(i), Challenge(i), Refusal(i, 486), Refusal(i, 487),
                                      CancelOk(i), ByeOk(i)}
    BY <1>1, <1>3, <1>7, <1>11
  <1> QED BY <1>2, <1>8, <1>9, <1>10, <1>11 DEF FromCaller, FromCallee

\* A message of the call is known by all but its body.
LEMMA OneOfEach ==
  ASSUME side \in Sides, NEW m \in Mail, NEW n \in Mail,
         m.kind = n.kind, m.from = n.from, m.method = n.method, m.via = n.via,
         m.kind = "response" => m.code = n.code
  PROVE  m = n
  <1>1. CASE m.kind = "request" /\ m.from = side
    <2>1. PICK i \in Tries : m \in {Invite(i), Cancel(i), AckFail(i), AckOk(i), Bye(i)}
      BY <1>1, MailKinds
    <2>2. PICK j \in Tries : n \in {Invite(j), Cancel(j), AckFail(j), AckOk(j), Bye(j)}
      BY <1>1, MailKinds, ZenonT(40)
    <2>3. \A k \in Tries : /\ Invite(k).via = <<"inv", k>> /\ Cancel(k).via = <<"inv", k>> /\ AckFail(k).via = <<"inv", k>>
                           /\ AckOk(k).via = <<"ack", k>> /\ Bye(k).via = <<"bye", k>>
                           /\ Invite(k).method = "INVITE" /\ Cancel(k).method = "CANCEL"
                           /\ AckFail(k).method = "ACK" /\ AckOk(k).method = "ACK" /\ Bye(k).method = "BYE"
      BY RequestFields DEF Says
    <2>4. i = j
      BY <2>1, <2>2, <2>3
    <2> QED BY <2>1, <2>2, <2>3, <2>4
  <1>2. CASE m.kind = "request" /\ m.from = far
    <2>1. m \in {Hold, HeldAck, HoldNoAck, CalleeBye} /\ n \in {Hold, HeldAck, HoldNoAck, CalleeBye}
      BY <1>2, MailKinds, ZenonT(40)
    <2>2. /\ Hold.method = "INVITE" /\ HeldAck.method = "ACK" /\ HoldNoAck.method = "ACK" /\ CalleeBye.method = "BYE"
          /\ HeldAck.via = <<"held", 1>> /\ HoldNoAck.via = <<"hold", 1>>
      BY RequestFields DEF Says, Tries
    <2> QED BY <2>1, <2>2
  <1>3. CASE m.kind = "response" /\ m.from = side
    <2>1. m \in {CalleeByeOk, HoldOk, HoldNo} /\ n \in {CalleeByeOk, HoldOk, HoldNo}
      BY <1>3, MailKinds, ZenonT(40)
    <2>2. /\ CalleeByeOk.method = "BYE" /\ HoldOk.method = "INVITE" /\ HoldNo.method = "INVITE"
          /\ HoldOk.code = 200 /\ HoldNo.code = 488
      BY AnswerFields DEF Says, Tries
    <2> QED BY <1>3, <2>1, <2>2
  <1>4. CASE m.kind = "response" /\ m.from = far
    <2>1. PICK i \in Tries : m \in {Progress(i), Ok(i), Challenge(i), Refusal(i, 486), Refusal(i, 487),
                                    CancelOk(i), ByeOk(i)}
      BY <1>4, MailKinds
    <2>2. PICK j \in Tries : n \in {Progress(j), Ok(j), Challenge(j), Refusal(j, 486), Refusal(j, 487),
                                    CancelOk(j), ByeOk(j)}
      <3>1. n.kind = "response" /\ n.from = far
        BY <1>4
      <3> QED BY <3>1, MailKinds
    <2>3. \A k \in Tries : /\ Progress(k).via = <<"inv", k>> /\ Ok(k).via = <<"inv", k>> /\ Challenge(k).via = <<"inv", k>>
                           /\ Refusal(k, 486).via = <<"inv", k>> /\ Refusal(k, 487).via = <<"inv", k>>
                           /\ CancelOk(k).via = <<"inv", k>> /\ ByeOk(k).via = <<"bye", k>>
                           /\ Progress(k).method = "INVITE" /\ Ok(k).method = "INVITE" /\ Challenge(k).method = "INVITE"
                           /\ Refusal(k, 486).method = "INVITE" /\ Refusal(k, 487).method = "INVITE"
                           /\ CancelOk(k).method = "CANCEL" /\ ByeOk(k).method = "BYE"
                           /\ Progress(k).code = 180 /\ Ok(k).code = 200 /\ Challenge(k).code = 407
                           /\ Refusal(k, 486).code = 486 /\ Refusal(k, 487).code = 487
      BY AnswerFields DEF Says
    <2>4. i = j
      BY <2>1, <2>2, <2>3
    <2> QED BY <1>4, <2>1, <2>2, <2>3, <2>4
  <1> QED BY <1>1, <1>2, <1>3, <1>4, MailKinds

\* The messages are the same after every step: only the caller's side and the
\* options of the call are in them.
LEMMA SameMail ==
  ASSUME UNCHANGED <<side, allowed>>
  PROVE  /\ \A i \in Tries :
              /\ Invite(i)' = Invite(i) /\ Cancel(i)' = Cancel(i) /\ AckFail(i)' = AckFail(i)
              /\ AckOk(i)' = AckOk(i) /\ Bye(i)' = Bye(i)
              /\ Progress(i)' = Progress(i) /\ Ok(i)' = Ok(i) /\ Challenge(i)' = Challenge(i)
              /\ \A code : Refusal(i, code)' = Refusal(i, code)
              /\ CancelOk(i)' = CancelOk(i) /\ ByeOk(i)' = ByeOk(i)
         /\ Hold' = Hold /\ HeldAck' = HeldAck /\ HoldNoAck' = HoldNoAck /\ CalleeBye' = CalleeBye
         /\ CalleeByeOk' = CalleeByeOk /\ HoldOk' = HoldOk /\ HoldNo' = HoldNo
         /\ far' = far /\ Mail' = Mail
  <1>1. far' = far
    BY DEF far
  <1>2. \A i \in Tries :
          /\ Invite(i)' = Invite(i) /\ Cancel(i)' = Cancel(i) /\ AckFail(i)' = AckFail(i)
          /\ AckOk(i)' = AckOk(i) /\ Bye(i)' = Bye(i)
    BY DEF Invite, Cancel, AckFail, AckOk, Bye, Req
  <1>3. \A i \in Tries :
          /\ Progress(i)' = Progress(i) /\ Ok(i)' = Ok(i) /\ Challenge(i)' = Challenge(i)
          /\ \A code : Refusal(i, code)' = Refusal(i, code)
          /\ CancelOk(i)' = CancelOk(i) /\ ByeOk(i)' = ByeOk(i)
    BY <1>2 DEF Progress, Ok, Challenge, Refusal, CancelOk, ByeOk, Rsp
  <1>4. Hold' = Hold /\ HeldAck' = HeldAck /\ HoldNoAck' = HoldNoAck /\ CalleeBye' = CalleeBye
    BY <1>1 DEF Hold, HeldAck, HoldNoAck, HoldAck, CalleeBye, Req
  <1>5. CalleeByeOk' = CalleeByeOk /\ HoldOk' = HoldOk /\ HoldNo' = HoldNo
    BY <1>4 DEF CalleeByeOk, HoldOk, HoldNo, Rsp
  <1>6. \A m : (FromCaller(m) \/ FromCallee(m))' <=> FromCaller(m) \/ FromCallee(m)
    BY <1>2, <1>3, <1>4, <1>5 DEF FromCaller, FromCallee
  <1>7. Mail' = Mail
    BY <1>6 DEF Mail, MessageType, RequestType, ResponseType
  <1> QED BY <1>1, <1>2, <1>3, <1>4, <1>5, <1>7

\* What zsipos sends of m: m, or m with its body rewritten.
Copy(m, x) == x = m \/ (m.sdp = "raw" /\ x = [m EXCEPT !.sdp = "fixed"])

\* All that is on its way is one of these messages or a copy that came through.
WireOK == \A w \in wire : \E m \in Mail :
  \/ w = [to |-> "mitm", msg |-> m]
  \/ \E x \in MessageType : Copy(m, x) /\ w = [to |-> Opposite(m.from), msg |-> x]

\* A copy is like its message.
LEMMA CopyAlike ==
  ASSUME NEW m \in MessageType, NEW x, Copy(m, x)
  PROVE  x \in MessageType /\ Alike(x, m)
  <1>1. CASE m \in RequestType
    <2>1. x \in RequestType
      BY <1>1 DEF Copy, RequestType, SdpForms
    <2>2. [x EXCEPT !.sdp = m.sdp] = m
      BY <1>1 DEF Copy, RequestType
    <2> QED BY <2>1, <2>2 DEF MessageType, Alike
  <1>2. CASE m \in ResponseType
    <2>1. x \in ResponseType
      BY <1>2 DEF Copy, ResponseType, SdpForms
    <2>2. [x EXCEPT !.sdp = m.sdp] = m
      BY <1>2 DEF Copy, ResponseType
    <2> QED BY <2>1, <2>2 DEF MessageType, Alike
  <1> QED BY <1>1, <1>2 DEF MessageType

\* A copy belongs to one message.
LEMMA OneOriginal ==
  ASSUME side \in Sides, NEW m \in Mail, NEW n \in Mail, NEW x, Copy(m, x), Alike(x, n)
  PROVE  m = n
  <1>1. m \in MessageType /\ n \in MessageType
    BY DEF Mail
  <1>2. x \in MessageType /\ Alike(x, m)
    BY <1>1, CopyAlike
  <1>3. /\ x.kind = m.kind /\ x.from = m.from /\ x.method = m.method /\ x.via = m.via
        /\ x.kind = "response" => x.code = m.code
    BY <1>1, <1>2, AlikeFields
  <1>4. /\ x.kind = n.kind /\ x.from = n.from /\ x.method = n.method /\ x.via = n.via
        /\ x.kind = "response" => x.code = n.code
    BY <1>1, <1>2, AlikeFields
  <1> QED BY <1>3, <1>4, OneOfEach

\* What has come through is on the wire, as it was or rewritten.
LEMMA PassedCopy ==
  ASSUME side \in Sides, WireOK, NEW m \in Mail
  PROVE  Passed(m) <=> \E x \in MessageType : Copy(m, x) /\ [to |-> Opposite(m.from), msg |-> x] \in wire
  <1>1. m \in MessageType
    BY DEF Mail
  <1>2. ASSUME NEW x \in MessageType, Copy(m, x), [to |-> Opposite(m.from), msg |-> x] \in wire
        PROVE  Passed(m)
    BY <1>1, <1>2, CopyAlike DEF Passed, Got, Alike
  <1>3. ASSUME Passed(m)
        PROVE  \E x \in MessageType : Copy(m, x) /\ [to |-> Opposite(m.from), msg |-> x] \in wire
    <2>1. PICK w \in wire : w.to = Opposite(m.from) /\ Alike(w.msg, m)
      BY <1>3 DEF Passed, Got, Alike
    <2>2. w.to # "mitm"
      BY <2>1 DEF Opposite
    <2>3. PICK n \in Mail, x \in MessageType : Copy(n, x) /\ w = [to |-> Opposite(n.from), msg |-> x]
      BY <2>2 DEF WireOK
    <2>4. n = m
      BY <2>1, <2>3, OneOriginal
    <2> QED BY <2>3, <2>4
  <1> QED BY <1>2, <1>3

----------------------------------------------------------------------------
(* What a step does to the wire.                                           *)

\* Nothing has come out of zsipos.
SameOutput ==
  /\ UNCHANGED <<side, allowed>>
  /\ \A w : w.to # "mitm" => (w \in wire' <=> w \in wire)

LEMMA NothingPasses ==
  ASSUME side \in Sides, SameOutput
  PROVE  /\ \A n \in Mail : Passed(n)' <=> Passed(n)
         /\ \A i \in Tries : Redirected(i)' <=> Redirected(i)
         /\ \A i \in Tries : Unredirected(i)' <=> Unredirected(i)
  <1>1. ASSUME NEW n \in Mail PROVE Passed(n)' <=> Passed(n)
    <2>1. Opposite(n.from) # "mitm"
      BY DEF Opposite
    <2>2. \A w : w.to = Opposite(n.from) => (w \in wire' <=> w \in wire)
      BY <2>1 DEF SameOutput
    <2> QED BY <2>2 DEF Passed, Got
  <1>2. side' = side /\ side # "mitm" /\ \A i \in Tries : Ok(i)' = Ok(i)
    BY SameMail DEF SameOutput, Sides
  <1>3. \A x : [to |-> side, msg |-> x] \in wire' <=> [to |-> side, msg |-> x] \in wire
    BY <1>2 DEF SameOutput
  <1> QED BY <1>1, <1>2, <1>3 DEF Redirected, Unredirected

\* A user agent sends messages of the call.
LEMMA SendEffect ==
  ASSUME side \in Sides, WireOK, UNCHANGED <<side, allowed>>, NEW ms \in SUBSET Mail, Send(ms)
  PROVE  /\ WireOK' /\ SameOutput
         /\ \A n \in Mail : OnWire(n)' <=> OnWire(n) \/ n \in ms
  <1>1. \A w : w \in wire' <=> w \in wire \/ \E m \in ms : w = [to |-> "mitm", msg |-> m]
    BY DEF Send
  <1>2. SameOutput
    BY <1>1 DEF SameOutput
  <1>3. \A n \in Mail : OnWire(n)' <=> OnWire(n) \/ n \in ms
    BY <1>1 DEF OnWire
  <1>4. Mail' = Mail
    BY SameMail
  <1>5. ASSUME NEW w \in wire'
        PROVE  \E m \in Mail' : \/ w = [to |-> "mitm", msg |-> m]
                                \/ \E x \in MessageType : Copy(m, x) /\ w = [to |-> Opposite(m.from), msg |-> x]
    <2>1. CASE w \in wire
      BY <1>4, <2>1 DEF WireOK
    <2>2. CASE \E m \in ms : w = [to |-> "mitm", msg |-> m]
      BY <1>4, <2>2
    <2> QED BY <1>1, <2>1, <2>2
  <1>6. WireOK'
    BY <1>5 DEF WireOK, Copy, MessageType, RequestType, ResponseType
  <1> QED BY <1>2, <1>3, <1>6

\* Datagrams are lost.
LEMMA LossEffect ==
  ASSUME side \in Sides, WireOK, UNCHANGED <<side, allowed>>,
         wire' \subseteq wire, \A w \in wire : w.to # "mitm" => w \in wire'
  PROVE  /\ WireOK' /\ SameOutput
         /\ \A n \in Mail : OnWire(n)' => OnWire(n)
  <1>1. SameOutput
    BY DEF SameOutput
  <1>2. \A n \in Mail : OnWire(n)' => OnWire(n)
    BY DEF OnWire
  <1>3. Mail' = Mail
    BY SameMail
  <1>4. \A w \in wire' : \E m \in Mail' :
          \/ w = [to |-> "mitm", msg |-> m]
          \/ \E x \in MessageType : Copy(m, x) /\ w = [to |-> Opposite(m.from), msg |-> x]
    BY <1>3 DEF WireOK
  <1>5. WireOK'
    BY <1>4 DEF WireOK, Copy, MessageType, RequestType, ResponseType
  <1> QED BY <1>1, <1>2, <1>5

\* zsipos sends a copy of m on.
Emits(m, x) == wire' = wire \cup {[to |-> Opposite(m.from), msg |-> x]}

LEMMA EmitsEffect ==
  ASSUME side \in Sides, WireOK, UNCHANGED <<side, allowed>>,
         NEW m \in Mail, NEW x \in MessageType, Copy(m, x), Emits(m, x)
  PROVE  /\ WireOK'
         /\ \A n \in Mail : Passed(n)' <=> Passed(n) \/ n = m
         /\ \A n \in Mail : OnWire(n)' <=> OnWire(n)
         /\ \A i \in Tries : Redirected(i)' <=> Redirected(i) \/ (m = Ok(i) /\ x # m)
         /\ \A i \in Tries : Unredirected(i)' <=> Unredirected(i) \/ (m = Ok(i) /\ x = m)
  <1> DEFINE o == [to |-> Opposite(m.from), msg |-> x]
  <1>1. \A w : w \in wire' <=> w \in wire \/ w = o
    BY DEF Emits
  <1>2. /\ Mail' = Mail /\ side' = side /\ side # "mitm" /\ Opposite(m.from) # "mitm"
        /\ \A i \in Tries : Ok(i)' = Ok(i)
    BY SameMail DEF Sides, Opposite
  <1>3. m \in MessageType /\ Alike(x, m)
    BY CopyAlike DEF Mail
  <1>4. WireOK'
    <2>1. ASSUME NEW w \in wire'
          PROVE  \E n \in Mail' : \/ w = [to |-> "mitm", msg |-> n]
                                  \/ \E y \in MessageType : Copy(n, y) /\ w = [to |-> Opposite(n.from), msg |-> y]
      <3>1. CASE w \in wire
        BY <1>2, <3>1 DEF WireOK
      <3>2. CASE w = o
        BY <1>2, <3>2
      <3> QED BY <1>1, <3>1, <3>2
    <2> QED BY <2>1 DEF WireOK, Copy, MessageType, RequestType, ResponseType
  <1>5. \A n \in Mail : OnWire(n)' <=> OnWire(n)
    BY <1>1, <1>2 DEF OnWire
  <1>6. ASSUME NEW n \in Mail PROVE Passed(n)' <=> Passed(n) \/ n = m
    <2>1. Passed(n)' <=> Passed(n) \/ (o.to = Opposite(n.from) /\ Alike(o.msg, n))
      BY <1>1 DEF Passed, Got, Alike
    <2>2. n = m => o.to = Opposite(n.from) /\ Alike(o.msg, n)
      BY <1>3
    <2>3. Alike(o.msg, n) => n = m
      BY OneOriginal
    <2> QED BY <2>1, <2>2, <2>3
  <1>7. ASSUME NEW i \in Tries
        PROVE  /\ Redirected(i)' <=> Redirected(i) \/ (m = Ok(i) /\ x # m)
               /\ Unredirected(i)' <=> Unredirected(i) \/ (m = Ok(i) /\ x = m)
    <2> DEFINE fixed == [Ok(i) EXCEPT !.sdp = "fixed"]
    <2>1. Ok(i) \in Mail /\ Ok(i) \in MessageType /\ Ok(i).from = far /\ Ok(i).sdp = "raw" /\ Opposite(far) = side
      BY MailType, AnswerFields DEF FromCallee, Says, far, Opposite, Sides, Mail
    <2>2. fixed.sdp = "fixed" /\ fixed # Ok(i) /\ Copy(Ok(i), fixed) /\ Copy(Ok(i), Ok(i))
      <3>1. fixed.sdp = "fixed"
        BY <2>1 DEF MessageType, RequestType, ResponseType
      <3> QED BY <2>1, <3>1 DEF Copy
    <2> HIDE DEF fixed
    <2>3. x = fixed \/ x = Ok(i) => m = Ok(i)
      <3>1. Alike(fixed, Ok(i)) /\ Alike(Ok(i), Ok(i))
        BY <2>1, <2>2, CopyAlike
      <3> QED BY <2>1, <3>1, OneOriginal
    <2>4. m = Ok(i) => x \in {fixed, Ok(i)} /\ Opposite(m.from) = side
      BY <2>1 DEF Copy, fixed
    <2>5. Redirected(i)' <=> Redirected(i) \/ (Opposite(m.from) = side /\ x = fixed)
      BY <1>1, <1>2 DEF Redirected, fixed
    <2>6. Unredirected(i)' <=> Unredirected(i) \/ (Opposite(m.from) = side /\ x = Ok(i))
      BY <1>1, <1>2 DEF Unredirected
    <2> QED BY <2>2, <2>3, <2>4, <2>5, <2>6
  <1> QED BY <1>4, <1>5, <1>6, <1>7

----------------------------------------------------------------------------
(* The user agents: what their states, and the messages they have sent,    *)
(* tell of what came through zsipos.                                       *)

\* The callee has dealt with INVITE i and not asked for credentials.
Used(i) ==
  callee.try = i /\ Passed(Invite(i)) /\ callee.st # "idle" /\ ~("challenge" \in allowed /\ i = 1)

CallerOK ==
  /\ caller \in [st : {"idle", "calling", "challenged", "up", "bye", "ended"}, try : Tries,
                 answer : {"none", "raw", "fixed"}, cancelled : BOOLEAN]
  /\ caller.try = 2 \/ caller.st = "challenged" => Passed(Challenge(1))
  /\ caller.try = 2 /\ "lost_ack" \notin allowed => Passed(AckFail(1))
  /\ caller.st \in {"idle", "challenged"} => caller.try = 1
  /\ caller.st \in {"idle", "calling", "challenged"} => caller.answer = "none"
  /\ caller.st \in {"up", "bye"} => caller.answer # "none"
  /\ caller.answer = "raw" => Unredirected(caller.try)
  /\ caller.answer = "fixed" => Redirected(caller.try)
  /\ caller.cancelled => Passed(Progress(caller.try))
  /\ caller.st = "ended" => \/ caller.answer = "none"
                            \/ Passed(ByeOk(caller.try))
                            \/ Passed(CalleeBye)
                            \/ callee.st = "dead" /\ Passed(Bye(caller.try))

CalleeOK ==
  /\ callee \in [st : {"idle", "ringing", "answered", "up", "bye", "ended", "dead"}, try : Tries,
                 hold : {"no", "asked", "done"}]
  /\ callee.st \notin {"idle", "dead"} => Used(callee.try)
  /\ callee.st \in {"up", "bye"} => Passed(AckOk(callee.try))
  /\ callee.hold # "no" => Passed(AckOk(callee.try)) /\ "hold" \in allowed
  /\ callee.hold = "done" => Passed(HoldOk) \/ Passed(HoldNo)
  /\ callee.st = "dead" => "crash" \in allowed
  /\ callee.st = "ended" /\ Seen(CalleeBye) => Passed(CalleeByeOk)

\* The caller goes through one INVITE at a time and ends each in one way.
CallerSentFor(i) ==
  /\ Seen(Invite(i)) => caller.st # "idle" /\ i <= caller.try
  /\ Seen(Cancel(i)) => caller.cancelled
  /\ Seen(AckFail(i)) => \/ i = 1 /\ caller.try = 2
                         \/ i = caller.try /\ caller.st = "challenged"
                         \/ /\ i = caller.try /\ caller.st = "ended" /\ caller.answer = "none"
                            /\ Passed(Refusal(i, 486)) \/ Passed(Refusal(i, 487))
  /\ Seen(AckOk(i)) => i = caller.try /\ caller.answer # "none"
  /\ Seen(Bye(i)) => /\ i = caller.try /\ caller.answer # "none" /\ caller.st \in {"bye", "ended"}
                     /\ "early_bye" \in allowed \/ Passed(AckOk(i))
CallerSentOK ==
  /\ \A i \in Tries : CallerSentFor(i)
  /\ Seen(CalleeByeOk) => Passed(CalleeBye)
  /\ Seen(HoldOk) => Passed(Hold) /\ "refused_hold" \notin allowed
  /\ Seen(HoldNo) => Passed(Hold) /\ "refused_hold" \in allowed

\* The callee answers what has come through, either way, and not both ways.
CalleeSentFor(i) ==
  /\ Seen(Progress(i)) => Used(i)
  /\ Seen(Challenge(i)) => i = 1 /\ "challenge" \in allowed /\ Passed(Invite(1))
  /\ Seen(Ok(i)) => Used(i) /\ callee.st # "ringing"
  /\ Seen(Refusal(i, 486)) \/ Seen(Refusal(i, 487)) =>
       Used(i) /\ callee.st \in {"ended", "dead"} /\ ~Seen(Ok(i))
  /\ Seen(CancelOk(i)) => Passed(Cancel(i))
  /\ Seen(ByeOk(i)) => Passed(Bye(i))
  /\ OnWire(Ok(i)) /\ callee.st \in {"up", "bye", "ended", "dead"} => caller.answer # "none"
CalleeSentOK ==
  /\ \A i \in Tries : CalleeSentFor(i)
  /\ Seen(Hold) => callee.hold # "no"
  /\ Seen(HeldAck) => Passed(HoldOk)
  /\ Seen(HoldNoAck) => Passed(HoldNo)
  /\ Seen(CalleeBye) => /\ callee.st \in {"bye", "ended", "dead"} /\ callee.hold # "asked"
                        /\ Passed(AckOk(callee.try))

AgentsOK == CallerOK /\ CalleeOK /\ CallerSentOK /\ CalleeSentOK

\* What a user agent has got came through zsipos.
LEMMA GotIsPassed ==
  ASSUME side \in Sides, NEW m
  PROVE  /\ m.from = far => (Got(side, m) <=> Passed(m))
         /\ m.from = side => (Got(far, m) <=> Passed(m))
  BY DEF Passed, far, Opposite, Sides

\* The messages of the caller are all different.
LEMMA CallerDiffer ==
  ASSUME side \in Sides, NEW i \in Tries, NEW j \in Tries
  PROVE  /\ (Invite(i) = Invite(j) <=> i = j) /\ Invite(i) # Cancel(j) /\ Invite(i) # AckFail(j)
         /\ Invite(i) # AckOk(j) /\ Invite(i) # Bye(j) /\ Invite(i) # CalleeByeOk /\ Invite(i) # HoldOk
         /\ Invite(i) # HoldNo /\ (Cancel(i) = Cancel(j) <=> i = j) /\ Cancel(i) # Invite(j)
         /\ Cancel(i) # AckFail(j) /\ Cancel(i) # AckOk(j) /\ Cancel(i) # Bye(j) /\ Cancel(i) # CalleeByeOk
         /\ Cancel(i) # HoldOk /\ Cancel(i) # HoldNo /\ (AckFail(i) = AckFail(j) <=> i = j)
         /\ AckFail(i) # Invite(j) /\ AckFail(i) # Cancel(j) /\ AckFail(i) # AckOk(j) /\ AckFail(i) # Bye(j)
         /\ AckFail(i) # CalleeByeOk /\ AckFail(i) # HoldOk /\ AckFail(i) # HoldNo
         /\ (AckOk(i) = AckOk(j) <=> i = j) /\ AckOk(i) # Invite(j) /\ AckOk(i) # Cancel(j)
         /\ AckOk(i) # AckFail(j) /\ AckOk(i) # Bye(j) /\ AckOk(i) # CalleeByeOk /\ AckOk(i) # HoldOk
         /\ AckOk(i) # HoldNo /\ (Bye(i) = Bye(j) <=> i = j) /\ Bye(i) # Invite(j) /\ Bye(i) # Cancel(j)
         /\ Bye(i) # AckFail(j) /\ Bye(i) # AckOk(j) /\ Bye(i) # CalleeByeOk /\ Bye(i) # HoldOk
         /\ Bye(i) # HoldNo /\ CalleeByeOk # HoldOk /\ CalleeByeOk # HoldNo /\ HoldOk # HoldNo
  BY RequestFields, AnswerFields DEF Says

\* So are those of the callee.
LEMMA CalleeDiffer ==
  ASSUME side \in Sides, NEW i \in Tries, NEW j \in Tries
  PROVE  /\ (Progress(i) = Progress(j) <=> i = j) /\ Progress(i) # Ok(j) /\ Progress(i) # Challenge(j)
         /\ Progress(i) # Refusal(j, 486) /\ Progress(i) # Refusal(j, 487) /\ Progress(i) # CancelOk(j)
         /\ Progress(i) # ByeOk(j) /\ Progress(i) # Hold /\ Progress(i) # HeldAck /\ Progress(i) # HoldNoAck
         /\ Progress(i) # CalleeBye /\ (Ok(i) = Ok(j) <=> i = j) /\ Ok(i) # Progress(j) /\ Ok(i) # Challenge(j)
         /\ Ok(i) # Refusal(j, 486) /\ Ok(i) # Refusal(j, 487) /\ Ok(i) # CancelOk(j) /\ Ok(i) # ByeOk(j)
         /\ Ok(i) # Hold /\ Ok(i) # HeldAck /\ Ok(i) # HoldNoAck /\ Ok(i) # CalleeBye
         /\ (Challenge(i) = Challenge(j) <=> i = j) /\ Challenge(i) # Progress(j) /\ Challenge(i) # Ok(j)
         /\ Challenge(i) # Refusal(j, 486) /\ Challenge(i) # Refusal(j, 487) /\ Challenge(i) # CancelOk(j)
         /\ Challenge(i) # ByeOk(j) /\ Challenge(i) # Hold /\ Challenge(i) # HeldAck
         /\ Challenge(i) # HoldNoAck /\ Challenge(i) # CalleeBye /\ (Refusal(i, 486) = Refusal(j, 486) <=> i = j)
         /\ Refusal(i, 486) # Progress(j) /\ Refusal(i, 486) # Ok(j) /\ Refusal(i, 486) # Challenge(j)
         /\ Refusal(i, 486) # Refusal(j, 487) /\ Refusal(i, 486) # CancelOk(j) /\ Refusal(i, 486) # ByeOk(j)
         /\ Refusal(i, 486) # Hold /\ Refusal(i, 486) # HeldAck /\ Refusal(i, 486) # HoldNoAck
         /\ Refusal(i, 486) # CalleeBye /\ (Refusal(i, 487) = Refusal(j, 487) <=> i = j)
         /\ Refusal(i, 487) # Progress(j) /\ Refusal(i, 487) # Ok(j) /\ Refusal(i, 487) # Challenge(j)
         /\ Refusal(i, 487) # Refusal(j, 486) /\ Refusal(i, 487) # CancelOk(j) /\ Refusal(i, 487) # ByeOk(j)
         /\ Refusal(i, 487) # Hold /\ Refusal(i, 487) # HeldAck /\ Refusal(i, 487) # HoldNoAck
         /\ Refusal(i, 487) # CalleeBye /\ (CancelOk(i) = CancelOk(j) <=> i = j) /\ CancelOk(i) # Progress(j)
         /\ CancelOk(i) # Ok(j) /\ CancelOk(i) # Challenge(j) /\ CancelOk(i) # Refusal(j, 486)
         /\ CancelOk(i) # Refusal(j, 487) /\ CancelOk(i) # ByeOk(j) /\ CancelOk(i) # Hold
         /\ CancelOk(i) # HeldAck /\ CancelOk(i) # HoldNoAck /\ CancelOk(i) # CalleeBye
         /\ (ByeOk(i) = ByeOk(j) <=> i = j) /\ ByeOk(i) # Progress(j) /\ ByeOk(i) # Ok(j)
         /\ ByeOk(i) # Challenge(j) /\ ByeOk(i) # Refusal(j, 486) /\ ByeOk(i) # Refusal(j, 487)
         /\ ByeOk(i) # CancelOk(j) /\ ByeOk(i) # Hold /\ ByeOk(i) # HeldAck /\ ByeOk(i) # HoldNoAck
         /\ ByeOk(i) # CalleeBye /\ Hold # HeldAck /\ Hold # HoldNoAck /\ Hold # CalleeBye
         /\ HeldAck # HoldNoAck /\ HeldAck # CalleeBye /\ HoldNoAck # CalleeBye
  BY RequestFields, AnswerFields DEF Says

\* The two ends do not send the same.
LEMMA EndsDiffer ==
  ASSUME side \in Sides, NEW m, FromCaller(m)
  PROVE  ~FromCallee(m)
  <1>1. side # far
    BY DEF far, Opposite, Sides
  <1>2. m.from = side
    BY RequestFields, AnswerFields DEF Says, FromCaller, Tries
  <1>3. FromCallee(m) => m.from = far
    BY RequestFields, AnswerFields DEF Says, FromCallee, Tries
  <1> QED BY <1>1, <1>2, <1>3

----------------------------------------------------------------------------
(* A step of one user agent.                                               *)

\* All messages, by name.
LEMMA Named ==
  ASSUME side \in Sides
  PROVE  /\ \A i \in Tries :
              /\ Invite(i) \in Mail /\ Cancel(i) \in Mail /\ AckFail(i) \in Mail
              /\ AckOk(i) \in Mail /\ Bye(i) \in Mail
              /\ Progress(i) \in Mail /\ Ok(i) \in Mail /\ Challenge(i) \in Mail
              /\ Refusal(i, 486) \in Mail /\ Refusal(i, 487) \in Mail
              /\ CancelOk(i) \in Mail /\ ByeOk(i) \in Mail
         /\ Hold \in Mail /\ HeldAck \in Mail /\ HoldNoAck \in Mail /\ CalleeBye \in Mail
         /\ CalleeByeOk \in Mail /\ HoldOk \in Mail /\ HoldNo \in Mail
  BY MailType DEF FromCaller, FromCallee

\* No message comes through.
SamePassed ==
  /\ \A i \in Tries :
       /\ Passed(Invite(i))' <=> Passed(Invite(i))
       /\ Passed(Cancel(i))' <=> Passed(Cancel(i))
       /\ Passed(AckFail(i))' <=> Passed(AckFail(i))
       /\ Passed(AckOk(i))' <=> Passed(AckOk(i))
       /\ Passed(Bye(i))' <=> Passed(Bye(i))
       /\ Passed(Progress(i))' <=> Passed(Progress(i))
       /\ Passed(Challenge(i))' <=> Passed(Challenge(i))
       /\ Passed(Ok(i))' <=> Passed(Ok(i))
       /\ Passed(Refusal(i, 486))' <=> Passed(Refusal(i, 486))
       /\ Passed(Refusal(i, 487))' <=> Passed(Refusal(i, 487))
       /\ Passed(ByeOk(i))' <=> Passed(ByeOk(i))
       /\ Redirected(i)' <=> Redirected(i)
       /\ Unredirected(i)' <=> Unredirected(i)
  /\ Passed(Hold)' <=> Passed(Hold)
  /\ Passed(HoldOk)' <=> Passed(HoldOk)
  /\ Passed(HoldNo)' <=> Passed(HoldNo)
  /\ Passed(CalleeBye)' <=> Passed(CalleeBye)
  /\ Passed(CalleeByeOk)' <=> Passed(CalleeByeOk)

\* What has been seen of the caller once it has sent ms.
SeenOfCaller(ms) ==
  /\ \A i \in Tries :
       /\ Seen(Invite(i))' <=> Seen(Invite(i)) \/ Invite(i) \in ms
       /\ Seen(Cancel(i))' <=> Seen(Cancel(i)) \/ Cancel(i) \in ms
       /\ Seen(AckFail(i))' <=> Seen(AckFail(i)) \/ AckFail(i) \in ms
       /\ Seen(AckOk(i))' <=> Seen(AckOk(i)) \/ AckOk(i) \in ms
       /\ Seen(Bye(i))' <=> Seen(Bye(i)) \/ Bye(i) \in ms
  /\ Seen(CalleeByeOk)' <=> Seen(CalleeByeOk) \/ CalleeByeOk \in ms
  /\ Seen(HoldOk)' <=> Seen(HoldOk) \/ HoldOk \in ms
  /\ Seen(HoldNo)' <=> Seen(HoldNo) \/ HoldNo \in ms

SeenOfCallee(ms) ==
  /\ \A i \in Tries :
       /\ Seen(Progress(i))' <=> Seen(Progress(i)) \/ Progress(i) \in ms
       /\ Seen(Challenge(i))' <=> Seen(Challenge(i)) \/ Challenge(i) \in ms
       /\ Seen(Ok(i))' <=> Seen(Ok(i)) \/ Ok(i) \in ms
       /\ Seen(Refusal(i, 486))' <=> Seen(Refusal(i, 486)) \/ Refusal(i, 486) \in ms
       /\ Seen(Refusal(i, 487))' <=> Seen(Refusal(i, 487)) \/ Refusal(i, 487) \in ms
       /\ Seen(CancelOk(i))' <=> Seen(CancelOk(i)) \/ CancelOk(i) \in ms
       /\ Seen(ByeOk(i))' <=> Seen(ByeOk(i)) \/ ByeOk(i) \in ms
       /\ OnWire(Ok(i))' <=> OnWire(Ok(i)) \/ Ok(i) \in ms
  /\ Seen(Hold)' <=> Seen(Hold) \/ Hold \in ms
  /\ Seen(HeldAck)' <=> Seen(HeldAck) \/ HeldAck \in ms
  /\ Seen(HoldNoAck)' <=> Seen(HoldNoAck) \/ HoldNoAck \in ms
  /\ Seen(CalleeBye)' <=> Seen(CalleeBye) \/ CalleeBye \in ms

LEMMA AfterSend ==
  ASSUME side \in Sides, WireOK, UNCHANGED <<side, allowed>>, NEW ms \in SUBSET Mail, Send(ms)
  PROVE  SamePassed /\ SeenOfCaller(ms) /\ SeenOfCallee(ms)
  <1>1. /\ \A n \in Mail : Passed(n)' <=> Passed(n)
        /\ \A i \in Tries : Redirected(i)' <=> Redirected(i)
        /\ \A i \in Tries : Unredirected(i)' <=> Unredirected(i)
        /\ \A n \in Mail : OnWire(n)' <=> OnWire(n) \/ n \in ms
        /\ \A n \in Mail : Seen(n)' <=> Seen(n) \/ n \in ms
    BY SendEffect, NothingPasses DEF Seen
  <1>2. SamePassed
    BY <1>1, SameMail, Named DEF SamePassed
  <1>3. SeenOfCaller(ms)
    BY <1>1, SameMail, Named DEF SeenOfCaller
  <1>4. SeenOfCallee(ms)
    BY <1>1, SameMail, Named DEF SeenOfCallee
  <1> QED BY <1>2, <1>3, <1>4

\* What the caller sends is none of the callee's.
LEMMA CallerSends ==
  ASSUME side \in Sides, WireOK, AgentsOK, UNCHANGED <<side, allowed, callee>>,
         NEW ms \in SUBSET Mail, Send(ms), \A m \in ms : FromCaller(m),
         caller.answer # "none" => caller'.answer # "none"
  PROVE  SamePassed /\ SeenOfCaller(ms) /\ CalleeOK' /\ CalleeSentOK'
  <1>1. SamePassed /\ SeenOfCaller(ms) /\ SeenOfCallee(ms)
    BY AfterSend
  <1>2. \A m \in ms : ~FromCallee(m)
    BY EndsDiffer
  <1>3. /\ \A i \in Tries : {Progress(i), Challenge(i), Ok(i), Refusal(i, 486), Refusal(i, 487),
                             CancelOk(i), ByeOk(i)} \cap ms = {}
        /\ {Hold, HeldAck, HoldNoAck, CalleeBye} \cap ms = {}
    BY <1>2 DEF FromCallee
  <1>4. SeenOfCallee({})
    BY <1>1, <1>3 DEF SeenOfCallee
  <1>5. CalleeOK'
    BY <1>1, <1>4 DEF AgentsOK, CalleeOK, Used, SamePassed, SeenOfCallee
  <1>6. \A i \in Tries : Used(i)' <=> Used(i)
    BY <1>1 DEF Used, SamePassed
  <1>7. ASSUME NEW i \in Tries PROVE CalleeSentFor(i)'
    BY <1>1, <1>4, <1>6 DEF AgentsOK, CalleeSentOK, CalleeSentFor, SamePassed, SeenOfCallee, Tries
  <1>8. callee.try \in Tries
    BY DEF AgentsOK, CalleeOK
  <1>9. CalleeSentOK'
    BY <1>1, <1>4, <1>7, <1>8 DEF AgentsOK, CalleeSentOK, SamePassed, SeenOfCallee
  <1> QED BY <1>1, <1>5, <1>9

\* What the callee sends is none of the caller's.
LEMMA CalleeSends ==
  ASSUME side \in Sides, WireOK, AgentsOK, UNCHANGED <<side, allowed, caller>>,
         NEW ms \in SUBSET Mail, Send(ms), \A m \in ms : FromCallee(m), callee.st # "dead"
  PROVE  SamePassed /\ SeenOfCallee(ms) /\ CallerOK' /\ CallerSentOK'
  <1>1. SamePassed /\ SeenOfCaller(ms) /\ SeenOfCallee(ms)
    BY AfterSend
  <1>2. \A m \in ms : ~FromCaller(m)
    BY EndsDiffer
  <1>3. /\ \A i \in Tries : {Invite(i), Cancel(i), AckFail(i), AckOk(i), Bye(i)} \cap ms = {}
        /\ {CalleeByeOk, HoldOk, HoldNo} \cap ms = {}
    BY <1>2 DEF FromCaller
  <1>4. SeenOfCaller({})
    BY <1>1, <1>3 DEF SeenOfCaller
  <1>5. CallerOK'
    BY <1>1 DEF AgentsOK, CallerOK, SamePassed, Tries
  <1>6. CallerSentOK'
    BY <1>1, <1>4 DEF AgentsOK, CallerSentOK, CallerSentFor, SamePassed, SeenOfCaller
  <1> QED BY <1>1, <1>5, <1>6

\* The fields of the two user agents.
LEMMA AgentTypes ==
  ASSUME AgentsOK
  PROVE  /\ caller.st \in {"idle", "calling", "challenged", "up", "bye", "ended"}
         /\ caller.try \in Tries /\ caller.answer \in {"none", "raw", "fixed"}
         /\ callee.st \in {"idle", "ringing", "answered", "up", "bye", "ended", "dead"}
         /\ callee.try \in Tries /\ callee.hold \in {"no", "asked", "done"}
  BY DEF AgentsOK, CallerOK, CalleeOK

\* A request that is at the far end came through.
LEMMA PlainCame ==
  ASSUME side \in Sides, NEW i \in Tries, NEW m \in {AckFail(i), AckOk(i), Bye(i)},
         \E w \in wire : w.to = far /\ w.msg = m
  PROVE  Passed(m)
  <1>1. m.from = side /\ m \in MessageType
    BY RequestFields, Named DEF Says, Mail
  <1>2. [m EXCEPT !.sdp = m.sdp] = m
    BY <1>1 DEF MessageType, RequestType, ResponseType
  <1>3. Got(far, m)
    BY <1>2 DEF Got
  <1> QED BY <1>1, <1>3, GotIsPassed

\* The caller dials.
LEMMA DialKeeps ==
  ASSUME side \in Sides, WireOK, AgentsOK, Dial
  PROVE  AgentsOK'
  <1>1. /\ caller.st = "idle"
        /\ caller' = [caller EXCEPT !.st = "calling"]
        /\ Send({Invite(1)}) /\ UNCHANGED <<side, allowed, callee>>
    BY GotIsPassed, RequestFields, AnswerFields, AgentTypes DEF Dial, Quiet, Says, Tries
  <1>2. {Invite(1)} \in SUBSET Mail /\ \A m \in {Invite(1)} : FromCaller(m)
    BY Named, AgentTypes DEF FromCaller, Tries
  <1>3. /\ caller'.st = ("calling")
        /\ caller'.try = (caller.try)
        /\ caller'.answer = (caller.answer)
        /\ caller'.cancelled = (caller.cancelled)
    BY <1>1 DEF AgentsOK, CallerOK
  <1>4. SamePassed /\ SeenOfCaller({Invite(1)}) /\ CalleeOK' /\ CalleeSentOK'
    BY <1>1, <1>2, <1>3, AgentTypes, CallerSends DEF AgentsOK, CallerOK
  <1>5. /\ \A i \in Tries :
          /\ Seen(Invite(i))' <=> Seen(Invite(i)) \/ i = 1
          /\ Seen(Cancel(i))' <=> Seen(Cancel(i))
          /\ Seen(AckFail(i))' <=> Seen(AckFail(i))
          /\ Seen(AckOk(i))' <=> Seen(AckOk(i))
          /\ Seen(Bye(i))' <=> Seen(Bye(i))
        /\ Seen(CalleeByeOk)' <=> Seen(CalleeByeOk)
        /\ Seen(HoldOk)' <=> Seen(HoldOk)
        /\ Seen(HoldNo)' <=> Seen(HoldNo)
    BY <1>4, AgentTypes, CallerDiffer DEF SeenOfCaller, Tries
  <1>6. CallerOK'
    BY <1>1, <1>3, <1>4, AgentTypes DEF AgentsOK, CallerOK, CallerSentOK, CallerSentFor, SamePassed, Tries
  <1>7. ASSUME NEW i \in Tries PROVE CallerSentFor(i)'
    BY <1>1, <1>3, <1>4, <1>5, AgentTypes DEF AgentsOK, CallerSentOK, CallerSentFor, CallerOK, SamePassed, Tries
  <1>8. CallerSentOK'
    BY <1>1, <1>4, <1>5, <1>7 DEF AgentsOK, CallerSentOK, SamePassed
  <1> QED BY <1>4, <1>6, <1>8 DEF AgentsOK

\* It is asked for credentials.
LEMMA ChallengedKeeps ==
  ASSUME side \in Sides, WireOK, AgentsOK, Challenged
  PROVE  AgentsOK'
  <1>1. /\ caller.st = "calling" /\ caller.try = 1 /\ Passed(Challenge(1))
        /\ caller' = [caller EXCEPT !.st = "challenged"]
        /\ Send({AckFail(1)}) /\ UNCHANGED <<side, allowed, callee>>
    BY GotIsPassed, RequestFields, AnswerFields, AgentTypes DEF Challenged, Quiet, Says, Tries, Challenge
  <1>2. {AckFail(1)} \in SUBSET Mail /\ \A m \in {AckFail(1)} : FromCaller(m)
    BY Named, AgentTypes DEF FromCaller, Tries
  <1>3. /\ caller'.st = ("challenged")
        /\ caller'.try = (caller.try)
        /\ caller'.answer = (caller.answer)
        /\ caller'.cancelled = (caller.cancelled)
    BY <1>1 DEF AgentsOK, CallerOK
  <1>4. SamePassed /\ SeenOfCaller({AckFail(1)}) /\ CalleeOK' /\ CalleeSentOK'
    BY <1>1, <1>2, <1>3, AgentTypes, CallerSends DEF AgentsOK, CallerOK
  <1>5. /\ \A i \in Tries :
          /\ Seen(Invite(i))' <=> Seen(Invite(i))
          /\ Seen(Cancel(i))' <=> Seen(Cancel(i))
          /\ Seen(AckFail(i))' <=> Seen(AckFail(i)) \/ i = 1
          /\ Seen(AckOk(i))' <=> Seen(AckOk(i))
          /\ Seen(Bye(i))' <=> Seen(Bye(i))
        /\ Seen(CalleeByeOk)' <=> Seen(CalleeByeOk)
        /\ Seen(HoldOk)' <=> Seen(HoldOk)
        /\ Seen(HoldNo)' <=> Seen(HoldNo)
    BY <1>4, AgentTypes, CallerDiffer DEF SeenOfCaller, Tries
  <1>6. CallerOK'
    BY <1>1, <1>3, <1>4, AgentTypes DEF AgentsOK, CallerOK, CallerSentOK, CallerSentFor, SamePassed, Tries
  <1>7. ASSUME NEW i \in Tries PROVE CallerSentFor(i)'
    BY <1>1, <1>3, <1>4, <1>5, AgentTypes DEF AgentsOK, CallerSentOK, CallerSentFor, CallerOK, SamePassed, Tries
  <1>8. CallerSentOK'
    BY <1>1, <1>4, <1>5, <1>7 DEF AgentsOK, CallerSentOK, SamePassed
  <1> QED BY <1>4, <1>6, <1>8 DEF AgentsOK

\* It dials again, with credentials.
LEMMA RedialKeeps ==
  ASSUME side \in Sides, WireOK, AgentsOK, Redial
  PROVE  AgentsOK'
  <1>1. /\ caller.st = "challenged"
        /\ "lost_ack" \notin allowed => Passed(AckFail(1))
        /\ caller' = [caller EXCEPT !.st = "calling", !.try = 2]
        /\ Send({Invite(2)}) /\ UNCHANGED <<side, allowed, callee>>
    BY GotIsPassed, RequestFields, AnswerFields, AgentTypes, PlainCame DEF Redial, Quiet, Says, Tries
  <1>2. {Invite(2)} \in SUBSET Mail /\ \A m \in {Invite(2)} : FromCaller(m)
    BY Named, AgentTypes DEF FromCaller, Tries
  <1>3. /\ caller'.st = ("calling")
        /\ caller'.try = (2)
        /\ caller'.answer = (caller.answer)
        /\ caller'.cancelled = (caller.cancelled)
    BY <1>1 DEF AgentsOK, CallerOK
  <1>4. SamePassed /\ SeenOfCaller({Invite(2)}) /\ CalleeOK' /\ CalleeSentOK'
    BY <1>1, <1>2, <1>3, AgentTypes, CallerSends DEF AgentsOK, CallerOK
  <1>5. /\ \A i \in Tries :
          /\ Seen(Invite(i))' <=> Seen(Invite(i)) \/ i = 2
          /\ Seen(Cancel(i))' <=> Seen(Cancel(i))
          /\ Seen(AckFail(i))' <=> Seen(AckFail(i))
          /\ Seen(AckOk(i))' <=> Seen(AckOk(i))
          /\ Seen(Bye(i))' <=> Seen(Bye(i))
        /\ Seen(CalleeByeOk)' <=> Seen(CalleeByeOk)
        /\ Seen(HoldOk)' <=> Seen(HoldOk)
        /\ Seen(HoldNo)' <=> Seen(HoldNo)
    BY <1>4, AgentTypes, CallerDiffer DEF SeenOfCaller, Tries
  <1>6. CallerOK'
    <2>1. ~caller.cancelled
      BY <1>1 DEF AgentsOK, CallerOK, CalleeSentOK, CalleeSentFor, Used, Seen, Tries
    <2>2. caller' \in [st : {"idle", "calling", "challenged", "up", "bye", "ended"}, try : Tries,
                       answer : {"none", "raw", "fixed"}, cancelled : BOOLEAN]
      BY <1>1 DEF AgentsOK, CallerOK, Tries
    <2>3. Passed(Challenge(1))' /\ caller.answer = "none" /\ ("lost_ack" \notin allowed' => Passed(AckFail(1))')
      BY <1>1, <1>4 DEF AgentsOK, CallerOK, SamePassed, Tries
    <2> QED
      BY <1>3, <2>1, <2>2, <2>3 DEF CallerOK
  <1>7. ASSUME NEW i \in Tries PROVE CallerSentFor(i)'
    BY <1>1, <1>3, <1>4, <1>5, AgentTypes DEF AgentsOK, CallerSentOK, CallerSentFor, CallerOK, SamePassed, Tries
  <1>8. CallerSentOK'
    BY <1>1, <1>4, <1>5, <1>7 DEF AgentsOK, CallerSentOK, SamePassed
  <1> QED BY <1>4, <1>6, <1>8 DEF AgentsOK

\* It gives up.
LEMMA GiveUpKeeps ==
  ASSUME side \in Sides, WireOK, AgentsOK, GiveUp
  PROVE  AgentsOK'
  <1>1. /\ caller.st = "calling" /\ Passed(Progress(caller.try))
        /\ caller' = [caller EXCEPT !.cancelled = TRUE]
        /\ Send({Cancel(caller.try)}) /\ UNCHANGED <<side, allowed, callee>>
    BY GotIsPassed, RequestFields, AnswerFields, AgentTypes DEF GiveUp, Quiet, Says, Tries, Progress
  <1>2. {Cancel(caller.try)} \in SUBSET Mail /\ \A m \in {Cancel(caller.try)} : FromCaller(m)
    BY Named, AgentTypes DEF FromCaller, Tries
  <1>3. /\ caller'.st = (caller.st)
        /\ caller'.try = (caller.try)
        /\ caller'.answer = (caller.answer)
        /\ caller'.cancelled = (TRUE)
    BY <1>1 DEF AgentsOK, CallerOK
  <1>4. SamePassed /\ SeenOfCaller({Cancel(caller.try)}) /\ CalleeOK' /\ CalleeSentOK'
    BY <1>1, <1>2, <1>3, AgentTypes, CallerSends DEF AgentsOK, CallerOK
  <1>5. /\ \A i \in Tries :
          /\ Seen(Invite(i))' <=> Seen(Invite(i))
          /\ Seen(Cancel(i))' <=> Seen(Cancel(i)) \/ i = caller.try
          /\ Seen(AckFail(i))' <=> Seen(AckFail(i))
          /\ Seen(AckOk(i))' <=> Seen(AckOk(i))
          /\ Seen(Bye(i))' <=> Seen(Bye(i))
        /\ Seen(CalleeByeOk)' <=> Seen(CalleeByeOk)
        /\ Seen(HoldOk)' <=> Seen(HoldOk)
        /\ Seen(HoldNo)' <=> Seen(HoldNo)
    BY <1>4, AgentTypes, CallerDiffer DEF SeenOfCaller, Tries
  <1>6. CallerOK'
    <2>1. caller' \in [st : {"idle", "calling", "challenged", "up", "bye", "ended"}, try : Tries,
                       answer : {"none", "raw", "fixed"}, cancelled : BOOLEAN]
      BY <1>1 DEF AgentsOK, CallerOK
    <2>2. Passed(Progress(caller.try))'
      BY <1>1, <1>4, AgentTypes DEF SamePassed
    <2> QED
      BY <1>1, <1>3, <1>4, <2>1, <2>2, AgentTypes DEF AgentsOK, CallerOK, SamePassed, Tries
  <1>7. ASSUME NEW i \in Tries PROVE CallerSentFor(i)'
    BY <1>1, <1>3, <1>4, <1>5, AgentTypes DEF AgentsOK, CallerSentOK, CallerSentFor, CallerOK, SamePassed, Tries
  <1>8. CallerSentOK'
    BY <1>1, <1>4, <1>5, <1>7 DEF AgentsOK, CallerSentOK, SamePassed
  <1> QED BY <1>4, <1>6, <1>8 DEF AgentsOK

\* It is refused.
LEMMA RefusedKeeps ==
  ASSUME side \in Sides, WireOK, AgentsOK, Refused
  PROVE  AgentsOK'
  <1>1. /\ caller.st = "calling"
        /\ Passed(Refusal(caller.try, 486)) \/ Passed(Refusal(caller.try, 487))
        /\ caller' = [caller EXCEPT !.st = "ended"]
        /\ Send({AckFail(caller.try)}) /\ UNCHANGED <<side, allowed, callee>>
    BY GotIsPassed, RequestFields, AnswerFields, AgentTypes DEF Refused, Quiet, Says, Tries, Refusal
  <1>2. {AckFail(caller.try)} \in SUBSET Mail /\ \A m \in {AckFail(caller.try)} : FromCaller(m)
    BY Named, AgentTypes DEF FromCaller, Tries
  <1>3. /\ caller'.st = ("ended")
        /\ caller'.try = (caller.try)
        /\ caller'.answer = (caller.answer)
        /\ caller'.cancelled = (caller.cancelled)
    BY <1>1 DEF AgentsOK, CallerOK
  <1>4. SamePassed /\ SeenOfCaller({AckFail(caller.try)}) /\ CalleeOK' /\ CalleeSentOK'
    BY <1>1, <1>2, <1>3, AgentTypes, CallerSends DEF AgentsOK, CallerOK
  <1>5. /\ \A i \in Tries :
          /\ Seen(Invite(i))' <=> Seen(Invite(i))
          /\ Seen(Cancel(i))' <=> Seen(Cancel(i))
          /\ Seen(AckFail(i))' <=> Seen(AckFail(i)) \/ i = caller.try
          /\ Seen(AckOk(i))' <=> Seen(AckOk(i))
          /\ Seen(Bye(i))' <=> Seen(Bye(i))
        /\ Seen(CalleeByeOk)' <=> Seen(CalleeByeOk)
        /\ Seen(HoldOk)' <=> Seen(HoldOk)
        /\ Seen(HoldNo)' <=> Seen(HoldNo)
    BY <1>4, AgentTypes, CallerDiffer DEF SeenOfCaller, Tries
  <1>6. CallerOK'
    BY <1>1, <1>3, <1>4, AgentTypes DEF AgentsOK, CallerOK, CallerSentOK, CallerSentFor, SamePassed, Tries
  <1>7. ASSUME NEW i \in Tries PROVE CallerSentFor(i)'
    BY <1>1, <1>3, <1>4, <1>5, AgentTypes DEF AgentsOK, CallerSentOK, CallerSentFor, CallerOK, SamePassed, Tries
  <1>8. CallerSentOK'
    BY <1>1, <1>4, <1>5, <1>7 DEF AgentsOK, CallerSentOK, SamePassed
  <1> QED BY <1>4, <1>6, <1>8 DEF AgentsOK

\* It hangs up.
LEMMA HangUpKeeps ==
  ASSUME side \in Sides, WireOK, AgentsOK, HangUp
  PROVE  AgentsOK'
  <1>1. /\ caller.st = "up"
        /\ "early_bye" \in allowed \/ Passed(AckOk(caller.try))
        /\ caller' = [caller EXCEPT !.st = "bye"]
        /\ Send({Bye(caller.try)}) /\ UNCHANGED <<side, allowed, callee>>
    BY GotIsPassed, RequestFields, AnswerFields, AgentTypes, PlainCame DEF HangUp, Quiet, Says, Tries, AckPassed
  <1>2. {Bye(caller.try)} \in SUBSET Mail /\ \A m \in {Bye(caller.try)} : FromCaller(m)
    BY Named, AgentTypes DEF FromCaller, Tries
  <1>3. /\ caller'.st = ("bye")
        /\ caller'.try = (caller.try)
        /\ caller'.answer = (caller.answer)
        /\ caller'.cancelled = (caller.cancelled)
    BY <1>1 DEF AgentsOK, CallerOK
  <1>4. SamePassed /\ SeenOfCaller({Bye(caller.try)}) /\ CalleeOK' /\ CalleeSentOK'
    BY <1>1, <1>2, <1>3, AgentTypes, CallerSends DEF AgentsOK, CallerOK
  <1>5. /\ \A i \in Tries :
          /\ Seen(Invite(i))' <=> Seen(Invite(i))
          /\ Seen(Cancel(i))' <=> Seen(Cancel(i))
          /\ Seen(AckFail(i))' <=> Seen(AckFail(i))
          /\ Seen(AckOk(i))' <=> Seen(AckOk(i))
          /\ Seen(Bye(i))' <=> Seen(Bye(i)) \/ i = caller.try
        /\ Seen(CalleeByeOk)' <=> Seen(CalleeByeOk)
        /\ Seen(HoldOk)' <=> Seen(HoldOk)
        /\ Seen(HoldNo)' <=> Seen(HoldNo)
    BY <1>4, AgentTypes, CallerDiffer DEF SeenOfCaller, Tries
  <1>6. CallerOK'
    BY <1>1, <1>3, <1>4, AgentTypes DEF AgentsOK, CallerOK, CallerSentOK, CallerSentFor, SamePassed, Tries
  <1>7. ASSUME NEW i \in Tries PROVE CallerSentFor(i)'
    BY <1>1, <1>3, <1>4, <1>5, AgentTypes DEF AgentsOK, CallerSentOK, CallerSentFor, CallerOK, SamePassed, Tries
  <1>8. CallerSentOK'
    BY <1>1, <1>4, <1>5, <1>7 DEF AgentsOK, CallerSentOK, SamePassed
  <1> QED BY <1>4, <1>6, <1>8 DEF AgentsOK

\* Its BYE is answered.
LEMMA CallerByeAnsweredKeeps ==
  ASSUME side \in Sides, WireOK, AgentsOK, CallerByeAnswered
  PROVE  AgentsOK'
  <1>1. /\ caller.st = "bye" /\ Passed(ByeOk(caller.try))
        /\ caller' = [caller EXCEPT !.st = "ended"]
        /\ wire' = wire /\ UNCHANGED <<side, allowed, callee>>
    BY GotIsPassed, RequestFields, AnswerFields, AgentTypes DEF CallerByeAnswered, Quiet, Says, Tries, ByeOk
  <1>0. Send({})
    BY <1>1 DEF Send
  <1>2. {} \in SUBSET Mail /\ \A m \in {} : FromCaller(m)
    BY Named, AgentTypes DEF FromCaller, Tries
  <1>3. /\ caller'.st = ("ended")
        /\ caller'.try = (caller.try)
        /\ caller'.answer = (caller.answer)
        /\ caller'.cancelled = (caller.cancelled)
    BY <1>1 DEF AgentsOK, CallerOK
  <1>4. SamePassed /\ SeenOfCaller({}) /\ CalleeOK' /\ CalleeSentOK'
    BY <1>0, <1>1, <1>2, <1>3, AgentTypes, CallerSends DEF AgentsOK, CallerOK
  <1>5. /\ \A i \in Tries :
          /\ Seen(Invite(i))' <=> Seen(Invite(i))
          /\ Seen(Cancel(i))' <=> Seen(Cancel(i))
          /\ Seen(AckFail(i))' <=> Seen(AckFail(i))
          /\ Seen(AckOk(i))' <=> Seen(AckOk(i))
          /\ Seen(Bye(i))' <=> Seen(Bye(i))
        /\ Seen(CalleeByeOk)' <=> Seen(CalleeByeOk)
        /\ Seen(HoldOk)' <=> Seen(HoldOk)
        /\ Seen(HoldNo)' <=> Seen(HoldNo)
    BY <1>4, AgentTypes, CallerDiffer DEF SeenOfCaller, Tries
  <1>6. CallerOK'
    BY <1>1, <1>3, <1>4, AgentTypes DEF AgentsOK, CallerOK, CallerSentOK, CallerSentFor, SamePassed, Tries
  <1>7. ASSUME NEW i \in Tries PROVE CallerSentFor(i)'
    BY <1>1, <1>3, <1>4, <1>5, AgentTypes DEF AgentsOK, CallerSentOK, CallerSentFor, CallerOK, SamePassed, Tries
  <1>8. CallerSentOK'
    BY <1>1, <1>4, <1>5, <1>7 DEF AgentsOK, CallerSentOK, SamePassed
  <1> QED BY <1>4, <1>6, <1>8 DEF AgentsOK

\* The callee has hung up.
LEMMA CalleeHungUpKeeps ==
  ASSUME side \in Sides, WireOK, AgentsOK, CalleeHungUp
  PROVE  AgentsOK'
  <1>1. /\ caller.st \in {"up", "bye"} /\ Passed(CalleeBye)
        /\ caller' = [caller EXCEPT !.st = IF caller.st = "up" THEN "ended" ELSE caller.st]
        /\ Send({CalleeByeOk}) /\ UNCHANGED <<side, allowed, callee>>
    BY GotIsPassed, RequestFields, AnswerFields, AgentTypes DEF CalleeHungUp, Quiet, Says, Tries, CalleeByeOk
  <1>2. {CalleeByeOk} \in SUBSET Mail /\ \A m \in {CalleeByeOk} : FromCaller(m)
    BY Named, AgentTypes DEF FromCaller, Tries
  <1>3. /\ caller'.st = (IF caller.st = "up" THEN "ended" ELSE caller.st)
        /\ caller'.try = (caller.try)
        /\ caller'.answer = (caller.answer)
        /\ caller'.cancelled = (caller.cancelled)
    BY <1>1 DEF AgentsOK, CallerOK
  <1>4. SamePassed /\ SeenOfCaller({CalleeByeOk}) /\ CalleeOK' /\ CalleeSentOK'
    BY <1>1, <1>2, <1>3, AgentTypes, CallerSends DEF AgentsOK, CallerOK
  <1>5. /\ \A i \in Tries :
          /\ Seen(Invite(i))' <=> Seen(Invite(i))
          /\ Seen(Cancel(i))' <=> Seen(Cancel(i))
          /\ Seen(AckFail(i))' <=> Seen(AckFail(i))
          /\ Seen(AckOk(i))' <=> Seen(AckOk(i))
          /\ Seen(Bye(i))' <=> Seen(Bye(i))
        /\ Seen(CalleeByeOk)' <=> Seen(CalleeByeOk) \/ TRUE
        /\ Seen(HoldOk)' <=> Seen(HoldOk)
        /\ Seen(HoldNo)' <=> Seen(HoldNo)
    BY <1>4, AgentTypes, CallerDiffer DEF SeenOfCaller, Tries
  <1>6. CallerOK'
    BY <1>1, <1>3, <1>4, AgentTypes DEF AgentsOK, CallerOK, CallerSentOK, CallerSentFor, SamePassed, Tries
  <1>7. ASSUME NEW i \in Tries PROVE CallerSentFor(i)'
    BY <1>1, <1>3, <1>4, <1>5, AgentTypes DEF AgentsOK, CallerSentOK, CallerSentFor, CallerOK, SamePassed, Tries
  <1>8. CallerSentOK'
    BY <1>1, <1>4, <1>5, <1>7 DEF AgentsOK, CallerSentOK, SamePassed
  <1> QED BY <1>4, <1>6, <1>8 DEF AgentsOK

\* The callee asks for other media.
LEMMA HeldKeeps ==
  ASSUME side \in Sides, WireOK, AgentsOK, Held
  PROVE  AgentsOK'
  <1>1. /\ caller.st = "up" /\ Passed(Hold)
        /\ caller' = caller
        /\ Send({IF "refused_hold" \in allowed THEN HoldNo ELSE HoldOk}) /\ UNCHANGED <<side, allowed, callee>>
    BY GotIsPassed, RequestFields, AnswerFields, AgentTypes DEF Held, Quiet, Says, Tries, HoldOk, HoldNo
  <1>2. {IF "refused_hold" \in allowed THEN HoldNo ELSE HoldOk} \in SUBSET Mail /\ \A m \in {IF "refused_hold" \in allowed THEN HoldNo ELSE HoldOk} : FromCaller(m)
    BY Named, AgentTypes DEF FromCaller, Tries
  <1>3. /\ caller'.st = (caller.st)
        /\ caller'.try = (caller.try)
        /\ caller'.answer = (caller.answer)
        /\ caller'.cancelled = (caller.cancelled)
    BY <1>1 DEF AgentsOK, CallerOK
  <1>4. SamePassed /\ SeenOfCaller({IF "refused_hold" \in allowed THEN HoldNo ELSE HoldOk}) /\ CalleeOK' /\ CalleeSentOK'
    BY <1>1, <1>2, <1>3, AgentTypes, CallerSends DEF AgentsOK, CallerOK
  <1>5. /\ \A i \in Tries :
          /\ Seen(Invite(i))' <=> Seen(Invite(i))
          /\ Seen(Cancel(i))' <=> Seen(Cancel(i))
          /\ Seen(AckFail(i))' <=> Seen(AckFail(i))
          /\ Seen(AckOk(i))' <=> Seen(AckOk(i))
          /\ Seen(Bye(i))' <=> Seen(Bye(i))
        /\ Seen(CalleeByeOk)' <=> Seen(CalleeByeOk)
        /\ Seen(HoldOk)' <=> Seen(HoldOk) \/ "refused_hold" \notin allowed
        /\ Seen(HoldNo)' <=> Seen(HoldNo) \/ "refused_hold" \in allowed
    BY <1>4, AgentTypes, CallerDiffer DEF SeenOfCaller, Tries
  <1>6. CallerOK'
    BY <1>1, <1>3, <1>4, AgentTypes DEF AgentsOK, CallerOK, CallerSentOK, CallerSentFor, SamePassed, Tries
  <1>7. ASSUME NEW i \in Tries PROVE CallerSentFor(i)'
    BY <1>1, <1>3, <1>4, <1>5, AgentTypes DEF AgentsOK, CallerSentOK, CallerSentFor, CallerOK, SamePassed, Tries
  <1>8. CallerSentOK'
    BY <1>1, <1>4, <1>5, <1>7 DEF AgentsOK, CallerSentOK, SamePassed
  <1> QED BY <1>4, <1>6, <1>8 DEF AgentsOK

\* The answer that is accepted came through, as it was or rewritten.
LEMMA AcceptedAnswer ==
  ASSUME side \in Sides, WireOK, AgentsOK, Accepted
  PROVE  /\ caller.st = "calling" /\ Passed(Ok(caller.try))
         /\ Send({AckOk(caller.try)}) /\ UNCHANGED <<side, allowed, callee>>
         /\ caller' \in [st : {"up"}, try : {caller.try}, answer : {"raw", "fixed"}, cancelled : {caller.cancelled}]
         /\ caller'.answer = "raw" => Unredirected(caller.try)
         /\ caller'.answer = "fixed" => Redirected(caller.try)
  <1>1. PICK w \in wire : /\ w.to = side /\ [w.msg EXCEPT !.sdp = "raw"] = Ok(caller.try)
                          /\ caller' = [caller EXCEPT !.st = "up", !.answer = w.msg.sdp]
    BY DEF Accepted, Ok
  <1>2. /\ caller.st = "calling" /\ Send({AckOk(caller.try)}) /\ UNCHANGED <<side, allowed, callee>>
        /\ caller.try \in Tries
    BY AgentTypes DEF Accepted, Quiet
  <1>3. /\ Ok(caller.try) \in Mail /\ Ok(caller.try).from = far /\ Ok(caller.try).sdp = "raw"
        /\ Ok(caller.try).kind = "response" /\ side # "mitm" /\ Opposite(far) = side
    BY <1>2, Named, AnswerFields DEF Says, Sides, far, Opposite
  <1>4. Alike(w.msg, Ok(caller.try))
    BY <1>1, <1>3 DEF Alike
  <1>5. PICK n \in Mail, x \in MessageType : Copy(n, x) /\ w = [to |-> Opposite(n.from), msg |-> x]
    BY <1>1, <1>3 DEF WireOK
  <1>6. n = Ok(caller.try) /\ w = [to |-> side, msg |-> x]
    BY <1>3, <1>4, <1>5, OneOriginal
  <1>7. \/ x = Ok(caller.try) /\ x.sdp = "raw" /\ Unredirected(caller.try)
        \/ x = [Ok(caller.try) EXCEPT !.sdp = "fixed"] /\ x.sdp = "fixed" /\ Redirected(caller.try)
    BY <1>3, <1>5, <1>6 DEF Copy, Redirected, Unredirected, Mail, MessageType, RequestType, ResponseType
  <1>8. Passed(Ok(caller.try))
    BY <1>1, <1>3, GotIsPassed DEF Got
  <1>9. x.sdp \in {"raw", "fixed"} /\ caller' = [caller EXCEPT !.st = "up", !.answer = x.sdp]
    BY <1>1, <1>6, <1>7
  <1>10. /\ caller' \in [st : {"up"}, try : {caller.try}, answer : {"raw", "fixed"}, cancelled : {caller.cancelled}]
         /\ caller'.answer = x.sdp
    BY <1>9 DEF AgentsOK, CallerOK
  <1> QED BY <1>2, <1>7, <1>8, <1>10

\* The call is answered.
LEMMA AcceptedKeeps ==
  ASSUME side \in Sides, WireOK, AgentsOK, Accepted
  PROVE  AgentsOK'
  <1>1. /\ caller.st = "calling"
        /\ Send({AckOk(caller.try)}) /\ UNCHANGED <<side, allowed, callee>>
        /\ caller' \in [st : {"up"}, try : {caller.try}, answer : {"raw", "fixed"}, cancelled : {caller.cancelled}]
        /\ caller'.answer = "raw" => Unredirected(caller.try)
        /\ caller'.answer = "fixed" => Redirected(caller.try)
    BY AcceptedAnswer
  <1>2. {AckOk(caller.try)} \in SUBSET Mail /\ \A m \in {AckOk(caller.try)} : FromCaller(m)
    BY Named, AgentTypes DEF FromCaller
  <1>3. /\ caller'.st = "up" /\ caller'.try = caller.try /\ caller'.cancelled = caller.cancelled
        /\ caller'.answer \in {"raw", "fixed"}
    BY <1>1
  <1>4. SamePassed /\ SeenOfCaller({AckOk(caller.try)}) /\ CalleeOK' /\ CalleeSentOK'
    BY <1>1, <1>2, <1>3, CallerSends
  <1>5. /\ \A i \in Tries :
          /\ Seen(Invite(i))' <=> Seen(Invite(i))
          /\ Seen(Cancel(i))' <=> Seen(Cancel(i))
          /\ Seen(AckFail(i))' <=> Seen(AckFail(i))
          /\ Seen(AckOk(i))' <=> Seen(AckOk(i)) \/ i = caller.try
          /\ Seen(Bye(i))' <=> Seen(Bye(i))
        /\ Seen(CalleeByeOk)' <=> Seen(CalleeByeOk)
        /\ Seen(HoldOk)' <=> Seen(HoldOk)
        /\ Seen(HoldNo)' <=> Seen(HoldNo)
    BY <1>4, AgentTypes, CallerDiffer DEF SeenOfCaller, Tries
  <1>6. CallerOK'
    <2>1. caller' \in [st : {"idle", "calling", "challenged", "up", "bye", "ended"}, try : Tries,
                       answer : {"none", "raw", "fixed"}, cancelled : BOOLEAN]
      BY <1>1 DEF AgentsOK, CallerOK
    <2>2. /\ caller'.answer = "raw" => Unredirected(caller.try)'
          /\ caller'.answer = "fixed" => Redirected(caller.try)'
      BY <1>1, <1>4, AgentTypes DEF SamePassed
    <2> QED
      BY <1>1, <1>3, <1>4, <2>1, <2>2, AgentTypes DEF AgentsOK, CallerOK, SamePassed, Tries
  <1>7. ASSUME NEW i \in Tries PROVE CallerSentFor(i)'
    BY <1>1, <1>3, <1>4, <1>5, AgentTypes DEF AgentsOK, CallerSentOK, CallerSentFor, CallerOK, SamePassed, Tries
  <1>8. CallerSentOK'
    BY <1>1, <1>4, <1>5, <1>7 DEF AgentsOK, CallerSentOK, SamePassed
  <1> QED BY <1>4, <1>6, <1>8 DEF AgentsOK

\* Nobody is left to answer the caller.
LEMMA UnansweredKeeps ==
  ASSUME side \in Sides, WireOK, AgentsOK, Unanswered
  PROVE  AgentsOK'
  <1>1. /\ caller.st = "calling" \/ (caller.st = "bye" /\ Passed(Bye(caller.try)) /\ callee.st = "dead")
        /\ caller' = [caller EXCEPT !.st = "ended"]
        /\ wire' = wire /\ UNCHANGED <<side, allowed, callee>>
    BY PlainCame, AgentTypes DEF Unanswered, Quiet
  <1>2. Send({}) /\ {} \in SUBSET Mail
    BY <1>1 DEF Send
  <1>3. caller'.st = "ended" /\ caller'.try = caller.try /\ caller'.answer = caller.answer
        /\ caller'.cancelled = caller.cancelled
    BY <1>1 DEF AgentsOK, CallerOK
  <1>4. SamePassed /\ SeenOfCaller({}) /\ CalleeOK' /\ CalleeSentOK'
    BY <1>1, <1>2, <1>3, CallerSends
  <1>5. CallerOK'
    BY <1>1, <1>3, <1>4, AgentTypes DEF AgentsOK, CallerOK, SamePassed, Tries
  <1>6. ASSUME NEW i \in Tries PROVE CallerSentFor(i)'
    BY <1>1, <1>3, <1>4, AgentTypes DEF AgentsOK, CallerSentOK, CallerSentFor, CallerOK, SamePassed, SeenOfCaller, Tries
  <1>7. CallerSentOK'
    BY <1>1, <1>4, <1>6 DEF AgentsOK, CallerSentOK, SamePassed, SeenOfCaller
  <1> QED BY <1>4, <1>5, <1>7 DEF AgentsOK

\* An ACK of a 2xx is sent for an answer that came through.
LEMMA AckAnswers ==
  ASSUME side \in Sides, WireOK, AgentsOK, NEW i \in Tries, caller.try = i, caller.answer # "none"
  PROVE  Passed(Ok(i)) /\ Used(i) /\ callee.st \notin {"idle", "ringing"}
  <1>1. Redirected(i) \/ Unredirected(i)
    BY AgentTypes DEF AgentsOK, CallerOK
  <1>2. /\ Ok(i) \in Mail /\ Ok(i) \in MessageType /\ Ok(i).from = far /\ Ok(i).sdp = "raw" /\ Opposite(far) = side
    BY Named, AnswerFields DEF Says, far, Opposite, Sides, Mail
  <1>3. Copy(Ok(i), Ok(i)) /\ Copy(Ok(i), [Ok(i) EXCEPT !.sdp = "fixed"])
    BY <1>2 DEF Copy
  <1>4. Passed(Ok(i))
    BY <1>1, <1>2, <1>3, CopyAlike, PassedCopy DEF Redirected, Unredirected
  <1>5. CalleeSentFor(i)
    BY DEF AgentsOK, CalleeSentOK
  <1> QED BY <1>4, <1>5 DEF CalleeSentFor, Seen, Used

\* The callee answers.
LEMMA AnswerKeeps ==
  ASSUME side \in Sides, WireOK, AgentsOK, Answer
  PROVE  AgentsOK'
  <1>1. /\ callee.st = "ringing"
        /\ callee' = [callee EXCEPT !.st = "answered"]
        /\ Send({Ok(callee.try)}) /\ UNCHANGED <<side, allowed, caller>>
    BY GotIsPassed, RequestFields, AnswerFields, AgentTypes DEF Quiet, Says, Tries, Answer, Ok
  <1>2. {Ok(callee.try)} \in SUBSET Mail /\ \A m \in {Ok(callee.try)} : FromCallee(m)
    BY Named, AgentTypes DEF FromCallee, Tries
  <1>3. /\ callee'.st = ("answered")
        /\ callee'.try = (callee.try)
        /\ callee'.hold = (callee.hold)
    BY <1>1 DEF AgentsOK, CalleeOK
  <1>4. SamePassed /\ SeenOfCallee({Ok(callee.try)}) /\ CallerOK' /\ CallerSentOK'
    BY <1>1, <1>2, CalleeSends
  <1>5. /\ \A i \in Tries :
          /\ Seen(Progress(i))' <=> Seen(Progress(i))
          /\ Seen(Challenge(i))' <=> Seen(Challenge(i))
          /\ Seen(Ok(i))' <=> Seen(Ok(i)) \/ i = callee.try
          /\ Seen(Refusal(i, 486))' <=> Seen(Refusal(i, 486))
          /\ Seen(Refusal(i, 487))' <=> Seen(Refusal(i, 487))
          /\ Seen(CancelOk(i))' <=> Seen(CancelOk(i))
          /\ Seen(ByeOk(i))' <=> Seen(ByeOk(i))
          /\ OnWire(Ok(i))' <=> OnWire(Ok(i)) \/ i = callee.try
        /\ Seen(Hold)' <=> Seen(Hold)
        /\ Seen(HeldAck)' <=> Seen(HeldAck)
        /\ Seen(HoldNoAck)' <=> Seen(HoldNoAck)
        /\ Seen(CalleeBye)' <=> Seen(CalleeBye)
    BY <1>4, AgentTypes, CalleeDiffer DEF SeenOfCallee, Tries
  <1>6. \A i \in Tries : Used(i) => Used(i)'
    BY <1>1, <1>3, <1>4, AgentTypes DEF Used, AgentsOK, CalleeOK, SamePassed
  <1>7. CalleeOK'
    BY <1>1, <1>3, <1>4, <1>5, <1>6, AgentTypes DEF AgentsOK, CalleeOK, CalleeSentOK, SamePassed, Tries
  <1>8. ASSUME NEW i \in Tries PROVE CalleeSentFor(i)'
    BY <1>1, <1>3, <1>4, <1>5, <1>6, AgentTypes DEF AgentsOK, CalleeSentOK, CalleeSentFor, CalleeOK, CallerSentOK, CallerSentFor, Seen, SamePassed, Tries
  <1>9. CalleeSentOK'
    BY <1>1, <1>3, <1>4, <1>5, <1>8, AgentTypes DEF AgentsOK, CalleeSentOK, CalleeOK, SamePassed, Tries
  <1> QED BY <1>4, <1>7, <1>9 DEF AgentsOK

\* It rejects the call.
LEMMA RejectKeeps ==
  ASSUME side \in Sides, WireOK, AgentsOK, Reject
  PROVE  AgentsOK'
  <1>1. /\ callee.st = "ringing"
        /\ callee' = [callee EXCEPT !.st = "ended"]
        /\ Send({Refusal(callee.try, 486)}) /\ UNCHANGED <<side, allowed, caller>>
    BY GotIsPassed, RequestFields, AnswerFields, AgentTypes DEF Quiet, Says, Tries, Reject, Refusal
  <1>2. {Refusal(callee.try, 486)} \in SUBSET Mail /\ \A m \in {Refusal(callee.try, 486)} : FromCallee(m)
    BY Named, AgentTypes DEF FromCallee, Tries
  <1>3. /\ callee'.st = ("ended")
        /\ callee'.try = (callee.try)
        /\ callee'.hold = (callee.hold)
    BY <1>1 DEF AgentsOK, CalleeOK
  <1>4. SamePassed /\ SeenOfCallee({Refusal(callee.try, 486)}) /\ CallerOK' /\ CallerSentOK'
    BY <1>1, <1>2, CalleeSends
  <1>5. /\ \A i \in Tries :
          /\ Seen(Progress(i))' <=> Seen(Progress(i))
          /\ Seen(Challenge(i))' <=> Seen(Challenge(i))
          /\ Seen(Ok(i))' <=> Seen(Ok(i))
          /\ Seen(Refusal(i, 486))' <=> Seen(Refusal(i, 486)) \/ i = callee.try
          /\ Seen(Refusal(i, 487))' <=> Seen(Refusal(i, 487))
          /\ Seen(CancelOk(i))' <=> Seen(CancelOk(i))
          /\ Seen(ByeOk(i))' <=> Seen(ByeOk(i))
          /\ OnWire(Ok(i))' <=> OnWire(Ok(i))
        /\ Seen(Hold)' <=> Seen(Hold)
        /\ Seen(HeldAck)' <=> Seen(HeldAck)
        /\ Seen(HoldNoAck)' <=> Seen(HoldNoAck)
        /\ Seen(CalleeBye)' <=> Seen(CalleeBye)
    BY <1>4, AgentTypes, CalleeDiffer DEF SeenOfCallee, Tries
  <1>6. \A i \in Tries : Used(i) => Used(i)'
    BY <1>1, <1>3, <1>4, AgentTypes DEF Used, AgentsOK, CalleeOK, SamePassed
  <1>7. CalleeOK'
    BY <1>1, <1>3, <1>4, <1>5, <1>6, AgentTypes DEF AgentsOK, CalleeOK, CalleeSentOK, SamePassed, Tries
  <1>8. ASSUME NEW i \in Tries PROVE CalleeSentFor(i)'
    BY <1>1, <1>3, <1>4, <1>5, <1>6, AgentTypes DEF AgentsOK, CalleeSentOK, CalleeSentFor, CalleeOK, CallerSentOK, CallerSentFor, Seen, SamePassed, Tries
  <1>9. CalleeSentOK'
    BY <1>1, <1>3, <1>4, <1>5, <1>8, AgentTypes DEF AgentsOK, CalleeSentOK, CalleeOK, SamePassed, Tries
  <1> QED BY <1>4, <1>7, <1>9 DEF AgentsOK

\* Its answer is acknowledged.
LEMMA AckedKeeps ==
  ASSUME side \in Sides, WireOK, AgentsOK, Acked
  PROVE  AgentsOK'
  <1>1. /\ callee.st = "answered" /\ Passed(AckOk(callee.try))
        /\ callee' = [callee EXCEPT !.st = "up"]
        /\ wire' = wire /\ UNCHANGED <<side, allowed, caller>>
    BY GotIsPassed, RequestFields, AnswerFields, AgentTypes DEF Quiet, Says, Tries, Acked
  <1>0. Send({})
    BY <1>1 DEF Send
  <1>2. {} \in SUBSET Mail /\ \A m \in {} : FromCallee(m)
    BY Named, AgentTypes DEF FromCallee, Tries
  <1>3. /\ callee'.st = ("up")
        /\ callee'.try = (callee.try)
        /\ callee'.hold = (callee.hold)
    BY <1>1 DEF AgentsOK, CalleeOK
  <1>4. SamePassed /\ SeenOfCallee({}) /\ CallerOK' /\ CallerSentOK'
    BY <1>0, <1>1, <1>2, CalleeSends
  <1>5. /\ \A i \in Tries :
          /\ Seen(Progress(i))' <=> Seen(Progress(i))
          /\ Seen(Challenge(i))' <=> Seen(Challenge(i))
          /\ Seen(Ok(i))' <=> Seen(Ok(i))
          /\ Seen(Refusal(i, 486))' <=> Seen(Refusal(i, 486))
          /\ Seen(Refusal(i, 487))' <=> Seen(Refusal(i, 487))
          /\ Seen(CancelOk(i))' <=> Seen(CancelOk(i))
          /\ Seen(ByeOk(i))' <=> Seen(ByeOk(i))
          /\ OnWire(Ok(i))' <=> OnWire(Ok(i))
        /\ Seen(Hold)' <=> Seen(Hold)
        /\ Seen(HeldAck)' <=> Seen(HeldAck)
        /\ Seen(HoldNoAck)' <=> Seen(HoldNoAck)
        /\ Seen(CalleeBye)' <=> Seen(CalleeBye)
    BY <1>4, AgentTypes, CalleeDiffer DEF SeenOfCallee, Tries
  <1>6. \A i \in Tries : Used(i) => Used(i)'
    BY <1>1, <1>3, <1>4, AgentTypes DEF Used, AgentsOK, CalleeOK, SamePassed
  <1>7. CalleeOK'
    BY <1>1, <1>3, <1>4, <1>5, <1>6, AgentTypes DEF AgentsOK, CalleeOK, CalleeSentOK, SamePassed, Tries
  <1>8. ASSUME NEW i \in Tries PROVE CalleeSentFor(i)'
    BY <1>1, <1>3, <1>4, <1>5, <1>6, AgentTypes DEF AgentsOK, CalleeSentOK, CalleeSentFor, CalleeOK, CallerSentOK, CallerSentFor, Seen, SamePassed, Tries
  <1>9. CalleeSentOK'
    BY <1>1, <1>3, <1>4, <1>5, <1>8, AgentTypes DEF AgentsOK, CalleeSentOK, CalleeOK, SamePassed, Tries
  <1> QED BY <1>4, <1>7, <1>9 DEF AgentsOK

\* It asks for other media.
LEMMA PutOnHoldKeeps ==
  ASSUME side \in Sides, WireOK, AgentsOK, PutOnHold
  PROVE  AgentsOK'
  <1>1. /\ callee.st = "up" /\ callee.hold = "no" /\ "hold" \in allowed
        /\ callee' = [callee EXCEPT !.hold = "asked"]
        /\ Send({Hold}) /\ UNCHANGED <<side, allowed, caller>>
    BY GotIsPassed, RequestFields, AnswerFields, AgentTypes DEF Quiet, Says, Tries, PutOnHold
  <1>2. {Hold} \in SUBSET Mail /\ \A m \in {Hold} : FromCallee(m)
    BY Named, AgentTypes DEF FromCallee, Tries
  <1>3. /\ callee'.st = (callee.st)
        /\ callee'.try = (callee.try)
        /\ callee'.hold = ("asked")
    BY <1>1 DEF AgentsOK, CalleeOK
  <1>4. SamePassed /\ SeenOfCallee({Hold}) /\ CallerOK' /\ CallerSentOK'
    BY <1>1, <1>2, CalleeSends
  <1>5. /\ \A i \in Tries :
          /\ Seen(Progress(i))' <=> Seen(Progress(i))
          /\ Seen(Challenge(i))' <=> Seen(Challenge(i))
          /\ Seen(Ok(i))' <=> Seen(Ok(i))
          /\ Seen(Refusal(i, 486))' <=> Seen(Refusal(i, 486))
          /\ Seen(Refusal(i, 487))' <=> Seen(Refusal(i, 487))
          /\ Seen(CancelOk(i))' <=> Seen(CancelOk(i))
          /\ Seen(ByeOk(i))' <=> Seen(ByeOk(i))
          /\ OnWire(Ok(i))' <=> OnWire(Ok(i))
        /\ Seen(Hold)' <=> Seen(Hold) \/ TRUE
        /\ Seen(HeldAck)' <=> Seen(HeldAck)
        /\ Seen(HoldNoAck)' <=> Seen(HoldNoAck)
        /\ Seen(CalleeBye)' <=> Seen(CalleeBye)
    BY <1>4, AgentTypes, CalleeDiffer DEF SeenOfCallee, Tries
  <1>6. \A i \in Tries : Used(i) => Used(i)'
    BY <1>1, <1>3, <1>4, AgentTypes DEF Used, AgentsOK, CalleeOK, SamePassed
  <1>7. CalleeOK'
    BY <1>1, <1>3, <1>4, <1>5, <1>6, AgentTypes DEF AgentsOK, CalleeOK, CalleeSentOK, SamePassed, Tries
  <1>8. ASSUME NEW i \in Tries PROVE CalleeSentFor(i)'
    BY <1>1, <1>3, <1>4, <1>5, <1>6, AgentTypes DEF AgentsOK, CalleeSentOK, CalleeSentFor, CalleeOK, CallerSentOK, CallerSentFor, Seen, SamePassed, Tries
  <1>9. CalleeSentOK'
    BY <1>1, <1>3, <1>4, <1>5, <1>8, AgentTypes DEF AgentsOK, CalleeSentOK, CalleeOK, SamePassed, Tries
  <1> QED BY <1>4, <1>7, <1>9 DEF AgentsOK

\* It hangs up.
LEMMA CalleeHangUpKeeps ==
  ASSUME side \in Sides, WireOK, AgentsOK, CalleeHangUp
  PROVE  AgentsOK'
  <1>1. /\ callee.st = "up" /\ callee.hold # "asked"
        /\ callee' = [callee EXCEPT !.st = "bye"]
        /\ Send({CalleeBye}) /\ UNCHANGED <<side, allowed, caller>>
    BY GotIsPassed, RequestFields, AnswerFields, AgentTypes DEF Quiet, Says, Tries, CalleeHangUp
  <1>2. {CalleeBye} \in SUBSET Mail /\ \A m \in {CalleeBye} : FromCallee(m)
    BY Named, AgentTypes DEF FromCallee, Tries
  <1>3. /\ callee'.st = ("bye")
        /\ callee'.try = (callee.try)
        /\ callee'.hold = (callee.hold)
    BY <1>1 DEF AgentsOK, CalleeOK
  <1>4. SamePassed /\ SeenOfCallee({CalleeBye}) /\ CallerOK' /\ CallerSentOK'
    BY <1>1, <1>2, CalleeSends
  <1>5. /\ \A i \in Tries :
          /\ Seen(Progress(i))' <=> Seen(Progress(i))
          /\ Seen(Challenge(i))' <=> Seen(Challenge(i))
          /\ Seen(Ok(i))' <=> Seen(Ok(i))
          /\ Seen(Refusal(i, 486))' <=> Seen(Refusal(i, 486))
          /\ Seen(Refusal(i, 487))' <=> Seen(Refusal(i, 487))
          /\ Seen(CancelOk(i))' <=> Seen(CancelOk(i))
          /\ Seen(ByeOk(i))' <=> Seen(ByeOk(i))
          /\ OnWire(Ok(i))' <=> OnWire(Ok(i))
        /\ Seen(Hold)' <=> Seen(Hold)
        /\ Seen(HeldAck)' <=> Seen(HeldAck)
        /\ Seen(HoldNoAck)' <=> Seen(HoldNoAck)
        /\ Seen(CalleeBye)' <=> Seen(CalleeBye) \/ TRUE
    BY <1>4, AgentTypes, CalleeDiffer DEF SeenOfCallee, Tries
  <1>6. \A i \in Tries : Used(i) => Used(i)'
    BY <1>1, <1>3, <1>4, AgentTypes DEF Used, AgentsOK, CalleeOK, SamePassed
  <1>7. CalleeOK'
    BY <1>1, <1>3, <1>4, <1>5, <1>6, AgentTypes DEF AgentsOK, CalleeOK, CalleeSentOK, SamePassed, Tries
  <1>8. ASSUME NEW i \in Tries PROVE CalleeSentFor(i)'
    BY <1>1, <1>3, <1>4, <1>5, <1>6, AgentTypes DEF AgentsOK, CalleeSentOK, CalleeSentFor, CalleeOK, CallerSentOK, CallerSentFor, Seen, SamePassed, Tries
  <1>9. CalleeSentOK'
    BY <1>1, <1>3, <1>4, <1>5, <1>8, AgentTypes DEF AgentsOK, CalleeSentOK, CalleeOK, SamePassed, Tries
  <1> QED BY <1>4, <1>7, <1>9 DEF AgentsOK

\* Its BYE is answered.
LEMMA CalleeByeAnsweredKeeps ==
  ASSUME side \in Sides, WireOK, AgentsOK, CalleeByeAnswered
  PROVE  AgentsOK'
  <1>1. /\ callee.st = "bye" /\ Passed(CalleeByeOk)
        /\ callee' = [callee EXCEPT !.st = "ended"]
        /\ wire' = wire /\ UNCHANGED <<side, allowed, caller>>
    BY GotIsPassed, RequestFields, AnswerFields, AgentTypes DEF Quiet, Says, Tries, CalleeByeAnswered, CalleeByeOk
  <1>0. Send({})
    BY <1>1 DEF Send
  <1>2. {} \in SUBSET Mail /\ \A m \in {} : FromCallee(m)
    BY Named, AgentTypes DEF FromCallee, Tries
  <1>3. /\ callee'.st = ("ended")
        /\ callee'.try = (callee.try)
        /\ callee'.hold = (callee.hold)
    BY <1>1 DEF AgentsOK, CalleeOK
  <1>4. SamePassed /\ SeenOfCallee({}) /\ CallerOK' /\ CallerSentOK'
    BY <1>0, <1>1, <1>2, CalleeSends
  <1>5. /\ \A i \in Tries :
          /\ Seen(Progress(i))' <=> Seen(Progress(i))
          /\ Seen(Challenge(i))' <=> Seen(Challenge(i))
          /\ Seen(Ok(i))' <=> Seen(Ok(i))
          /\ Seen(Refusal(i, 486))' <=> Seen(Refusal(i, 486))
          /\ Seen(Refusal(i, 487))' <=> Seen(Refusal(i, 487))
          /\ Seen(CancelOk(i))' <=> Seen(CancelOk(i))
          /\ Seen(ByeOk(i))' <=> Seen(ByeOk(i))
          /\ OnWire(Ok(i))' <=> OnWire(Ok(i))
        /\ Seen(Hold)' <=> Seen(Hold)
        /\ Seen(HeldAck)' <=> Seen(HeldAck)
        /\ Seen(HoldNoAck)' <=> Seen(HoldNoAck)
        /\ Seen(CalleeBye)' <=> Seen(CalleeBye)
    BY <1>4, AgentTypes, CalleeDiffer DEF SeenOfCallee, Tries
  <1>6. \A i \in Tries : Used(i) => Used(i)'
    BY <1>1, <1>3, <1>4, AgentTypes DEF Used, AgentsOK, CalleeOK, SamePassed
  <1>7. CalleeOK'
    BY <1>1, <1>3, <1>4, <1>5, <1>6, AgentTypes DEF AgentsOK, CalleeOK, CalleeSentOK, SamePassed, Tries
  <1>8. ASSUME NEW i \in Tries PROVE CalleeSentFor(i)'
    BY <1>1, <1>3, <1>4, <1>5, <1>6, AgentTypes DEF AgentsOK, CalleeSentOK, CalleeSentFor, CalleeOK, CallerSentOK, CallerSentFor, Seen, SamePassed, Tries
  <1>9. CalleeSentOK'
    BY <1>1, <1>3, <1>4, <1>5, <1>8, AgentTypes DEF AgentsOK, CalleeSentOK, CalleeOK, SamePassed, Tries
  <1> QED BY <1>4, <1>7, <1>9 DEF AgentsOK

\* The caller has hung up.
LEMMA CallerHungUpKeeps ==
  ASSUME side \in Sides, WireOK, AgentsOK, CallerHungUp
  PROVE  AgentsOK'
  <1>1. /\ callee.st \in {"answered", "up", "bye"} /\ Passed(Bye(callee.try))
        /\ callee' = [callee EXCEPT !.st = IF callee.st = "bye" THEN "bye" ELSE "ended"]
        /\ Send({ByeOk(callee.try)}) /\ UNCHANGED <<side, allowed, caller>>
    BY GotIsPassed, RequestFields, AnswerFields, AgentTypes DEF Quiet, Says, Tries, CallerHungUp, ByeOk
  <1>2. {ByeOk(callee.try)} \in SUBSET Mail /\ \A m \in {ByeOk(callee.try)} : FromCallee(m)
    BY Named, AgentTypes DEF FromCallee, Tries
  <1>3. /\ callee'.st = (IF callee.st = "bye" THEN "bye" ELSE "ended")
        /\ callee'.try = (callee.try)
        /\ callee'.hold = (callee.hold)
    BY <1>1 DEF AgentsOK, CalleeOK
  <1>4. SamePassed /\ SeenOfCallee({ByeOk(callee.try)}) /\ CallerOK' /\ CallerSentOK'
    BY <1>1, <1>2, CalleeSends
  <1>5. /\ \A i \in Tries :
          /\ Seen(Progress(i))' <=> Seen(Progress(i))
          /\ Seen(Challenge(i))' <=> Seen(Challenge(i))
          /\ Seen(Ok(i))' <=> Seen(Ok(i))
          /\ Seen(Refusal(i, 486))' <=> Seen(Refusal(i, 486))
          /\ Seen(Refusal(i, 487))' <=> Seen(Refusal(i, 487))
          /\ Seen(CancelOk(i))' <=> Seen(CancelOk(i))
          /\ Seen(ByeOk(i))' <=> Seen(ByeOk(i)) \/ i = callee.try
          /\ OnWire(Ok(i))' <=> OnWire(Ok(i))
        /\ Seen(Hold)' <=> Seen(Hold)
        /\ Seen(HeldAck)' <=> Seen(HeldAck)
        /\ Seen(HoldNoAck)' <=> Seen(HoldNoAck)
        /\ Seen(CalleeBye)' <=> Seen(CalleeBye)
    BY <1>4, AgentTypes, CalleeDiffer DEF SeenOfCallee, Tries
  <1>6. \A i \in Tries : Used(i) => Used(i)'
    BY <1>1, <1>3, <1>4, AgentTypes DEF Used, AgentsOK, CalleeOK, SamePassed
  <1>7. CalleeOK'
    BY <1>1, <1>3, <1>4, <1>5, <1>6, AgentTypes DEF AgentsOK, CalleeOK, CalleeSentOK, SamePassed, Tries
  <1>8. ASSUME NEW i \in Tries PROVE CalleeSentFor(i)'
    BY <1>1, <1>3, <1>4, <1>5, <1>6, AgentTypes DEF AgentsOK, CalleeSentOK, CalleeSentFor, CalleeOK, CallerSentOK, CallerSentFor, Seen, SamePassed, Tries
  <1>9. CalleeSentOK'
    BY <1>1, <1>3, <1>4, <1>5, <1>8, AgentTypes DEF AgentsOK, CalleeSentOK, CalleeOK, SamePassed, Tries
  <1> QED BY <1>4, <1>7, <1>9 DEF AgentsOK

\* It is cancelled while it rings.
LEMMA CancelledRingingKeeps ==
  ASSUME side \in Sides, WireOK, AgentsOK, Cancelled, callee.st = "ringing"
  PROVE  AgentsOK'
  <1>1. /\ callee.st = "ringing" /\ Passed(Cancel(callee.try))
        /\ callee' = [callee EXCEPT !.st = "ended"]
        /\ Send({CancelOk(callee.try)} \cup {Refusal(callee.try, 487)}) /\ UNCHANGED <<side, allowed, caller>>
    BY GotIsPassed, RequestFields, AnswerFields, AgentTypes DEF Quiet, Says, Tries, Cancelled, CancelOk, Refusal
  <1>2. {CancelOk(callee.try)} \cup {Refusal(callee.try, 487)} \in SUBSET Mail /\ \A m \in {CancelOk(callee.try)} \cup {Refusal(callee.try, 487)} : FromCallee(m)
    BY Named, AgentTypes DEF FromCallee, Tries
  <1>3. /\ callee'.st = ("ended")
        /\ callee'.try = (callee.try)
        /\ callee'.hold = (callee.hold)
    BY <1>1 DEF AgentsOK, CalleeOK
  <1>4. SamePassed /\ SeenOfCallee({CancelOk(callee.try)} \cup {Refusal(callee.try, 487)}) /\ CallerOK' /\ CallerSentOK'
    BY <1>1, <1>2, CalleeSends
  <1>5. /\ \A i \in Tries :
          /\ Seen(Progress(i))' <=> Seen(Progress(i))
          /\ Seen(Challenge(i))' <=> Seen(Challenge(i))
          /\ Seen(Ok(i))' <=> Seen(Ok(i))
          /\ Seen(Refusal(i, 486))' <=> Seen(Refusal(i, 486))
          /\ Seen(Refusal(i, 487))' <=> Seen(Refusal(i, 487)) \/ i = callee.try
          /\ Seen(CancelOk(i))' <=> Seen(CancelOk(i)) \/ i = callee.try
          /\ Seen(ByeOk(i))' <=> Seen(ByeOk(i))
          /\ OnWire(Ok(i))' <=> OnWire(Ok(i))
        /\ Seen(Hold)' <=> Seen(Hold)
        /\ Seen(HeldAck)' <=> Seen(HeldAck)
        /\ Seen(HoldNoAck)' <=> Seen(HoldNoAck)
        /\ Seen(CalleeBye)' <=> Seen(CalleeBye)
    BY <1>4, AgentTypes, CalleeDiffer DEF SeenOfCallee, Tries
  <1>6. \A i \in Tries : Used(i) => Used(i)'
    BY <1>1, <1>3, <1>4, AgentTypes DEF Used, AgentsOK, CalleeOK, SamePassed
  <1>7. CalleeOK'
    BY <1>1, <1>3, <1>4, <1>5, <1>6, AgentTypes DEF AgentsOK, CalleeOK, CalleeSentOK, SamePassed, Tries
  <1>8. ASSUME NEW i \in Tries PROVE CalleeSentFor(i)'
    BY <1>1, <1>3, <1>4, <1>5, <1>6, AgentTypes DEF AgentsOK, CalleeSentOK, CalleeSentFor, CalleeOK, CallerSentOK, CallerSentFor, Seen, SamePassed, Tries
  <1>9. CalleeSentOK'
    BY <1>1, <1>3, <1>4, <1>5, <1>8, AgentTypes DEF AgentsOK, CalleeSentOK, CalleeOK, SamePassed, Tries
  <1> QED BY <1>4, <1>7, <1>9 DEF AgentsOK

\* It is cancelled too late.
LEMMA CancelledLateKeeps ==
  ASSUME side \in Sides, WireOK, AgentsOK, Cancelled, callee.st # "ringing"
  PROVE  AgentsOK'
  <1>1. /\ callee.st \in {"answered", "up"} /\ Passed(Cancel(callee.try))
        /\ callee' = callee
        /\ Send({CancelOk(callee.try)} \cup {}) /\ UNCHANGED <<side, allowed, caller>>
    BY GotIsPassed, RequestFields, AnswerFields, AgentTypes DEF Quiet, Says, Tries, Cancelled, CancelOk, AgentsOK, CalleeOK
  <1>2. {CancelOk(callee.try)} \cup {} \in SUBSET Mail /\ \A m \in {CancelOk(callee.try)} \cup {} : FromCallee(m)
    BY Named, AgentTypes DEF FromCallee, Tries
  <1>3. /\ callee'.st = (callee.st)
        /\ callee'.try = (callee.try)
        /\ callee'.hold = (callee.hold)
    BY <1>1 DEF AgentsOK, CalleeOK
  <1>4. SamePassed /\ SeenOfCallee({CancelOk(callee.try)} \cup {}) /\ CallerOK' /\ CallerSentOK'
    BY <1>1, <1>2, CalleeSends
  <1>5. /\ \A i \in Tries :
          /\ Seen(Progress(i))' <=> Seen(Progress(i))
          /\ Seen(Challenge(i))' <=> Seen(Challenge(i))
          /\ Seen(Ok(i))' <=> Seen(Ok(i))
          /\ Seen(Refusal(i, 486))' <=> Seen(Refusal(i, 486))
          /\ Seen(Refusal(i, 487))' <=> Seen(Refusal(i, 487))
          /\ Seen(CancelOk(i))' <=> Seen(CancelOk(i)) \/ i = callee.try
          /\ Seen(ByeOk(i))' <=> Seen(ByeOk(i))
          /\ OnWire(Ok(i))' <=> OnWire(Ok(i))
        /\ Seen(Hold)' <=> Seen(Hold)
        /\ Seen(HeldAck)' <=> Seen(HeldAck)
        /\ Seen(HoldNoAck)' <=> Seen(HoldNoAck)
        /\ Seen(CalleeBye)' <=> Seen(CalleeBye)
    BY <1>4, AgentTypes, CalleeDiffer DEF SeenOfCallee, Tries
  <1>6. \A i \in Tries : Used(i) => Used(i)'
    BY <1>1, <1>3, <1>4, AgentTypes DEF Used, AgentsOK, CalleeOK, SamePassed
  <1>7. CalleeOK'
    BY <1>1, <1>3, <1>4, <1>5, <1>6, AgentTypes DEF AgentsOK, CalleeOK, CalleeSentOK, SamePassed, Tries
  <1>8. ASSUME NEW i \in Tries PROVE CalleeSentFor(i)'
    BY <1>1, <1>3, <1>4, <1>5, <1>6, AgentTypes DEF AgentsOK, CalleeSentOK, CalleeSentFor, CalleeOK, CallerSentOK, CallerSentFor, Seen, SamePassed, Tries
  <1>9. CalleeSentOK'
    BY <1>1, <1>3, <1>4, <1>5, <1>8, AgentTypes DEF AgentsOK, CalleeSentOK, CalleeOK, SamePassed, Tries
  <1> QED BY <1>4, <1>7, <1>9 DEF AgentsOK

\* Its media are agreed to.
LEMMA HoldAgreedKeeps ==
  ASSUME side \in Sides, WireOK, AgentsOK, Quiet, UNCHANGED caller, callee.st = "up", callee.hold = "asked",
         callee' = [callee EXCEPT !.hold = "done"], Got(far, HoldOk), Send({HeldAck})
  PROVE  AgentsOK'
  <1>1. /\ callee.st = "up" /\ callee.hold = "asked" /\ Passed(HoldOk)
        /\ callee' = [callee EXCEPT !.hold = "done"]
        /\ Send({HeldAck}) /\ UNCHANGED <<side, allowed, caller>>
    BY GotIsPassed, RequestFields, AnswerFields, AgentTypes DEF Quiet, Says, Tries
  <1>2. {HeldAck} \in SUBSET Mail /\ \A m \in {HeldAck} : FromCallee(m)
    BY Named, AgentTypes DEF FromCallee, Tries
  <1>3. /\ callee'.st = (callee.st)
        /\ callee'.try = (callee.try)
        /\ callee'.hold = ("done")
    BY <1>1 DEF AgentsOK, CalleeOK
  <1>4. SamePassed /\ SeenOfCallee({HeldAck}) /\ CallerOK' /\ CallerSentOK'
    BY <1>1, <1>2, CalleeSends
  <1>5. /\ \A i \in Tries :
          /\ Seen(Progress(i))' <=> Seen(Progress(i))
          /\ Seen(Challenge(i))' <=> Seen(Challenge(i))
          /\ Seen(Ok(i))' <=> Seen(Ok(i))
          /\ Seen(Refusal(i, 486))' <=> Seen(Refusal(i, 486))
          /\ Seen(Refusal(i, 487))' <=> Seen(Refusal(i, 487))
          /\ Seen(CancelOk(i))' <=> Seen(CancelOk(i))
          /\ Seen(ByeOk(i))' <=> Seen(ByeOk(i))
          /\ OnWire(Ok(i))' <=> OnWire(Ok(i))
        /\ Seen(Hold)' <=> Seen(Hold)
        /\ Seen(HeldAck)' <=> Seen(HeldAck) \/ TRUE
        /\ Seen(HoldNoAck)' <=> Seen(HoldNoAck)
        /\ Seen(CalleeBye)' <=> Seen(CalleeBye)
    BY <1>4, AgentTypes, CalleeDiffer DEF SeenOfCallee, Tries
  <1>6. \A i \in Tries : Used(i) => Used(i)'
    BY <1>1, <1>3, <1>4, AgentTypes DEF Used, AgentsOK, CalleeOK, SamePassed
  <1>7. CalleeOK'
    BY <1>1, <1>3, <1>4, <1>5, <1>6, AgentTypes DEF AgentsOK, CalleeOK, CalleeSentOK, SamePassed, Tries
  <1>8. ASSUME NEW i \in Tries PROVE CalleeSentFor(i)'
    BY <1>1, <1>3, <1>4, <1>5, <1>6, AgentTypes DEF AgentsOK, CalleeSentOK, CalleeSentFor, CalleeOK, CallerSentOK, CallerSentFor, Seen, SamePassed, Tries
  <1>9. CalleeSentOK'
    BY <1>1, <1>3, <1>4, <1>5, <1>8, AgentTypes DEF AgentsOK, CalleeSentOK, CalleeOK, SamePassed, Tries
  <1> QED BY <1>4, <1>7, <1>9 DEF AgentsOK

\* They are not.
LEMMA HoldRefusedKeeps ==
  ASSUME side \in Sides, WireOK, AgentsOK, Quiet, UNCHANGED caller, callee.st = "up", callee.hold = "asked",
         callee' = [callee EXCEPT !.hold = "done"], Got(far, HoldNo), Send({HoldNoAck})
  PROVE  AgentsOK'
  <1>1. /\ callee.st = "up" /\ callee.hold = "asked" /\ Passed(HoldNo)
        /\ callee' = [callee EXCEPT !.hold = "done"]
        /\ Send({HoldNoAck}) /\ UNCHANGED <<side, allowed, caller>>
    BY GotIsPassed, RequestFields, AnswerFields, AgentTypes DEF Quiet, Says, Tries
  <1>2. {HoldNoAck} \in SUBSET Mail /\ \A m \in {HoldNoAck} : FromCallee(m)
    BY Named, AgentTypes DEF FromCallee, Tries
  <1>3. /\ callee'.st = (callee.st)
        /\ callee'.try = (callee.try)
        /\ callee'.hold = ("done")
    BY <1>1 DEF AgentsOK, CalleeOK
  <1>4. SamePassed /\ SeenOfCallee({HoldNoAck}) /\ CallerOK' /\ CallerSentOK'
    BY <1>1, <1>2, CalleeSends
  <1>5. /\ \A i \in Tries :
          /\ Seen(Progress(i))' <=> Seen(Progress(i))
          /\ Seen(Challenge(i))' <=> Seen(Challenge(i))
          /\ Seen(Ok(i))' <=> Seen(Ok(i))
          /\ Seen(Refusal(i, 486))' <=> Seen(Refusal(i, 486))
          /\ Seen(Refusal(i, 487))' <=> Seen(Refusal(i, 487))
          /\ Seen(CancelOk(i))' <=> Seen(CancelOk(i))
          /\ Seen(ByeOk(i))' <=> Seen(ByeOk(i))
          /\ OnWire(Ok(i))' <=> OnWire(Ok(i))
        /\ Seen(Hold)' <=> Seen(Hold)
        /\ Seen(HeldAck)' <=> Seen(HeldAck)
        /\ Seen(HoldNoAck)' <=> Seen(HoldNoAck) \/ TRUE
        /\ Seen(CalleeBye)' <=> Seen(CalleeBye)
    BY <1>4, AgentTypes, CalleeDiffer DEF SeenOfCallee, Tries
  <1>6. \A i \in Tries : Used(i) => Used(i)'
    BY <1>1, <1>3, <1>4, AgentTypes DEF Used, AgentsOK, CalleeOK, SamePassed
  <1>7. CalleeOK'
    BY <1>1, <1>3, <1>4, <1>5, <1>6, AgentTypes DEF AgentsOK, CalleeOK, CalleeSentOK, SamePassed, Tries
  <1>8. ASSUME NEW i \in Tries PROVE CalleeSentFor(i)'
    BY <1>1, <1>3, <1>4, <1>5, <1>6, AgentTypes DEF AgentsOK, CalleeSentOK, CalleeSentFor, CalleeOK, CallerSentOK, CallerSentFor, Seen, SamePassed, Tries
  <1>9. CalleeSentOK'
    BY <1>1, <1>3, <1>4, <1>5, <1>8, AgentTypes DEF AgentsOK, CalleeSentOK, CalleeOK, SamePassed, Tries
  <1> QED BY <1>4, <1>7, <1>9 DEF AgentsOK

\* It asks for credentials.
LEMMA ChallengingKeeps ==
  ASSUME side \in Sides, WireOK, AgentsOK, Quiet, UNCHANGED <<caller, callee>>, callee.st = "idle", Got(far, Invite(1)), "challenge" \in allowed,
         Send({Challenge(1)})
  PROVE  AgentsOK'
  <1>1. /\ callee.st = "idle" /\ Passed(Invite(1)) /\ "challenge" \in allowed
        /\ callee' = callee
        /\ Send({Challenge(1)}) /\ UNCHANGED <<side, allowed, caller>>
    BY GotIsPassed, RequestFields, AnswerFields, AgentTypes DEF Quiet, Says, Tries
  <1>2. {Challenge(1)} \in SUBSET Mail /\ \A m \in {Challenge(1)} : FromCallee(m)
    BY Named, AgentTypes DEF FromCallee, Tries
  <1>3. /\ callee'.st = (callee.st)
        /\ callee'.try = (callee.try)
        /\ callee'.hold = (callee.hold)
    BY <1>1 DEF AgentsOK, CalleeOK
  <1>4. SamePassed /\ SeenOfCallee({Challenge(1)}) /\ CallerOK' /\ CallerSentOK'
    BY <1>1, <1>2, CalleeSends
  <1>5. /\ \A i \in Tries :
          /\ Seen(Progress(i))' <=> Seen(Progress(i))
          /\ Seen(Challenge(i))' <=> Seen(Challenge(i)) \/ i = 1
          /\ Seen(Ok(i))' <=> Seen(Ok(i))
          /\ Seen(Refusal(i, 486))' <=> Seen(Refusal(i, 486))
          /\ Seen(Refusal(i, 487))' <=> Seen(Refusal(i, 487))
          /\ Seen(CancelOk(i))' <=> Seen(CancelOk(i))
          /\ Seen(ByeOk(i))' <=> Seen(ByeOk(i))
          /\ OnWire(Ok(i))' <=> OnWire(Ok(i))
        /\ Seen(Hold)' <=> Seen(Hold)
        /\ Seen(HeldAck)' <=> Seen(HeldAck)
        /\ Seen(HoldNoAck)' <=> Seen(HoldNoAck)
        /\ Seen(CalleeBye)' <=> Seen(CalleeBye)
    BY <1>4, AgentTypes, CalleeDiffer DEF SeenOfCallee, Tries
  <1>6. \A i \in Tries : Used(i) => Used(i)'
    BY <1>1, <1>3, <1>4, AgentTypes DEF Used, AgentsOK, CalleeOK, SamePassed
  <1>7. CalleeOK'
    BY <1>1, <1>3, <1>4, <1>5, <1>6, AgentTypes DEF AgentsOK, CalleeOK, CalleeSentOK, SamePassed, Tries
  <1>8. ASSUME NEW i \in Tries PROVE CalleeSentFor(i)'
    BY <1>1, <1>3, <1>4, <1>5, <1>6, AgentTypes DEF AgentsOK, CalleeSentOK, CalleeSentFor, CalleeOK, CallerSentOK, CallerSentFor, Seen, SamePassed, Tries
  <1>9. CalleeSentOK'
    BY <1>1, <1>3, <1>4, <1>5, <1>8, AgentTypes DEF AgentsOK, CalleeSentOK, CalleeOK, SamePassed, Tries
  <1> QED BY <1>4, <1>7, <1>9 DEF AgentsOK

\* It rings.
LEMMA RingingKeeps ==
  ASSUME side \in Sides, WireOK, AgentsOK, NEW j \in Tries, Quiet, UNCHANGED caller, callee.st = "idle", Got(far, Invite(j)),
         ~("challenge" \in allowed /\ j = 1), callee' = [callee EXCEPT !.st = "ringing", !.try = j],
         Send({Progress(j)})
  PROVE  AgentsOK'
  <1>1. /\ callee.st = "idle" /\ Passed(Invite(j)) /\ ~("challenge" \in allowed /\ j = 1)
        /\ callee' = [callee EXCEPT !.st = "ringing", !.try = j]
        /\ Send({Progress(j)}) /\ UNCHANGED <<side, allowed, caller>>
    BY GotIsPassed, RequestFields, AnswerFields, AgentTypes DEF Quiet, Says, Tries
  <1>10. callee.hold = "no" /\ ~Seen(CalleeBye)
    <2>1. ~Passed(AckOk(callee.try))
      BY <1>1, AckAnswers, AgentTypes DEF AgentsOK, CallerSentOK, CallerSentFor, Seen
    <2> QED
      BY <1>1, <2>1, AgentTypes DEF AgentsOK, CalleeOK, CalleeSentOK
  <1>2. {Progress(j)} \in SUBSET Mail /\ \A m \in {Progress(j)} : FromCallee(m)
    BY Named, AgentTypes DEF FromCallee, Tries
  <1>3. /\ callee'.st = ("ringing")
        /\ callee'.try = (j)
        /\ callee'.hold = (callee.hold)
    BY <1>1 DEF AgentsOK, CalleeOK
  <1>4. SamePassed /\ SeenOfCallee({Progress(j)}) /\ CallerOK' /\ CallerSentOK'
    BY <1>1, <1>2, CalleeSends
  <1>5. /\ \A i \in Tries :
          /\ Seen(Progress(i))' <=> Seen(Progress(i)) \/ i = j
          /\ Seen(Challenge(i))' <=> Seen(Challenge(i))
          /\ Seen(Ok(i))' <=> Seen(Ok(i))
          /\ Seen(Refusal(i, 486))' <=> Seen(Refusal(i, 486))
          /\ Seen(Refusal(i, 487))' <=> Seen(Refusal(i, 487))
          /\ Seen(CancelOk(i))' <=> Seen(CancelOk(i))
          /\ Seen(ByeOk(i))' <=> Seen(ByeOk(i))
          /\ OnWire(Ok(i))' <=> OnWire(Ok(i))
        /\ Seen(Hold)' <=> Seen(Hold)
        /\ Seen(HeldAck)' <=> Seen(HeldAck)
        /\ Seen(HoldNoAck)' <=> Seen(HoldNoAck)
        /\ Seen(CalleeBye)' <=> Seen(CalleeBye)
    BY <1>4, AgentTypes, CalleeDiffer DEF SeenOfCallee, Tries
  <1>6. \A i \in Tries : Used(i) => Used(i)'
    BY <1>1 DEF Used
  <1>7. CalleeOK'
    <2>1. callee' \in [st : {"idle", "ringing", "answered", "up", "bye", "ended", "dead"}, try : Tries,
                       hold : {"no", "asked", "done"}]
      BY <1>1 DEF AgentsOK, CalleeOK
    <2>2. Passed(Invite(j))'
      BY <1>1, <1>4 DEF SamePassed
    <2> QED
      BY <1>1, <1>3, <1>10, <2>1, <2>2 DEF CalleeOK, Used
  <1>8. ASSUME NEW i \in Tries PROVE CalleeSentFor(i)'
    BY <1>1, <1>3, <1>4, <1>5, <1>6, <1>10, AgentTypes DEF AgentsOK, CalleeSentOK, CalleeSentFor, Used, SamePassed, Tries
  <1>9. CalleeSentOK'
    BY <1>1, <1>3, <1>4, <1>5, <1>8, <1>10, AgentTypes DEF AgentsOK, CalleeSentOK, CalleeOK, SamePassed, Tries
  <1> QED BY <1>4, <1>7, <1>9 DEF AgentsOK

\* The callee's host goes away with all it has sent.
LEMMA CalleeDiesKeeps ==
  ASSUME side \in Sides, WireOK, AgentsOK, CalleeDies
  PROVE  AgentsOK' /\ WireOK' /\ SamePassed
         /\ \A n \in Mail : OnWire(n)' => OnWire(n)
  <1>1. /\ callee.st \notin {"ended", "dead"} /\ "crash" \in allowed
        /\ callee' = [callee EXCEPT !.st = "dead"]
        /\ UNCHANGED <<side, allowed, caller>>
        /\ wire' \subseteq wire /\ \A w \in wire : w.to # "mitm" => w \in wire'
    BY DEF CalleeDies, Quiet
  <1>2. WireOK' /\ SameOutput /\ \A n \in Mail : OnWire(n)' => OnWire(n)
    BY <1>1, LossEffect
  <1>3. /\ \A n \in Mail : Passed(n)' <=> Passed(n)
        /\ \A i \in Tries : Redirected(i)' <=> Redirected(i)
        /\ \A i \in Tries : Unredirected(i)' <=> Unredirected(i)
    BY <1>2, NothingPasses
  <1>4. SamePassed
    BY <1>1, <1>3, SameMail, Named DEF SamePassed
  <1>5. \A n \in Mail : Seen(n)' => Seen(n)
    BY <1>2, <1>3 DEF Seen
  <1>6. /\ \A i \in Tries :
          /\ Seen(Invite(i))' => Seen(Invite(i))
          /\ Seen(Cancel(i))' => Seen(Cancel(i))
          /\ Seen(AckFail(i))' => Seen(AckFail(i))
          /\ Seen(AckOk(i))' => Seen(AckOk(i))
          /\ Seen(Bye(i))' => Seen(Bye(i))
        /\ Seen(CalleeByeOk)' => Seen(CalleeByeOk)
        /\ Seen(HoldOk)' => Seen(HoldOk)
        /\ Seen(HoldNo)' => Seen(HoldNo)
    BY <1>1, <1>5, SameMail, Named
  <1>7. callee'.st = "dead" /\ callee'.try = callee.try /\ callee'.hold = callee.hold
    BY <1>1 DEF AgentsOK, CalleeOK
  <1>8. CallerOK'
    BY <1>1, <1>4, AgentTypes DEF AgentsOK, CallerOK, SamePassed, Tries
  <1>9. CallerSentOK'
    BY <1>1, <1>4, <1>6 DEF AgentsOK, CallerSentOK, CallerSentFor, SamePassed
  <1>10. CalleeOK'
    BY <1>1, <1>4, <1>7, AgentTypes DEF AgentsOK, CalleeOK, SamePassed
  <1>11. /\ \A i \in Tries :
           /\ Seen(Progress(i))' => Seen(Progress(i))
           /\ Seen(Challenge(i))' => Seen(Challenge(i))
           /\ OnWire(Ok(i))' => OnWire(Ok(i))
           /\ Seen(Ok(i))' => Seen(Ok(i))
           /\ Seen(Refusal(i, 486))' => Seen(Refusal(i, 486))
           /\ Seen(Refusal(i, 487))' => Seen(Refusal(i, 487))
           /\ Seen(CancelOk(i))' => Seen(CancelOk(i))
           /\ Seen(ByeOk(i))' => Seen(ByeOk(i))
         /\ Seen(Hold)' => Seen(Hold)
         /\ Seen(HeldAck)' => Seen(HeldAck)
         /\ Seen(HoldNoAck)' => Seen(HoldNoAck)
         /\ Seen(CalleeBye)' => Seen(CalleeBye)
    BY <1>1, <1>2, <1>5, SameMail, Named
  <1>12. \A i \in Tries : Used(i) => Used(i)'
    BY <1>1, <1>4, <1>7 DEF Used, SamePassed
  <1>13. ASSUME NEW i \in Tries PROVE CalleeSentFor(i)'
    <2>1. CalleeSentFor(i) /\ 1 \in Tries
      BY DEF AgentsOK, CalleeSentOK, Tries
    <2>2. ~Seen(Refusal(i, 486))' /\ ~Seen(Refusal(i, 487))'
      BY <1>1, <1>11, <2>1 DEF CalleeSentFor
    <2>3. /\ Passed(Invite(1))' <=> Passed(Invite(1))
          /\ Passed(Cancel(i))' <=> Passed(Cancel(i))
          /\ Passed(Bye(i))' <=> Passed(Bye(i))
      BY <1>4, <2>1 DEF SamePassed
    <2>4. ~OnWire(Ok(i))'
      <3>1. Ok(i).from # side
        BY AnswerFields DEF Says, far, Opposite, Sides
      <3>2. Ok(i)' = Ok(i)
        BY <1>1, SameMail
      <3>3. \A w \in wire' : w.to = "mitm" => w.msg.from = side
        BY DEF CalleeDies
      <3> QED BY <3>1, <3>2, <3>3 DEF OnWire
    <2> QED BY <1>1, <1>7, <1>11, <1>12, <2>1, <2>2, <2>3, <2>4 DEF CalleeSentFor
  <1>14. CalleeSentOK'
    <2>1. callee.try \in Tries
      BY AgentTypes
    <2>2. Seen(CalleeBye) => Passed(AckOk(callee.try))'
      <3>1. Seen(CalleeBye) => Passed(AckOk(callee.try))
        BY DEF AgentsOK, CalleeSentOK
      <3>2. AckOk(callee.try)' = AckOk(callee.try)
        BY <1>1, <1>7 DEF AckOk, Req
      <3>3. \A n \in Mail : Passed(n)' <=> Passed(n)
        BY <1>3
      <3>4. AckOk(callee.try) \in Mail
        BY <2>1, Named
      <3> QED BY <3>1, <3>2, <3>3, <3>4
    <2> QED BY <1>1, <1>4, <1>7, <1>11, <1>13, <2>2 DEF AgentsOK, CalleeSentOK, SamePassed
  <1> QED BY <1>2, <1>4, <1>8, <1>9, <1>10, <1>14 DEF AgentsOK

\* Every step of a user agent keeps what is known of the two; it sends messages
\* of the call, or what the callee had sent is lost with it.
LEMMA AgentStep ==
  ASSUME side \in Sides, WireOK, AgentsOK, CallerStep \/ CalleeStep
  PROVE  AgentsOK'
  <1>1. CASE CallerStep
    BY <1>1, DialKeeps, ChallengedKeeps, RedialKeeps, GiveUpKeeps, AcceptedKeeps, RefusedKeeps, HangUpKeeps,
       CallerByeAnsweredKeeps, CalleeHungUpKeeps, HeldKeeps, UnansweredKeeps DEF CallerStep
  <1>2. CASE Ring
    <2>0. PICK j \in {1, 2} :
             /\ Got(far, Invite(j))
             /\ IF "challenge" \in allowed /\ j = 1
                  THEN /\ callee' = callee
                       /\ Send({Rsp(Invite(1), "none", 407)})
                  ELSE /\ callee' = [callee EXCEPT !.st = "ringing", !.try = j]
                       /\ Send({Rsp(Invite(j), "none", 180)})
      BY <1>2 DEF Ring
    <2>1. /\ callee.st = "idle" /\ Quiet /\ UNCHANGED caller /\ Got(far, Invite(j))
          /\ "challenge" \in allowed /\ j = 1 => callee' = callee /\ Send({Challenge(1)})
          /\ ~("challenge" \in allowed /\ j = 1) =>
               callee' = [callee EXCEPT !.st = "ringing", !.try = j] /\ Send({Progress(j)})
      BY <1>2, <2>0 DEF Ring, Challenge, Progress
    <2>2. CASE "challenge" \in allowed /\ j = 1
      BY <2>1, <2>2, ChallengingKeeps
    <2>3. CASE ~("challenge" \in allowed /\ j = 1)
      BY <2>1, <2>3, RingingKeeps DEF Tries
    <2> QED BY <2>2, <2>3
  <1>3. CASE HoldAnswered
    BY <1>3, HoldAgreedKeeps, HoldRefusedKeeps DEF HoldAnswered, HoldOk, HoldNo, HeldAck, HoldNoAck
  <1>4. CASE Cancelled
    BY <1>4, CancelledRingingKeeps, CancelledLateKeeps
  <1>5. CASE Answer \/ Reject \/ Acked \/ PutOnHold \/ CalleeHangUp \/ CalleeByeAnswered \/ CallerHungUp \/ CalleeDies
    BY <1>5, AnswerKeeps, RejectKeeps, AckedKeeps, PutOnHoldKeeps, CalleeHangUpKeeps, CalleeByeAnsweredKeeps,
       CallerHungUpKeeps, CalleeDiesKeeps
  <1> QED BY <1>1, <1>2, <1>3, <1>4, <1>5 DEF CalleeStep


----------------------------------------------------------------------------
(* What zsipos knows of the user agents' messages.                         *)

\* A message has left its mark on zsipos: it came through or, with the event
\* log on, it may be an ACK whose handler raised after the Branch was made.
Came(m) ==
  Passed(m) \/ m = HeldAck \/ (caller.answer # "none" /\ m = AckOk(caller.try))

\* Branch k belongs to a request that came; what it caches was sent on.
BranchSound(k, b) ==
  /\ \E m \in Mail : /\ m.kind = "request" /\ m.via = k /\ Came(m)
                     /\ b.external = m.from /\ b.cseq = m.seq
  /\ \A mt \in Methods :
       /\ b.reqs[mt] # None =>
            /\ b.reqs[mt].method = mt /\ b.reqs[mt].from = b.external
            /\ b.reqs[mt].via = k \/ (mt = "ACK" /\ b.reqs[mt].seq = b.cseq)
            /\ [to |-> Opposite(b.external), msg |-> b.reqs[mt]] \in wire
       /\ b.rsps[mt] # None =>
            /\ b.rsps[mt].method = mt /\ b.rsps[mt].via = k /\ b.rsps[mt].from = Opposite(b.external)
            /\ [to |-> b.external, msg |-> b.rsps[mt]] \in wire
CacheSound == \A k \in Vias : branchmap[k] # None => BranchSound(k, branchmap[k])

\* The requests that must not reach the call a second time, as long as a copy
\* of them is under way.
Kept(m) == (\E i \in Tries : m \in {Invite(i), AckFail(i), AckOk(i)}) \/ m = Hold
KeptOK == \A m \in Mail : Kept(m) /\ OnWire(m) /\ Passed(m) => Forwarded(m)

OnlyCid == \A c \in Cids \ {Cid} : callmap[c] = None

\* What holds of the datagrams, the user agents and the transactions alike.
Base ==
  /\ Setting /\ WireOK /\ AgentsOK
  /\ IInv /\ phoneInfoValid = TRUE /\ OnlyCid
  /\ CacheSound /\ KeptOK

\* Requests of one branch are of one side; responses of it of the other.
LEMMA BranchSides ==
  ASSUME side \in Sides, NEW m \in Mail, m.kind = "request", NEW n \in Mail, m.via = n.via
  PROVE  n.from = IF n.kind = "request" THEN m.from ELSE Opposite(m.from)
  <1> DEFINE Callers == {<<"inv", 1>>, <<"inv", 2>>, <<"ack", 1>>, <<"ack", 2>>, <<"bye", 1>>, <<"bye", 2>>}
             Callees == {<<"hold", 1>>, <<"held", 1>>, <<"hang", 1>>}
  <1>1. Callers \cap Callees = {}
    OBVIOUS
  <1> HIDE DEF Callers
  <1> HIDE DEF Callees
  <1>2. \A i \in Tries : <<"inv", i>> \in Callers /\ <<"ack", i>> \in Callers /\ <<"bye", i>> \in Callers
    BY DEF Callers, Tries
  <1>3. <<"hold", 1>> \in Callees /\ <<"held", 1>> \in Callees /\ <<"hang", 1>> \in Callees
    BY DEF Callees
  <1>4. far = Opposite(side) /\ side = Opposite(far) /\ side # far
    BY DEF far, Opposite, Sides
  <1>5. ASSUME NEW p \in Mail, p.kind = "request"
        PROVE  (p.via \in Callers /\ p.from = side) \/ (p.via \in Callees /\ p.from = far)
    <2>1. CASE p.from = side
      <3>1. \E i \in Tries : p \in {Invite(i), Cancel(i), AckFail(i), AckOk(i), Bye(i)}
        BY <1>5, <2>1, MailKinds
      <3>2. \A i \in Tries : /\ Invite(i).via \in Callers /\ Cancel(i).via \in Callers /\ AckFail(i).via \in Callers
                             /\ AckOk(i).via \in Callers /\ Bye(i).via \in Callers
        <4>1. \A i \in Tries : /\ Invite(i).via = <<"inv", i>> /\ Cancel(i).via = <<"inv", i>>
                               /\ AckFail(i).via = <<"inv", i>> /\ AckOk(i).via = <<"ack", i>>
                               /\ Bye(i).via = <<"bye", i>>
          BY RequestFields DEF Says
        <4> QED BY <1>2, <4>1, Zenon
      <3> QED BY <2>1, <3>1, <3>2
    <2>2. CASE p.from = far
      <3>1. p \in {Hold, HeldAck, HoldNoAck, CalleeBye}
        BY <1>5, <2>2, MailKinds
      <3> QED BY <1>3, <2>2, <3>1, RequestFields, SMTT(40) DEF Says, Tries
    <2> QED BY <2>1, <2>2, MailKinds
  <1>6. ASSUME NEW p \in Mail, p.kind = "response"
        PROVE  (p.via \in Callers /\ p.from = far) \/ (p.via \in Callees /\ p.from = side)
    <2>1. CASE p.from = far
      <3>1. \E i \in Tries : p \in {Progress(i), Ok(i), Challenge(i), Refusal(i, 486), Refusal(i, 487),
                                     CancelOk(i), ByeOk(i)}
        BY <1>6, <2>1, MailKinds
      <3>2. \A i \in Tries : /\ Progress(i).via \in Callers /\ Ok(i).via \in Callers /\ Challenge(i).via \in Callers
                             /\ Refusal(i, 486).via \in Callers /\ Refusal(i, 487).via \in Callers
                             /\ CancelOk(i).via \in Callers /\ ByeOk(i).via \in Callers
        <4>1. \A i \in Tries : /\ Progress(i).via = <<"inv", i>> /\ Ok(i).via = <<"inv", i>>
                               /\ Challenge(i).via = <<"inv", i>> /\ Refusal(i, 486).via = <<"inv", i>>
                               /\ Refusal(i, 487).via = <<"inv", i>> /\ CancelOk(i).via = <<"inv", i>>
                               /\ ByeOk(i).via = <<"bye", i>>
          BY AnswerFields DEF Says
        <4>2. \A i \in Tries : <<"inv", i>> \in Callers /\ <<"bye", i>> \in Callers
          BY <1>2
        <4> SUFFICES ASSUME NEW i \in Tries
                     PROVE  /\ Progress(i).via \in Callers /\ Ok(i).via \in Callers /\ Challenge(i).via \in Callers
                            /\ Refusal(i, 486).via \in Callers /\ Refusal(i, 487).via \in Callers
                            /\ CancelOk(i).via \in Callers /\ ByeOk(i).via \in Callers
          OBVIOUS
        <4> HIDE DEF Callers
        <4>3. <<"inv", i>> \in Callers /\ <<"bye", i>> \in Callers
          BY <4>2
        <4> QED BY <4>1, <4>3
      <3> QED BY <2>1, <3>1, <3>2
    <2>2. CASE p.from = side
      <3>1. p \in {CalleeByeOk, HoldOk, HoldNo}
        BY <1>6, <2>2, MailKinds
      <3> QED BY <1>3, <2>2, <3>1, AnswerFields, SMTT(40) DEF Says, Tries
    <2> QED BY <2>1, <2>2, MailKinds
  <1>7. n.kind \in {"request", "response"}
    BY MailKinds
  <1> QED BY <1>1, <1>4, <1>5, <1>6, <1>7

\* zsipos sends nothing that was not there, and takes nothing back.
Relays ==
  /\ UNCHANGED agents /\ WireOK'
  /\ \A n \in Mail : (Passed(n) => Passed(n)') /\ (Seen(n)' => Seen(n)) /\ (OnWire(n)' => OnWire(n))
  /\ \A i \in Tries : (Redirected(i) => Redirected(i)') /\ (Unredirected(i) => Unredirected(i)')

\* So it keeps what is known of the user agents.
LEMMA RelaysKeeps ==
  ASSUME side \in Sides, AgentsOK, Relays
  PROVE  AgentsOK'
  <1>1. UNCHANGED <<side, allowed, caller, callee>>
    BY DEF Relays, agents
  <1>2. /\ \A i \in Tries :
             /\ Passed(Invite(i)) => Passed(Invite(i))'
             /\ Passed(Cancel(i)) => Passed(Cancel(i))'
             /\ Passed(AckFail(i)) => Passed(AckFail(i))'
             /\ Passed(AckOk(i)) => Passed(AckOk(i))'
             /\ Passed(Bye(i)) => Passed(Bye(i))'
             /\ Passed(Progress(i)) => Passed(Progress(i))'
             /\ Passed(Challenge(i)) => Passed(Challenge(i))'
             /\ Passed(Refusal(i, 486)) => Passed(Refusal(i, 486))'
             /\ Passed(Refusal(i, 487)) => Passed(Refusal(i, 487))'
             /\ Passed(ByeOk(i)) => Passed(ByeOk(i))'
             /\ Redirected(i) => Redirected(i)'
             /\ Unredirected(i) => Unredirected(i)'
        /\ Passed(Hold) => Passed(Hold)'
        /\ Passed(HoldOk) => Passed(HoldOk)'
        /\ Passed(HoldNo) => Passed(HoldNo)'
        /\ Passed(CalleeBye) => Passed(CalleeBye)'
        /\ Passed(CalleeByeOk) => Passed(CalleeByeOk)'
    BY <1>1, SameMail, Named DEF Relays
  <1>3. /\ \A i \in Tries :
             /\ Seen(Invite(i))' => Seen(Invite(i))
             /\ Seen(Cancel(i))' => Seen(Cancel(i))
             /\ Seen(AckFail(i))' => Seen(AckFail(i))
             /\ Seen(AckOk(i))' => Seen(AckOk(i))
             /\ Seen(Bye(i))' => Seen(Bye(i))
        /\ Seen(CalleeByeOk)' => Seen(CalleeByeOk)
        /\ Seen(HoldOk)' => Seen(HoldOk)
        /\ Seen(HoldNo)' => Seen(HoldNo)
    BY <1>1, SameMail, Named DEF Relays
  <1>4. /\ \A i \in Tries :
             /\ Seen(Progress(i))' => Seen(Progress(i))
             /\ Seen(Challenge(i))' => Seen(Challenge(i))
             /\ OnWire(Ok(i))' => OnWire(Ok(i))
             /\ Seen(Ok(i))' => Seen(Ok(i))
             /\ Seen(Refusal(i, 486))' => Seen(Refusal(i, 486))
             /\ Seen(Refusal(i, 487))' => Seen(Refusal(i, 487))
             /\ Seen(CancelOk(i))' => Seen(CancelOk(i))
             /\ Seen(ByeOk(i))' => Seen(ByeOk(i))
        /\ Seen(Hold)' => Seen(Hold)
        /\ Seen(HeldAck)' => Seen(HeldAck)
        /\ Seen(HoldNoAck)' => Seen(HoldNoAck)
        /\ Seen(CalleeBye)' => Seen(CalleeBye)
    BY <1>1, SameMail, Named DEF Relays
  <1>5. caller.try \in Tries /\ callee.try \in Tries /\ 1 \in Tries
    BY AgentTypes DEF Tries
  <1>6. CallerOK'
    BY <1>1, <1>2, <1>5 DEF AgentsOK, CallerOK
  <1>7. \A i \in Tries : Used(i) => Used(i)'
    BY <1>1, <1>2 DEF Used
  <1>8. CalleeOK'
    <2>1. /\ callee.st \notin {"idle", "dead"} => Used(callee.try)'
          /\ Passed(AckOk(callee.try)) => Passed(AckOk(callee.try))'
      BY <1>1, <1>2, <1>5, <1>7 DEF AgentsOK, CalleeOK, Used
    <2> QED BY <1>1, <1>2, <1>4, <2>1 DEF AgentsOK, CalleeOK
  <1>9. ASSUME NEW i \in Tries PROVE CallerSentFor(i)'
    BY <1>1, <1>2, <1>3 DEF AgentsOK, CallerSentOK, CallerSentFor
  <1>10. CallerSentOK'
    BY <1>1, <1>2, <1>3, <1>9 DEF AgentsOK, CallerSentOK
  <1>11. ASSUME NEW i \in Tries PROVE CalleeSentFor(i)'
    BY <1>1, <1>2, <1>4, <1>5, <1>7 DEF AgentsOK, CalleeSentOK, CalleeSentFor
  <1>12. CalleeSentOK'
    <2>1. Passed(AckOk(callee.try)) => Passed(AckOk(callee.try))'
      BY <1>1, <1>2, <1>5
    <2> QED BY <1>1, <1>2, <1>4, <1>11, <2>1 DEF AgentsOK, CalleeSentOK
  <1> QED BY <1>6, <1>8, <1>10, <1>12 DEF AgentsOK

----------------------------------------------------------------------------
(* What a step of a user agent means to zsipos.                            *)

\* Nothing but INVITEs and the caller's ACKs are kept.
LEMMA KeptKinds ==
  ASSUME side \in Sides, NEW n, Kept(n)
  PROVE  /\ n.kind = "request" /\ n.sdp \in {"raw", "none"}
         /\ n.method = "INVITE" \/ (n.method = "ACK" /\ n.from = side)
  <1>1. \A i \in Tries : /\ Invite(i).kind = "request" /\ Invite(i).method = "INVITE" /\ Invite(i).sdp = "raw"
                         /\ AckFail(i).kind = "request" /\ AckFail(i).method = "ACK" /\ AckFail(i).from = side
                         /\ AckOk(i).kind = "request" /\ AckOk(i).method = "ACK" /\ AckOk(i).from = side
                         /\ AckFail(i).sdp = "none" /\ AckOk(i).sdp = "none"
    BY RequestFields DEF Says
  <1>2. Hold.kind = "request" /\ Hold.method = "INVITE" /\ Hold.sdp = "raw"
    BY RequestFields DEF Says, Tries
  <1> QED BY <1>1, <1>2 DEF Kept

LEMMA NotKept ==
  ASSUME side \in Sides
  PROVE  /\ \A i \in Tries : /\ ~Kept(Cancel(i)) /\ ~Kept(Bye(i)) /\ ~Kept(Progress(i)) /\ ~Kept(Ok(i))
                             /\ ~Kept(Challenge(i)) /\ ~Kept(Refusal(i, 486)) /\ ~Kept(Refusal(i, 487))
                             /\ ~Kept(CancelOk(i)) /\ ~Kept(ByeOk(i))
         /\ ~Kept(HeldAck) /\ ~Kept(HoldNoAck) /\ ~Kept(CalleeBye)
         /\ ~Kept(CalleeByeOk) /\ ~Kept(HoldOk) /\ ~Kept(HoldNo)
  <1>1. side # far
    BY DEF far, Opposite, Sides
  <1>2. ASSUME NEW i \in Tries
        PROVE  /\ ~Kept(Cancel(i)) /\ ~Kept(Bye(i)) /\ ~Kept(Progress(i)) /\ ~Kept(Ok(i))
               /\ ~Kept(Challenge(i)) /\ ~Kept(Refusal(i, 486)) /\ ~Kept(Refusal(i, 487))
               /\ ~Kept(CancelOk(i)) /\ ~Kept(ByeOk(i))
    <2>1. Cancel(i).method = "CANCEL" /\ Bye(i).method = "BYE"
      BY RequestFields DEF Says
    <2>2. /\ Progress(i).kind = "response" /\ Ok(i).kind = "response" /\ Challenge(i).kind = "response"
          /\ Refusal(i, 486).kind = "response" /\ Refusal(i, 487).kind = "response"
          /\ CancelOk(i).kind = "response" /\ ByeOk(i).kind = "response"
      BY AnswerFields DEF Says
    <2> QED BY <2>1, <2>2, KeptKinds
  <1>3. /\ HeldAck.method = "ACK" /\ HeldAck.from = far /\ HoldNoAck.method = "ACK" /\ HoldNoAck.from = far
        /\ CalleeBye.method = "BYE"
    BY RequestFields DEF Says, Tries
  <1>4. CalleeByeOk.kind = "response" /\ HoldOk.kind = "response" /\ HoldNo.kind = "response"
    BY AnswerFields DEF Says, Tries
  <1> QED BY <1>1, <1>2, <1>3, <1>4, KeptKinds

\* A user agent sends messages, none that is kept for the second time.
SendsFresh == \E ms \in SUBSET Mail : Send(ms) /\ \A n \in ms : Kept(n) => ~Seen(n)

LEMMA SendsOne ==
  ASSUME NEW n \in Mail, Send({n}), ~Kept(n) \/ ~Seen(n)
  PROVE  SendsFresh
  BY DEF SendsFresh

LEMMA SendsNothing ==
  ASSUME wire' = wire
  PROVE  SendsFresh
  <1>1. Send({})
    BY DEF Send
  <1> QED BY <1>1 DEF SendsFresh

\* What its messages look like does not keep the caller from sending.
LEMMA CallerSendsFresh ==
  ASSUME side \in Sides, WireOK, AgentsOK, CallerStep
  PROVE  SendsFresh
  <1>1. caller.try \in Tries /\ 1 \in Tries /\ 2 \in Tries
    BY AgentTypes DEF Tries
  <1>2. \A i \in Tries : CallerSentFor(i)
    BY DEF AgentsOK, CallerSentOK
  <1>3. CASE Dial
    <2>1. Send({Invite(1)}) /\ ~Seen(Invite(1))
      BY <1>1, <1>2, <1>3 DEF Dial, CallerSentFor
    <2> QED BY <1>1, <2>1, Named, SendsOne
  <1>4. CASE Challenged
    <2>1. Send({AckFail(1)}) /\ ~Seen(AckFail(1))
      BY <1>1, <1>2, <1>4 DEF Challenged, CallerSentFor
    <2> QED BY <1>1, <2>1, Named, SendsOne
  <1>5. CASE Redial
    <2>1. Send({Invite(2)}) /\ caller.try = 1
      BY <1>5 DEF Redial, AgentsOK, CallerOK
    <2>2. ~Seen(Invite(2))
      BY <1>1, <1>2, <2>1 DEF CallerSentFor
    <2> QED BY <1>1, <2>1, <2>2, Named, SendsOne, SMTT(40)
  <1>6. CASE GiveUp
    <2>1. Send({Cancel(caller.try)})
      BY <1>6 DEF GiveUp
    <2> QED BY <1>1, <2>1, Named, NotKept, SendsOne
  <1>7. CASE Accepted
    <2>1. Send({AckOk(caller.try)}) /\ caller.answer = "none"
      BY <1>7 DEF Accepted, AgentsOK, CallerOK
    <2>2. ~Seen(AckOk(caller.try))
      BY <1>1, <1>2, <2>1 DEF CallerSentFor
    <2> QED BY <1>1, <2>1, <2>2, Named, SendsOne, ZenonT(40)
  <1>8. CASE Refused
    <2>1. Send({AckFail(caller.try)}) /\ caller.st = "calling"
      BY <1>8 DEF Refused
    <2>2. ~Seen(AckFail(caller.try))
      BY <1>1, <1>2, <2>1 DEF CallerSentFor
    <2> QED BY <1>1, <2>1, <2>2, Named, SendsOne
  <1>9. CASE HangUp
    <2>1. Send({Bye(caller.try)})
      BY <1>9 DEF HangUp
    <2> QED BY <1>1, <2>1, Named, NotKept, SendsOne
  <1>10. CASE CallerByeAnswered \/ Unanswered
    <2>1. wire' = wire
      BY <1>10 DEF CallerByeAnswered, Unanswered
    <2> QED BY <2>1, SendsNothing
  <1>11. CASE CalleeHungUp
    <2>1. Send({CalleeByeOk})
      BY <1>11 DEF CalleeHungUp, CalleeByeOk
    <2> QED BY <2>1, Named, NotKept, SendsOne
  <1>12. CASE Held
    <2>1. Send({HoldNo}) \/ Send({HoldOk})
      BY <1>12 DEF Held, HoldNo, HoldOk
    <2> QED BY <2>1, Named, NotKept, SendsOne
  <1> QED BY <1>3, <1>4, <1>5, <1>6, <1>7, <1>8, <1>9, <1>10, <1>11, <1>12 DEF CallerStep

\* Nor the callee, as long as its host is there.
LEMMA CalleeSendsFresh ==
  ASSUME side \in Sides, WireOK, AgentsOK, CalleeStep, ~CalleeDies
  PROVE  SendsFresh
  <1>1. callee.try \in Tries /\ 1 \in Tries /\ 2 \in Tries
    BY AgentTypes DEF Tries
  <1>2. CASE Ring
    <2>1. \E j \in {1, 2} : Send({Challenge(1)}) \/ Send({Progress(j)})
      BY <1>2 DEF Ring, Challenge, Progress
    <2>2. CASE Send({Challenge(1)})
      BY <1>1, <2>2, Named, NotKept, SendsOne
    <2>3. ASSUME NEW j \in Tries, Send({Progress(j)}) PROVE SendsFresh
      BY <2>3, Named, NotKept, SendsOne
    <2> QED BY <2>1, <2>2, <2>3 DEF Tries
  <1>3. CASE Answer
    <2>1. Send({Ok(callee.try)})
      BY <1>3 DEF Answer, Ok
    <2> QED BY <1>1, <2>1, Named, NotKept, SendsOne
  <1>4. CASE Reject
    <2>1. Send({Refusal(callee.try, 486)})
      BY <1>4 DEF Reject, Refusal
    <2> QED BY <1>1, <2>1, Named, NotKept, SendsOne
  <1>5. CASE Cancelled
    <2>1. \/ Send({CancelOk(callee.try)} \cup {Refusal(callee.try, 487)})
          \/ Send({CancelOk(callee.try)} \cup {})
      BY <1>5 DEF Cancelled, CancelOk, Refusal
    <2>2. /\ {CancelOk(callee.try)} \cup {Refusal(callee.try, 487)} \in SUBSET Mail
          /\ \A n \in {CancelOk(callee.try)} \cup {Refusal(callee.try, 487)} : ~Kept(n)
          /\ {CancelOk(callee.try)} \cup {} \in SUBSET Mail
          /\ \A n \in {CancelOk(callee.try)} \cup {} : ~Kept(n)
      BY <1>1, Named, NotKept
    <2> QED BY <2>1, <2>2 DEF SendsFresh
  <1>6. CASE Acked \/ CalleeByeAnswered
    <2>1. wire' = wire
      BY <1>6 DEF Acked, CalleeByeAnswered
    <2> QED BY <2>1, SendsNothing
  <1>7. CASE PutOnHold
    <2>1. Send({Hold}) /\ ~Seen(Hold)
      BY <1>7 DEF PutOnHold, AgentsOK, CalleeSentOK
    <2> QED BY <2>1, Named, SendsOne
  <1>8. CASE HoldAnswered
    <2>1. Send({HeldAck}) \/ Send({HoldNoAck})
      BY <1>8 DEF HoldAnswered, HeldAck, HoldNoAck
    <2> QED BY <2>1, Named, NotKept, SendsOne
  <1>9. CASE CalleeHangUp
    <2>1. Send({CalleeBye})
      BY <1>9 DEF CalleeHangUp
    <2> QED BY <2>1, Named, NotKept, SendsOne
  <1>10. CASE CallerHungUp
    <2>1. Send({ByeOk(callee.try)})
      BY <1>10 DEF CallerHungUp, ByeOk
    <2> QED BY <1>1, <2>1, Named, NotKept, SendsOne
  <1> QED BY <1>2, <1>3, <1>4, <1>5, <1>6, <1>7, <1>8, <1>9, <1>10 DEF CalleeStep

\* A step of a user agent: zsipos and what came through it are as before.
Outside ==
  /\ UNCHANGED <<phoneInfoValid, sip, cc, side, allowed>> /\ out' = {}
  /\ WireOK' /\ SameOutput
  /\ \A n \in Mail : Kept(n) /\ OnWire(n)' => OnWire(n) \/ ~Seen(n)

LEMMA AgentOutside ==
  ASSUME side \in Sides, WireOK, AgentsOK, CallerStep \/ CalleeStep
  PROVE  Outside
  <1>1. Quiet
    <2>1. CallerStep => Quiet
      BY ZenonT(40) DEF CallerStep, Dial, Challenged, Redial, GiveUp, Accepted, Refused, HangUp,
         CallerByeAnswered, CalleeHungUp, Held, Unanswered
    <2>2. CalleeStep => Quiet
      BY DEF CalleeStep, Ring, Answer, Reject, Cancelled, Acked, PutOnHold, HoldAnswered, CalleeHangUp,
         CalleeByeAnswered, CallerHungUp, CalleeDies
    <2> QED BY <2>1, <2>2, SMTT(40)
  <1>2. UNCHANGED <<phoneInfoValid, sip, cc, side, allowed>> /\ out' = {} /\ UNCHANGED <<side, allowed>>
    BY <1>1 DEF Quiet
  <1>3. CASE CalleeDies
    <2>1. WireOK' /\ \A n \in Mail : OnWire(n)' => OnWire(n)
      BY <1>3, CalleeDiesKeeps
    <2>2. SameOutput
      BY <1>2, <1>3 DEF CalleeDies, SameOutput
    <2> QED BY <1>2, <2>1, <2>2 DEF Outside
  <1>4. CASE SendsFresh
    <2>1. PICK ms \in SUBSET Mail : Send(ms) /\ \A n \in ms : Kept(n) => ~Seen(n)
      BY <1>4 DEF SendsFresh
    <2>2. WireOK' /\ SameOutput /\ \A n \in Mail : OnWire(n)' <=> OnWire(n) \/ n \in ms
      BY <1>2, <2>1, SendEffect
    <2> QED BY <1>2, <2>1, <2>2 DEF Outside
  <1> QED BY <1>3, <1>4, CallerSendsFresh, CalleeSendsFresh

\* How the two user agents change.
Moves ==
  /\ caller.answer # "none" => caller'.answer = caller.answer /\ caller'.try = caller.try
  /\ caller.cancelled => caller'.cancelled
  /\ caller'.st = "calling" => \/ caller.st = "calling" /\ caller'.try = caller.try
                               \/ caller'.try \in Tries /\ ~Passed(Invite(caller'.try))
  /\ caller'.st = "up" => caller.st \in {"calling", "up"} /\ caller'.try = caller.try
  /\ caller'.answer = "raw" => \/ caller.answer = "raw" 
                               \/ caller.st = "calling" /\ Unredirected(caller.try)
  /\ callee'.st \in {"idle", "ringing", "answered", "up"} => callee.st \in {"idle", "ringing", "answered", "up"}
  /\ callee.hold # "no" => callee'.hold # "no"
  /\ caller.st # "up" => \A n \in Mail : n \in {HoldOk, HoldNo} /\ OnWire(n)' => OnWire(n)
  /\ caller'.try \in Tries

LEMMA CallerMoves ==
  ASSUME side \in Sides, WireOK, AgentsOK, CallerStep
  PROVE  Moves
  <1>1. UNCHANGED callee
    BY ZenonT(40) DEF CallerStep, Dial, Challenged, Redial, GiveUp, Accepted, Refused, HangUp,
       CallerByeAnswered, CalleeHungUp, Held, Unanswered
  <1>2. /\ caller.try \in Tries /\ 1 \in Tries /\ 2 \in Tries
        /\ caller.answer # "none" => caller.st \notin {"idle", "calling", "challenged"}
        /\ caller.st \in {"idle", "challenged"} => caller.try = 1
    BY AgentTypes DEF AgentsOK, CallerOK, Tries
  <1>3. \A i \in Tries : Passed(Invite(i)) => caller.st # "idle" /\ i <= caller.try
    BY DEF AgentsOK, CallerSentOK, CallerSentFor, Seen
  <1> DEFINE Fields ==
        /\ caller.answer # "none" => caller'.answer = caller.answer /\ caller'.try = caller.try
        /\ caller.cancelled => caller'.cancelled
        /\ caller'.st = "calling" => \/ caller.st = "calling" /\ caller'.try = caller.try
                                     \/ caller'.try \in Tries /\ ~Passed(Invite(caller'.try))
        /\ caller'.st = "up" => caller.st \in {"calling", "up"} /\ caller'.try = caller.try
        /\ caller'.answer = "raw" => \/ caller.answer = "raw" 
                                     \/ caller.st = "calling" /\ Unredirected(caller.try)
        /\ caller'.try \in Tries
  <1>4. caller \in [st : {"idle", "calling", "challenged", "up", "bye", "ended"}, try : Tries,
                    answer : {"none", "raw", "fixed"}, cancelled : BOOLEAN]
    BY DEF AgentsOK, CallerOK
  <1>5. ASSUME Dial PROVE Fields
    <2>1. caller.st = "idle" /\ caller' = [caller EXCEPT !.st = "calling"] /\ ~Passed(Invite(1))
      BY <1>2, <1>3, <1>5 DEF Dial
    <2> QED BY <1>2, <1>4, <2>1
  <1>6. ASSUME Redial PROVE Fields
    <2>1. caller.st = "challenged" /\ caller' = [caller EXCEPT !.st = "calling", !.try = 2]
      BY <1>6 DEF Redial
    <2>2. caller.try = 1 /\ ~Passed(Invite(2)) /\ caller.answer = "none"
      BY <1>2, <1>3, <2>1
    <2> QED BY <1>2, <1>4, <2>1, <2>2
  <1>7. ASSUME Accepted PROVE Fields
    <2>1. /\ caller.st = "calling"
          /\ caller' \in [st : {"up"}, try : {caller.try}, answer : {"raw", "fixed"}, cancelled : {caller.cancelled}]
          /\ caller'.answer = "raw" => Unredirected(caller.try)
      BY <1>7, AcceptedAnswer
    <2> QED BY <1>2, <1>4, <2>1
  <1>8. ASSUME GiveUp PROVE Fields
    <2>1. caller' = [caller EXCEPT !.cancelled = TRUE]
      BY <1>8 DEF GiveUp
    <2> QED BY <1>2, <1>4, <2>1
  <1>9. ASSUME Held PROVE Fields
    <2>1. caller' = caller
      BY <1>9 DEF Held
    <2> QED BY <1>2, <2>1
  <1>10. ASSUME Challenged \/ Refused \/ HangUp \/ CallerByeAnswered \/ CalleeHungUp \/ Unanswered PROVE Fields
    <2>1. \E s \in {"challenged", "bye", "ended", caller.st} : caller' = [caller EXCEPT !.st = s]
      BY <1>10 DEF Challenged, Refused, HangUp, CallerByeAnswered, CalleeHungUp, Unanswered
    <2>2. ASSUME NEW s \in {"challenged", "bye", "ended", caller.st}, caller' = [caller EXCEPT !.st = s]
          PROVE  Fields
      BY <1>2, <1>4, <2>2
    <2> QED BY <2>1, <2>2
  <1>11. Fields
    BY <1>5, <1>6, <1>7, <1>8, <1>9, <1>10 DEF CallerStep
  <1>12. ASSUME caller.st # "up", NEW n \in Mail, n \in {HoldOk, HoldNo}, OnWire(n)' PROVE OnWire(n)
    <2>1. n.kind = "response" /\ n.method = "INVITE"
      BY <1>12, AnswerFields DEF Says, Tries
    <2>2. \A i \in Tries : /\ Invite(i).kind = "request" /\ Cancel(i).kind = "request" /\ AckFail(i).kind = "request"
                           /\ AckOk(i).kind = "request" /\ Bye(i).kind = "request"
      BY RequestFields DEF Says
    <2>3. CalleeByeOk.method = "BYE"
      BY AnswerFields DEF Says, Tries
    <2>4. ASSUME NEW q, Send({q}), q # n PROVE OnWire(n)
      BY <1>12, <2>4 DEF Send, OnWire
    <2>5. Dial \/ Challenged \/ Redial \/ GiveUp \/ Accepted \/ Refused \/ HangUp =>
            \E i \in Tries : Send({Invite(i)}) \/ Send({Cancel(i)}) \/ Send({AckFail(i)}) \/ Send({AckOk(i)}) \/ Send({Bye(i)})
      BY <1>2, ZenonT(40) DEF Dial, Challenged, Redial, GiveUp, Accepted, Refused, HangUp
    <2>6. CalleeHungUp => Send({CalleeByeOk})
      BY DEF CalleeHungUp, CalleeByeOk
    <2>7. CallerByeAnswered \/ Unanswered => wire' = wire
      BY DEF CallerByeAnswered, Unanswered
    <2>8. wire' = wire => OnWire(n)
      BY <1>12 DEF OnWire
    <2>9. ~Held
      BY <1>12 DEF Held
    <2> QED BY <2>1, <2>2, <2>3, <2>4, <2>5, <2>6, <2>7, <2>8, <2>9 DEF CallerStep
  <1> HIDE DEF Fields
  <1>13. callee'.st = callee.st /\ callee'.hold = callee.hold
    BY <1>1
  <1> QED BY <1>11, <1>12, <1>13 DEF Moves, Fields

LEMMA CalleeMoves ==
  ASSUME side \in Sides, WireOK, AgentsOK, CalleeStep
  PROVE  Moves
  <1>1. UNCHANGED caller
    BY DEF CalleeStep, Ring, Answer, Reject, Cancelled, Acked, PutOnHold, HoldAnswered, CalleeHangUp,
       CalleeByeAnswered, CallerHungUp, CalleeDies
  <1>2. caller.try \in Tries /\ callee.try \in Tries
    BY AgentTypes
  <1>3. /\ callee'.st \in {"idle", "ringing", "answered", "up"} => callee.st \in {"idle", "ringing", "answered", "up"}
        /\ callee.hold # "no" => callee'.hold # "no"
    <2>1. callee \in [st : {"idle", "ringing", "answered", "up", "bye", "ended", "dead"}, try : Tries,
                      hold : {"no", "asked", "done"}]
      BY DEF AgentsOK, CalleeOK
    <2>2. CASE Ring
      <3>1. callee.st = "idle" /\ (callee' = callee \/ \E j \in {1, 2} : callee' = [callee EXCEPT !.st = "ringing", !.try = j])
        BY <2>2 DEF Ring
      <3> QED BY <2>1, <3>1
    <2>3. CASE Answer \/ Acked \/ Reject \/ CalleeHangUp \/ CalleeByeAnswered \/ CalleeDies
      BY <2>1, <2>3 DEF Answer, Acked, Reject, CalleeHangUp, CalleeByeAnswered, CalleeDies
    <2>4. CASE Cancelled
      BY <2>1, <2>4 DEF Cancelled
    <2>5. CASE CallerHungUp
      BY <2>1, <2>5 DEF CallerHungUp
    <2>6. CASE PutOnHold \/ HoldAnswered
      BY <2>1, <2>6 DEF PutOnHold, HoldAnswered
    <2> QED BY <2>2, <2>3, <2>4, <2>5, <2>6 DEF CalleeStep
  <1>4. ASSUME NEW n \in Mail, n \in {HoldOk, HoldNo}, OnWire(n)' PROVE OnWire(n)
    <2>1. n.kind = "response" /\ n.from = side /\ side # far
      BY <1>4, AnswerFields DEF Says, Tries, far, Opposite, Sides
    <2>2. \A q \in {CalleeBye, Hold, HeldAck, HoldNoAck} : q # n
      BY <2>1, RequestFields DEF Says, Tries
    <2>3. \A i \in Tries : \A q \in {Progress(i), Challenge(i), Ok(i), Refusal(i, 486), Refusal(i, 487), CancelOk(i), ByeOk(i)} : q # n
      <3>1. \A i \in Tries : /\ Progress(i).from = far /\ Challenge(i).from = far /\ Ok(i).from = far
                             /\ Refusal(i, 486).from = far /\ Refusal(i, 487).from = far
                             /\ CancelOk(i).from = far /\ ByeOk(i).from = far
        BY AnswerFields DEF Says
      <3> QED BY <2>1, <3>1
    <2>4. ASSUME NEW ms, Send(ms), n \notin ms PROVE OnWire(n)
      BY <1>4, <2>4 DEF Send, OnWire
    <2>5. wire' \subseteq wire => OnWire(n)
      BY <1>4 DEF OnWire
    <2>6. CASE Ring
      <3>1. \E j \in {1, 2} : Send({Challenge(1)}) \/ Send({Progress(j)})
        BY <2>6 DEF Ring, Challenge, Progress
      <3>2. n \notin {Challenge(1)} /\ \A j \in {1, 2} : n \notin {Progress(j)}
        BY <2>3 DEF Tries
      <3> QED BY <2>4, <3>1, <3>2
    <2>7. CASE Answer \/ Reject \/ CallerHungUp
      <3>1. Send({Ok(callee.try)}) \/ Send({Refusal(callee.try, 486)}) \/ Send({ByeOk(callee.try)})
        BY <2>7 DEF Answer, Reject, CallerHungUp, Ok, Refusal, ByeOk
      <3>2. n \notin {Ok(callee.try)} /\ n \notin {Refusal(callee.try, 486)} /\ n \notin {ByeOk(callee.try)}
        BY <1>2, <2>3
      <3> QED BY <2>4, <3>1, <3>2
    <2>8. CASE Cancelled
      <3>1. \/ Send({CancelOk(callee.try)} \cup {Refusal(callee.try, 487)})
            \/ Send({CancelOk(callee.try)} \cup {})
        BY <2>8 DEF Cancelled, CancelOk, Refusal
      <3>2. n \notin {CancelOk(callee.try)} \cup {Refusal(callee.try, 487)} /\ n \notin {CancelOk(callee.try)} \cup {}
        BY <1>2, <2>3
      <3> QED BY <2>4, <3>1, <3>2
    <2>9. CASE PutOnHold \/ HoldAnswered \/ CalleeHangUp
      <3>1. Send({Hold}) \/ Send({HeldAck}) \/ Send({HoldNoAck}) \/ Send({CalleeBye})
        BY <2>9 DEF PutOnHold, HoldAnswered, CalleeHangUp, HeldAck, HoldNoAck
      <3>2. n \notin {Hold} /\ n \notin {HeldAck} /\ n \notin {HoldNoAck} /\ n \notin {CalleeBye}
        BY <2>2
      <3> QED BY <2>4, <3>1, <3>2
    <2>10. CASE Acked \/ CalleeByeAnswered \/ CalleeDies
      <3>1. wire' \subseteq wire
        BY <2>10 DEF Acked, CalleeByeAnswered, CalleeDies
      <3> QED BY <2>5, <3>1
    <2> QED BY <2>6, <2>7, <2>8, <2>9, <2>10 DEF CalleeStep
  <1> QED BY <1>1, <1>2, <1>3, <1>4 DEF Moves

----------------------------------------------------------------------------
(* A datagram arrives at zsipos.                                           *)

Call == callmap[Cid]

\* Methods, bodies and codes of the messages.
LEMMA MailForms ==
  ASSUME side \in Sides, NEW m \in Mail
  PROVE  /\ m.kind = "request" => /\ m.method \in {"INVITE", "ACK", "BYE", "CANCEL"}
                                  /\ m.method = "INVITE" => m.sdp = "raw" /\ m.toMe
                                  /\ m.method # "INVITE" => m.sdp = "none"
         /\ m.kind = "response" => /\ m.method \in {"INVITE", "BYE", "CANCEL"}
                                   /\ m.code \in {180, 200, 407, 486, 487, 488}
                                   /\ m.method # "INVITE" => m.code = 200 /\ m.sdp = "none"
                                   /\ m.method = "INVITE" => m.sdp = IF m.code = 200 THEN "raw" ELSE "none"
  <1>1. ASSUME m.kind = "request"
        PROVE  /\ m.method \in {"INVITE", "ACK", "BYE", "CANCEL"}
               /\ m.method = "INVITE" => m.sdp = "raw" /\ m.toMe
               /\ m.method # "INVITE" => m.sdp = "none"
    <2>1. CASE m.from = side
      <3>1. \A i \in Tries : m \in {Invite(i), Cancel(i), AckFail(i), AckOk(i), Bye(i)} =>
              /\ m.method \in {"INVITE", "ACK", "BYE", "CANCEL"}
              /\ m.method = "INVITE" => m.sdp = "raw" /\ m.toMe
              /\ m.method # "INVITE" => m.sdp = "none"
        BY RequestFields DEF Says
      <3> QED BY <1>1, <2>1, <3>1, MailKinds
    <2>2. CASE m.from = far
      <3>1. m \in {Hold, HeldAck, HoldNoAck, CalleeBye}
        BY <1>1, <2>2, MailKinds
      <3> QED BY <3>1, RequestFields DEF Says, Tries
    <2> QED BY <2>1, <2>2, MailKinds
  <1>2. ASSUME m.kind = "response"
        PROVE  /\ m.method \in {"INVITE", "BYE", "CANCEL"}
               /\ m.code \in {180, 200, 407, 486, 487, 488}
               /\ m.method # "INVITE" => m.code = 200 /\ m.sdp = "none"
               /\ m.method = "INVITE" => m.sdp = IF m.code = 200 THEN "raw" ELSE "none"
    <2>1. CASE m.from = far
      <3>1. \A i \in Tries : m \in {Progress(i), Ok(i), Challenge(i), Refusal(i, 486), Refusal(i, 487),
                                    CancelOk(i), ByeOk(i)} =>
              /\ m.method \in {"INVITE", "BYE", "CANCEL"}
              /\ m.code \in {180, 200, 407, 486, 487, 488}
              /\ m.method # "INVITE" => m.code = 200 /\ m.sdp = "none"
              /\ m.method = "INVITE" => m.sdp = IF m.code = 200 THEN "raw" ELSE "none"
        BY AnswerFields DEF Says
      <3> QED BY <1>2, <2>1, <3>1, MailKinds
    <2>2. CASE m.from = side
      <3>1. m \in {CalleeByeOk, HoldOk, HoldNo}
        BY <1>2, <2>2, MailKinds
      <3> QED BY <3>1, AnswerFields DEF Says, Tries
    <2> QED BY <2>1, <2>2, MailKinds
  <1> QED BY <1>1, <1>2

\* No call is concerned: m is sent on as it is.
Passes(m) ==
  /\ Call = None /\ m.method # "INVITE" /\ UNCHANGED cc
  /\ SaveRequest(m, [BranchFor(m) EXCEPT !.reqs[m.method] = m]) /\ Emits(m, m)

\* The call handles m, which may be the INVITE that opens it.
Handles(m) ==
  LET r == CallRequest(CallForRequest(m), m)
      x == [m EXCEPT !.sdp = r.sdp]
  IN /\ Call # None \/ m.method = "INVITE"
     /\ Apply(Cid, r)
     /\ \/ r.ok /\ SaveRequest(m, [BranchFor(m) EXCEPT !.reqs[m.method] = x]) /\ Emits(m, x)
        \/ ~r.ok /\ SaveRequest(m, BranchFor(m)) /\ wire' = wire

PassesAnswer(m) ==
  Call = None /\ UNCHANGED cc /\ SaveResponse(m, m.sdp) /\ Emits(m, m)

HandlesAnswer(m) ==
  LET r == CallResponse(Call, m) IN
  /\ Call # None
  /\ Apply(Cid, r)
  /\ \/ r.ok /\ SaveResponse(m, r.sdp) /\ Emits(m, [m EXCEPT !.sdp = r.sdp])
     \/ ~r.ok /\ UNCHANGED sip /\ wire' = wire

Absorbed == UNCHANGED <<sip, cc, wire>>

\* What is put on the wire.
LEMMA Outgoing ==
  ASSUME NEW t, NEW x, NEW m, Emit(t, x, m),
         wire' = wire \cup {[to |-> o.to, msg |-> o.msg] : o \in out'}
  PROVE  wire' = wire \cup {[to |-> t, msg |-> x]}
  BY DEF Emit

LEMMA Silence ==
  ASSUME out' = {}, wire' = wire \cup {[to |-> o.to, msg |-> o.msg] : o \in out'}
  PROVE  wire' = wire
  OBVIOUS

\* There is a port as long as there is no call.
LEMMA PortIsFree ==
  ASSUME CallsOK, OnlyCid, Call = None
  PROVE  ports < MaxSessions
  <1>1. {c \in Cids : callmap[c] # None} = {}
    BY CallAssumption DEF OnlyCid, Call
  <1>2. ports = 0
    BY <1>1, FS_EmptySet DEF CallsOK, PortsMatchCalls
  <1> QED BY <1>2, CallAssumption, ConfigAssumption

\* A request is absorbed by its Branch, or passes, or is handled by the call.
LEMMA RequestArrives ==
  ASSUME Base, NEW m \in Mail, m.kind = "request", Request(m),
         wire' = wire \cup {[to |-> o.to, msg |-> o.msg] : o \in out'}
  PROVE  /\ phoneInfoValid' = TRUE
         /\ \/ Absorbed
            \/ ~Forwarded(m) /\ (Passes(m) \/ Handles(m))
  <1>1. /\ side \in Sides /\ CacheSound /\ SipOK /\ CallsOK /\ OnlyCid /\ phoneInfoValid = TRUE
    BY DEF Base, Setting, IInv
  <1>2. /\ m \in RequestType /\ m.cid = Cid /\ m.method \in Methods
        /\ m.method = "INVITE" => m.toMe
    BY <1>1, MailKinds, MailForms DEF Methods
  <1>3. BranchOf(m) \in Vias /\ (branchmap[BranchOf(m)] # None => BranchFor(m) = branchmap[BranchOf(m)])
        /\ (branchmap[BranchOf(m)] = None => BranchFor(m).reqs[m.method] = None /\ BranchFor(m).rsps[m.method] = None)
    BY <1>1, <1>2, BranchForType DEF BranchFor, NoBranch
  <1>4. branchmap[BranchOf(m)] # None => branchmap[BranchOf(m)].external = m.from
    <2>1. CASE BranchOf(m) = m.via
      <3>1. SUFFICES ASSUME branchmap[m.via] # None PROVE branchmap[m.via].external = m.from
        BY <2>1
      <3>2. PICK n \in Mail : n.kind = "request" /\ n.via = m.via /\ branchmap[m.via].external = n.from
        BY <1>1, <1>3, <2>1, <3>1 DEF CacheSound, BranchSound
      <3> QED BY <1>1, <3>2, BranchSides
    <2>2. CASE BranchOf(m) # m.via
      <3>1. m.from \in Sides /\ m.seq \in Seqs
        BY <1>2 DEF RequestType
      <3>2. seq2branch[m.from][m.seq] # None /\ BranchOf(m) = seq2branch[m.from][m.seq]
        BY <2>2 DEF BranchOf
      <3> QED BY <1>1, <3>1, <3>2 DEF SipOK, BranchIndexSound
    <2> QED BY <2>1, <2>2
  <1>5. CASE ReplayAnswer(m)
    <2>1. BranchFor(m).rsps[m.method] # None /\ Emit(m.from, BranchFor(m).rsps[m.method], m)
          /\ UNCHANGED <<phoneInfoValid, sip, cc>>
      BY <1>5 DEF ReplayAnswer, Answered
    <2>2. wire' = wire \cup {[to |-> m.from, msg |-> BranchFor(m).rsps[m.method]]}
      BY <2>1, Outgoing
    <2>3. branchmap[BranchOf(m)] # None /\ BranchFor(m) = branchmap[BranchOf(m)]
      BY <1>3, <2>1
    <2>4. BranchSound(BranchOf(m), branchmap[BranchOf(m)]) /\ branchmap[BranchOf(m)].external = m.from
      BY <1>1, <1>3, <1>4, <2>3 DEF CacheSound
    <2>5. [to |-> m.from, msg |-> branchmap[BranchOf(m)].rsps[m.method]] \in wire
      <3> DEFINE b == branchmap[BranchOf(m)]
      <3>1. BranchSound(BranchOf(m), b) /\ b.external = m.from /\ b.rsps[m.method] # None
        BY <2>1, <2>3, <2>4
      <3> HIDE DEF b
      <3>2. [to |-> b.external, msg |-> b.rsps[m.method]] \in wire
        BY <1>2, <3>1 DEF BranchSound
      <3> QED BY <3>1, <3>2 DEF b
    <2>6. [to |-> m.from, msg |-> BranchFor(m).rsps[m.method]] \in wire
      BY <2>3, <2>5
    <2> QED BY <1>1, <2>1, <2>2, <2>6 DEF Absorbed
  <1>6. CASE ResendRequest(m)
    <2>1. BranchFor(m).reqs[m.method] # None /\ Emit(Opposite(m.from), BranchFor(m).reqs[m.method], m)
          /\ UNCHANGED <<phoneInfoValid, sip, cc>>
      BY <1>6 DEF ResendRequest, Forwarded
    <2>2. wire' = wire \cup {[to |-> Opposite(m.from), msg |-> BranchFor(m).reqs[m.method]]}
      BY <2>1, Outgoing
    <2>3. branchmap[BranchOf(m)] # None /\ BranchFor(m) = branchmap[BranchOf(m)]
      BY <1>3, <2>1
    <2>4. BranchSound(BranchOf(m), branchmap[BranchOf(m)]) /\ branchmap[BranchOf(m)].external = m.from
      BY <1>1, <1>3, <1>4, <2>3 DEF CacheSound
    <2>5. [to |-> Opposite(m.from), msg |-> branchmap[BranchOf(m)].reqs[m.method]] \in wire
      <3> DEFINE b == branchmap[BranchOf(m)]
      <3>1. BranchSound(BranchOf(m), b) /\ b.external = m.from /\ b.reqs[m.method] # None
        BY <2>1, <2>3, <2>4
      <3> HIDE DEF b
      <3>2. [to |-> Opposite(b.external), msg |-> b.reqs[m.method]] \in wire
        BY <1>2, <3>1 DEF BranchSound
      <3> QED BY <3>1, <3>2 DEF b
    <2>6. [to |-> Opposite(m.from), msg |-> BranchFor(m).reqs[m.method]] \in wire
      BY <2>3, <2>5
    <2> QED BY <1>1, <2>1, <2>2, <2>6 DEF Absorbed
  <1>7. Known(m) = TRUE
    BY <1>1 DEF Known
  <1>8. ~IgnoreRequest(m)
    BY <1>7 DEF IgnoreRequest
  <1>9. ~RefuseCall(m)
    <2>1. OpensCall(m) => ports < MaxSessions
      BY <1>1, <1>2, PortIsFree DEF OpensCall, Call
    <2>2. ports \in Nat /\ MaxSessions \in Nat
      BY <1>1, ConfigAssumption DEF CallsOK
    <2> QED BY <2>1, <2>2 DEF RefuseCall
  <1>10. CASE PassRequest(m)
    <2>1. /\ ~Forwarded(m) /\ phoneInfoValid' = TRUE /\ Call = None /\ m.method # "INVITE" /\ UNCHANGED cc
          /\ SaveRequest(m, [BranchFor(m) EXCEPT !.reqs[m.method] = m])
          /\ Emit(Opposite(m.from), m, m)
      BY <1>2, <1>7, <1>10 DEF PassRequest, NewRequest, OpensCall, Call
    <2>2. Emits(m, m)
      BY <2>1, Outgoing DEF Emits
    <2> QED BY <2>1, <2>2 DEF Passes
  <1>11. CASE HandleRequest(m)
    <2> DEFINE r == CallRequest(CallForRequest(m), m)
               x == [m EXCEPT !.sdp = r.sdp]
    <2>1. /\ ~Forwarded(m) /\ phoneInfoValid' = TRUE /\ (Call # None \/ m.method = "INVITE")
          /\ Apply(Cid, r)
      BY <1>2, <1>7, <1>11 DEF HandleRequest, NewRequest, OpensCall, Call
    <2>2. /\ r.ok => SaveRequest(m, [BranchFor(m) EXCEPT !.reqs[m.method] = x]) /\ Emit(Opposite(m.from), x, m)
          /\ ~r.ok => SaveRequest(m, BranchFor(m)) /\ out' = {}
      BY <1>11 DEF HandleRequest
    <2> HIDE DEF r
    <2>3. \/ r.ok /\ SaveRequest(m, [BranchFor(m) EXCEPT !.reqs[m.method] = x]) /\ Emits(m, x)
          \/ ~r.ok /\ SaveRequest(m, BranchFor(m)) /\ wire' = wire
      <3>1. r.ok => Emits(m, x)
        BY <2>2, Outgoing DEF Emits
      <3>2. ~r.ok => wire' = wire
        BY <2>2, Silence
      <3> QED BY <2>2, <3>1, <3>2
    <2>4. Handles(m)
      BY <2>1, <2>3 DEF Handles, r
    <2> QED BY <2>1, <2>4
  <1> QED BY <1>5, <1>6, <1>8, <1>9, <1>10, <1>11 DEF Request

\* So is a response.
LEMMA ResponseArrives ==
  ASSUME Base, NEW m \in Mail, m.kind = "response", Response(m),
         wire' = wire \cup {[to |-> o.to, msg |-> o.msg] : o \in out'}
  PROVE  /\ phoneInfoValid' = TRUE
         /\ Absorbed \/ PassesAnswer(m) \/ HandlesAnswer(m)
  <1>1. /\ side \in Sides /\ CacheSound /\ SipOK /\ phoneInfoValid = TRUE
    BY DEF Base, Setting, IInv
  <1>2. m \in ResponseType /\ m.cid = Cid /\ m.method \in Methods /\ m.via \in Vias
    BY <1>1, MailKinds DEF ResponseType
  <1>3. CASE ResendResponse(m)
    <2>1. /\ branchmap[m.via] # None /\ branchmap[m.via].rsps[m.method] # None
          /\ Emit(Opposite(m.from), branchmap[m.via].rsps[m.method], m)
          /\ UNCHANGED <<phoneInfoValid, sip, cc>>
      BY <1>3 DEF ResendResponse, Repeated
    <2>2. wire' = wire \cup {[to |-> Opposite(m.from), msg |-> branchmap[m.via].rsps[m.method]]}
      BY <2>1, Outgoing
    <2>3. PICK n \in Mail : n.kind = "request" /\ n.via = m.via /\ branchmap[m.via].external = n.from
      BY <1>1, <1>2, <2>1 DEF CacheSound, BranchSound
    <2>4. m.from = Opposite(n.from) /\ n.from \in Sides
      <3>1. n.from \in {side, far} /\ far \in Sides
        BY <1>1, MailKinds DEF far, Opposite, Sides
      <3> QED BY <1>1, <2>3, <3>1, BranchSides
    <2>5. Opposite(m.from) = branchmap[m.via].external
      BY <2>3, <2>4 DEF Opposite, Sides
    <2>6. [to |-> Opposite(m.from), msg |-> branchmap[m.via].rsps[m.method]] \in wire
      BY <1>1, <1>2, <2>1, <2>5 DEF CacheSound, BranchSound
    <2> QED BY <1>1, <2>1, <2>2, <2>6 DEF Absorbed
  <1>4. ~IgnoreResponse(m)
    BY <1>1 DEF IgnoreResponse
  <1>5. CASE PassResponse(m)
    <2>1. /\ phoneInfoValid' = TRUE /\ Call = None /\ UNCHANGED cc /\ SaveResponse(m, m.sdp)
          /\ Emit(Opposite(m.from), m, m)
      BY <1>1, <1>2, <1>5 DEF PassResponse, Call
    <2>2. Emits(m, m)
      BY <2>1, Outgoing DEF Emits
    <2> QED BY <2>1, <2>2 DEF PassesAnswer
  <1>6. CASE HandleResponse(m)
    <2> DEFINE r == CallResponse(callmap[m.cid], m)
    <2>1. phoneInfoValid' = TRUE /\ Call # None /\ Apply(Cid, r) /\ r = CallResponse(Call, m)
      BY <1>1, <1>2, <1>6 DEF HandleResponse, Call
    <2>2. /\ r.ok => SaveResponse(m, r.sdp) /\ Emit(Opposite(m.from), [m EXCEPT !.sdp = r.sdp], m)
          /\ ~r.ok => UNCHANGED sip /\ out' = {}
      BY <1>6 DEF HandleResponse
    <2> HIDE DEF r
    <2>3. r.ok => Emits(m, [m EXCEPT !.sdp = r.sdp])
      BY <2>2, Outgoing DEF Emits
    <2>4. ~r.ok => wire' = wire
      BY <2>2, Silence
    <2>5. HandlesAnswer(m)
      BY <2>1, <2>2, <2>3, <2>4 DEF HandlesAnswer
    <2> QED BY <2>1, <2>5
  <1> QED BY <1>3, <1>4, <1>5, <1>6 DEF Response

----------------------------------------------------------------------------
(* What the call does with each kind of message.                           *)

\* The end of a call: it is gone and that was reported, or, if it had ended
\* before or its end cannot be logged, it stays without its timers.
Ends(c, r) ==
  \/ r.call = None /\ r.event = "terminated" /\ r.ok /\ ~c.terminated
  \/ /\ r.call = [c EXCEPT !.t3 = FALSE, !.ts = FALSE, !.terminated = TRUE]
     /\ r.event = "none"
     /\ c.terminated \/ (LogEvents /\ c.finalCode = NoCode)
     /\ ~r.ok => LogEvents /\ c.finalCode = NoCode

LEMMA EndsCall ==
  ASSUME NEW c \in CallType, NEW sdp
  PROVE  LET r == OnTerminated([call |-> c, event |-> "none", sdp |-> sdp, ok |-> TRUE])
         IN  Ends(c, r) /\ r.sdp = sdp
  <1> DEFINE q == [call |-> c, event |-> "none", sdp |-> sdp, ok |-> TRUE]
             d == [c EXCEPT !.t3 = FALSE, !.ts = FALSE, !.terminated = TRUE]
  <1>1. q.call = c /\ q.event = "none" /\ q.ok /\ c.terminated \in BOOLEAN
    BY DEF CallType
  <1>2. \/ OnTerminated(q) = [q EXCEPT !.call = d] /\ c.terminated
        \/ OnTerminated(q) = [q EXCEPT !.call = d, !.ok = FALSE] /\ ~c.terminated /\ LogEvents /\ c.finalCode = NoCode
        \/ OnTerminated(q) = [q EXCEPT !.call = None, !.event = "terminated"] /\ ~c.terminated
    BY <1>1, ConfigAssumption DEF OnTerminated
  <1> HIDE DEF d
  <1>3. Ends(c, OnTerminated(q)) /\ OnTerminated(q).sdp = sdp
    <2>1. CASE OnTerminated(q) = [q EXCEPT !.call = d] /\ c.terminated
      BY <2>1 DEF Ends, d
    <2>2. CASE OnTerminated(q) = [q EXCEPT !.call = d, !.ok = FALSE] /\ ~c.terminated /\ LogEvents /\ c.finalCode = NoCode
      BY <2>2 DEF Ends, d
    <2>3. CASE OnTerminated(q) = [q EXCEPT !.call = None, !.event = "terminated"] /\ ~c.terminated
      BY <2>3 DEF Ends
    <2> QED BY <1>2, <2>1, <2>2, <2>3
  <1> QED BY <1>3

\* An INVITE starts the exchange of addresses anew.
Reopens(c, m, r) ==
  r = [call |-> [c EXCEPT !.addr = {m.from}], event |-> "none", sdp |-> "fixed", ok |-> TRUE]
\* The call becomes d, m is sent on as it is.
Becomes(d, r) == r = [call |-> d, event |-> "none", sdp |-> "none", ok |-> TRUE]
\* The ACK of a call that was answered.
Connects(c, r) ==
  /\ r.call = [c EXCEPT !.t3 = FALSE, !.ts = FALSE] /\ r.ok /\ r.sdp = "none"
  /\ r.event = IF c.terminated THEN "none" ELSE "connected"

RequestResult(c, m, r) ==
  /\ m.method = "INVITE" => Reopens(c, m, r)
  /\ m.method = "BYE" => Becomes([c EXCEPT !.ts = TRUE], r)
  /\ m.method = "CANCEL" => Becomes(IF m.seq = c.cseq THEN [c EXCEPT !.ts = TRUE] ELSE c, r)
  /\ m.method = "ACK" /\ m.seq = c.cseq /\ c.finalCode = 200 => Connects(c, r)
  /\ m.method = "ACK" /\ m.seq = c.cseq /\ c.finalCode # 200 => Ends(c, r) /\ r.sdp = "none"
  /\ m.method = "ACK" /\ m.seq # c.cseq => Becomes([c EXCEPT !.t3 = FALSE], r)

LEMMA RequestResults ==
  ASSUME side \in Sides, NEW m \in Mail, m.kind = "request", NEW c \in CallType
  PROVE  RequestResult(c, m, CallRequest(c, m))
  <1> DEFINE r == CallRequest(c, m)
  <1>1. /\ m.method \in {"INVITE", "ACK", "BYE", "CANCEL"}
        /\ m.method = "INVITE" => m.sdp = "raw"
        /\ m.method # "INVITE" => m.sdp = "none"
    BY MailForms
  <1>2. ASSUME m.method = "INVITE" PROVE Reopens(c, m, r)
    <2> DEFINE d == [c EXCEPT !.addr = {}]
    <2>1. r = FixSDP(d, m)
      BY <1>2 DEF CallRequest, DlgRequest, InDlgRequest
    <2>2. d.addr = {} /\ {m.from} # Sides /\ c.ready \in BOOLEAN
      BY DEF CallType, Sides
    <2>3. [d EXCEPT !.addr = {m.from}, !.ready = d.ready \/ FALSE] = [c EXCEPT !.addr = {m.from}]
      BY DEF CallType
    <2>4. d.addr \cup {m.from} = {m.from} /\ ({m.from} = Sides) = FALSE
      BY <2>2
    <2> HIDE DEF d
    <2>5. FixSDP(d, m) = [Keep([d EXCEPT !.addr = {m.from}, !.ready = @ \/ FALSE], m) EXCEPT !.sdp = "fixed"]
      BY <1>1, <1>2, <2>4 DEF FixSDP
    <2> QED BY <2>1, <2>3, <2>5 DEF Keep, Reopens
  <1>3. ASSUME m.method = "BYE" PROVE Becomes([c EXCEPT !.ts = TRUE], r)
    BY <1>1, <1>3 DEF CallRequest, DlgRequest, InDlgRequest, Keep, Becomes
  <1>4. ASSUME m.method = "CANCEL" PROVE Becomes(IF m.seq = c.cseq THEN [c EXCEPT !.ts = TRUE] ELSE c, r)
    BY <1>1, <1>4 DEF CallRequest, DlgRequest, InDlgRequest, Keep, Becomes
  <1>5. ASSUME m.method = "ACK"
        PROVE  /\ m.seq = c.cseq /\ c.finalCode = 200 => Connects(c, r)
               /\ m.seq = c.cseq /\ c.finalCode # 200 => Ends(c, r) /\ r.sdp = "none"
               /\ m.seq # c.cseq => Becomes([c EXCEPT !.t3 = FALSE], r)
    <2>1. /\ FixSDP(c, m) = [call |-> c, event |-> "none", sdp |-> "none", ok |-> TRUE]
          /\ FixSDP([c EXCEPT !.t3 = FALSE], m)
               = [call |-> [c EXCEPT !.t3 = FALSE], event |-> "none", sdp |-> "none", ok |-> TRUE]
      BY <1>1, <1>5 DEF FixSDP, Keep
    <2>2. ASSUME m.seq = c.cseq, c.finalCode = 200 PROVE Connects(c, r)
      <3>1. r = OnConnected(FixSDP(c, m))
        BY <1>5, <2>1, <2>2 DEF CallRequest, DlgRequest
      <3>2. r = OnConnected([call |-> c, event |-> "none", sdp |-> "none", ok |-> TRUE])
        BY <2>1, <3>1
      <3> HIDE DEF r
      <3> QED BY <3>2 DEF OnConnected, Connects
    <2>3. ASSUME m.seq = c.cseq, c.finalCode # 200 PROVE Ends(c, r) /\ r.sdp = "none"
      <3>1. r = OnTerminated(FixSDP(c, m))
        BY <1>5, <2>1, <2>3 DEF CallRequest, DlgRequest
      <3> QED BY <2>1, <3>1, EndsCall
    <2>4. ASSUME m.seq # c.cseq PROVE Becomes([c EXCEPT !.t3 = FALSE], r)
      BY <1>5, <2>1, <2>4 DEF CallRequest, InDlgRequest, Becomes
    <2> QED BY <2>2, <2>3, <2>4
  <1> HIDE DEF r
  <1>6. RequestResult(c, m, r)
    BY <1>2, <1>3, <1>4, <1>5 DEF RequestResult
  <1> QED BY <1>6 DEF r

\* An answer with a body completes the addresses, if the other one is known.
Answers(c, m, r) ==
  LET known == c.addr \cup {m.from} IN
  /\ r.call = [c EXCEPT !.addr = known, !.ready = @ \/ known = Sides]
  /\ r.event = "none" /\ r.sdp = "fixed" /\ r.ok

ResponseResult(c, m, r) ==
  LET final == IF m.seq = c.cseq THEN [c EXCEPT !.finalCode = m.code] ELSE c
      gone  == [c EXCEPT !.finalCode = IF @ = NoCode THEN 487 ELSE @]
  IN
  /\ m.method = "INVITE" /\ m.code = 180 => r = [call |-> c, event |-> "progress", sdp |-> "none", ok |-> TRUE]
  /\ m.method = "INVITE" /\ m.code = 200 => Answers(final, m, r)
  /\ m.method = "INVITE" /\ m.code \notin {180, 200} => Becomes(final, r)
  /\ m.method = "BYE" => Ends(c, r) /\ r.sdp = "none"
  /\ m.method = "CANCEL" /\ m.seq = c.cseq => Ends(gone, r) /\ r.sdp = "none"
  /\ m.method = "CANCEL" /\ m.seq # c.cseq => Becomes(c, r)

LEMMA ResponseResults ==
  ASSUME side \in Sides, NEW m \in Mail, m.kind = "response", NEW c \in CallType
  PROVE  ResponseResult(c, m, CallResponse(c, m))
  <1> DEFINE r == CallResponse(c, m)
             final == IF m.seq = c.cseq THEN [c EXCEPT !.finalCode = m.code] ELSE c
             gone  == [c EXCEPT !.finalCode = IF @ = NoCode THEN 487 ELSE @]
  <1>1. /\ m.method \in {"INVITE", "BYE", "CANCEL"}
        /\ m.code \in {180, 200, 407, 486, 487, 488}
        /\ m.method # "INVITE" => m.code = 200 /\ m.sdp = "none"
        /\ m.method = "INVITE" => m.sdp = IF m.code = 200 THEN "raw" ELSE "none"
        /\ Final(m.code) <=> m.code # 180
    BY MailForms DEF Final
  <1>2. gone \in CallType
    BY DEF CallType, Codes
  <1>3. ASSUME m.method = "INVITE", m.code = 180
        PROVE  r = [call |-> c, event |-> "progress", sdp |-> "none", ok |-> TRUE]
    BY <1>1, <1>3 DEF CallResponse, DlgResponse, InDlgResponse, OnProgress
  <1>4. ASSUME m.method = "INVITE", m.code # 180 PROVE r = FixSDP(final, m)
    BY <1>1, <1>4 DEF CallResponse, DlgResponse, InDlgResponse
  <1>5. ASSUME m.method = "BYE" PROVE Ends(c, r) /\ r.sdp = "none"
    <2>1. r = OnTerminated([call |-> c, event |-> "none", sdp |-> "none", ok |-> TRUE])
      <3>1. r = OnTerminated(Keep(c, m)) /\ m.sdp = "none"
        BY <1>1, <1>5 DEF CallResponse, DlgResponse, InDlgResponse
      <3> HIDE DEF r
      <3> QED BY <3>1 DEF Keep
    <2> QED BY <2>1, EndsCall
  <1>6. ASSUME m.method = "CANCEL", m.seq = c.cseq PROVE Ends(gone, r) /\ r.sdp = "none"
    <2>1. r = OnTerminated([call |-> gone, event |-> "none", sdp |-> "none", ok |-> TRUE])
      <3>1. r = OnTerminated(Keep(gone, m)) /\ m.sdp = "none"
        BY <1>1, <1>6 DEF CallResponse, DlgResponse
      <3> HIDE DEF gone, r
      <3> QED BY <3>1 DEF Keep
    <2> HIDE DEF gone, r
    <2> QED BY <1>2, <2>1, EndsCall
  <1>7. ASSUME m.method = "CANCEL", m.seq # c.cseq PROVE Becomes(c, r)
    BY <1>1, <1>7, ZenonT(40) DEF CallResponse, InDlgResponse, Keep, Becomes
  <1> HIDE DEF r, final
  <1>8. ASSUME m.method = "INVITE", m.code = 200 PROVE Answers(final, m, r)
    <2>1. r = FixSDP(final, m) /\ m.sdp = "raw"
      BY <1>1, <1>4, <1>8
    <2>2. FixSDP(final, m) = [Keep([final EXCEPT !.addr = final.addr \cup {m.from},
                                                 !.ready = @ \/ final.addr \cup {m.from} = Sides], m) EXCEPT !.sdp = "fixed"]
      BY <2>1 DEF FixSDP
    <2> QED BY <2>1, <2>2 DEF Keep, Answers
  <1>9. ASSUME m.method = "INVITE", m.code \notin {180, 200} PROVE Becomes(final, r)
    <2>1. r = FixSDP(final, m) /\ m.sdp = "none"
      BY <1>1, <1>4, <1>9
    <2>2. FixSDP(final, m) = Keep(final, m)
      BY <2>1 DEF FixSDP
    <2> QED BY <2>1, <2>2 DEF Keep, Becomes
  <1>10. ResponseResult(c, m, r)
    BY <1>3, <1>5, <1>6, <1>7, <1>8, <1>9 DEF ResponseResult, final
  <1> QED BY <1>10 DEF r

\* What is sent on is a copy of what came; only an ACK or the answer to a BYE
\* is not, if the end it brings cannot be logged.
LEMMA SendsCopy ==
  ASSUME side \in Sides, NEW m \in Mail, NEW c \in CallType
  PROVE  /\ LET r == CallRequest(c, m) IN
            m.kind = "request" => /\ r.ok => Copy(m, [m EXCEPT !.sdp = r.sdp])
                                  /\ ~r.ok => m.method = "ACK"
         /\ LET r == CallResponse(c, m) IN
            m.kind = "response" => /\ r.ok => Copy(m, [m EXCEPT !.sdp = r.sdp])
                                   /\ ~r.ok => m.method = "BYE"
                                   /\ r.ok /\ m.method = "INVITE" /\ m.code = 200 => r.sdp = "fixed"
  <1> DEFINE a == CallRequest(c, m)
             b == CallResponse(c, m)
  <1>1. m \in MessageType /\ (m.sdp = "none" => [m EXCEPT !.sdp = "none"] = m)
    BY DEF Mail, MessageType, RequestType, ResponseType
  <1>2. ASSUME m.kind = "request"
        PROVE  (a.ok => Copy(m, [m EXCEPT !.sdp = a.sdp])) /\ (~a.ok => m.method = "ACK")
    <2>1. /\ m.method \in {"INVITE", "ACK", "BYE", "CANCEL"}
          /\ m.method = "INVITE" => m.sdp = "raw"
          /\ m.method # "INVITE" => m.sdp = "none"
      BY <1>2, MailForms
    <2>2. RequestResult(c, m, a)
      BY <1>2, RequestResults
    <2> HIDE DEF a
    <2>3. /\ m.method = "INVITE" => a.sdp = "fixed" /\ a.ok
          /\ m.method \in {"BYE", "CANCEL"} => a.sdp = "none" /\ a.ok
      BY <2>2 DEF RequestResult, Reopens, Becomes
    <2>4. m.method = "ACK" => a.sdp = "none"
      BY <2>2 DEF RequestResult, Becomes, Connects
    <2> QED BY <1>1, <2>1, <2>3, <2>4 DEF Copy
  <1>3. ASSUME m.kind = "response"
        PROVE  /\ b.ok => Copy(m, [m EXCEPT !.sdp = b.sdp])
               /\ ~b.ok => m.method = "BYE"
               /\ b.ok /\ m.method = "INVITE" /\ m.code = 200 => b.sdp = "fixed"
    <2>1. /\ m.method \in {"INVITE", "BYE", "CANCEL"}
          /\ m.method # "INVITE" => m.sdp = "none"
          /\ m.method = "INVITE" => m.sdp = IF m.code = 200 THEN "raw" ELSE "none"
      BY <1>3, MailForms
    <2>2. ResponseResult(c, m, b)
      BY <1>3, ResponseResults
    <2> HIDE DEF b
    <2>3. /\ m.method = "INVITE" => b.ok /\ b.sdp = IF m.code = 200 THEN "fixed" ELSE "none"
          /\ m.method \in {"BYE", "CANCEL"} => b.sdp = "none"
          /\ m.method = "CANCEL" => b.ok
      BY <2>2 DEF ResponseResult, Answers, Becomes, Ends, NoCode
    <2> QED BY <1>1, <2>1, <2>3 DEF Copy
  <1> QED BY <1>2, <1>3

----------------------------------------------------------------------------
(* What zsipos sends, and what it remembers.                               *)

\* A copy of a message that was on the wire is sent on, or nothing is.
LEMMA EmitsRelays ==
  ASSUME side \in Sides, WireOK, UNCHANGED agents, NEW m \in Mail, OnWire(m),
         NEW x \in MessageType, Copy(m, x), Emits(m, x)
  PROVE  /\ Relays
         /\ \A n \in Mail : Passed(n)' <=> Passed(n) \/ n = m
         /\ \A n \in Mail : OnWire(n)' <=> OnWire(n)
         /\ \A i \in Tries : Redirected(i)' <=> Redirected(i) \/ (m = Ok(i) /\ x # m)
         /\ \A i \in Tries : Unredirected(i)' <=> Unredirected(i) \/ (m = Ok(i) /\ x = m)
  <1>1. UNCHANGED <<side, allowed>>
    BY DEF agents
  <1>2. /\ WireOK'
        /\ \A n \in Mail : Passed(n)' <=> Passed(n) \/ n = m
        /\ \A n \in Mail : OnWire(n)' <=> OnWire(n)
        /\ \A i \in Tries : Redirected(i)' <=> Redirected(i) \/ (m = Ok(i) /\ x # m)
        /\ \A i \in Tries : Unredirected(i)' <=> Unredirected(i) \/ (m = Ok(i) /\ x = m)
    BY <1>1, EmitsEffect
  <1>3. \A n \in Mail : Seen(n)' => Seen(n)
    BY <1>2 DEF Seen
  <1> QED BY <1>2, <1>3 DEF Relays

LEMMA SilentRelays ==
  ASSUME side \in Sides, WireOK, UNCHANGED agents, wire' = wire
  PROVE  /\ Relays
         /\ \A n \in Mail : (Passed(n)' <=> Passed(n)) /\ (OnWire(n)' <=> OnWire(n))
         /\ \A i \in Tries : (Redirected(i)' <=> Redirected(i)) /\ (Unredirected(i)' <=> Unredirected(i))
  <1>1. UNCHANGED <<side, allowed>>
    BY DEF agents
  <1>2. WireOK' /\ SameOutput
    BY <1>1, LossEffect
  <1>3. /\ \A n \in Mail : (Passed(n)' <=> Passed(n)) /\ (OnWire(n)' <=> OnWire(n))
        /\ \A i \in Tries : (Redirected(i)' <=> Redirected(i)) /\ (Unredirected(i)' <=> Unredirected(i))
    BY <1>2, NothingPasses DEF OnWire
  <1>4. \A n \in Mail : Seen(n)' => Seen(n)
    BY <1>3 DEF Seen
  <1> QED BY <1>2, <1>3, <1>4 DEF Relays

\* Marks stay.
LEMMA CameStays ==
  ASSUME Relays, NEW n \in Mail, Came(n)
  PROVE  Came(n)'
  <1>1. UNCHANGED <<side, allowed, caller>> /\ (Passed(n) => Passed(n)')
    BY DEF Relays, agents
  <1>2. HeldAck' = HeldAck
    BY <1>1, SameMail
  <1>3. caller' = caller /\ AckOk(caller.try)' = AckOk(caller.try)
    BY <1>1 DEF AckOk, Req
  <1> QED BY <1>1, <1>2, <1>3 DEF Came

\* So a Branch stays sound as long as nothing is taken from the wire but what
\* zsipos has yet to receive.
LEMMA StaysSound ==
  ASSUME side \in Sides, UNCHANGED <<side, allowed>>, \A w \in wire : w.to # "mitm" => w \in wire',
         \A n \in Mail : Came(n) => Came(n)',
         NEW k, NEW b, BranchSound(k, b)
  PROVE  BranchSound(k, b)'
  <1>1. Mail' = Mail
    BY SameMail
  <1>2. PICK m \in Mail : /\ m.kind = "request" /\ m.via = k /\ Came(m)
                          /\ b.external = m.from /\ b.cseq = m.seq
    BY DEF BranchSound
  <1>3. Came(m)'
    BY <1>2
  <1>4. b.external # "mitm" /\ Opposite(b.external) # "mitm"
    <2>1. m.from \in {side, far}
      BY MailKinds
    <2> QED BY <1>2, <2>1 DEF Sides, far, Opposite
  <1>5. \A x : /\ [to |-> b.external, msg |-> x] \in wire => [to |-> b.external, msg |-> x] \in wire'
               /\ [to |-> Opposite(b.external), msg |-> x] \in wire => [to |-> Opposite(b.external), msg |-> x] \in wire'
    BY <1>4
  <1>6. \E n \in Mail' : /\ n.kind = "request" /\ n.via = k /\ Came(n)'
                         /\ b.external = n.from /\ b.cseq = n.seq
    BY <1>1, <1>2, <1>3
  <1>7. \A mt \in Methods :
          /\ b.reqs[mt] # None =>
               /\ b.reqs[mt].method = mt /\ b.reqs[mt].from = b.external
               /\ b.reqs[mt].via = k \/ (mt = "ACK" /\ b.reqs[mt].seq = b.cseq)
               /\ [to |-> Opposite(b.external), msg |-> b.reqs[mt]] \in wire'
          /\ b.rsps[mt] # None =>
               /\ b.rsps[mt].method = mt /\ b.rsps[mt].via = k /\ b.rsps[mt].from = Opposite(b.external)
               /\ [to |-> b.external, msg |-> b.rsps[mt]] \in wire'
    BY <1>5 DEF BranchSound
  <1> QED BY <1>6, <1>7 DEF BranchSound

\* The Branch a request finds, or opens, is of its sender.
LEMMA BranchOwner ==
  ASSUME side \in Sides, SipOK, CacheSound, NEW m \in Mail, m.kind = "request"
  PROVE  /\ m \in RequestType /\ BranchOf(m) \in Vias /\ m.method \in Methods
         /\ BranchFor(m) \in BranchType /\ BranchFor(m).external = m.from
         /\ branchmap[BranchOf(m)] # None => BranchFor(m) = branchmap[BranchOf(m)]
         /\ branchmap[BranchOf(m)] = None =>
              BranchOf(m) = m.via /\ BranchFor(m).cseq = m.seq /\ BranchFor(m).reqs = NoBranch /\ BranchFor(m).rsps = NoBranch
         /\ BranchOf(m) # m.via => /\ branchmap[m.via] = None /\ m.method = "ACK" /\ BranchFor(m).cseq = m.seq
                                   /\ seq2branch[m.from][m.seq] = BranchOf(m) /\ branchmap[BranchOf(m)] # None
         /\ m.method # "ACK" => BranchOf(m) = m.via
  <1>1. m \in RequestType /\ m.method \in Methods /\ m.from \in Sides /\ m.seq \in Seqs
    BY MailKinds DEF RequestType
  <1>2. /\ BranchOf(m) \in Vias /\ BranchFor(m) \in BranchType
        /\ branchmap[BranchOf(m)] # None => BranchFor(m) = branchmap[BranchOf(m)]
        /\ branchmap[BranchOf(m)] = None => /\ BranchOf(m) = m.via /\ BranchFor(m).external = m.from
                                            /\ BranchFor(m).cseq = m.seq
    BY <1>1, BranchForType
  <1>3. branchmap[BranchOf(m)] = None => BranchFor(m).reqs = NoBranch /\ BranchFor(m).rsps = NoBranch
    BY DEF BranchFor
  <1>4. ASSUME BranchOf(m) # m.via
        PROVE  /\ branchmap[m.via] = None /\ m.method = "ACK" /\ BranchFor(m).cseq = m.seq
               /\ seq2branch[m.from][m.seq] = BranchOf(m) /\ branchmap[BranchOf(m)] # None
               /\ BranchFor(m).external = m.from
    <2>1. /\ branchmap[m.via] = None /\ m.method = "ACK"
          /\ seq2branch[m.from][m.seq] = BranchOf(m) /\ seq2branch[m.from][m.seq] # None
      BY <1>4 DEF BranchOf
    <2>2. /\ branchmap[BranchOf(m)] # None /\ branchmap[BranchOf(m)].external = m.from
          /\ branchmap[BranchOf(m)].cseq = m.seq
      BY <1>1, <2>1 DEF SipOK, BranchIndexSound
    <2> QED BY <1>2, <2>1, <2>2
  <1>5. ASSUME BranchOf(m) = m.via, branchmap[m.via] # None PROVE BranchFor(m).external = m.from
    <2>1. PICK n \in Mail : n.kind = "request" /\ n.via = m.via /\ branchmap[m.via].external = n.from
      BY <1>2, <1>5 DEF CacheSound, BranchSound
    <2> QED BY <1>2, <1>5, <2>1, BranchSides
  <1>6. m.method # "ACK" => BranchOf(m) = m.via
    BY DEF BranchOf
  <1> QED BY <1>1, <1>2, <1>3, <1>4, <1>5, <1>6

\* A Branch that is opened belongs to a request that came: an ACK whose
\* handler raises follows an INVITE that came.
LEMMA OwnerCame ==
  ASSUME side \in Sides, AgentsOK, NEW m \in Mail, m.kind = "request", m.method = "ACK", OnWire(m)
  PROVE  \E n \in Mail : n.kind = "request" /\ n.via = m.via /\ Came(n) /\ n.from = m.from /\ n.seq = m.seq
  <1>1. /\ \A i \in Tries : m \in {Invite(i), Cancel(i), AckFail(i), AckOk(i), Bye(i)} => m \in {AckFail(i), AckOk(i)}
        /\ m \in {Hold, HeldAck, HoldNoAck, CalleeBye} => m \in {HeldAck, HoldNoAck}
    BY RequestFields DEF Says, Tries
  <1>2. 1 \in Tries /\ caller.try \in Tries /\ Seen(m)
    BY AgentTypes DEF Tries, Seen
  <1>3. ASSUME NEW i \in Tries, m = AckFail(i)
        PROVE  Passed(Invite(i))
    <2>1. CallerSentFor(i) /\ CalleeSentFor(i) /\ CalleeSentFor(1)
      BY <1>2 DEF AgentsOK, CallerSentOK, CalleeSentOK
    <2>2. \/ i = 1 /\ Passed(Challenge(1))
          \/ Passed(Refusal(i, 486)) \/ Passed(Refusal(i, 487))
      BY <1>2, <1>3, <2>1 DEF CallerSentFor, AgentsOK, CallerOK
    <2> QED BY <2>1, <2>2 DEF CalleeSentFor, Seen, Used
  <1>4. CASE \E i \in Tries : m = AckFail(i)
    <2>1. PICK i \in Tries : m = AckFail(i)
      BY <1>4
    <2>2. /\ Invite(i) \in Mail /\ Invite(i).kind = "request" /\ Invite(i).via = m.via
          /\ Invite(i).from = m.from /\ Invite(i).seq = m.seq
      BY <2>1, Named, RequestFields DEF Says
    <2> QED BY <1>3, <2>1, <2>2 DEF Came
  <1>5. CASE \E i \in Tries : m = AckOk(i)
    <2>1. Came(m)
      BY <1>2, <1>5 DEF AgentsOK, CallerSentOK, CallerSentFor, Came
    <2> QED BY <2>1
  <1>6. CASE m = HeldAck
    BY <1>6 DEF Came
  <1>7. CASE m = HoldNoAck
    <2>1. Passed(Hold)
      BY <1>2, <1>7 DEF AgentsOK, CallerSentOK, CalleeSentOK, Seen
    <2>2. /\ Hold \in Mail /\ Hold.kind = "request" /\ Hold.via = m.via /\ Hold.from = m.from /\ Hold.seq = m.seq
      BY <1>2, <1>7, Named, RequestFields DEF Says
    <2> QED BY <2>1, <2>2 DEF Came
  <1> QED BY <1>1, <1>4, <1>5, <1>6, <1>7, MailKinds

\* A request is kept in its Branch as it is sent on.
LEMMA RequestIsCached ==
  ASSUME side \in Sides, WireOK, SipOK, CacheSound, UNCHANGED agents, NEW m \in Mail, m.kind = "request", OnWire(m),
         NEW x \in MessageType, Copy(m, x), Emits(m, x),
         SaveRequest(m, [BranchFor(m) EXCEPT !.reqs[m.method] = x])
  PROVE  CacheSound'
  <1> DEFINE k == BranchOf(m)
             b == [BranchFor(m) EXCEPT !.reqs[m.method] = x]
  <1>1. /\ m \in RequestType /\ k \in Vias /\ m.method \in Methods
        /\ BranchFor(m) \in BranchType /\ BranchFor(m).external = m.from
        /\ branchmap[k] # None => BranchFor(m) = branchmap[k]
        /\ branchmap[k] = None => k = m.via /\ BranchFor(m).cseq = m.seq /\ BranchFor(m).reqs = NoBranch /\ BranchFor(m).rsps = NoBranch
        /\ k # m.via => m.method = "ACK" /\ BranchFor(m).cseq = m.seq
    BY BranchOwner
  <1>2. Relays /\ Passed(m)' /\ Mail' = Mail
    <2>1. Relays /\ (Passed(m)' <=> Passed(m) \/ m = m)
      BY EmitsRelays
    <2> QED BY <2>1, SameMail DEF Relays, agents
  <1>3. /\ branchmap' = [branchmap EXCEPT ![k] = b] /\ branchmap \in [Vias -> BranchType \cup {None}]
        /\ wire' = wire \cup {[to |-> Opposite(m.from), msg |-> x]}
    BY DEF SaveRequest, Emits, SipOK
  <1>4. UNCHANGED <<side, allowed>> /\ \A w \in wire : w.to # "mitm" => w \in wire'
    BY <1>3 DEF agents
  <1>5. \A n \in Mail : Came(n) => Came(n)'
    BY <1>2, CameStays
  <1>6. /\ b.external = m.from /\ b.cseq = BranchFor(m).cseq /\ b.rsps = BranchFor(m).rsps
        /\ b.reqs[m.method] = x /\ \A mt \in Methods \ {m.method} : b.reqs[mt] = BranchFor(m).reqs[mt]
    BY <1>1 DEF BranchType
  <1>7. x.method = m.method /\ x.from = m.from /\ x.via = m.via /\ x.seq = m.seq
    <2>1. m \in MessageType
      BY DEF Mail
    <2>2. Alike(x, m)
      BY <2>1, CopyAlike
    <2> QED BY <2>1, <2>2, AlikeFields
  <1> HIDE DEF b, k
  <1>8. branchmap[k] # None => BranchSound(k, BranchFor(m))
    BY <1>1 DEF CacheSound
  <1>9. \E n \in Mail : n.kind = "request" /\ n.via = k /\ Came(n)' /\ b.external = n.from /\ b.cseq = n.seq
    <2>1. CASE branchmap[k] # None
      <3>1. PICK n \in Mail : /\ n.kind = "request" /\ n.via = k /\ Came(n)
                              /\ BranchFor(m).external = n.from /\ BranchFor(m).cseq = n.seq
        BY <1>8, <2>1 DEF BranchSound
      <3>2. Came(n)'
        BY <1>5, <3>1
      <3> QED BY <1>1, <1>6, <3>1, <3>2
    <2>2. CASE branchmap[k] = None
      <3>1. Came(m)'
        BY <1>2 DEF Came
      <3> QED BY <1>1, <1>6, <2>2, <3>1
    <2> QED BY <2>1, <2>2
  <1>10. ASSUME NEW mt \in Methods, b.reqs[mt] # None
         PROVE  /\ b.reqs[mt].method = mt /\ b.reqs[mt].from = b.external
                /\ b.reqs[mt].via = k \/ (mt = "ACK" /\ b.reqs[mt].seq = b.cseq)
                /\ [to |-> Opposite(b.external), msg |-> b.reqs[mt]] \in wire'
    <2>1. CASE mt = m.method
      BY <1>1, <1>3, <1>6, <1>7, <2>1
    <2>2. CASE mt # m.method
      <3>1. b.reqs[mt] = BranchFor(m).reqs[mt]
        BY <1>6, <2>2
      <3>2. branchmap[k] # None
        BY <1>1, <1>10, <3>1 DEF NoBranch
      <3>3. BranchSound(k, BranchFor(m)) /\ BranchFor(m).reqs[mt] # None
        BY <1>8, <1>10, <3>1, <3>2
      <3> DEFINE c == BranchFor(m)
      <3>4. BranchSound(k, c) /\ c.reqs[mt] # None /\ c.reqs[mt] = b.reqs[mt] /\ c.external = b.external /\ c.cseq = b.cseq
        BY <1>1, <1>6, <3>1, <3>3
      <3> HIDE DEF c
      <3>5. /\ c.reqs[mt].method = mt /\ c.reqs[mt].from = c.external
            /\ c.reqs[mt].via = k \/ (mt = "ACK" /\ c.reqs[mt].seq = c.cseq)
            /\ [to |-> Opposite(c.external), msg |-> c.reqs[mt]] \in wire
        BY <3>4 DEF BranchSound
      <3> QED BY <1>3, <3>4, <3>5
    <2> QED BY <2>1, <2>2
  <1>11. ASSUME NEW mt \in Methods, b.rsps[mt] # None
         PROVE  /\ b.rsps[mt].method = mt /\ b.rsps[mt].via = k /\ b.rsps[mt].from = Opposite(b.external)
                /\ [to |-> b.external, msg |-> b.rsps[mt]] \in wire'
    <2>1. branchmap[k] # None
      BY <1>1, <1>6, <1>11 DEF NoBranch
    <2>2. BranchSound(k, BranchFor(m)) /\ BranchFor(m).rsps[mt] # None
      BY <1>6, <1>8, <1>11, <2>1
    <2> DEFINE c == BranchFor(m)
    <2>3. BranchSound(k, c) /\ c.rsps[mt] # None /\ c.rsps[mt] = b.rsps[mt] /\ c.external = b.external
      BY <1>1, <1>6, <2>2
    <2> HIDE DEF c
    <2>4. /\ c.rsps[mt].method = mt /\ c.rsps[mt].via = k /\ c.rsps[mt].from = Opposite(c.external)
          /\ [to |-> c.external, msg |-> c.rsps[mt]] \in wire
      BY <2>3 DEF BranchSound
    <2> QED BY <1>3, <2>3, <2>4
  <1>12. ASSUME NEW j \in Vias, branchmap'[j] # None PROVE BranchSound(j, branchmap[j])'
    <2>1. CASE j = k
      <3>1. branchmap'[j] = b
        BY <1>1, <1>3, <2>1
      <3> QED BY <1>2, <1>9, <1>10, <1>11, <2>1, <3>1 DEF BranchSound
    <2>2. CASE j # k
      <3>1. branchmap'[j] = branchmap[j]
        BY <1>3, <2>2
      <3>2. BranchSound(j, branchmap[j])
        BY <1>12, <3>1 DEF CacheSound
      <3>3. ASSUME NEW c, BranchSound(j, c) PROVE BranchSound(j, c)'
        BY <1>4, <1>5, <3>3, StaysSound
      <3> QED BY <3>1, <3>2, <3>3
    <2> QED BY <2>1, <2>2
  <1> QED BY <1>12 DEF CacheSound

\* An ACK whose handler raises leaves its Branch, old or new.
LEMMA DroppedIsSound ==
  ASSUME side \in Sides, WireOK, AgentsOK, SipOK, CacheSound, UNCHANGED agents,
         NEW m \in Mail, m.kind = "request", m.method = "ACK", OnWire(m),
         SaveRequest(m, BranchFor(m)), wire' = wire
  PROVE  CacheSound'
  <1> DEFINE k == BranchOf(m)
             b == BranchFor(m)
  <1>1. /\ k \in Vias /\ b.external = m.from
        /\ branchmap[k] # None => b = branchmap[k]
        /\ branchmap[k] = None => k = m.via /\ b.cseq = m.seq /\ b.reqs = NoBranch /\ b.rsps = NoBranch
    BY BranchOwner
  <1>2. Relays /\ Mail' = Mail
    <2>1. Relays
      BY SilentRelays
    <2> QED BY <2>1, SameMail DEF Relays, agents
  <1>3. branchmap' = [branchmap EXCEPT ![k] = b] /\ branchmap \in [Vias -> BranchType \cup {None}]
    BY DEF SaveRequest, SipOK
  <1>4. UNCHANGED <<side, allowed>> /\ \A w \in wire : w.to # "mitm" => w \in wire'
    BY DEF agents
  <1>5. \A n \in Mail : Came(n) => Came(n)'
    BY <1>2, CameStays
  <1>6. PICK n \in Mail : n.kind = "request" /\ n.via = m.via /\ Came(n) /\ n.from = m.from /\ n.seq = m.seq
    BY OwnerCame
  <1>7. ASSUME NEW j, NEW c, BranchSound(j, c) PROVE BranchSound(j, c)'
    BY <1>4, <1>5, <1>7, StaysSound
  <1> HIDE DEF k, b
  <1>8. ASSUME NEW j \in Vias, branchmap'[j] # None PROVE BranchSound(j, branchmap[j])'
    <2>1. CASE branchmap[j] # None
      <3>1. branchmap'[j] = branchmap[j]
        BY <1>1, <1>3, <2>1
      <3>2. BranchSound(j, branchmap[j])
        BY <2>1 DEF CacheSound
      <3> QED BY <1>7, <3>1, <3>2
    <2>2. CASE branchmap[j] = None
      <3>1. j = k /\ branchmap'[j] = b
        BY <1>1, <1>3, <1>8, <2>2
      <3>2. \A mt \in Methods : b.reqs[mt] = None /\ b.rsps[mt] = None
        BY <1>1, <2>2, <3>1 DEF NoBranch
      <3>3. n.via = j /\ b.external = n.from /\ b.cseq = n.seq /\ Came(n)'
        BY <1>1, <1>5, <1>6, <2>2, <3>1
      <3> QED BY <1>2, <1>6, <3>1, <3>2, <3>3 DEF BranchSound
    <2> QED BY <2>1, <2>2
  <1> QED BY <1>8 DEF CacheSound

\* A response is kept in its Branch as it is sent on.
LEMMA ResponseIsCached ==
  ASSUME side \in Sides, WireOK, SipOK, CacheSound, UNCHANGED agents, NEW m \in Mail, m.kind = "response", OnWire(m),
         NEW sdp, [m EXCEPT !.sdp = sdp] \in MessageType, Copy(m, [m EXCEPT !.sdp = sdp]),
         Emits(m, [m EXCEPT !.sdp = sdp]), SaveResponse(m, sdp)
  PROVE  CacheSound'
  <1> DEFINE x == [m EXCEPT !.sdp = sdp]
             k == m.via
             b == [branchmap[k] EXCEPT !.rsps[m.method] = x]
  <1>1. x \in MessageType /\ Copy(m, x) /\ Emits(m, x) /\ k \in Vias /\ m.method \in Methods /\ m.from \in Sides
    BY MailKinds DEF ResponseType
  <1>2. branchmap' = IF branchmap[k] = None THEN branchmap ELSE [branchmap EXCEPT ![k] = b]
    BY DEF SaveResponse
  <1>3. x.method = m.method /\ x.from = m.from /\ x.via = m.via
    <2>1. m \in MessageType
      BY DEF Mail
    <2> QED BY <1>1, <2>1, CopyAlike, AlikeFields
  <1> HIDE DEF x
  <1>4. Relays /\ Mail' = Mail
    <2>1. Relays
      BY <1>1, EmitsRelays
    <2> QED BY <2>1, SameMail DEF Relays, agents
  <1>5. wire' = wire \cup {[to |-> Opposite(m.from), msg |-> x]} /\ branchmap \in [Vias -> BranchType \cup {None}]
    BY <1>1 DEF Emits, SipOK
  <1>6. UNCHANGED <<side, allowed>> /\ \A w \in wire : w.to # "mitm" => w \in wire'
    BY <1>5 DEF agents
  <1>7. \A n \in Mail : Came(n) => Came(n)'
    BY <1>4, CameStays
  <1>8. ASSUME NEW j, NEW c, BranchSound(j, c) PROVE BranchSound(j, c)'
    BY <1>6, <1>7, <1>8, StaysSound
  <1>9. ASSUME NEW j \in Vias, branchmap'[j] # None PROVE BranchSound(j, branchmap[j])'
    <2>1. CASE branchmap'[j] = branchmap[j]
      <3>1. BranchSound(j, branchmap[j])
        BY <1>9, <2>1 DEF CacheSound
      <3> QED BY <1>8, <2>1, <3>1
    <2>2. CASE branchmap'[j] # branchmap[j]
      <3>1. j = k /\ branchmap[k] # None /\ branchmap'[j] = b /\ branchmap[k] \in BranchType
        BY <1>1, <1>2, <1>5, <2>2
      <3>2. /\ b.external = branchmap[k].external /\ b.cseq = branchmap[k].cseq /\ b.reqs = branchmap[k].reqs
            /\ b.rsps[m.method] = x /\ \A mt \in Methods \ {m.method} : b.rsps[mt] = branchmap[k].rsps[mt]
        BY <1>1, <3>1 DEF BranchType
      <3> DEFINE c == branchmap[k]
      <3>3. /\ c.external = b.external /\ c.cseq = b.cseq /\ c.reqs = b.reqs /\ b.rsps[m.method] = x
            /\ \A mt \in Methods \ {m.method} : b.rsps[mt] = c.rsps[mt]
            /\ BranchSound(k, c)
        BY <1>1, <3>1, <3>2 DEF CacheSound
      <3> HIDE DEF b, c, k
      <3>4. PICK n \in Mail : n.kind = "request" /\ n.via = k /\ Came(n) /\ c.external = n.from /\ c.cseq = n.seq
        BY <3>3 DEF BranchSound
      <3>5. m.from = Opposite(b.external) /\ b.external = Opposite(m.from)
        <4>1. m.from = Opposite(n.from)
          BY <3>4, BranchSides DEF k
        <4>2. n.from \in Sides
          BY <3>4, MailKinds DEF Sides, far, Opposite
        <4> QED BY <3>3, <3>4, <4>1, <4>2 DEF Sides, Opposite
      <3>6. \E p \in Mail' : p.kind = "request" /\ p.via = k /\ Came(p)' /\ b.external = p.from /\ b.cseq = p.seq
        <4>1. Came(n)'
          BY <1>7, <3>4
        <4> QED BY <1>4, <3>3, <3>4, <4>1
      <3>7. ASSUME NEW mt \in Methods, b.reqs[mt] # None
            PROVE  /\ b.reqs[mt].method = mt /\ b.reqs[mt].from = b.external
                   /\ b.reqs[mt].via = k \/ (mt = "ACK" /\ b.reqs[mt].seq = b.cseq)
                   /\ [to |-> Opposite(b.external), msg |-> b.reqs[mt]] \in wire'
        <4>1. /\ c.reqs[mt].method = mt /\ c.reqs[mt].from = c.external
              /\ c.reqs[mt].via = k \/ (mt = "ACK" /\ c.reqs[mt].seq = c.cseq)
              /\ [to |-> Opposite(c.external), msg |-> c.reqs[mt]] \in wire
          BY <3>3, <3>7, ZenonT(40) DEF BranchSound
        <4> QED BY <1>5, <3>3, <4>1
      <3>8. ASSUME NEW mt \in Methods, b.rsps[mt] # None
            PROVE  /\ b.rsps[mt].method = mt /\ b.rsps[mt].via = k /\ b.rsps[mt].from = Opposite(b.external)
                   /\ [to |-> b.external, msg |-> b.rsps[mt]] \in wire'
        <4>1. CASE mt = m.method
          BY <1>3, <1>5, <3>3, <3>5, <4>1 DEF k
        <4>2. CASE mt # m.method
          <5>1. c.rsps[mt] = b.rsps[mt] /\ c.rsps[mt] # None
            BY <3>3, <3>8, <4>2
          <5>2. /\ c.rsps[mt].method = mt /\ c.rsps[mt].via = k /\ c.rsps[mt].from = Opposite(c.external)
                /\ [to |-> c.external, msg |-> c.rsps[mt]] \in wire
            BY <3>3, <5>1 DEF BranchSound
          <5> QED BY <1>5, <3>3, <5>1, <5>2
        <4> QED BY <4>1, <4>2
      <3> QED BY <3>1, <3>6, <3>7, <3>8 DEF BranchSound
    <2> QED BY <2>1, <2>2
  <1> QED BY <1>9 DEF CacheSound

----------------------------------------------------------------------------
(* What came is not handled a second time.                                 *)

\* The index by CSeq number leads an ACK of the caller to the Branch of its
\* INVITE, or to its own.
Homes == \A i \in Tries : \A k \in Vias :
  branchmap[k] # None /\ branchmap[k].external = side /\ branchmap[k].cseq = i =>
    /\ Seen(AckFail(i)) => k = <<"inv", i>>
    /\ Seen(AckOk(i)) => k \in {<<"inv", i>>, <<"ack", i>>}

LEMMA HomesSound == side \in Sides /\ AgentsOK /\ CacheSound => Homes
  <1> SUFFICES ASSUME side \in Sides, AgentsOK, CacheSound, NEW i \in Tries, NEW k \in Vias,
                      branchmap[k] # None, branchmap[k].external = side, branchmap[k].cseq = i
               PROVE  /\ Seen(AckFail(i)) => k = <<"inv", i>>
                      /\ Seen(AckOk(i)) => k \in {<<"inv", i>>, <<"ack", i>>}
    BY DEF Homes
  <1>1. PICK p \in Mail : p.kind = "request" /\ p.via = k /\ Came(p) /\ p.from = side /\ p.seq = i
    BY DEF CacheSound, BranchSound
  <1>2. PICK j \in Tries : p \in {Invite(j), Cancel(j), AckFail(j), AckOk(j), Bye(j)}
    BY <1>1, MailKinds
  <1>3. /\ Invite(j).seq = j /\ Cancel(j).seq = j /\ AckFail(j).seq = j /\ AckOk(j).seq = j /\ Bye(j).seq = j + 1
        /\ Invite(j).via = <<"inv", j>> /\ Cancel(j).via = <<"inv", j>> /\ AckFail(j).via = <<"inv", j>>
        /\ AckOk(j).via = <<"ack", j>>
    BY RequestFields DEF Says
  <1>4. CallerSentFor(i) /\ CallerSentFor(j) /\ caller.try \in Tries
    BY AgentTypes DEF AgentsOK, CallerSentOK
  <1>5. /\ caller.st = "challenged" => caller.answer = "none"
        /\ Seen(AckFail(i)) => (i = 1 /\ caller.try = 2) \/ (i = caller.try /\ caller.answer = "none")
        /\ Seen(AckOk(i)) => i = caller.try
    BY <1>4 DEF AgentsOK, CallerOK, CallerSentFor
  <1>6. CASE p \in {Invite(j), Cancel(j), AckFail(j)}
    BY <1>1, <1>3, <1>6
  <1>7. CASE p = AckOk(j)
    <2>1. j = i /\ k = <<"ack", i>>
      BY <1>1, <1>3, <1>7
    <2>2. i = caller.try /\ caller.answer # "none"
      <3>1. AckOk(i) # HeldAck /\ (AckOk(i) = AckOk(caller.try) => i = caller.try)
        BY <1>4, RequestFields DEF Says, far, Opposite, Sides
      <3>2. Passed(AckOk(i)) \/ (caller.answer # "none" /\ AckOk(i) = AckOk(caller.try))
        BY <1>1, <1>7, <2>1, <3>1 DEF Came
      <3> QED BY <1>4, <3>1, <3>2 DEF CallerSentFor, Seen
    <2>3. ~Seen(AckFail(i))
      BY <1>5, <2>2 DEF Tries
    <2> QED BY <2>1, <2>3
  <1>8. CASE p = Bye(j)
    <2>1. j = 1 /\ i = 2
      BY <1>1, <1>3, <1>8 DEF Tries
    <2>2. Passed(Bye(j))
      <3>1. Bye(j) # HeldAck /\ Bye(j) # AckOk(caller.try)
        BY <1>4, RequestFields DEF Says
      <3> QED BY <1>1, <1>8, <3>1 DEF Came
    <2>3. caller.try = 1
      BY <1>4, <2>1, <2>2 DEF CallerSentFor, Seen
    <2> QED BY <1>5, <2>1, <2>3
  <1> QED BY <1>2, <1>6, <1>7, <1>8

LEMMA ForwardedAt ==
  \A n : n.method \in Methods =>
    (Forwarded(n) <=> branchmap[BranchOf(n)] # None /\ branchmap[BranchOf(n)].reqs[n.method] # None)
  BY DEF Forwarded, BranchFor, NoBranch

\* No Branch is lost, and one that is opened is that of the message.
Grows ==
  /\ \A k \in Vias : branchmap[k] # None =>
       /\ branchmap'[k] # None
       /\ \A mt \in Methods : branchmap[k].reqs[mt] # None => branchmap'[k].reqs[mt] # None
  /\ \A s \in Sides, i \in Seqs : seq2branch[s][i] # None => seq2branch'[s][i] # None
  /\ \A k \in Vias : branchmap[k] = None /\ branchmap'[k] # None =>
       \E m \in Mail : m.kind = "request" /\ BranchOf(m) = k /\ m.via = k

\* The only request on an ACK's own branch is that ACK.
LEMMA OwnBranch ==
  ASSUME side \in Sides, NEW m \in Mail, m.kind = "request", NEW i \in Tries, m.via = <<"ack", i>>
  PROVE  m = AckOk(i)
  <1>1. AckOk(i) \in Mail /\ AckOk(i).kind = "request" /\ AckOk(i).via = <<"ack", i>> /\ AckOk(i).from = side
    BY Named, RequestFields DEF Says
  <1>2. m.from = side
    BY <1>1, BranchSides
  <1>3. PICK j \in Tries : m \in {Invite(j), Cancel(j), AckFail(j), AckOk(j), Bye(j)}
    BY <1>2, MailKinds
  <1>4. /\ Invite(j).via = <<"inv", j>> /\ Cancel(j).via = <<"inv", j>> /\ AckFail(j).via = <<"inv", j>>
        /\ AckOk(j).via = <<"ack", j>> /\ Bye(j).via = <<"bye", j>>
    BY RequestFields DEF Says
  <1>5. m = AckOk(j) /\ i = j
    BY <1>3, <1>4
  <1> QED BY <1>5

\* What is kept stays kept as zsipos goes on.
LEMMA KeptStays ==
  ASSUME side \in Sides, side' = side, SipOK, AgentsOK, CacheSound, SipOK', AgentsOK', CacheSound', Grows,
         NEW n \in Mail, Kept(n), OnWire(n), OnWire(n)', Forwarded(n)
  PROVE  Forwarded(n)'
  <1>1. /\ n \in RequestType /\ n.method \in Methods /\ n.via \in Vias /\ n.from \in Sides /\ n.seq \in Seqs
        /\ n.kind = "request"
    <2>1. n.kind = "request"
      BY KeptKinds
    <2> QED BY <2>1, MailKinds DEF RequestType
  <1>2. /\ branchmap[BranchOf(n)] # None /\ branchmap[BranchOf(n)].reqs[n.method] # None
        /\ BranchOf(n) \in Vias
    BY <1>1, ForwardedAt, BranchOwner
  <1>3. (Forwarded(n))' <=> branchmap'[(BranchOf(n))'] # None /\ branchmap'[(BranchOf(n))'].reqs[n.method] # None
    BY <1>1 DEF Forwarded, BranchFor, NoBranch
  <1>4. CASE BranchOf(n) = n.via
    <2>1. branchmap'[n.via] # None /\ branchmap'[n.via].reqs[n.method] # None
      BY <1>1, <1>2, <1>4 DEF Grows
    <2>2. BranchOf(n)' = n.via
      BY <2>1 DEF BranchOf
    <2> QED BY <1>3, <2>1, <2>2
  <1>5. CASE BranchOf(n) # n.via
    <2>1. /\ branchmap[n.via] = None /\ n.method = "ACK" /\ seq2branch[n.from][n.seq] = BranchOf(n)
          /\ seq2branch[n.from][n.seq] # None
      BY <1>5 DEF BranchOf
    <2>2. branchmap[BranchOf(n)].external = n.from /\ branchmap[BranchOf(n)].cseq = n.seq
      BY <1>1, <2>1 DEF SipOK, BranchIndexSound
    <2>3. n.from = side /\ \E i \in Tries : n \in {AckFail(i), AckOk(i)}
      <3>1. n.from = side
        BY <2>1, KeptKinds
      <3>2. \A i \in Tries : Invite(i).method = "INVITE" /\ Hold.method = "INVITE"
        BY RequestFields DEF Says
      <3> QED BY <2>1, <3>1, <3>2 DEF Kept, Tries
    <2>4. PICK i \in Tries : n \in {AckFail(i), AckOk(i)}
      BY <2>3
    <2>5. n.seq = i /\ AckFail(i).via = <<"inv", i>> /\ AckOk(i).via = <<"ack", i>> /\ Seen(n)
      BY <2>4, RequestFields DEF Says, Seen
    <2>6. n = AckOk(i) /\ BranchOf(n) = <<"inv", i>> /\ n.via = <<"ack", i>>
      <3>1. /\ Seen(AckFail(i)) => BranchOf(n) = <<"inv", i>>
            /\ Seen(AckOk(i)) => BranchOf(n) \in {<<"inv", i>>, <<"ack", i>>}
        BY <1>2, <2>2, <2>3, <2>5, HomesSound DEF Homes
      <3> QED BY <1>5, <2>4, <2>5, <3>1
    <2>7. branchmap'[n.via] = None
      <3>1. SUFFICES ASSUME branchmap'[n.via] # None PROVE FALSE
        OBVIOUS
      <3>2. PICK m \in Mail : m.kind = "request" /\ BranchOf(m) = n.via /\ m.via = n.via
        BY <1>1, <2>1, <3>1 DEF Grows
      <3>3. m = n
        BY <2>6, <3>2, OwnBranch
      <3> QED BY <1>5, <3>2, <3>3
    <2>8. (BranchOf(n))' = <<"inv", i>>
      <3> DEFINE h == seq2branch'[side][i]
      <3>1. h # None /\ h = (BranchOf(n))' /\ h \in Vias /\ side' \in Sides /\ i \in Seqs
        <4>1. side \in Sides /\ i \in Seqs /\ seq2branch[side][i] # None
          BY <1>1, <2>1, <2>3, <2>5
        <4>2. seq2branch'[side][i] # None
          BY <4>1 DEF Grows
        <4>3. seq2branch' \in [Sides -> [Seqs -> Vias \cup {None}]]
          BY DEF SipOK
        <4> QED BY <1>1, <2>1, <2>3, <2>5, <2>7, <4>1, <4>2, <4>3 DEF BranchOf
      <3>2. branchmap'[h] # None /\ branchmap'[h].external = side /\ branchmap'[h].cseq = i
        BY <3>1 DEF SipOK, BranchIndexSound
      <3>3. Homes'
        <4>1. (side \in Sides /\ AgentsOK /\ CacheSound)'
          BY <3>1
        <4> QED BY <4>1, HomesSound, PTL
      <3>4. (Seen(AckOk(i)))'
        <4>1. AckOk(i)' = AckOk(i)
          BY DEF AckOk, Req
        <4> QED BY <2>6, <4>1 DEF Seen, OnWire
      <3>5. h \in {<<"inv", i>>, <<"ack", i>>}
        BY <3>1, <3>2, <3>3, <3>4 DEF Homes
      <3> QED BY <2>6, <2>7, <3>1, <3>2, <3>5
    <2> QED BY <1>1, <1>2, <1>3, <2>6, <2>8 DEF Grows
  <1> QED BY <1>4, <1>5

\* A request that is kept in its Branch is known to have been forwarded.
LEMMA SavedIsForwarded ==
  ASSUME side \in Sides, SipOK, CacheSound, NEW m \in Mail, m.kind = "request", NEW x \in RequestType,
         SaveRequest(m, [BranchFor(m) EXCEPT !.reqs[m.method] = x])
  PROVE  (Forwarded(m))'
  <1> DEFINE k == BranchOf(m)
             b == [BranchFor(m) EXCEPT !.reqs[m.method] = x]
  <1>1. /\ m \in RequestType /\ k \in Vias /\ m.method \in Methods /\ BranchFor(m) \in BranchType
        /\ k # m.via => branchmap[m.via] = None /\ m.method = "ACK" /\ seq2branch[m.from][m.seq] = k /\ branchmap[k] # None
    BY BranchOwner
  <1>2. /\ branchmap' = [branchmap EXCEPT ![k] = b] /\ branchmap \in [Vias -> BranchType \cup {None}]
        /\ branchmap[k] # None => seq2branch' = seq2branch
    BY DEF SaveRequest, SipOK
  <1>3. b.reqs[m.method] = x /\ x # None /\ b # None /\ k # None
    <2>1. x # None /\ k # None
      BY <1>1, NoneAssumption
    <2>2. b.reqs[m.method] = x
      BY <1>1 DEF BranchType
    <2>3. b # None
      <3>1. b \in BranchType
        BY <1>1 DEF BranchType
      <3> QED BY <3>1, NoneAssumption
    <2> QED BY <2>1, <2>2, <2>3
  <1> HIDE DEF b
  <1>4. branchmap'[k] = b /\ branchmap'[k] # None /\ branchmap'[k].reqs[m.method] # None
    BY <1>1, <1>2, <1>3
  <1>5. (BranchOf(m))' = k
    <2>1. CASE k = m.via
      BY <1>4, <2>1 DEF BranchOf
    <2>2. CASE k # m.via
      <3>1. branchmap'[m.via] = None /\ seq2branch'[m.from][m.seq] = k
        BY <1>1, <1>2, <2>2
      <3> HIDE DEF k
      <3> QED BY <1>1, <1>3, <2>2, <3>1 DEF BranchOf, RequestType
    <2> QED BY <2>1, <2>2
  <1>6. (Forwarded(m))' <=> branchmap'[(BranchOf(m))'] # None /\ branchmap'[(BranchOf(m))'].reqs[m.method] # None
    BY <1>1 DEF Forwarded, BranchFor, NoBranch
  <1> HIDE DEF k
  <1> QED BY <1>4, <1>5, <1>6

----------------------------------------------------------------------------
(* Every step keeps what is known of datagrams, user agents and branches.  *)

LEMMA RequestGrows ==
  ASSUME side \in Sides, SipOK, CacheSound, NEW m \in Mail, m.kind = "request", NEW b \in BranchType,
         \A mt \in Methods : BranchFor(m).reqs[mt] # None => b.reqs[mt] # None, SaveRequest(m, b)
  PROVE  Grows
  <1> DEFINE k == BranchOf(m)
  <1>1. /\ k \in Vias /\ m.from \in Sides /\ m.seq \in Seqs
        /\ branchmap[k] # None => BranchFor(m) = branchmap[k]
        /\ branchmap[k] = None => k = m.via
        /\ b # None /\ k # None
    BY BranchOwner, NoneAssumption DEF RequestType
  <1>2. /\ branchmap' = [branchmap EXCEPT ![k] = b] /\ branchmap \in [Vias -> BranchType \cup {None}]
        /\ seq2branch' = (IF branchmap[k] # None THEN seq2branch ELSE [seq2branch EXCEPT ![m.from][m.seq] = k])
        /\ seq2branch \in [Sides -> [Seqs -> Vias \cup {None}]]
    BY DEF SaveRequest, SipOK
  <1>3. k = BranchOf(m)
    OBVIOUS
  <1> HIDE DEF k
  <1>4. ASSUME NEW j \in Vias, branchmap[j] # None
        PROVE  /\ branchmap'[j] # None
               /\ \A mt \in Methods : branchmap[j].reqs[mt] # None => branchmap'[j].reqs[mt] # None
    <2>1. CASE j = k
      <3>1. branchmap'[j] = b /\ BranchFor(m) = branchmap[j]
        BY <1>1, <1>2, <1>4, <2>1
      <3> QED BY <1>1, <3>1
    <2>2. CASE j # k
      <3>1. branchmap'[j] = branchmap[j]
        BY <1>2, <2>2
      <3> QED BY <1>4, <3>1
    <2> QED BY <2>1, <2>2
  <1>5. ASSUME NEW s \in Sides, NEW i \in Seqs, seq2branch[s][i] # None PROVE seq2branch'[s][i] # None
    BY <1>1, <1>2, <1>5
  <1>6. ASSUME NEW j \in Vias, branchmap[j] = None, branchmap'[j] # None
        PROVE  \E n \in Mail : n.kind = "request" /\ BranchOf(n) = j /\ n.via = j
    BY <1>1, <1>2, <1>3, <1>6
  <1> QED BY <1>4, <1>5, <1>6 DEF Grows

LEMMA ResponseGrows ==
  ASSUME side \in Sides, SipOK, NEW m \in Mail, m.kind = "response", NEW sdp,
         [m EXCEPT !.sdp = sdp] \in ResponseType, SaveResponse(m, sdp)
  PROVE  Grows
  <1> DEFINE k == m.via
             b == [branchmap[k] EXCEPT !.rsps[m.method] = [m EXCEPT !.sdp = sdp]]
  <1>1. k \in Vias /\ branchmap \in [Vias -> BranchType \cup {None}]
    BY MailKinds DEF ResponseType, SipOK
  <1>2. /\ branchmap' = (IF branchmap[k] = None THEN branchmap ELSE [branchmap EXCEPT ![k] = b])
        /\ UNCHANGED seq2branch
    BY DEF SaveResponse
  <1>3. branchmap[k] # None => b \in BranchType /\ b.reqs = branchmap[k].reqs /\ b # None
    <2>1. ASSUME branchmap[k] # None PROVE b \in BranchType /\ b.reqs = branchmap[k].reqs
      <3>1. branchmap[k] \in BranchType
        BY <1>1, <2>1
      <3> QED BY <3>1 DEF BranchType
    <2> QED BY <2>1, NoneAssumption
  <1> HIDE DEF b, k
  <1>4. ASSUME NEW j \in Vias, branchmap[j] # None
        PROVE  /\ branchmap'[j] # None
               /\ \A mt \in Methods : branchmap[j].reqs[mt] # None => branchmap'[j].reqs[mt] # None
    <2>1. CASE j = k
      <3>1. branchmap'[j] = b
        BY <1>1, <1>2, <1>4, <2>1
      <3> QED BY <1>3, <1>4, <2>1, <3>1
    <2>2. CASE j # k
      <3>1. branchmap'[j] = branchmap[j]
        BY <1>1, <1>2, <2>2
      <3> QED BY <1>4, <3>1
    <2> QED BY <2>1, <2>2
  <1>5. \A j \in Vias : branchmap[j] = None => branchmap'[j] = None
    BY <1>1, <1>2
  <1> QED BY <1>2, <1>4, <1>5 DEF Grows

\* Which messages are kept does not change.
LEMMA SameKept ==
  ASSUME UNCHANGED <<side, allowed>>
  PROVE  \A n : Kept(n)' <=> Kept(n)
  <1>1. Hold' = Hold /\ \A i \in Tries : Invite(i)' = Invite(i) /\ AckFail(i)' = AckFail(i) /\ AckOk(i)' = AckOk(i)
    BY SameMail
  <1> QED BY <1>1 DEF Kept, Tries

LEMMA KeptAfter ==
  ASSUME side \in Sides, SipOK, AgentsOK, CacheSound, KeptOK, SipOK', AgentsOK', CacheSound', Relays, Grows,
         \A n \in Mail : Passed(n)' /\ ~Passed(n) /\ n.kind = "request" => (Forwarded(n))'
  PROVE  KeptOK'
  <1>1. UNCHANGED <<side, allowed>> /\ side' = side /\ Mail' = Mail /\ \A n : Kept(n)' <=> Kept(n)
    <2>1. UNCHANGED <<side, allowed>>
      BY DEF Relays, agents
    <2> QED BY <2>1, SameMail, SameKept
  <1>2. ASSUME NEW n \in Mail, Kept(n), OnWire(n)', Passed(n)' PROVE (Forwarded(n))'
    <2>1. OnWire(n) /\ n.kind = "request"
      BY <1>2, KeptKinds DEF Relays
    <2>2. CASE Passed(n)
      <3>1. Forwarded(n)
        BY <1>2, <2>1, <2>2 DEF KeptOK
      <3> QED BY <1>1, <1>2, <2>1, <3>1, KeptStays
    <2>3. CASE ~Passed(n)
      BY <1>2, <2>1, <2>3
    <2> QED BY <2>2, <2>3
  <1> QED BY <1>1, <1>2 DEF KeptOK

\* A datagram at zsipos is one of the call's messages.
LEMMA AtMitm ==
  ASSUME WireOK, NEW w \in wire, w.to = "mitm"
  PROVE  w.msg \in Mail /\ OnWire(w.msg)
  <1>1. PICK m \in Mail : \/ w = [to |-> "mitm", msg |-> m]
                          \/ \E x \in MessageType : Copy(m, x) /\ w = [to |-> Opposite(m.from), msg |-> x]
    BY DEF WireOK
  <1>2. Opposite(m.from) # "mitm"
    BY DEF Opposite
  <1>3. w = [to |-> "mitm", msg |-> m]
    BY <1>1, <1>2
  <1> QED BY <1>3 DEF OnWire

\* How the arrival of m can end.
Arrives(m) ==
  \/ Absorbed
  \/ m.kind = "request" /\ ~Forwarded(m) /\ (Passes(m) \/ Handles(m))
  \/ m.kind = "response" /\ (PassesAnswer(m) \/ HandlesAnswer(m))

LEMMA Delivers ==
  ASSUME Base, Deliver
  PROVE  /\ UNCHANGED agents /\ phoneInfoValid' = TRUE /\ IInv'
         /\ \E m \in Mail : OnWire(m) /\ Arrives(m)
  <1>1. UNCHANGED agents /\ side \in Sides /\ WireOK /\ SipOK /\ CallsOK
    BY DEF Deliver, Base, Setting, IInv
  <1>2. PICK w \in wire : /\ w.to = "mitm"
                          /\ \/ w.msg.kind = "request" /\ Request(w.msg)
                             \/ w.msg.kind = "response" /\ Response(w.msg)
    BY DEF Deliver
  <1>3. wire' = wire \cup {[to |-> o.to, msg |-> o.msg] : o \in out'}
    BY DEF Deliver
  <1>4. w.msg \in Mail /\ OnWire(w.msg)
    BY <1>1, <1>2, AtMitm
  <1>5. CASE w.msg.kind = "request" /\ Request(w.msg)
    <2>1. phoneInfoValid' = TRUE /\ Arrives(w.msg)
      BY <1>3, <1>4, <1>5, RequestArrives DEF Arrives
    <2>2. w.msg \in RequestType
      BY <1>1, <1>4, <1>5, MailKinds
    <2>3. IInv'
      BY <1>1, <1>5, <2>2, RequestKeepsSip, RequestKeepsCalls DEF IInv
    <2> QED BY <1>1, <1>4, <2>1, <2>3
  <1>6. CASE w.msg.kind = "response" /\ Response(w.msg)
    <2>1. phoneInfoValid' = TRUE /\ Arrives(w.msg)
      BY <1>3, <1>4, <1>6, ResponseArrives DEF Arrives
    <2>2. w.msg \in ResponseType
      BY <1>1, <1>4, <1>6, MailKinds
    <2>3. IInv'
      BY <1>1, <1>6, <2>2, ResponseKeepsSip, ResponseKeepsCalls DEF IInv
    <2> QED BY <1>1, <1>4, <2>1, <2>3
  <1> QED BY <1>2, <1>5, <1>6

\* The same agents and transactions, and no datagram more or less.
LEMMA StillBase ==
  ASSUME Base, UNCHANGED <<sip, wire, agents>>, phoneInfoValid' = TRUE, IInv', OnlyCid'
  PROVE  Base'
  <1>1. /\ Setting /\ side \in Sides /\ WireOK /\ AgentsOK /\ CacheSound /\ KeptOK
        /\ UNCHANGED <<side, allowed, caller, callee, wire, branchmap, seq2branch>> /\ UNCHANGED agents
    BY DEF Base, Setting, agents, sip
  <1>2. Relays /\ \A n \in Mail : (Passed(n)' <=> Passed(n)) /\ (OnWire(n)' <=> OnWire(n))
    BY <1>1, SilentRelays
  <1>3. AgentsOK' /\ WireOK' /\ Mail' = Mail /\ \A n : Kept(n)' <=> Kept(n)
    BY <1>1, <1>2, RelaysKeeps, SameMail, SameKept DEF Relays
  <1>4. \A n \in Mail : Came(n) => Came(n)'
    BY <1>2, CameStays
  <1>5. ASSUME NEW k, NEW b, BranchSound(k, b) PROVE BranchSound(k, b)'
    BY <1>1, <1>4, <1>5, StaysSound
  <1>6. CacheSound'
    BY <1>1, <1>5 DEF CacheSound
  <1>7. \A n : Forwarded(n)' <=> Forwarded(n)
    BY <1>1 DEF Forwarded, BranchFor, BranchOf
  <1>8. KeptOK'
    BY <1>1, <1>2, <1>3, <1>7 DEF KeptOK
  <1>9. Setting'
    BY <1>1 DEF Setting
  <1> QED BY <1>3, <1>6, <1>8, <1>9 DEF Base

\* A message that is sent on.
LEMMA SentOnBase ==
  ASSUME Base, UNCHANGED agents, phoneInfoValid' = TRUE, IInv', OnlyCid',
         NEW m \in Mail, OnWire(m), NEW sdp, [m EXCEPT !.sdp = sdp] \in MessageType,
         Copy(m, [m EXCEPT !.sdp = sdp]), Emits(m, [m EXCEPT !.sdp = sdp]),
         \/ /\ m.kind = "request"
            /\ SaveRequest(m, [BranchFor(m) EXCEPT !.reqs[m.method] = [m EXCEPT !.sdp = sdp]])
         \/ m.kind = "response" /\ SaveResponse(m, sdp)
  PROVE  Base'
  <1> DEFINE x == [m EXCEPT !.sdp = sdp]
  <1>1. /\ Setting /\ side \in Sides /\ WireOK /\ AgentsOK /\ CacheSound /\ KeptOK /\ SipOK /\ SipOK'
        /\ UNCHANGED <<side, allowed>>
    BY DEF Base, Setting, agents, IInv
  <1>2. Relays /\ \A n \in Mail : Passed(n)' <=> Passed(n) \/ n = m
    BY <1>1, EmitsRelays
  <1>3. AgentsOK' /\ WireOK' /\ Setting'
    BY <1>1, <1>2, RelaysKeeps DEF Relays, Setting
  <1>4. CASE m.kind = "request"
    <2>1. x \in RequestType /\ SaveRequest(m, [BranchFor(m) EXCEPT !.reqs[m.method] = x])
      <3>1. x.kind = "request"
        BY <1>1, <1>4, CopyAlike, AlikeFields DEF Mail
      <3> QED BY <1>4, <3>1 DEF MessageType, ResponseType
    <2>2. CacheSound'
      BY <1>1, <1>4, <2>1, RequestIsCached
    <2>3. Grows
      <3>1. BranchFor(m) \in BranchType /\ m.method \in Methods
        BY <1>1, <1>4, BranchOwner
      <3>2. /\ [BranchFor(m) EXCEPT !.reqs[m.method] = x] \in BranchType
            /\ \A mt \in Methods : BranchFor(m).reqs[mt] # None =>
                 [BranchFor(m) EXCEPT !.reqs[m.method] = x].reqs[mt] # None
        <4>1. x # None
          BY <2>1, NoneAssumption
        <4> HIDE DEF x
        <4> QED BY <2>1, <3>1, <4>1 DEF BranchType
      <3> QED BY <1>1, <1>4, <2>1, <3>2, RequestGrows
    <2>4. (Forwarded(m))'
      BY <1>1, <1>4, <2>1, SavedIsForwarded
    <2>5. ASSUME NEW n \in Mail, Passed(n)', ~Passed(n) PROVE (Forwarded(n))'
      <3>1. n = m
        BY <1>2, <2>5
      <3> QED BY <2>4, <3>1
    <2>6. KeptOK'
      BY <1>1, <1>2, <1>3, <2>2, <2>3, <2>5, KeptAfter
    <2> QED BY <1>3, <2>2, <2>6 DEF Base
  <1>5. CASE m.kind = "response"
    <2>1. x \in ResponseType /\ SaveResponse(m, sdp)
      <3>1. x.kind = "response"
        BY <1>1, <1>5, CopyAlike, AlikeFields DEF Mail
      <3> QED BY <1>5, <3>1 DEF MessageType, RequestType
    <2>2. CacheSound'
      BY <1>1, <1>5, <2>1, ResponseIsCached
    <2>3. Grows
      BY <1>1, <1>5, <2>1, ResponseGrows
    <2>4. \A n \in Mail : ~(Passed(n)' /\ ~Passed(n) /\ n.kind = "request")
      BY <1>2, <1>5
    <2>5. KeptOK'
      BY <1>1, <1>2, <1>3, <2>2, <2>3, <2>4, KeptAfter
    <2> QED BY <1>3, <2>2, <2>5 DEF Base
  <1> QED BY <1>4, <1>5

\* An ACK whose handler raises.
LEMMA DroppedBase ==
  ASSUME Base, UNCHANGED agents, phoneInfoValid' = TRUE, IInv', OnlyCid',
         NEW m \in Mail, OnWire(m), m.kind = "request", m.method = "ACK",
         SaveRequest(m, BranchFor(m)), wire' = wire
  PROVE  Base'
  <1>1. /\ Setting /\ side \in Sides /\ WireOK /\ AgentsOK /\ CacheSound /\ KeptOK /\ SipOK /\ SipOK'
        /\ UNCHANGED <<side, allowed>>
    BY DEF Base, Setting, agents, IInv
  <1>2. Relays /\ \A n \in Mail : Passed(n)' <=> Passed(n)
    BY <1>1, SilentRelays
  <1>3. AgentsOK' /\ WireOK' /\ Setting'
    BY <1>1, <1>2, RelaysKeeps DEF Relays, Setting
  <1>4. CacheSound'
    BY <1>1, DroppedIsSound
  <1>5. Grows
    <2>1. BranchFor(m) \in BranchType
      BY <1>1, BranchOwner
    <2> QED BY <1>1, <2>1, RequestGrows
  <1>6. KeptOK'
    BY <1>1, <1>2, <1>3, <1>4, <1>5, KeptAfter
  <1> QED BY <1>3, <1>4, <1>6 DEF Base

\* The call map holds no other call.
LEMMA ApplyOnlyCid ==
  ASSUME OnlyCid, CallsOK, NEW r, Apply(Cid, r)
  PROVE  OnlyCid' /\ callmap'[Cid] = r.call
  BY CallAssumption DEF Apply, OnlyCid, CallsOK

LEMMA DeliverBase ==
  ASSUME Base, Deliver
  PROVE  Base'
  <1>1. UNCHANGED agents /\ phoneInfoValid' = TRUE /\ IInv'
    BY Delivers
  <1>2. PICK m \in Mail : OnWire(m) /\ Arrives(m)
    BY Delivers
  <1>3. /\ side \in Sides /\ OnlyCid /\ CallsOK /\ m \in MessageType
        /\ m.kind = "request" <=> m \in RequestType
        /\ m.kind = "response" <=> m \in ResponseType
    BY MailKinds DEF Base, Setting, IInv, Mail
  <1>4. UNCHANGED cc => OnlyCid'
    BY <1>3 DEF OnlyCid, cc
  <1>5. [m EXCEPT !.sdp = m.sdp] = m
    BY <1>3 DEF MessageType, RequestType, ResponseType
  <1>6. CASE Absorbed
    BY <1>1, <1>4, <1>6, StillBase DEF Absorbed
  <1>7. CASE m.kind = "request" /\ Passes(m)
    <2>1. /\ SaveRequest(m, [BranchFor(m) EXCEPT !.reqs[m.method] = [m EXCEPT !.sdp = m.sdp]])
          /\ Emits(m, [m EXCEPT !.sdp = m.sdp]) /\ OnlyCid'
      BY <1>4, <1>5, <1>7 DEF Passes
    <2>2. Copy(m, [m EXCEPT !.sdp = m.sdp]) /\ [m EXCEPT !.sdp = m.sdp] \in MessageType
      BY <1>3, <1>5 DEF Copy
    <2> QED BY <1>1, <1>2, <1>7, <2>1, <2>2, SentOnBase
  <1>8. CASE m.kind = "response" /\ PassesAnswer(m)
    <2>1. SaveResponse(m, m.sdp) /\ Emits(m, [m EXCEPT !.sdp = m.sdp]) /\ OnlyCid'
      BY <1>4, <1>5, <1>8 DEF PassesAnswer
    <2>2. Copy(m, [m EXCEPT !.sdp = m.sdp]) /\ [m EXCEPT !.sdp = m.sdp] \in MessageType
      BY <1>3, <1>5 DEF Copy
    <2> QED BY <1>1, <1>2, <1>8, <2>1, <2>2, SentOnBase
  <1>9. CASE m.kind = "request" /\ Handles(m)
    <2> DEFINE r == CallRequest(CallForRequest(m), m)
    <2>1. CallForRequest(m) \in CallType
      BY <1>3, <1>9, CallForRequestType
    <2>2. (r.ok => Copy(m, [m EXCEPT !.sdp = r.sdp])) /\ (~r.ok => m.method = "ACK")
      BY <1>3, <1>9, <2>1, SendsCopy
    <2>3. /\ Apply(Cid, r)
          /\ \/ r.ok /\ SaveRequest(m, [BranchFor(m) EXCEPT !.reqs[m.method] = [m EXCEPT !.sdp = r.sdp]])
                     /\ Emits(m, [m EXCEPT !.sdp = r.sdp])
             \/ ~r.ok /\ SaveRequest(m, BranchFor(m)) /\ wire' = wire
      BY <1>9 DEF Handles
    <2> HIDE DEF r
    <2>4. OnlyCid'
      BY <1>3, <2>3, ApplyOnlyCid
    <2>5. CASE r.ok
      <3>1. [m EXCEPT !.sdp = r.sdp] \in MessageType
        BY <1>3, <2>2, <2>5, CopyAlike
      <3> QED BY <1>1, <1>2, <1>9, <2>2, <2>3, <2>4, <2>5, <3>1, SentOnBase
    <2>6. CASE ~r.ok
      BY <1>1, <1>2, <1>9, <2>2, <2>3, <2>4, <2>6, DroppedBase
    <2> QED BY <2>5, <2>6
  <1>10. CASE m.kind = "response" /\ HandlesAnswer(m)
    <2> DEFINE r == CallResponse(Call, m)
    <2>1. Call \in CallType
      BY <1>3, <1>10, CallAssumption DEF HandlesAnswer, CallsOK, Call
    <2>2. r.ok => Copy(m, [m EXCEPT !.sdp = r.sdp])
      BY <1>3, <1>10, <2>1, SendsCopy
    <2>3. /\ Apply(Cid, r)
          /\ \/ r.ok /\ SaveResponse(m, r.sdp) /\ Emits(m, [m EXCEPT !.sdp = r.sdp])
             \/ ~r.ok /\ UNCHANGED sip /\ wire' = wire
      BY <1>10 DEF HandlesAnswer
    <2> HIDE DEF r
    <2>4. OnlyCid'
      BY <1>3, <2>3, ApplyOnlyCid
    <2>5. CASE r.ok
      <3>1. [m EXCEPT !.sdp = r.sdp] \in MessageType
        BY <1>3, <2>2, <2>5, CopyAlike
      <3> QED BY <1>1, <1>2, <1>10, <2>2, <2>3, <2>4, <2>5, <3>1, SentOnBase
    <2>6. CASE ~r.ok
      BY <1>1, <2>3, <2>4, <2>6, StillBase
    <2> QED BY <2>5, <2>6
  <1> QED BY <1>2, <1>6, <1>7, <1>8, <1>9, <1>10 DEF Arrives

\* What came through is as before.
NothingNew ==
  /\ \A n \in Mail : Passed(n)' <=> Passed(n)
  /\ \A i \in Tries : (Redirected(i)' <=> Redirected(i)) /\ (Unredirected(i)' <=> Unredirected(i))

\* A Branch is deleted once nothing is left of what it absorbed.
LEMMA ExpireBase ==
  ASSUME Base, NEW k \in Vias, ExpireBranch(k)
  PROVE  Base' /\ UNCHANGED <<cc, agents>> /\ Relays /\ NothingNew
  <1> DEFINE b == branchmap[k]
  <1>1. /\ Setting /\ side \in Sides /\ WireOK /\ AgentsOK /\ CacheSound /\ KeptOK /\ SipOK /\ CallsOK /\ OnlyCid
        /\ UNCHANGED <<side, allowed>> /\ UNCHANGED agents /\ UNCHANGED cc /\ phoneInfoValid' = TRUE
        /\ b # None /\ b \in BranchType /\ BranchTimedout(k)
    <2>1. Setting /\ SipOK /\ CallsOK
      BY DEF Base, IInv
    <2>2. UNCHANGED agents /\ BranchTimedout(k)
      BY DEF ExpireBranch
    <2>3. b # None /\ b \in BranchType
      BY <2>1, <2>2 DEF BranchTimedout, SipOK
    <2> QED BY <2>1, <2>2, <2>3 DEF Base, Setting, agents, BranchTimedout
  <1>2. /\ branchmap' = [branchmap EXCEPT ![k] = None]
        /\ seq2branch' = [seq2branch EXCEPT ![b.external][b.cseq] = None]
    BY <1>1 DEF BranchTimedout
  <1>3. /\ wire' \subseteq wire /\ \A w \in wire : w.to # "mitm" => w \in wire'
        /\ \A n \in Mail : n.kind = "request" /\ OnWire(n)' =>
             n.via # k /\ (b.reqs[n.method] # None => b.reqs[n.method].via # n.via)
    BY DEF ExpireBranch, OnWire
  <1> HIDE DEF b
  <1>4. /\ WireOK' /\ SameOutput /\ \A n \in Mail : OnWire(n)' => OnWire(n)
    BY <1>1, <1>3, LossEffect
  <1>5. /\ \A n \in Mail : Passed(n)' <=> Passed(n)
        /\ \A i \in Tries : (Redirected(i)' <=> Redirected(i)) /\ (Unredirected(i)' <=> Unredirected(i))
    BY <1>1, <1>4, NothingPasses
  <1>6. Relays
    <2>1. \A n \in Mail : Seen(n)' => Seen(n)
      BY <1>4, <1>5 DEF Seen
    <2> QED BY <1>1, <1>4, <1>5, <2>1 DEF Relays
  <1>7. /\ AgentsOK' /\ SipOK' /\ Mail' = Mail /\ Setting' /\ OnlyCid' /\ IInv'
        /\ \A n : Kept(n)' <=> Kept(n)
    <2>1. AgentsOK' /\ Mail' = Mail /\ \A n : Kept(n)' <=> Kept(n)
      BY <1>1, <1>6, RelaysKeeps, SameMail, SameKept
    <2>2. SipOK' /\ CallsOK'
      BY <1>1, BranchTimedoutKeepsSip, CallsUnchanged
    <2> QED BY <1>1, <2>1, <2>2 DEF Setting, OnlyCid, IInv, cc
  <1>8. \A n \in Mail : Came(n) => Came(n)'
    BY <1>6, CameStays
  <1>9. CacheSound'
    <2>1. ASSUME NEW j \in Vias, branchmap'[j] # None PROVE BranchSound(j, branchmap[j])'
      <3>1. branchmap'[j] = branchmap[j]
        BY <1>1, <1>2, <2>1 DEF SipOK
      <3>2. BranchSound(j, branchmap[j])
        BY <1>1, <2>1, <3>1 DEF CacheSound
      <3>3. ASSUME NEW c, BranchSound(j, c) PROVE BranchSound(j, c)'
        BY <1>1, <1>3, <1>8, <3>3, StaysSound
      <3> QED BY <3>1, <3>2, <3>3
    <2> QED BY <2>1 DEF CacheSound
  <1>10. ASSUME NEW n \in Mail, Kept(n), OnWire(n)', Passed(n) PROVE (Forwarded(n))'
    <2>1. /\ n.kind = "request" /\ OnWire(n) /\ n.via # k
          /\ b.reqs[n.method] # None => b.reqs[n.method].via # n.via
      BY <1>1, <1>3, <1>4, <1>10, KeptKinds
    <2>2. /\ n \in RequestType /\ n.method \in Methods /\ n.via \in Vias /\ n.from \in Sides /\ n.seq \in Seqs
          /\ BranchOf(n) \in Vias
          /\ branchmap[BranchOf(n)] # None /\ branchmap[BranchOf(n)].reqs[n.method] # None
      <3>1. Forwarded(n) /\ n \in RequestType /\ n.method \in Methods /\ BranchOf(n) \in Vias
        BY <1>1, <1>10, <2>1, BranchOwner DEF KeptOK
      <3> QED BY <3>1, ForwardedAt DEF RequestType
    <2>3. (Forwarded(n))' <=> branchmap'[(BranchOf(n))'] # None /\ branchmap'[(BranchOf(n))'].reqs[n.method] # None
      BY <2>2 DEF Forwarded, BranchFor, NoBranch
    <2>4. CASE BranchOf(n) = n.via
      <3>1. branchmap'[n.via] = branchmap[n.via]
        BY <1>1, <1>2, <2>1, <2>2 DEF SipOK
      <3>2. (BranchOf(n))' = n.via
        BY <2>2, <2>4, <3>1 DEF BranchOf
      <3> QED BY <2>2, <2>3, <2>4, <3>1, <3>2
    <2>5. CASE BranchOf(n) # n.via
      <3>1. /\ branchmap[n.via] = None /\ n.method = "ACK" /\ seq2branch[n.from][n.seq] = BranchOf(n)
            /\ seq2branch[n.from][n.seq] # None
        BY <2>5 DEF BranchOf
      <3>2. branchmap[BranchOf(n)].external = n.from /\ branchmap[BranchOf(n)].cseq = n.seq
        BY <1>1, <2>2, <3>1 DEF SipOK, BranchIndexSound
      <3>3. n.from = side /\ \E i \in Tries : n \in {AckFail(i), AckOk(i)}
        <4>1. n.from = side
          BY <1>1, <1>10, <3>1, KeptKinds
        <4>2. \A i \in Tries : Invite(i).method = "INVITE" /\ Hold.method = "INVITE"
          BY RequestFields DEF Says
        <4> QED BY <1>10, <3>1, <4>1, <4>2 DEF Kept, Tries
      <3>4. PICK i \in Tries : n \in {AckFail(i), AckOk(i)}
        BY <3>3
      <3>5. n.seq = i /\ AckFail(i).via = <<"inv", i>> /\ AckOk(i).via = <<"ack", i>> /\ Seen(n)
        BY <1>10, <3>4, RequestFields DEF Says, Seen
      <3>6. /\ branchmap[BranchOf(n)].external = side /\ branchmap[BranchOf(n)].cseq = i
            /\ Homes
        BY <1>1, <3>2, <3>3, <3>5, HomesSound
      <3>7. n = AckOk(i) /\ BranchOf(n) = <<"inv", i>> /\ n.via = <<"ack", i>> /\ Seen(AckOk(i)) /\ ~Seen(AckFail(i))
        <4>1. /\ Seen(AckFail(i)) => BranchOf(n) = <<"inv", i>>
              /\ Seen(AckOk(i)) => BranchOf(n) \in {<<"inv", i>>, <<"ack", i>>}
          BY <2>2, <3>6 DEF Homes
        <4>2. n = AckOk(i)
          BY <2>5, <3>4, <3>5, <4>1
        <4>3. CallerSentFor(i)
          BY <1>1 DEF AgentsOK, CallerSentOK
        <4>4. ~Seen(AckFail(i))
          BY <1>1, <3>5, <4>2, <4>3 DEF CallerSentFor, AgentsOK, CallerOK
        <4> QED BY <2>5, <3>5, <4>1, <4>2, <4>4
      <3>8. ASSUME b.external = side, b.cseq = i PROVE FALSE
        <4>1. k \in {<<"inv", i>>, <<"ack", i>>}
          BY <1>1, <3>6, <3>7, <3>8 DEF Homes, b
        <4>2. k = <<"inv", i>>
          BY <2>1, <3>7, <4>1
        <4>3. b.reqs["ACK"] # None /\ "ACK" \in Methods
          BY <2>2, <3>1, <3>7, <4>2 DEF b
        <4>4. BranchSound(k, b)
          BY <1>1 DEF CacheSound, b
        <4> DEFINE q == b.reqs["ACK"]
        <4>5. /\ q.method = "ACK" /\ q.from = side /\ (q.via = k \/ q.seq = i)
              /\ [to |-> Opposite(side), msg |-> q] \in wire
          BY <3>8, <4>3, <4>4 DEF BranchSound
        <4>6. q.via # n.via
          BY <2>1, <3>1, <4>3
        <4>7. q \in RequestType
          BY <1>1, <4>3 DEF BranchType
        <4> HIDE DEF q
        <4>8. PICK p \in Mail : \E x \in MessageType : Copy(p, x) /\ q = x /\ Opposite(p.from) = Opposite(side)
          <5>1. Opposite(side) # "mitm"
            BY DEF Opposite
          <5> DEFINE w == [to |-> Opposite(side), msg |-> q]
          <5>2. w \in wire /\ w.to # "mitm" /\ w.msg = q /\ w.to = Opposite(side)
            BY <4>5, <5>1
          <5> HIDE DEF w
          <5>3. PICK p \in Mail : \E x \in MessageType : Copy(p, x) /\ w = [to |-> Opposite(p.from), msg |-> x]
            BY <1>1, <5>2 DEF WireOK
          <5> QED BY <5>2, <5>3
        <4>9. /\ p.kind = "request" /\ p.method = "ACK" /\ p.from = side /\ p.via = q.via /\ p.seq = q.seq
              /\ Passed(p)
          <5>1. p \in MessageType /\ q \in MessageType /\ Copy(p, q) /\ Alike(q, p)
            BY <4>8, CopyAlike DEF Mail
          <5>2. p.kind = q.kind /\ p.from = q.from /\ p.method = q.method /\ p.via = q.via /\ p.seq = q.seq
            BY <5>1, AlikeFields
          <5>3. q.kind = "request"
            BY <4>7 DEF RequestType
          <5>4. Passed(p)
            BY <1>1, <4>5, <5>1, <5>2, PassedCopy
          <5> QED BY <4>5, <5>2, <5>3, <5>4
        <4>10. PICK j \in Tries : p \in {AckFail(j), AckOk(j)}
          <5>1. PICK j \in Tries : p \in {Invite(j), Cancel(j), AckFail(j), AckOk(j), Bye(j)}
            BY <1>1, <4>9, MailKinds
          <5>2. Invite(j).method = "INVITE" /\ Cancel(j).method = "CANCEL" /\ Bye(j).method = "BYE"
            BY RequestFields DEF Says
          <5> QED BY <4>9, <5>1, <5>2
        <4>11. /\ AckFail(j).via = <<"inv", j>> /\ AckOk(j).via = <<"ack", j>> /\ AckFail(j).seq = j /\ AckOk(j).seq = j
          BY RequestFields DEF Says
        <4>12. j = i /\ p = AckFail(i)
          BY <3>7, <4>2, <4>5, <4>6, <4>9, <4>10, <4>11
        <4>13. Seen(AckFail(i))
          BY <4>9, <4>12 DEF Seen
        <4> QED BY <3>7, <4>13
      <3>9. BranchOf(n) # k
        BY <3>6, <3>8 DEF b
      <3>10. /\ branchmap'[n.via] = None /\ seq2branch'[n.from][n.seq] = BranchOf(n)
             /\ branchmap'[BranchOf(n)] = branchmap[BranchOf(n)]
        <4>1. branchmap \in [Vias -> BranchType \cup {None}] /\ seq2branch \in [Sides -> [Seqs -> Vias \cup {None}]]
          BY <1>1 DEF SipOK
        <4>2. b.external \in Sides /\ b.cseq \in Seqs
          BY <1>1 DEF BranchType
        <4>3. b.external # n.from \/ b.cseq # n.seq
          BY <3>3, <3>5, <3>8
        <4> QED BY <1>2, <2>1, <2>2, <3>1, <3>9, <4>1, <4>2, <4>3
      <3>11. (BranchOf(n))' = BranchOf(n)
        <4>1. n.kind = "request" /\ n.method = "ACK" /\ seq2branch'[n.from][n.seq] # None
          BY <2>1, <3>1, <3>10
        <4>2. (BranchOf(n))' = seq2branch'[n.from][n.seq]
          BY <3>10, <4>1 DEF BranchOf
        <4> QED BY <3>10, <4>2
      <3> QED BY <2>2, <2>3, <3>10, <3>11
    <2> QED BY <2>4, <2>5
  <1>11. KeptOK'
    BY <1>5, <1>7, <1>10 DEF KeptOK
  <1> QED BY <1>1, <1>4, <1>5, <1>6, <1>7, <1>9, <1>11 DEF Base, NothingNew

\* A timer of the call.
LEMMA TimerBase ==
  ASSUME Base, ExpireT3 \/ ExpireTS
  PROVE  Base' /\ UNCHANGED <<wire, agents>>
  <1>1. /\ OnT3(Cid) \/ OnTS(Cid)
        /\ UNCHANGED <<wire, agents>> /\ UNCHANGED sip /\ phoneInfoValid' = phoneInfoValid /\ out' = {}
        /\ \E r : Apply(Cid, r)
    BY DEF ExpireT3, ExpireTS, OnT3, OnTS, CallTimedout
  <1>2. SipOK /\ CallsOK /\ OnlyCid /\ phoneInfoValid' = TRUE /\ Cid \in Cids
    BY <1>1, CallAssumption DEF Base, IInv
  <1>3. CallsOK' /\ OnlyCid'
    BY <1>1, <1>2, TimersKeep, ApplyOnlyCid
  <1>4. SipOK'
    BY <1>1, <1>2 DEF SipOK, sip, BranchIndexSound
  <1> QED BY <1>1, <1>2, <1>3, <1>4, StillBase DEF IInv

\* A step of a user agent.
LEMMA AgentBase ==
  ASSUME Base, CallerStep \/ CalleeStep
  PROVE  Base' /\ Outside /\ Moves
  <1>1. /\ Setting /\ side \in Sides /\ WireOK /\ AgentsOK /\ CacheSound /\ KeptOK /\ SipOK /\ CallsOK /\ OnlyCid
        /\ phoneInfoValid = TRUE
    BY DEF Base, Setting, IInv
  <1>2. AgentsOK' /\ Outside /\ Moves
    BY <1>1, AgentStep, AgentOutside, CallerMoves, CalleeMoves
  <1>3. /\ UNCHANGED <<phoneInfoValid, branchmap, seq2branch, callmap, ports, told, side, allowed>>
        /\ UNCHANGED <<side, allowed>> /\ UNCHANGED cc /\ out' = {} /\ WireOK' /\ SameOutput
    BY <1>2 DEF Outside, sip, cc
  <1>4. Mail' = Mail /\ (\A n : Kept(n)' <=> Kept(n)) /\ (\A n \in Mail : Passed(n)' <=> Passed(n)) /\ HeldAck' = HeldAck
        /\ \A i \in Tries : AckOk(i)' = AckOk(i)
    BY <1>1, <1>3, SameMail, SameKept, NothingPasses
  <1>5. ASSUME NEW n \in Mail, Came(n) PROVE Came(n)'
    <2>1. CASE Passed(n) \/ n = HeldAck
      BY <1>4, <2>1 DEF Came
    <2>2. CASE caller.answer # "none" /\ n = AckOk(caller.try)
      <3>1. caller'.answer # "none" /\ caller'.try = caller.try /\ caller.try \in Tries
        BY <1>1, <1>2, <2>2, AgentTypes DEF Moves
      <3>2. (AckOk(caller.try))' = AckOk(caller.try)
        BY <1>3, <3>1 DEF AckOk, Req
      <3> QED BY <2>2, <3>1, <3>2 DEF Came
    <2> QED BY <1>5, <2>1, <2>2 DEF Came
  <1>6. ASSUME NEW j, NEW c, BranchSound(j, c) PROVE BranchSound(j, c)'
    <2>1. \A w \in wire : w.to # "mitm" => w \in wire'
      BY <1>3 DEF SameOutput
    <2> QED BY <1>1, <1>3, <1>5, <1>6, <2>1, StaysSound
  <1>7. CacheSound'
    BY <1>1, <1>3, <1>6 DEF CacheSound
  <1>8. KeptOK'
    <2>1. ASSUME NEW n \in Mail, Kept(n), OnWire(n)', Passed(n) PROVE Forwarded(n)
      <3>1. OnWire(n)
        BY <1>2, <2>1 DEF Outside, Seen
      <3> QED BY <1>1, <2>1, <3>1 DEF KeptOK
    <2>2. \A n : Forwarded(n)' <=> Forwarded(n)
      BY <1>3 DEF Forwarded, BranchFor, BranchOf
    <2> QED BY <1>4, <2>1, <2>2 DEF KeptOK
  <1>9. SipOK'
    BY <1>1, <1>3 DEF SipOK, BranchIndexSound
  <1>10. CallsOK'
    BY <1>1, <1>3, CallsUnchanged
  <1>11. Setting' /\ OnlyCid'
    BY <1>1, <1>3 DEF Setting, OnlyCid
  <1> QED BY <1>1, <1>2, <1>3, <1>7, <1>8, <1>9, <1>10, <1>11 DEF Base, IInv

----------------------------------------------------------------------------
(* What a delivery means to the call.                                      *)

\* m has come through, as it is or rewritten.
IsNew(m, asItIs) ==
  /\ \A n \in Mail : Passed(n)' <=> Passed(n) \/ n = m
  /\ \A i \in Tries : /\ Redirected(i)' <=> Redirected(i) \/ (m = Ok(i) /\ ~asItIs)
                      /\ Unredirected(i)' <=> Unredirected(i) \/ (m = Ok(i) /\ asItIs)

\* The event of the call's handler reaches the event sink.
Tells(r) ==
  told'[Cid] = CASE r.event = "connected"  -> "connected"
                 [] r.event = "terminated" -> "idle"
                 [] r.event \in {"none", "progress"} -> IF Live THEN told[Cid] ELSE "early"

\* No call is concerned.
Through(m) ==
  /\ ~Live /\ UNCHANGED cc /\ IsNew(m, TRUE)
  /\ m.kind = "request" => m.method # "INVITE"

\* The call, perhaps opened by it, handles a request; or it handles a response.
TakesRequest(m, c, r) ==
  /\ m.kind = "request" /\ ~Forwarded(m)
  /\ c \in CallType /\ c = IF Live THEN Call ELSE NewCall(m)
  /\ Live \/ m.method = "INVITE"
  /\ RequestResult(c, m, r) /\ callmap'[Cid] = r.call /\ Tells(r)
  /\ IF r.ok THEN IsNew(m, TRUE) ELSE NothingNew
TakesResponse(m, c, r) ==
  /\ m.kind = "response" /\ Live
  /\ c \in CallType /\ c = Call
  /\ ResponseResult(c, m, r) /\ callmap'[Cid] = r.call /\ Tells(r)
  /\ IF r.ok THEN IsNew(m, FALSE) ELSE NothingNew

\* Ways in which a message arrives, as the call sees them.
Meets(m) ==
  \/ UNCHANGED cc /\ NothingNew
  \/ Through(m)
  \/ \E c, r : TakesRequest(m, c, r)
  \/ \E c, r : TakesResponse(m, c, r)

LEMMA RequestIsNew ==
  ASSUME side \in Sides, WireOK, UNCHANGED agents, NEW m \in Mail, OnWire(m), m.kind = "request",
         NEW x \in MessageType, Copy(m, x), Emits(m, x)
  PROVE  IsNew(m, TRUE)
  <1>1. \A i \in Tries : m # Ok(i)
    BY AnswerFields DEF Says
  <1> QED BY <1>1, EmitsRelays DEF IsNew

LEMMA DeliversCall ==
  ASSUME Base, Deliver
  PROVE  UNCHANGED agents /\ Relays /\ Base' /\ \E m \in Mail : OnWire(m) /\ Meets(m)
  <1>1. UNCHANGED agents /\ Base'
    BY Delivers, DeliverBase
  <1>2. PICK m \in Mail : OnWire(m) /\ Arrives(m)
    BY Delivers
  <1>3. /\ side \in Sides /\ CallsOK /\ m \in MessageType /\ WireOK
        /\ m.kind = "request" <=> m \in RequestType
        /\ m.kind = "response" <=> m \in ResponseType
        /\ m.cid = Cid
    BY MailKinds DEF Base, Setting, IInv, Mail
  <1>4. Live <=> Call # None
    BY DEF Live, Call
  <1>5. Copy(m, m)
    BY DEF Copy
  <1>6. ASSUME NEW r, Apply(Cid, r) PROVE callmap'[Cid] = r.call /\ Tells(r)
    <2>1. Cid \in Cids /\ told \in [Cids -> {"idle", "early", "connected"}] /\ callmap \in [Cids -> CallType \cup {None}]
      BY <1>3, CallAssumption DEF CallsOK
    <2> QED BY <1>6, <2>1 DEF Apply, Tells, Live
  <1>7. CASE Absorbed
    <2>1. UNCHANGED cc /\ wire' = wire
      BY <1>7 DEF Absorbed
    <2>2. Relays /\ NothingNew
      BY <1>1, <1>3, <2>1, SilentRelays DEF NothingNew
    <2> QED BY <1>1, <1>2, <2>1, <2>2 DEF Meets
  <1>8. CASE m.kind = "request" /\ Passes(m)
    <2>1. ~Live /\ UNCHANGED cc /\ m.method # "INVITE" /\ Emits(m, m)
      BY <1>4, <1>8 DEF Passes
    <2>2. Relays /\ IsNew(m, TRUE)
      BY <1>1, <1>2, <1>3, <1>5, <1>8, <2>1, RequestIsNew, EmitsRelays
    <2>3. Through(m)
      BY <2>1, <2>2 DEF Through
    <2> QED BY <1>1, <1>2, <2>2, <2>3 DEF Meets
  <1>9. CASE m.kind = "response" /\ PassesAnswer(m)
    <2>1. ~Live /\ UNCHANGED cc /\ Emits(m, m)
      BY <1>4, <1>9 DEF PassesAnswer
    <2>2. Relays /\ IsNew(m, TRUE)
      BY <1>1, <1>2, <1>3, <1>5, <2>1, EmitsRelays DEF IsNew
    <2>3. Through(m)
      BY <1>9, <2>1, <2>2 DEF Through
    <2> QED BY <1>1, <1>2, <2>2, <2>3 DEF Meets
  <1>10. CASE m.kind = "request" /\ ~Forwarded(m) /\ Handles(m)
    <2> DEFINE c == CallForRequest(m)
               r == CallRequest(c, m)
    <2>1. c \in CallType
      BY <1>3, <1>10, CallForRequestType
    <2>2. RequestResult(c, m, r) /\ (r.ok => Copy(m, [m EXCEPT !.sdp = r.sdp]))
      BY <1>3, <1>10, <2>1, SendsCopy, RequestResults
    <2>3. /\ Apply(Cid, r) /\ (Live \/ m.method = "INVITE")
          /\ r.ok => Emits(m, [m EXCEPT !.sdp = r.sdp])
          /\ ~r.ok => wire' = wire
      BY <1>4, <1>10 DEF Handles
    <2>4. c = IF Live THEN Call ELSE NewCall(m)
      BY <1>3, <1>4 DEF CallForRequest, Call
    <2> HIDE DEF r, c
    <2>5. Relays /\ IF r.ok THEN IsNew(m, TRUE) ELSE NothingNew
      <3>1. CASE r.ok
        <4>1. [m EXCEPT !.sdp = r.sdp] \in MessageType
          BY <1>3, <2>2, <3>1, CopyAlike
        <4> QED BY <1>1, <1>2, <1>3, <1>10, <2>2, <2>3, <3>1, <4>1, RequestIsNew, EmitsRelays
      <3>2. CASE ~r.ok
        BY <1>1, <1>3, <2>3, <3>2, SilentRelays DEF NothingNew
      <3> QED BY <3>1, <3>2
    <2>6. TakesRequest(m, c, r)
      BY <1>6, <1>10, <2>1, <2>2, <2>3, <2>4, <2>5 DEF TakesRequest
    <2> QED BY <1>1, <1>2, <2>5, <2>6 DEF Meets
  <1>11. CASE m.kind = "response" /\ HandlesAnswer(m)
    <2> DEFINE c == Call
               r == CallResponse(c, m)
    <2>1. c \in CallType /\ Live
      BY <1>3, <1>4, <1>11, CallAssumption DEF HandlesAnswer, CallsOK, Call
    <2>2. /\ ResponseResult(c, m, r) /\ (r.ok => Copy(m, [m EXCEPT !.sdp = r.sdp]))
          /\ r.ok /\ m.method = "INVITE" /\ m.code = 200 => r.sdp = "fixed"
      BY <1>3, <1>11, <2>1, SendsCopy, ResponseResults
    <2>3. /\ Apply(Cid, r)
          /\ r.ok => Emits(m, [m EXCEPT !.sdp = r.sdp])
          /\ ~r.ok => wire' = wire
      BY <1>11 DEF HandlesAnswer
    <2>4. c = Call
      OBVIOUS
    <2> HIDE DEF r, c
    <2>5. Relays /\ IF r.ok THEN IsNew(m, FALSE) ELSE NothingNew
      <3>1. CASE r.ok
        <4> DEFINE x == [m EXCEPT !.sdp = r.sdp]
        <4>1. x \in MessageType /\ Copy(m, x) /\ Emits(m, x)
          BY <1>3, <2>2, <2>3, <3>1, CopyAlike
        <4>2. \A i \in Tries : m = Ok(i) => x # m
          <5>1. ASSUME NEW i \in Tries, m = Ok(i) PROVE x # m
            <6>1. m.method = "INVITE" /\ m.code = 200 /\ m.sdp = "raw"
              BY <1>3, <5>1, AnswerFields DEF Says
            <6>2. x.sdp = "fixed"
              BY <1>3, <2>2, <3>1, <6>1 DEF MessageType, RequestType, ResponseType
            <6> QED BY <6>1, <6>2
          <5> QED BY <5>1
        <4> HIDE DEF x
        <4>3. Relays /\ IsNew(m, FALSE)
          BY <1>1, <1>2, <1>3, <4>1, <4>2, EmitsRelays DEF IsNew
        <4> QED BY <3>1, <4>3
      <3>2. CASE ~r.ok
        BY <1>1, <1>3, <2>3, <3>2, SilentRelays DEF NothingNew
      <3> QED BY <3>1, <3>2
    <2>6. TakesResponse(m, c, r)
      BY <1>6, <1>11, <2>1, <2>2, <2>3, <2>4, <2>5 DEF TakesResponse
    <2> QED BY <1>1, <1>2, <2>5, <2>6 DEF Meets
  <1> QED BY <1>2, <1>7, <1>8, <1>9, <1>10, <1>11 DEF Arrives

\* What came through unrewritten, or rewritten, came through.
LEMMA AnswerPassed ==
  ASSUME side \in Sides, WireOK, NEW i \in Tries, Redirected(i) \/ Unredirected(i)
  PROVE  Passed(Ok(i))
  <1>1. /\ Ok(i) \in Mail /\ Ok(i) \in MessageType /\ Ok(i) \in ResponseType
        /\ Ok(i).from = far /\ Ok(i).sdp = "raw" /\ Opposite(far) = side
    <2>1. Ok(i) \in Mail /\ Ok(i).kind = "response"
      BY Named, AnswerFields DEF Says
    <2> QED BY <2>1, MailKinds, AnswerFields DEF Mail, Says, far, Opposite, Sides
  <1>2. [Ok(i) EXCEPT !.sdp = "fixed"] \in MessageType /\ Copy(Ok(i), [Ok(i) EXCEPT !.sdp = "fixed"]) /\ Copy(Ok(i), Ok(i))
    BY <1>1 DEF Copy, MessageType, ResponseType, SdpForms
  <1> QED BY <1>1, <1>2, PassedCopy DEF Redirected, Unredirected

\* Before the INVITE of a try has come, nothing that follows it has happened.
LEMMA FreshInvite ==
  ASSUME side \in Sides, WireOK, AgentsOK, NEW i \in Tries, OnWire(Invite(i)), ~Passed(Invite(i))
  PROVE  /\ caller.answer = "none" /\ callee.hold = "no" /\ ~Seen(CalleeBye) /\ ~Seen(Hold)
         /\ caller.try = i
         /\ \A j \in Tries : /\ ~Used(j) /\ ~Seen(Ok(j)) /\ ~Seen(AckOk(j)) /\ ~Seen(Bye(j)) /\ ~Seen(Progress(j))
                             /\ ~Seen(Refusal(j, 486)) /\ ~Seen(Refusal(j, 487)) /\ ~Redirected(j) /\ ~Unredirected(j)
         /\ i = 2 <=> Passed(Invite(1))
  <1>1. /\ \A j \in Tries : CallerSentFor(j) /\ CalleeSentFor(j)
        /\ caller.try \in Tries /\ callee.try \in Tries /\ 1 \in Tries /\ 2 \in Tries
    BY AgentTypes DEF AgentsOK, CallerSentOK, CalleeSentOK, Tries
  <1>2. caller.try = 2 => Passed(Challenge(1)) /\ Passed(Invite(1)) /\ "challenge" \in allowed
    BY <1>1 DEF AgentsOK, CallerOK, CalleeSentFor, Seen
  <1>3. caller.try = i
    BY <1>1, <1>2 DEF CallerSentFor, Seen, Tries
  <1>4. ASSUME NEW j \in Tries PROVE ~Used(j)
    <2>1. Passed(Invite(j)) => j <= caller.try
      BY <1>1 DEF CallerSentFor, Seen
    <2>2. CASE i = 1
      BY <1>3, <2>1, <2>2 DEF Used, Tries
    <2>3. CASE i = 2
      BY <1>2, <1>3, <2>3 DEF Used, Tries
    <2> QED BY <2>2, <2>3 DEF Tries
  <1>5. \A j \in Tries : ~Seen(Ok(j)) /\ ~Seen(Progress(j)) /\ ~Seen(Refusal(j, 486)) /\ ~Seen(Refusal(j, 487))
    BY <1>1, <1>4 DEF CalleeSentFor
  <1>6. caller.answer = "none"
    BY <1>1, <1>4, AckAnswers
  <1>7. \A j \in Tries : ~Seen(AckOk(j)) /\ ~Seen(Bye(j))
    BY <1>1, <1>6 DEF CallerSentFor
  <1>8. callee.hold = "no" /\ ~Seen(CalleeBye) /\ ~Seen(Hold)
    BY <1>1, <1>7 DEF AgentsOK, CalleeOK, CalleeSentOK, Seen
  <1>9. \A j \in Tries : ~Redirected(j) /\ ~Unredirected(j)
    BY <1>5, AnswerPassed DEF Seen
  <1>10. i = 2 <=> Passed(Invite(1))
    BY <1>2, <1>3 DEF Tries
  <1> QED BY <1>3, <1>4, <1>5, <1>6, <1>7, <1>8, <1>9, <1>10

----------------------------------------------------------------------------
(* The steps of the system, as the call sees them.                         *)

\* A timer of the call ends it.
TimesOut(c, r) ==
  /\ Live /\ c \in CallType
  /\ \E code \in Codes \cap {408, 487, Call.finalCode} : c = [Call EXCEPT !.finalCode = code]
  /\ \/ Call.t3 /\ (callee.st \in {"ended", "dead"} \/ ("long_ring" \in allowed /\ callee.st = "ringing"))
     \/ Call.ts
  /\ Ends(c, r) /\ callmap'[Cid] = r.call /\ Tells(r)

\* The timer's handler, with the final code it has set.
Fired(c) ==
  /\ Live
  /\ \/ Call.t3 /\ (callee.st \in {"ended", "dead"} \/ ("long_ring" \in allowed /\ callee.st = "ringing"))
     \/ Call.ts
  /\ Apply(Cid, OnTerminated([call |-> c, event |-> "none", sdp |-> "none", ok |-> TRUE]))

\* Nothing happens to the call, or one of the messages arrives, or a timer fires.
Calm == Relays /\ UNCHANGED cc /\ NothingNew
Turns ==
  /\ Relays
  /\ \/ \E m \in Mail : OnWire(m) /\ Meets(m)
     \/ NothingNew /\ \E c, r : TimesOut(c, r)

LEMMA TimerTurns ==
  ASSUME Base, ExpireT3 \/ ExpireTS
  PROVE  Base' /\ Turns
  <1>1. Base' /\ UNCHANGED <<wire, agents>>
    BY TimerBase
  <1>2. /\ side \in Sides /\ CallsOK /\ OnlyCid /\ Cid \in Cids /\ AgentsOK
        /\ UNCHANGED <<side, allowed>> /\ SameOutput /\ WireOK'
    BY <1>1, CallAssumption DEF Base, Setting, IInv, agents, SameOutput
  <1>3. Relays /\ NothingNew
    <2>1. NothingNew
      BY <1>2, NothingPasses DEF NothingNew
    <2>2. \A n \in Mail : OnWire(n)' => OnWire(n)
      BY <1>1 DEF OnWire
    <2>3. \A n \in Mail : Seen(n)' => Seen(n)
      BY <2>1, <2>2 DEF Seen, NothingNew
    <2> QED BY <1>1, <1>2, <2>1, <2>2, <2>3 DEF Relays, NothingNew
  <1>4. \E code \in Codes \cap {408, 487, Call.finalCode} : Fired([Call EXCEPT !.finalCode = code])
    <2>1. CASE ExpireT3
      <3>1. 408 \in Codes \cap {408, 487, Call.finalCode}
        BY DEF Codes
      <3>2. Fired([Call EXCEPT !.finalCode = 408])
        BY <2>1 DEF ExpireT3, OnT3, CallTimedout, Live, Call, Fired
      <3> QED BY <3>1, <3>2
    <2>2. CASE ExpireTS
      <3> DEFINE code == IF Call.finalCode = NoCode THEN 487 ELSE Call.finalCode
      <3>1. Fired([Call EXCEPT !.finalCode = code])
        BY <2>2 DEF ExpireTS, OnTS, CallTimedout, Live, Call, Fired
      <3>2. code \in Codes \cap {408, 487, Call.finalCode}
        <4>1. Call \in CallType
          BY <1>2, <3>1 DEF CallsOK, Live, Call, Fired
        <4>2. Call.finalCode \in Codes \cup {NoCode}
          BY <4>1 DEF CallType
        <4>3. 487 \in Codes
          BY DEF Codes
        <4> QED BY <4>2, <4>3
      <3> HIDE DEF code
      <3> QED BY <3>1, <3>2
    <2> QED BY <2>1, <2>2
  <1>5. PICK code \in Codes \cap {408, 487, Call.finalCode} : Fired([Call EXCEPT !.finalCode = code])
    BY <1>4
  <1> DEFINE c == [Call EXCEPT !.finalCode = code]
             r == OnTerminated([call |-> c, event |-> "none", sdp |-> "none", ok |-> TRUE])
  <1>7. c \in CallType
    <2>1. Call \in CallType
      BY <1>2, <1>5 DEF CallsOK, Live, Call, Fired
    <2> QED BY <1>5, <2>1 DEF CallType
  <1>8. Ends(c, r)
    BY <1>7, EndsCall
  <1>9. Apply(Cid, r)
    BY <1>5 DEF Fired
  <1> HIDE DEF r
  <1>10. callmap'[Cid] = r.call /\ Tells(r)
    BY <1>2, <1>5, <1>9, ZenonT(40) DEF Apply, Tells, Live, CallsOK, Fired
  <1>11. TimesOut(c, r)
    BY <1>5, <1>7, <1>8, <1>10 DEF TimesOut, Fired
  <1> QED BY <1>1, <1>3, <1>11 DEF Turns

\* Every step is one of a user agent, or leaves the call alone, or is one of it.
LEMMA CallSteps ==
  ASSUME Base, [CallNext]_callVars
  PROVE  Base' /\ ((Outside /\ Moves) \/ Calm \/ Turns)
  <1>1. CASE CallerStep \/ CalleeStep
    BY <1>1, AgentBase
  <1>2. CASE Deliver
    BY <1>2, DeliversCall DEF Turns
  <1>3. CASE ExpireBranches
    BY <1>3, ExpireBase DEF ExpireBranches, Calm
  <1>4. CASE ExpireT3 \/ ExpireTS
    BY <1>4, TimerTurns
  <1>5. CASE UNCHANGED callVars
    <2>1. /\ UNCHANGED <<phoneInfoValid, branchmap, seq2branch, callmap, ports, told, out>>
          /\ UNCHANGED <<wire, side, allowed, caller, callee>>
      BY <1>5 DEF callVars, vars
    <2>2. Setting /\ side \in Sides /\ WireOK /\ AgentsOK /\ SipOK /\ CallsOK /\ OnlyCid /\ KeptOK /\ phoneInfoValid = TRUE
          /\ CacheSound
      BY DEF Base, Setting, IInv
    <2>3. UNCHANGED sip /\ UNCHANGED cc /\ UNCHANGED agents /\ SameOutput
      BY <2>1 DEF sip, cc, agents, SameOutput
    <2>4. SipOK' /\ CallsOK'
      BY <2>1, <2>2, <2>3, CallsUnchanged DEF SipOK, BranchIndexSound
    <2>5. OnlyCid' /\ phoneInfoValid' = TRUE
      BY <2>1, <2>2 DEF OnlyCid
    <2>6. Base'
      BY <2>1, <2>2, <2>3, <2>4, <2>5, StillBase DEF IInv
    <2>7. NothingNew
      BY <2>2, <2>3, NothingPasses DEF NothingNew
    <2>8. \A n \in Mail : OnWire(n)' => OnWire(n)
      BY <2>1 DEF OnWire
    <2>9. \A n \in Mail : Seen(n)' => Seen(n)
      BY <2>7, <2>8 DEF Seen, NothingNew
    <2>10. Relays
      BY <2>3, <2>6, <2>7, <2>8, <2>9 DEF Relays, NothingNew, Base
    <2> QED BY <2>3, <2>6, <2>7, <2>10 DEF Calm
  <1> QED BY <1>1, <1>2, <1>3, <1>4, <1>5 DEF CallNext

\* Nothing has been sent at first.
LEMMA InitBase ==
  ASSUME CallInit
  PROVE  Base /\ ~Live /\ wire = {}
  <1>1. /\ phoneInfoValid = TRUE /\ Empty /\ wire = {}
        /\ caller = [st |-> "idle", try |-> 1, answer |-> "none", cancelled |-> FALSE]
        /\ callee = [st |-> "idle", try |-> 1, hold |-> "no"]
    BY DEF CallInit
  <1>2. Setting
    BY CallAssumption DEF CallInit, Setting
  <1>3. \A m : ~OnWire(m) /\ ~Passed(m) /\ ~Seen(m)
    BY <1>1 DEF OnWire, Passed, Seen, Got
  <1>4. AgentsOK
    BY <1>1, <1>3 DEF AgentsOK, CallerOK, CalleeOK, CallerSentOK, CallerSentFor, CalleeSentOK, CalleeSentFor, Tries
  <1>5. SipOK
    BY <1>1 DEF Empty, SipOK, BranchIndexSound
  <1>6. CallsOK
    <2>1. LiveCalls = {}
      BY <1>1 DEF Empty, LiveCalls
    <2>2. IsFiniteSet(LiveCalls) /\ Cardinality(LiveCalls) = 0
      BY <2>1, FS_EmptySet
    <2> QED BY <1>1, <2>2, ConfigAssumption DEF Empty, CallsOK, PortsMatchCalls, SinkKnowsCalls, LiveCalls
  <1>7. WireOK /\ CacheSound /\ KeptOK /\ OnlyCid /\ ~Live
    BY <1>1, <1>3, CallAssumption DEF Empty, WireOK, CacheSound, KeptOK, OnlyCid, Live
  <1> QED BY <1>1, <1>2, <1>4, <1>5, <1>6, <1>7 DEF Base, IInv

\* What is known of the datagrams, the user agents and the transactions holds
\* in every state of every call.
THEOREM CallInvariant == CallSpec => []Base
  <1>1. CallInit => Base
    BY InitBase
  <1>2. Base /\ [CallNext]_callVars => Base'
    BY CallSteps
  <1> QED BY <1>1, <1>2, PTL DEF CallSpec

\* Of what came through, only m can be new.
OnlyNew(m) ==
  /\ \A i \in Tries :
       /\ Invite(i) # m => (Passed(Invite(i))' <=> Passed(Invite(i)))
       /\ Cancel(i) # m => (Passed(Cancel(i))' <=> Passed(Cancel(i)))
       /\ AckFail(i) # m => (Passed(AckFail(i))' <=> Passed(AckFail(i)))
       /\ AckOk(i) # m => (Passed(AckOk(i))' <=> Passed(AckOk(i)))
       /\ Bye(i) # m => (Passed(Bye(i))' <=> Passed(Bye(i)))
       /\ Progress(i) # m => (Passed(Progress(i))' <=> Passed(Progress(i)))
       /\ Challenge(i) # m => (Passed(Challenge(i))' <=> Passed(Challenge(i)))
       /\ Ok(i) # m => (Passed(Ok(i))' <=> Passed(Ok(i)))
       /\ Refusal(i, 486) # m => (Passed(Refusal(i, 486))' <=> Passed(Refusal(i, 486)))
       /\ Refusal(i, 487) # m => (Passed(Refusal(i, 487))' <=> Passed(Refusal(i, 487)))
       /\ ByeOk(i) # m => (Passed(ByeOk(i))' <=> Passed(ByeOk(i)))
       /\ Ok(i) # m => (Redirected(i)' <=> Redirected(i)) /\ (Unredirected(i)' <=> Unredirected(i))
  /\ Hold # m => (Passed(Hold)' <=> Passed(Hold))
  /\ HoldOk # m => (Passed(HoldOk)' <=> Passed(HoldOk))
  /\ HoldNo # m => (Passed(HoldNo)' <=> Passed(HoldNo))
  /\ CalleeBye # m => (Passed(CalleeBye)' <=> Passed(CalleeBye))
  /\ CalleeByeOk # m => (Passed(CalleeByeOk)' <=> Passed(CalleeByeOk))

LEMMA NewsOfNothing ==
  ASSUME side \in Sides, UNCHANGED <<side, allowed>>, NothingNew
  PROVE  SamePassed /\ \A m : OnlyNew(m)
  <1>1. SamePassed
    BY SameMail, Named DEF NothingNew, SamePassed
  <1> QED BY <1>1 DEF SamePassed, OnlyNew

LEMMA NewsOf ==
  ASSUME side \in Sides, UNCHANGED <<side, allowed>>, NEW m \in Mail, NEW b, IsNew(m, b)
  PROVE  OnlyNew(m)
  <1>1. \A n \in Mail : n # m => (Passed(n)' <=> Passed(n))
    BY DEF IsNew
  <1>2. \A i \in Tries : Ok(i) # m => (Redirected(i)' <=> Redirected(i)) /\ (Unredirected(i)' <=> Unredirected(i))
    BY DEF IsNew
  <1> QED BY <1>1, <1>2, SameMail, Named DEF OnlyNew

\* What the steps of the system have in common: of the call, nothing changes
\* and nothing new comes through; or a message does; or a timer ends the call.
Still == UNCHANGED cc /\ SamePassed /\ ((Outside /\ Moves) \/ Relays)
Comes(m) ==
  /\ OnWire(m) /\ OnlyNew(m) /\ Relays
  /\ Through(m) \/ (\E c, r : TakesRequest(m, c, r)) \/ (\E c, r : TakesResponse(m, c, r))
Fires == SamePassed /\ Relays /\ \E c, r : TimesOut(c, r)

LEMMA CallTurns ==
  ASSUME Base, [CallNext]_callVars
  PROVE  /\ Base' /\ UNCHANGED <<side, allowed>>
         /\ Still \/ (\E m \in Mail : Comes(m)) \/ Fires
  <1>1. Base' /\ side \in Sides /\ ((Outside /\ Moves) \/ Calm \/ Turns)
    BY CallSteps DEF Base, Setting
  <1>2. UNCHANGED <<side, allowed>>
    BY <1>1 DEF Outside, Calm, Turns, Relays, agents
  <1>3. CASE Outside /\ Moves
    <2>1. NothingNew /\ UNCHANGED cc
      BY <1>1, <1>3, NothingPasses DEF Outside, NothingNew
    <2> QED BY <1>1, <1>2, <1>3, <2>1, NewsOfNothing DEF Still
  <1>4. CASE Calm
    BY <1>1, <1>2, <1>4, NewsOfNothing DEF Still, Calm
  <1>5. CASE Turns
    <2>1. ASSUME NEW m \in Mail, OnWire(m), Meets(m) PROVE Still \/ Comes(m)
      <3>1. Relays
        BY <1>5 DEF Turns
      <3>2. CASE UNCHANGED cc /\ NothingNew
        BY <1>1, <1>2, <3>1, <3>2, NewsOfNothing DEF Still
      <3>3. CASE Through(m)
        BY <1>1, <1>2, <2>1, <3>1, <3>3, NewsOf DEF Comes, Through
      <3>4. CASE \E c, r : TakesRequest(m, c, r)
        <4>1. NothingNew \/ IsNew(m, TRUE)
          BY <3>4 DEF TakesRequest
        <4> QED BY <1>1, <1>2, <2>1, <3>1, <3>4, <4>1, NewsOf, NewsOfNothing DEF Comes
      <3>5. CASE \E c, r : TakesResponse(m, c, r)
        <4>1. NothingNew \/ IsNew(m, FALSE)
          BY <3>5 DEF TakesResponse
        <4> QED BY <1>1, <1>2, <2>1, <3>1, <3>5, <4>1, NewsOf, NewsOfNothing DEF Comes
      <3> QED BY <2>1, <3>2, <3>3, <3>4, <3>5 DEF Meets
    <2> QED BY <1>1, <1>2, <1>5, <2>1, NewsOfNothing DEF Turns, Fires
  <1> QED BY <1>1, <1>2, <1>3, <1>4, <1>5

\* The fields of the call that no request but an INVITE changes.
LEMMA RequestLeaves ==
  ASSUME Base, NEW m \in Mail, NEW c, NEW r, TakesRequest(m, c, r), m.method # "INVITE"
  PROVE  /\ Live /\ c = Call /\ Call \in CallType
         /\ r.call # None => /\ r.call \in CallType
                             /\ r.call.addr = Call.addr /\ r.call.ready = Call.ready
                             /\ r.call.cseq = Call.cseq /\ r.call.finalCode = Call.finalCode
  <1>1. /\ Live /\ c = Call /\ c \in CallType /\ RequestResult(c, m, r) /\ m.kind = "request"
    BY DEF TakesRequest
  <1>2. m.method \in {"ACK", "BYE", "CANCEL"}
    BY <1>1, MailForms DEF Base, Setting
  <1> DEFINE Kin(d) == /\ d \in CallType /\ d.addr = c.addr /\ d.ready = c.ready
                       /\ d.cseq = c.cseq /\ d.finalCode = c.finalCode
  <1>3. /\ Kin(c) /\ Kin([c EXCEPT !.ts = TRUE]) /\ Kin([c EXCEPT !.t3 = FALSE])
        /\ Kin([c EXCEPT !.t3 = FALSE, !.ts = FALSE])
        /\ Kin([c EXCEPT !.t3 = FALSE, !.ts = FALSE, !.terminated = TRUE])
    BY <1>1 DEF CallType
  <1>4. \/ r.call \in {None, c}
        \/ r.call = [c EXCEPT !.ts = TRUE]
        \/ r.call = [c EXCEPT !.t3 = FALSE]
        \/ r.call = [c EXCEPT !.t3 = FALSE, !.ts = FALSE]
        \/ r.call = [c EXCEPT !.t3 = FALSE, !.ts = FALSE, !.terminated = TRUE]
    <2>1. CASE m.method = "BYE"
      BY <1>1, <2>1 DEF RequestResult, Becomes
    <2>2. CASE m.method = "CANCEL"
      BY <1>1, <2>2 DEF RequestResult, Becomes
    <2>3. CASE m.method = "ACK" /\ m.seq = c.cseq /\ c.finalCode = 200
      BY <1>1, <2>3 DEF RequestResult, Connects
    <2>4. CASE m.method = "ACK" /\ m.seq = c.cseq /\ c.finalCode # 200
      BY <1>1, <2>4 DEF RequestResult, Ends
    <2>5. CASE m.method = "ACK" /\ m.seq # c.cseq
      BY <1>1, <2>5 DEF RequestResult, Becomes
    <2> QED BY <1>2, <2>1, <2>2, <2>3, <2>4, <2>5
  <1>5. r.call = None \/ Kin(r.call)
    <2> HIDE DEF Kin
    <2> QED BY <1>3, <1>4
  <1> QED BY <1>1, <1>5


\* A response only adds to the addresses.
LEMMA ResponseLeaves ==
  ASSUME Base, NEW m \in Mail, NEW c, NEW r, TakesResponse(m, c, r)
  PROVE  /\ Live /\ c = Call /\ Call \in CallType
         /\ r.call # None =>
              /\ r.call.cseq = Call.cseq
              /\ IF m.method = "INVITE" /\ m.code = 200
                   THEN /\ r.call.addr = Call.addr \cup {m.from}
                        /\ r.call.ready = (Call.ready \/ r.call.addr = Sides)
                   ELSE r.call.addr = Call.addr /\ r.call.ready = Call.ready
  <1>1. /\ Live /\ c = Call /\ c \in CallType /\ ResponseResult(c, m, r) /\ m.kind = "response" /\ side \in Sides
    BY DEF TakesResponse, Base, Setting
  <1>2. m.method \in {"INVITE", "BYE", "CANCEL"} /\ m \in ResponseType
    BY <1>1, MailForms, MailKinds
  <1> DEFINE final == IF m.seq = c.cseq THEN [c EXCEPT !.finalCode = m.code] ELSE c
             gone  == [c EXCEPT !.finalCode = IF @ = NoCode THEN 487 ELSE @]
             Kin(d) == d.addr = c.addr /\ d.ready = c.ready /\ d.cseq = c.cseq
  <1>3. final \in CallType /\ gone \in CallType /\ Kin(final) /\ Kin(gone)
    BY <1>1, <1>2 DEF CallType, Codes, ResponseType
  <1>4. ASSUME NEW d \in CallType, Kin(d), Ends(d, r), r.call # None PROVE Kin(r.call)
    <2>1. r.call = [d EXCEPT !.t3 = FALSE, !.ts = FALSE, !.terminated = TRUE]
      BY <1>4 DEF Ends
    <2> QED BY <1>4, <2>1 DEF CallType
  <1>5. CASE m.method = "INVITE" /\ m.code = 200
    <2>1. Answers(final, m, r)
      BY <1>1, <1>5 DEF ResponseResult
    <2> HIDE DEF final
    <2>2. /\ r.call = [final EXCEPT !.addr = final.addr \cup {m.from},
                                    !.ready = @ \/ final.addr \cup {m.from} = Sides]
      BY <2>1 DEF Answers
    <2>3. /\ r.call.addr = final.addr \cup {m.from} /\ r.call.cseq = final.cseq
          /\ r.call.ready = (final.ready \/ final.addr \cup {m.from} = Sides)
      BY <1>3, <2>2 DEF CallType
    <2> QED BY <1>1, <1>3, <1>5, <2>3
  <1>6. CASE m.method = "INVITE" /\ m.code # 200
    <2>1. r.call = c \/ r.call = final
      BY <1>1, <1>6 DEF ResponseResult, Becomes
    <2> HIDE DEF final
    <2> QED BY <1>1, <1>3, <1>6, <2>1
  <1>7. CASE m.method = "BYE"
    <2>1. Ends(c, r)
      BY <1>1, <1>7 DEF ResponseResult
    <2> QED BY <1>1, <1>4, <1>7, <2>1
  <1>8. CASE m.method = "CANCEL"
    <2>1. Ends(gone, r) \/ r.call = c
      BY <1>1, <1>8 DEF ResponseResult, Becomes
    <2> HIDE DEF gone
    <2> QED BY <1>1, <1>3, <1>4, <1>8, <2>1
  <1> QED BY <1>2, <1>5, <1>6, <1>7, <1>8

\* A timer leaves them.
LEMMA TimerLeaves ==
  ASSUME NEW c, NEW r, TimesOut(c, r), CallsOK
  PROVE  /\ Live /\ Call \in CallType
         /\ r.call # None => r.call.addr = Call.addr /\ r.call.ready = Call.ready /\ r.call.cseq = Call.cseq
  <1>1. Call \in CallType /\ Live /\ c \in CallType
    BY CallAssumption DEF TimesOut, Live, CallsOK, Call
  <1>2. c.addr = Call.addr /\ c.ready = Call.ready /\ c.cseq = Call.cseq
    BY <1>1 DEF TimesOut, CallType
  <1>3. r.call # None => r.call = [c EXCEPT !.t3 = FALSE, !.ts = FALSE, !.terminated = TRUE]
    BY DEF TimesOut, Ends
  <1> QED BY <1>1, <1>2, <1>3 DEF CallType

\* A request that must not reach the call twice has not come through.
LEMMA FirstArrival ==
  ASSUME Base, NEW m \in Mail, NEW c, NEW r, OnWire(m), TakesRequest(m, c, r), Kept(m)
  PROVE  ~Passed(m)
  BY DEF Base, KeptOK, TakesRequest

----------------------------------------------------------------------------
(* The media of the call.                                                  *)

\* Which sides' addresses are known: after the caller's INVITE its own, after
\* the answer both, after the callee's INVITE that one, until it is agreed to.
MediaOK ==
  Live =>
    /\ Call.addr = Sides => Call.ready
    /\ ~Passed(Hold) => side \in Call.addr
    /\ \A i \in Tries : ~Passed(Hold) /\ Redirected(i) => Call.addr = Sides
    /\ Passed(Hold) => far \in Call.addr
    /\ Passed(HoldOk) => Call.addr = Sides

LEMMA MediaStep ==
  ASSUME Base, MediaOK, [CallNext]_callVars
  PROVE  MediaOK'
  <1>1. /\ UNCHANGED <<side, allowed>> /\ side \in Sides /\ WireOK /\ AgentsOK /\ CallsOK /\ far' = far
        /\ Still \/ (\E m \in Mail : Comes(m)) \/ Fires
    BY CallTurns DEF Base, Setting, IInv, far
  <1>2. /\ Seen(HoldOk) => Passed(Hold)
        /\ \A i \in Tries : Ok(i).kind = "response" /\ Ok(i).method = "INVITE" /\ Ok(i).code = 200 /\ Ok(i).from = far
        /\ HoldOk.kind = "response" /\ HoldOk.method = "INVITE" /\ HoldOk.code = 200 /\ HoldOk.from = side
        /\ Hold.kind = "request" /\ Hold.method = "INVITE" /\ Hold.from = far
        /\ \A s : s \in Sides <=> s \in {side, far}
    <2>1. Seen(HoldOk) => Passed(Hold)
      BY <1>1 DEF AgentsOK, CallerSentOK
    <2>2. /\ \A i \in Tries : Ok(i).kind = "response" /\ Ok(i).method = "INVITE" /\ Ok(i).code = 200 /\ Ok(i).from = far
          /\ HoldOk.kind = "response" /\ HoldOk.method = "INVITE" /\ HoldOk.code = 200 /\ HoldOk.from = side
      BY <1>1, AnswerFields DEF Says, Tries
    <2>3. Hold.kind = "request" /\ Hold.method = "INVITE" /\ Hold.from = far
      BY RequestFields DEF Says, Tries
    <2>4. \A s : s \in Sides <=> s \in {side, far}
      BY <1>1 DEF far, Opposite, Sides
    <2> QED BY <2>1, <2>2, <2>3, <2>4
  <1>3. ASSUME callmap'[Cid] = None \/
               (/\ Live /\ callmap'[Cid] # None
                /\ callmap'[Cid].addr = Call.addr /\ callmap'[Cid].ready = Call.ready
                /\ Passed(Hold)' <=> Passed(Hold)
                /\ Passed(HoldOk)' => Passed(HoldOk)
                /\ \A i \in Tries : Redirected(i)' => Redirected(i))
        PROVE  MediaOK'
    BY <1>1, <1>3 DEF MediaOK, Live, Call
  <1>4. CASE Still
    <2>1. callmap' = callmap
      BY <1>4 DEF Still, cc
    <2> QED BY <1>3, <1>4, <2>1 DEF Still, SamePassed, Live, Call
  <1>5. CASE Fires
    <2>1. PICK c, r : TimesOut(c, r)
      BY <1>5 DEF Fires
    <2>2. callmap'[Cid] = r.call
      BY <2>1 DEF TimesOut
    <2> QED BY <1>1, <1>3, <1>5, <2>1, <2>2, TimerLeaves DEF Fires, SamePassed
  <1>6. ASSUME NEW m \in Mail, Comes(m) PROVE MediaOK'
    <2>1. OnWire(m) /\ OnlyNew(m)
      BY <1>6 DEF Comes
    <2>2. CASE Through(m)
      <3>1. callmap'[Cid] = None
        BY <2>2 DEF Through, cc, Live
      <3> QED BY <1>3, <3>1
    <2>3. ASSUME NEW c, NEW r, TakesRequest(m, c, r), m.method # "INVITE" PROVE MediaOK'
      <3>1. m # Hold /\ m # HoldOk /\ \A i \in Tries : m # Ok(i)
        BY <1>2, <2>3
      <3>2. /\ Passed(Hold)' <=> Passed(Hold)
            /\ Passed(HoldOk)' <=> Passed(HoldOk)
            /\ \A i \in Tries : Redirected(i)' <=> Redirected(i)
        BY <2>1, <3>1 DEF OnlyNew
      <3>3. callmap'[Cid] = r.call
        BY <2>3 DEF TakesRequest
      <3> QED BY <1>3, <2>3, <3>2, <3>3, RequestLeaves
    <2>4. ASSUME NEW c, NEW r, TakesRequest(m, c, r), m.method = "INVITE" PROVE MediaOK'
      <3>1. Reopens(c, m, r) /\ c \in CallType /\ callmap'[Cid] = r.call /\ m.kind = "request"
        BY <2>4 DEF TakesRequest, RequestResult
      <3>2. callmap'[Cid].addr = {m.from}
        BY <3>1 DEF Reopens, CallType
      <3>3. m # HoldOk /\ \A i \in Tries : m # Ok(i)
        BY <1>2, <3>1
      <3>4. /\ Passed(HoldOk)' <=> Passed(HoldOk)
            /\ \A i \in Tries : Redirected(i)' <=> Redirected(i)
        BY <2>1, <3>3 DEF OnlyNew
      <3>5. CASE \E i \in Tries : m = Invite(i)
        <4>1. PICK i \in Tries : m = Invite(i)
          BY <3>5
        <4>2. Kept(m) /\ m.from = side
          BY <4>1, RequestFields DEF Kept, Says
        <4>3. ~Passed(m)
          BY <2>1, <2>4, <4>2, FirstArrival
        <4>4. ~Passed(Hold) /\ \A j \in Tries : ~Redirected(j)
          BY <1>1, <2>1, <4>1, <4>3, FreshInvite DEF Seen
        <4>5. ~Passed(HoldOk) /\ m # Hold /\ side # far
          BY <1>1, <1>2, <4>2, <4>4 DEF Seen, far, Opposite, Sides
        <4>6. ~Passed(Hold)'
          BY <2>1, <4>4, <4>5 DEF OnlyNew
        <4>7. side \in callmap'[Cid].addr /\ callmap'[Cid].addr # Sides
          BY <1>2, <3>2, <4>2, <4>5
        <4> QED BY <1>1, <3>4, <4>4, <4>5, <4>6, <4>7 DEF MediaOK, Live, Call
      <3>6. CASE m = Hold
        <4>1. Kept(m)
          BY <3>6 DEF Kept
        <4>2. ~Passed(Hold)
          BY <2>1, <2>4, <3>6, <4>1, FirstArrival
        <4>3. ~Passed(HoldOk) /\ side # far
          BY <1>1, <1>2, <4>2 DEF Seen, far, Opposite, Sides
        <4>4. Passed(Hold)'
          <5>1. r.ok
            BY <3>1 DEF Reopens
          <5>2. \A n \in Mail : Passed(n)' <=> Passed(n) \/ n = m
            BY <2>4, <5>1 DEF TakesRequest, IsNew
          <5>3. Hold \in Mail /\ Hold' = Hold
            BY <1>1, Named, SameMail
          <5> QED BY <3>6, <5>2, <5>3
        <4>5. far \in callmap'[Cid].addr /\ callmap'[Cid].addr # Sides
          BY <1>2, <3>2, <3>6, <4>3
        <4> QED BY <1>1, <3>4, <4>3, <4>4, <4>5 DEF MediaOK, Live, Call
      <3>7. (\E i \in Tries : m = Invite(i)) \/ m = Hold
        <4>1. \A i \in Tries : /\ Cancel(i).method # "INVITE" /\ AckFail(i).method # "INVITE"
                               /\ AckOk(i).method # "INVITE" /\ Bye(i).method # "INVITE"
          BY RequestFields DEF Says
        <4>2. HeldAck.method # "INVITE" /\ HoldNoAck.method # "INVITE" /\ CalleeBye.method # "INVITE"
          BY RequestFields DEF Says, Tries
        <4>3. m.from \in {side, far}
          BY <1>1, MailKinds
        <4>4. CASE m.from = side
          <5>1. \E i \in Tries : m \in {Invite(i), Cancel(i), AckFail(i), AckOk(i), Bye(i)}
            BY <1>1, <3>1, <4>4, MailKinds
          <5> QED BY <2>4, <4>1, <5>1
        <4>5. CASE m.from = far
          <5>1. m \in {Hold, HeldAck, HoldNoAck, CalleeBye}
            BY <1>1, <3>1, <4>5, MailKinds
          <5> QED BY <2>4, <4>2, <5>1
        <4> QED BY <4>3, <4>4, <4>5
      <3> QED BY <3>5, <3>6, <3>7
    <2>5. ASSUME NEW c, NEW r, TakesResponse(m, c, r), ~(m.method = "INVITE" /\ m.code = 200) PROVE MediaOK'
      <3>1. m.kind = "response" /\ callmap'[Cid] = r.call
        BY <2>5 DEF TakesResponse
      <3>2. m # Hold /\ m # HoldOk /\ \A i \in Tries : m # Ok(i)
        BY <1>2, <2>5, <3>1
      <3>3. /\ Passed(Hold)' <=> Passed(Hold)
            /\ Passed(HoldOk)' <=> Passed(HoldOk)
            /\ \A i \in Tries : Redirected(i)' <=> Redirected(i)
        BY <2>1, <3>2 DEF OnlyNew
      <3> QED BY <1>3, <2>5, <3>1, <3>3, ResponseLeaves
    <2>6. ASSUME NEW c, NEW r, TakesResponse(m, c, r), m.method = "INVITE", m.code = 200 PROVE MediaOK'
      <3>1. m.kind = "response" /\ callmap'[Cid] = r.call
        BY <2>6 DEF TakesResponse
      <3>2. /\ Live /\ Call \in CallType
            /\ r.call # None => /\ r.call.addr = Call.addr \cup {m.from}
                                /\ r.call.ready = (Call.ready \/ r.call.addr = Sides)
        BY <2>6, ResponseLeaves
      <3>3. Passed(Hold)' <=> Passed(Hold)
        BY <1>2, <2>1, <3>1 DEF OnlyNew
      <3>4. Passed(HoldOk)' => Passed(HoldOk) \/ (m.from = side /\ Passed(Hold))
        BY <1>2, <2>1 DEF OnlyNew, Seen
      <3>5. \A i \in Tries : Redirected(i)' => Redirected(i) \/ m.from = far
        BY <1>2, <2>1 DEF OnlyNew
      <3>6. m.from \in Sides /\ Call.addr \subseteq Sides
        BY <1>1, <1>2, <3>2, MailKinds DEF CallType
      <3>7. ASSUME callmap'[Cid] # None
            PROVE  /\ callmap'[Cid].addr = Sides => callmap'[Cid].ready
                   /\ ~Passed(Hold)' => side \in callmap'[Cid].addr
                   /\ \A i \in Tries : ~Passed(Hold)' /\ Redirected(i)' => callmap'[Cid].addr = Sides
                   /\ Passed(Hold)' => far \in callmap'[Cid].addr
                   /\ Passed(HoldOk)' => callmap'[Cid].addr = Sides
        <4> DEFINE d == callmap'[Cid]
        <4>1. /\ d.addr = Call.addr \cup {m.from} /\ d.ready = (Call.ready \/ d.addr = Sides)
              /\ d.addr \subseteq Sides /\ Call.addr \subseteq d.addr
          BY <3>1, <3>2, <3>6, <3>7
        <4> HIDE DEF d
        <4>2. /\ ~Passed(Hold) => side \in Call.addr
              /\ \A i \in Tries : ~Passed(Hold) /\ Redirected(i) => Call.addr = Sides
              /\ Passed(Hold) => far \in Call.addr
              /\ Passed(HoldOk) => Call.addr = Sides
          BY <3>2 DEF MediaOK
        <4>3. /\ far \in d.addr /\ side \in d.addr => d.addr = Sides
              /\ Call.addr = Sides => d.addr = Sides
          BY <1>2, <4>1
        <4>4. d.addr = Sides => d.ready
          BY <4>1
        <4>5. \A i \in Tries : ~Passed(Hold)' /\ Redirected(i)' => d.addr = Sides
          BY <3>3, <3>5, <4>1, <4>2, <4>3
        <4>6. Passed(HoldOk)' => d.addr = Sides
          BY <3>4, <4>1, <4>2, <4>3
        <4> QED BY <3>3, <4>1, <4>2, <4>4, <4>5, <4>6 DEF d
      <3> QED BY <1>1, <3>7 DEF MediaOK, Live, Call
    <2> QED BY <1>6, <2>2, <2>3, <2>4, <2>5, <2>6 DEF Comes
  <1> QED BY <1>1, <1>4, <1>5, <1>6

\* Whatever may happen in a call (SipCall's Scenarios): once the caller has been
\* given a redirected answer, zsipos knows both RTP addresses and has set them,
\* as handle_dlg_request and handle_dlg_response leave them, unless the callee
\* has changed its media since and the caller has not agreed.
THEOREM MediaIsPaired == CallSpec => []MediaPaired
  <1>1. CallInit => Base /\ MediaOK
    BY InitBase DEF MediaOK
  <1>2. (Base /\ MediaOK) /\ [CallNext]_callVars => (Base /\ MediaOK)'
    <2> SUFFICES ASSUME Base, MediaOK, [CallNext]_callVars PROVE Base' /\ MediaOK'
      OBVIOUS
    <2> QED BY CallSteps, MediaStep
  <1>3. Base /\ MediaOK => MediaPaired
    <2> SUFFICES ASSUME Base, MediaOK, caller.answer = "fixed", Live, ~Renegotiating
                 PROVE  callmap[Cid].addr = Sides /\ callmap[Cid].ready
      BY DEF MediaPaired
    <2>1. AgentsOK
      BY DEF Base
    <2>2. Redirected(caller.try) /\ caller.try \in Tries
      BY <2>1, AgentTypes DEF AgentsOK, CallerOK
    <2>3. callee.hold = "no" \/ (callee.hold = "done" /\ "refused_hold" \notin allowed)
      BY <2>1, AgentTypes DEF Renegotiating
    <2>4. CASE callee.hold = "no"
      <3>1. ~Passed(Hold)
        BY <2>1, <2>4 DEF AgentsOK, CalleeSentOK, Seen
      <3> QED BY <2>2, <3>1 DEF MediaOK, Call
    <2>5. CASE callee.hold = "done" /\ "refused_hold" \notin allowed
      <3>1. Passed(HoldOk)
        BY <2>1, <2>5 DEF AgentsOK, CalleeOK, CallerSentOK, Seen
      <3> QED BY <3>1 DEF MediaOK, Call
    <2> QED BY <2>3, <2>4, <2>5
  <1> QED BY <1>1, <1>2, <1>3, PTL DEF CallSpec

----------------------------------------------------------------------------
(* How a call goes on.                                                     *)

\* The requests, and the responses, by method.
LEMMA RequestNames ==
  ASSUME side \in Sides, NEW m \in Mail, m.kind = "request"
  PROVE  /\ m.method = "INVITE" => m = Hold \/ \E i \in Tries : m = Invite(i)
         /\ m.method = "CANCEL" => \E i \in Tries : m = Cancel(i)
         /\ m.method = "BYE" => m = CalleeBye \/ \E i \in Tries : m = Bye(i)
         /\ m.method = "ACK" => m \in {HeldAck, HoldNoAck} \/ \E i \in Tries : m \in {AckFail(i), AckOk(i)}
         /\ m.method \in {"INVITE", "CANCEL", "BYE", "ACK"}
  <1>1. \A i \in Tries : /\ Invite(i).method = "INVITE" /\ Cancel(i).method = "CANCEL" /\ AckFail(i).method = "ACK"
                         /\ AckOk(i).method = "ACK" /\ Bye(i).method = "BYE"
    BY RequestFields DEF Says
  <1>2. HeldAck.method = "ACK" /\ HoldNoAck.method = "ACK" /\ CalleeBye.method = "BYE" /\ Hold.method = "INVITE"
    BY RequestFields DEF Says, Tries
  <1>3. CASE m.from = side
    <2>1. \E i \in Tries : m \in {Invite(i), Cancel(i), AckFail(i), AckOk(i), Bye(i)}
      BY <1>3, MailKinds
    <2> QED BY <1>1, <2>1
  <1>4. CASE m.from = far
    <2>1. m \in {Hold, HeldAck, HoldNoAck, CalleeBye}
      BY <1>4, MailKinds
    <2> QED BY <1>2, <2>1
  <1> QED BY <1>3, <1>4, MailKinds

LEMMA ResponseNames ==
  ASSUME side \in Sides, NEW m \in Mail, m.kind = "response"
  PROVE  /\ m.method = "INVITE" =>
              /\ m.code = 180 => \E i \in Tries : m = Progress(i)
              /\ m.code = 200 => m = HoldOk \/ \E i \in Tries : m = Ok(i)
              /\ m.code = 407 => \E i \in Tries : m = Challenge(i)
              /\ m.code = 488 => m = HoldNo
              /\ m.code \notin {180, 200, 407, 488} => \E i \in Tries : m \in {Refusal(i, 486), Refusal(i, 487)}
         /\ m.method = "CANCEL" => \E i \in Tries : m = CancelOk(i)
         /\ m.method = "BYE" => m = CalleeByeOk \/ \E i \in Tries : m = ByeOk(i)
         /\ m.method \in {"INVITE", "CANCEL", "BYE"}
  <1>1. \A i \in Tries : /\ Progress(i).method = "INVITE" /\ Ok(i).method = "INVITE" /\ Challenge(i).method = "INVITE"
                         /\ Refusal(i, 486).method = "INVITE" /\ Refusal(i, 487).method = "INVITE"
                         /\ CancelOk(i).method = "CANCEL" /\ ByeOk(i).method = "BYE"
                         /\ Progress(i).code = 180 /\ Ok(i).code = 200 /\ Challenge(i).code = 407
                         /\ Refusal(i, 486).code = 486 /\ Refusal(i, 487).code = 487
    BY AnswerFields DEF Says
  <1>2. /\ CalleeByeOk.method = "BYE" /\ HoldOk.method = "INVITE" /\ HoldNo.method = "INVITE"
        /\ HoldOk.code = 200 /\ HoldNo.code = 488
    BY AnswerFields DEF Says, Tries
  <1>3. CASE m.from = far
    <2>1. PICK i \in Tries : m \in {Progress(i), Ok(i), Challenge(i), Refusal(i, 486), Refusal(i, 487),
                                    CancelOk(i), ByeOk(i)}
      BY <1>3, MailKinds
    <2>2. /\ m = Progress(i) => m.method = "INVITE" /\ m.code = 180
          /\ m = Ok(i) => m.method = "INVITE" /\ m.code = 200
          /\ m = Challenge(i) => m.method = "INVITE" /\ m.code = 407
          /\ m \in {Refusal(i, 486), Refusal(i, 487)} => m.method = "INVITE" /\ m.code \in {486, 487}
          /\ m = CancelOk(i) => m.method = "CANCEL"
          /\ m = ByeOk(i) => m.method = "BYE"
      BY <1>1
    <2> QED BY <2>1, <2>2
  <1>4. CASE m.from = side
    <2>1. m \in {CalleeByeOk, HoldOk, HoldNo}
      BY <1>4, MailKinds
    <2> QED BY <1>2, <2>1
  <1> QED BY <1>3, <1>4, MailKinds

\* Before an answer has been accepted, nobody speaks of anything later.
LEMMA NotTalking ==
  ASSUME Base, caller.answer = "none"
  PROVE  /\ \A i \in Tries : ~Seen(AckOk(i)) /\ ~Seen(Bye(i)) /\ ~Seen(ByeOk(i))
         /\ ~Seen(Hold) /\ ~Seen(HoldOk) /\ ~Seen(HoldNo) /\ ~Seen(HeldAck) /\ ~Seen(HoldNoAck)
         /\ ~Seen(CalleeBye) /\ ~Seen(CalleeByeOk)
         /\ callee.st \notin {"up", "bye"} /\ callee.hold = "no"
  <1>1. AgentsOK /\ callee.try \in Tries
    BY AgentTypes DEF Base
  <1>2. \A i \in Tries : ~Seen(AckOk(i)) /\ ~Seen(Bye(i))
    BY <1>1 DEF AgentsOK, CallerSentOK, CallerSentFor
  <1>3. \A i \in Tries : ~Seen(ByeOk(i))
    BY <1>1, <1>2 DEF AgentsOK, CalleeSentOK, CalleeSentFor, Seen
  <1>4. ~Passed(AckOk(callee.try))
    BY <1>1, <1>2 DEF Seen
  <1>5. callee.st \notin {"up", "bye"} /\ callee.hold = "no" /\ ~Seen(Hold) /\ ~Seen(CalleeBye)
    BY <1>1, <1>4 DEF AgentsOK, CalleeOK, CalleeSentOK
  <1>6. ~Seen(HoldOk) /\ ~Seen(HoldNo) /\ ~Seen(CalleeByeOk)
    BY <1>1, <1>5 DEF AgentsOK, CallerSentOK, Seen
  <1>7. ~Seen(HeldAck) /\ ~Seen(HoldNoAck)
    BY <1>1, <1>6 DEF AgentsOK, CalleeSentOK, Seen
  <1> QED BY <1>2, <1>3, <1>5, <1>6, <1>7

\* An answer belongs to the INVITE the caller has last sent, which came through.
LEMMA Talking ==
  ASSUME Base, caller.answer # "none"
  PROVE  /\ caller.try \in Tries /\ Passed(Ok(caller.try)) /\ Used(caller.try)
         /\ Passed(Invite(caller.try)) /\ Passed(Invite(1)) /\ callee.try = caller.try
         /\ callee.st \notin {"idle", "ringing"}
  <1>1. side \in Sides /\ WireOK /\ AgentsOK /\ caller.try \in Tries
    BY AgentTypes DEF Base, Setting
  <1>2. Passed(Ok(caller.try)) /\ Used(caller.try) /\ callee.st \notin {"idle", "ringing"}
    BY <1>1, AckAnswers
  <1>3. caller.try = 2 => Passed(Invite(1))
    BY <1>1 DEF AgentsOK, CallerOK, CalleeSentOK, CalleeSentFor, Seen, Tries
  <1> QED BY <1>1, <1>2, <1>3 DEF Used, Tries

\* When the callee's proxy has asked for credentials and they have not come,
\* the callee does not know of the call.
LEMMA Unused ==
  ASSUME Base, Seen(Challenge(1)), ~Passed(Invite(2))
  PROVE  /\ caller.answer = "none"
         /\ \A i \in Tries : ~Seen(Ok(i)) /\ ~Seen(Refusal(i, 486)) /\ ~Seen(Refusal(i, 487))
         /\ Passed(Invite(1))
  <1>1. AgentsOK /\ 1 \in Tries /\ 2 \in Tries
    BY DEF Base, Tries
  <1>2. "challenge" \in allowed /\ Passed(Invite(1))
    BY <1>1 DEF AgentsOK, CalleeSentOK, CalleeSentFor
  <1>3. \A i \in Tries : ~Used(i)
    BY <1>2 DEF Used, Tries
  <1>4. \A i \in Tries : ~Seen(Ok(i)) /\ ~Seen(Refusal(i, 486)) /\ ~Seen(Refusal(i, 487))
    BY <1>1, <1>3 DEF AgentsOK, CalleeSentOK, CalleeSentFor
  <1>5. caller.answer = "none"
    BY <1>3, Talking
  <1> QED BY <1>2, <1>4, <1>5

\* What a request other than INVITE does to the timers and the end of the call.
LEMMA RequestMarks ==
  ASSUME Base, NEW m \in Mail, NEW c, NEW r, TakesRequest(m, c, r), m.method # "INVITE", r.call # None
  PROVE  /\ r.call.ts => Call.ts \/ m.method \in {"BYE", "CANCEL"}
         /\ m.method \in {"BYE", "CANCEL"} => r.call.t3 = Call.t3 /\ r.call.terminated = Call.terminated
         /\ m.method = "BYE" => r.call.ts
         /\ m.method = "ACK" /\ m.seq = Call.cseq /\ Call.finalCode # 200 =>
              Call.terminated \/ (LogEvents /\ Call.finalCode = NoCode)
         /\ m.method = "ACK" /\ ~(m.seq = Call.cseq /\ Call.finalCode # 200) => r.call.terminated = Call.terminated
         /\ m.method = "ACK" => ~r.call.t3
         /\ m.method = "ACK" /\ m.seq # Call.cseq => r.call.ts = Call.ts
  <1>1. /\ Live /\ c = Call /\ Call \in CallType /\ RequestResult(c, m, r)
        /\ m.method \in {"ACK", "BYE", "CANCEL"}
    <2>1. m.kind = "request" /\ side \in Sides /\ RequestResult(c, m, r)
      BY DEF TakesRequest, Base, Setting
    <2> QED BY <2>1, RequestLeaves, MailForms
  <1>2. CASE m.method = "BYE"
    <2>1. r.call = [c EXCEPT !.ts = TRUE]
      BY <1>1, <1>2 DEF RequestResult, Becomes
    <2> QED BY <1>1, <1>2, <2>1 DEF CallType
  <1>3. CASE m.method = "CANCEL"
    <2>1. r.call = [c EXCEPT !.ts = TRUE] \/ r.call = c
      BY <1>1, <1>3 DEF RequestResult, Becomes
    <2> QED BY <1>1, <1>3, <2>1 DEF CallType
  <1>4. CASE m.method = "ACK" /\ m.seq = Call.cseq /\ Call.finalCode = 200
    <2>1. r.call = [c EXCEPT !.t3 = FALSE, !.ts = FALSE]
      BY <1>1, <1>4 DEF RequestResult, Connects
    <2> QED BY <1>1, <1>4, <2>1 DEF CallType
  <1>5. CASE m.method = "ACK" /\ m.seq = Call.cseq /\ Call.finalCode # 200
    <2>1. /\ r.call = [c EXCEPT !.t3 = FALSE, !.ts = FALSE, !.terminated = TRUE]
          /\ c.terminated \/ (LogEvents /\ c.finalCode = NoCode)
      BY <1>1, <1>5 DEF RequestResult, Ends
    <2> QED BY <1>1, <1>5, <2>1 DEF CallType
  <1>6. CASE m.method = "ACK" /\ m.seq # Call.cseq
    <2>1. r.call = [c EXCEPT !.t3 = FALSE]
      BY <1>1, <1>6 DEF RequestResult, Becomes
    <2> QED BY <1>1, <1>6, <2>1 DEF CallType
  <1> QED BY <1>1, <1>2, <1>3, <1>4, <1>5, <1>6

\* What a response does to them.
LEMMA ResponseMarks ==
  ASSUME Base, NEW m \in Mail, NEW c, NEW r, TakesResponse(m, c, r), r.call # None
  PROVE  /\ r.call.ts => Call.ts
         /\ m.method = "INVITE" => /\ r.call.t3 = Call.t3 /\ r.call.ts = Call.ts /\ r.call.terminated = Call.terminated
                                   /\ r.call.finalCode = IF m.code # 180 /\ m.seq = Call.cseq THEN m.code ELSE Call.finalCode
         /\ m.method = "BYE" => /\ Call.terminated \/ (LogEvents /\ Call.finalCode = NoCode)
                                /\ r.call.finalCode = Call.finalCode
         /\ m.method = "CANCEL" => /\ r.call.terminated = Call.terminated
                                   /\ r.call.finalCode = Call.finalCode \/ (Call.terminated /\ r.call.finalCode = 487)
                                   /\ r.call.t3 = Call.t3 \/ Call.terminated
                                   /\ r.call.ts = Call.ts \/ Call.terminated
  <1>1. /\ Live /\ c = Call /\ Call \in CallType /\ ResponseResult(c, m, r) /\ m.kind = "response" /\ side \in Sides
        /\ c \in CallType
    BY ResponseLeaves DEF TakesResponse, Base, Setting
  <1>2. m.method \in {"INVITE", "BYE", "CANCEL"} /\ m \in ResponseType
    BY <1>1, MailForms, MailKinds
  <1> DEFINE final == IF m.seq = c.cseq THEN [c EXCEPT !.finalCode = m.code] ELSE c
             gone  == [c EXCEPT !.finalCode = IF @ = NoCode THEN 487 ELSE @]
  <1>3. /\ final.t3 = c.t3 /\ final.ts = c.ts /\ final.terminated = c.terminated
        /\ final.finalCode = (IF m.seq = c.cseq THEN m.code ELSE c.finalCode)
        /\ final \in CallType
    BY <1>1, <1>2 DEF CallType, ResponseType
  <1>4. /\ gone.t3 = c.t3 /\ gone.ts = c.ts /\ gone.terminated = c.terminated /\ gone \in CallType
        /\ gone.finalCode = (IF c.finalCode = NoCode THEN 487 ELSE c.finalCode)
    BY <1>1 DEF CallType, Codes
  <1>5. CASE m.method = "INVITE"
    <2>1. \/ m.code = 180 /\ r.call = c
          \/ m.code # 180 /\ r.call = final
          \/ m.code # 180 /\ r.call = [final EXCEPT !.addr = final.addr \cup {m.from},
                                                     !.ready = @ \/ final.addr \cup {m.from} = Sides]
      <3>1. CASE m.code = 200
        <4>1. Answers(final, m, r)
          BY <1>1, <1>5, <3>1 DEF ResponseResult
        <4> HIDE DEF final
        <4> QED BY <3>1, <4>1 DEF Answers
      <3>2. CASE m.code # 200
        BY <1>1, <1>5, <3>2 DEF ResponseResult, Becomes
      <3> QED BY <3>1, <3>2
    <2> HIDE DEF final
    <2>2. CASE m.code = 180 /\ r.call = c
      BY <1>1, <1>5, <2>2 DEF CallType
    <2>3. CASE m.code # 180 /\ r.call = final
      BY <1>1, <1>3, <1>5, <2>3
    <2>4. CASE /\ m.code # 180
               /\ r.call = [final EXCEPT !.addr = final.addr \cup {m.from},
                                         !.ready = @ \/ final.addr \cup {m.from} = Sides]
      <3>1. /\ r.call.t3 = final.t3 /\ r.call.ts = final.ts /\ r.call.terminated = final.terminated
            /\ r.call.finalCode = final.finalCode
        BY <1>3, <2>4 DEF CallType
      <3> QED BY <1>1, <1>3, <1>5, <2>4, <3>1
    <2> QED BY <2>1, <2>2, <2>3, <2>4
  <1>6. CASE m.method = "BYE"
    <2>1. /\ r.call = [c EXCEPT !.t3 = FALSE, !.ts = FALSE, !.terminated = TRUE]
          /\ c.terminated \/ (LogEvents /\ c.finalCode = NoCode)
      BY <1>1, <1>6 DEF ResponseResult, Ends
    <2> QED BY <1>1, <1>6, <2>1 DEF CallType
  <1>7. CASE m.method = "CANCEL"
    <2>1. Ends(gone, r) \/ r.call = c
      BY <1>1, <1>7 DEF ResponseResult, Becomes
    <2> HIDE DEF gone
    <2>2. \/ r.call = c
          \/ /\ r.call = [gone EXCEPT !.t3 = FALSE, !.ts = FALSE, !.terminated = TRUE]
             /\ gone.terminated \/ (LogEvents /\ gone.finalCode = NoCode)
      BY <2>1 DEF Ends
    <2>3. CASE r.call = c
      BY <1>1, <1>7, <2>3 DEF CallType
    <2>4. CASE r.call = [gone EXCEPT !.t3 = FALSE, !.ts = FALSE, !.terminated = TRUE]
               /\ (gone.terminated \/ (LogEvents /\ gone.finalCode = NoCode))
      <3>1. gone.finalCode # NoCode
        BY <1>4 DEF NoCode
      <3>2. c.terminated
        BY <1>4, <2>4, <3>1
      <3>3. /\ r.call.t3 = FALSE /\ r.call.ts = FALSE /\ r.call.terminated = TRUE
            /\ r.call.finalCode = gone.finalCode
        BY <1>4, <2>4 DEF CallType
      <3> QED BY <1>1, <1>4, <1>7, <3>2, <3>3, ZenonT(40)
    <2> QED BY <2>2, <2>3, <2>4
  <1> QED BY <1>2, <1>5, <1>6, <1>7

\* A timer leaves a call there only if it had ended before.
LEMMA TimerMarks ==
  ASSUME Base, NEW c, NEW r, TimesOut(c, r), r.call # None
  PROVE  /\ Call.terminated /\ r.call.terminated /\ ~r.call.ts
         /\ r.call.finalCode \in {408, 487, Call.finalCode}
  <1>1. Call \in CallType /\ c \in CallType
    BY CallAssumption DEF TimesOut, Live, CallsOK, Call, Base, IInv
  <1>2. PICK code \in Codes \cap {408, 487, Call.finalCode} : c = [Call EXCEPT !.finalCode = code]
    BY DEF TimesOut
  <1>3. c.finalCode = code /\ c.terminated = Call.terminated /\ code # NoCode
    BY <1>1, <1>2 DEF CallType, Codes, NoCode
  <1>4. r.call = [c EXCEPT !.t3 = FALSE, !.ts = FALSE, !.terminated = TRUE] /\ c.terminated
    BY <1>3 DEF TimesOut, Ends
  <1> QED BY <1>1, <1>2, <1>3, <1>4 DEF CallType

\* A message that is not stopped comes through.
LEMMA ComesThrough ==
  ASSUME side \in Sides, UNCHANGED <<side, allowed>>, NEW m \in Mail, NEW c, NEW r,
         (TakesRequest(m, c, r) /\ m.method # "ACK") \/ (TakesResponse(m, c, r) /\ m.method = "INVITE")
  PROVE  /\ \A i \in Tries : /\ m = Invite(i) => Passed(Invite(i))'
                             /\ m = Bye(i) => Passed(Bye(i))'
                             /\ m = Ok(i) => Passed(Ok(i))' /\ Redirected(i)'
                             /\ m = Challenge(i) => Passed(Challenge(i))'
                             /\ m = Refusal(i, 486) => Passed(Refusal(i, 486))'
                             /\ m = Refusal(i, 487) => Passed(Refusal(i, 487))'
         /\ m = Hold => Passed(Hold)'
         /\ m = CalleeBye => Passed(CalleeBye)'
  <1>1. CASE TakesRequest(m, c, r) /\ m.method # "ACK"
    <2>1. m.method \in {"INVITE", "BYE", "CANCEL"} /\ RequestResult(c, m, r) /\ m.kind = "request"
      BY <1>1, MailForms DEF TakesRequest
    <2>2. r.ok
      BY <2>1 DEF RequestResult, Reopens, Becomes
    <2>3. IsNew(m, TRUE)
      BY <1>1, <2>2 DEF TakesRequest
    <2>4. \A i \in Tries : m # Ok(i)
      BY <2>1, AnswerFields DEF Says
    <2>5. Passed(m)'
      BY <2>3 DEF IsNew
    <2> QED BY <2>3, <2>4, SameMail, Named DEF IsNew
  <1>2. CASE TakesResponse(m, c, r) /\ m.method = "INVITE"
    <2>1. ResponseResult(c, m, r)
      BY <1>2 DEF TakesResponse
    <2>2. r.ok
      BY <1>2, <2>1 DEF ResponseResult, Answers, Becomes
    <2>3. IsNew(m, FALSE)
      BY <1>2, <2>2 DEF TakesResponse
    <2> QED BY <2>3, SameMail, Named DEF IsNew
  <1> QED BY <1>1, <1>2

\* What has come through has come through.
LEMMA StaysPassed ==
  ASSUME side \in Sides, Relays
  PROVE  /\ UNCHANGED <<side, allowed, caller, callee>>
         /\ \A i \in Tries : /\ Passed(Invite(i)) => Passed(Invite(i))'
                             /\ Passed(Bye(i)) => Passed(Bye(i))'
                             /\ Passed(Ok(i)) => Passed(Ok(i))'
                             /\ Passed(AckOk(i)) => Passed(AckOk(i))'
                             /\ Passed(AckFail(i)) => Passed(AckFail(i))'
                             /\ Passed(Challenge(i)) => Passed(Challenge(i))'
                             /\ Passed(Refusal(i, 486)) => Passed(Refusal(i, 486))'
                             /\ Passed(Refusal(i, 487)) => Passed(Refusal(i, 487))'
         /\ Passed(Hold) => Passed(Hold)'
         /\ Passed(CalleeBye) => Passed(CalleeBye)'
  <1>1. UNCHANGED <<side, allowed, caller, callee>>
    BY DEF Relays, agents
  <1> QED BY <1>1, SameMail, Named DEF Relays

\* A call was opened by an INVITE; timer S tells of an end, 200 of an answer.
OpenedOK ==
  /\ Live => Passed(Invite(1))
  /\ Live /\ Call.ts => caller.cancelled \/ (\E i \in Tries : Passed(Bye(i))) \/ Passed(CalleeBye)
  /\ Live /\ Call.finalCode = 200 => \E i \in Tries : Passed(Ok(i))

LEMMA OpenedStep ==
  ASSUME Base, OpenedOK, [CallNext]_callVars
  PROVE  OpenedOK'
  <1>1. /\ UNCHANGED <<side, allowed>> /\ side \in Sides /\ WireOK /\ AgentsOK
        /\ Still \/ (\E m \in Mail : Comes(m)) \/ Fires
    BY CallTurns DEF Base, Setting
  <1>2. CASE Still
    <2>1. callmap' = callmap /\ SamePassed
      BY <1>2 DEF Still, cc
    <2>2. caller.cancelled => caller'.cancelled
      BY <1>2 DEF Still, Moves, Relays, agents
    <2> QED BY <2>1, <2>2 DEF SamePassed, OpenedOK, Live, Call, Tries
  <1> DEFINE d == callmap'[Cid]
             Opened == /\ Passed(Invite(1))'
                       /\ d.ts => caller.cancelled \/ (\E i \in Tries : Passed(Bye(i))') \/ Passed(CalleeBye)'
                       /\ d.finalCode = 200 => \E i \in Tries : Passed(Ok(i))'
  <1>3. ASSUME Relays, d # None => Opened PROVE OpenedOK'
    BY <1>3 DEF OpenedOK, Live, Call, Relays, agents
  <1> HIDE DEF d, Opened
  <1>4. ASSUME Relays, Live,
               d.ts => Call.ts \/ caller.cancelled \/ (\E i \in Tries : Passed(Bye(i))') \/ Passed(CalleeBye)',
               d.finalCode = 200 => Call.finalCode = 200 \/ \E i \in Tries : Passed(Ok(i))'
        PROVE  Opened
    BY <1>1, <1>4, StaysPassed DEF OpenedOK, Opened, Tries
  <1>5. CASE Fires
    <2>1. PICK c, r : TimesOut(c, r)
      BY <1>5 DEF Fires
    <2>2. d = r.call /\ Live /\ Relays
      BY <1>5, <2>1 DEF TimesOut, d, Fires
    <2>3. r.call # None => Opened
      BY <1>4, <2>1, <2>2, TimerMarks
    <2> QED BY <1>3, <2>2, <2>3
  <1>6. ASSUME NEW m \in Mail, Comes(m) PROVE OpenedOK'
    <2>1. OnWire(m) /\ Relays /\ Seen(m)
      BY <1>6 DEF Comes, Seen
    <2>2. CASE Through(m)
      <3>1. d = None
        BY <2>2 DEF Through, cc, Live, d
      <3> QED BY <1>3, <2>1, <3>1
    <2>3. ASSUME NEW c, NEW r, TakesRequest(m, c, r), m.method # "INVITE", d # None PROVE Opened
      <3>1. d = r.call /\ m.kind = "request"
        BY <2>3 DEF TakesRequest, d
      <3>2. Live /\ d.finalCode = Call.finalCode /\ (d.ts => Call.ts \/ m.method \in {"BYE", "CANCEL"})
        BY <2>3, <3>1, RequestLeaves, RequestMarks
      <3>3. m.method = "BYE" => (\E i \in Tries : Passed(Bye(i))') \/ Passed(CalleeBye)'
        BY <1>1, <2>3, <3>1, RequestNames, ComesThrough
      <3>4. m.method = "CANCEL" => caller.cancelled
        BY <1>1, <2>1, <3>1, RequestNames DEF AgentsOK, CallerSentOK, CallerSentFor
      <3> QED BY <1>4, <2>1, <3>2, <3>3, <3>4
    <2>4. ASSUME NEW c, NEW r, TakesRequest(m, c, r), m.method = "INVITE" PROVE Opened
      <3>1. /\ Reopens(c, m, r) /\ c \in CallType /\ d = r.call /\ m.kind = "request"
            /\ c = IF Live THEN Call ELSE NewCall(m)
        BY <2>4 DEF TakesRequest, RequestResult, d
      <3>2. d.ts = c.ts /\ d.finalCode = c.finalCode
        BY <3>1 DEF Reopens, CallType
      <3>3. CASE Live
        BY <1>4, <2>1, <3>1, <3>2, <3>3
      <3>4. CASE ~Live
        <4>1. ~d.ts /\ d.finalCode # 200
          BY <3>1, <3>2, <3>4 DEF NewCall, NoCode
        <4>2. Passed(Invite(1))'
          <5>1. CASE m = Hold
            BY <1>1, <2>1, <5>1, NotTalking, Talking, StaysPassed DEF Tries
          <5>2. ASSUME NEW i \in Tries, m = Invite(i) PROVE Passed(Invite(1))'
            <6>1. Kept(m)
              BY <5>2 DEF Kept
            <6>2. ~Passed(Invite(i)) /\ OnWire(Invite(i))
              BY <2>1, <2>4, <5>2, <6>1, FirstArrival
            <6>3. i = 2 <=> Passed(Invite(1))
              BY <1>1, <6>2, FreshInvite
            <6>4. Passed(Invite(i))'
              BY <1>1, <2>4, <5>2, ComesThrough
            <6> QED BY <1>1, <2>1, <6>3, <6>4, StaysPassed DEF Tries
          <5> QED BY <1>1, <2>4, <3>1, <5>1, <5>2, RequestNames
        <4> QED BY <4>1, <4>2 DEF Opened
      <3> QED BY <3>3, <3>4
    <2>5. ASSUME NEW c, NEW r, TakesResponse(m, c, r), d # None PROVE Opened
      <3>1. d = r.call /\ m.kind = "response" /\ Live /\ (d.ts => Call.ts)
        BY <2>5, ResponseMarks DEF TakesResponse, d
      <3>2. d.finalCode = 200 => Call.finalCode = 200 \/ (m.method = "INVITE" /\ m.code = 200)
        <4>1. m.method \in {"INVITE", "CANCEL", "BYE"}
          BY <1>1, <3>1, ResponseNames
        <4> QED BY <2>5, <3>1, <4>1, ResponseMarks
      <3>3. m.method = "INVITE" /\ m.code = 200 => \E i \in Tries : Passed(Ok(i))'
        <4>1. CASE m = HoldOk
          <5>1. caller.try \in Tries /\ Passed(Ok(caller.try))
            BY <2>1, <4>1, NotTalking, Talking
          <5> QED BY <1>1, <2>1, <5>1, StaysPassed
        <4>2. ASSUME NEW i \in Tries, m = Ok(i) PROVE Passed(Ok(i))'
          <5>1. m.method = "INVITE"
            BY <1>1, <4>2, AnswerFields DEF Says
          <5> QED BY <1>1, <2>5, <4>2, <5>1, ComesThrough
        <4> QED BY <1>1, <3>1, <4>1, <4>2, ResponseNames
      <3> QED BY <1>4, <2>1, <3>1, <3>2, <3>3
    <2>6. ASSUME NEW c, NEW r, TakesRequest(m, c, r) \/ TakesResponse(m, c, r) PROVE OpenedOK'
      BY <1>3, <2>1, <2>3, <2>4, <2>5, <2>6
    <2> QED BY <1>6, <2>2, <2>6 DEF Comes
  <1> QED BY <1>1, <1>2, <1>5, <1>6

\* As long as the ACK of the 407 is not overtaken, the CSeq number of the call is
\* that of the last INVITE; a call whose credentials were asked for waits for that
\* ACK and is gone after it; a call that ended and stayed was answered or refused.
SetupOK ==
  "lost_ack" \notin allowed =>
    /\ Live /\ ~Passed(Hold) => Call.cseq = IF Passed(Invite(2)) THEN 2 ELSE 1
    /\ Passed(Challenge(1)) /\ ~Passed(Invite(2)) /\ Live => Call.finalCode = 407 /\ ~Call.terminated
    /\ Passed(Challenge(1)) /\ ~Passed(Invite(2)) /\ Passed(AckFail(1)) => ~Live
    /\ Live /\ Call.terminated =>
         caller.answer # "none" \/ \E i \in Tries : Passed(Refusal(i, 486)) \/ Passed(Refusal(i, 487))

\* The ACK of a failure, when it comes for the first time.
LEMMA FailureAcked ==
  ASSUME Base, "lost_ack" \notin allowed, NEW i \in Tries, Seen(AckFail(i)), ~Passed(AckFail(i))
  PROVE  \/ Passed(Refusal(i, 486)) \/ Passed(Refusal(i, 487))
         \/ i = 1 /\ Passed(Challenge(1)) /\ ~Passed(Invite(2)) /\ caller.try = 1 /\ caller.st = "challenged"
  <1>1. /\ CallerSentFor(i) /\ CallerSentFor(2) /\ CallerOK
    BY DEF Base, AgentsOK, CallerSentOK, Tries
  <1>2. caller.try = 2 => Passed(AckFail(1))
    BY <1>1 DEF CallerOK
  <1>3. caller.try = 1 => ~Passed(Invite(2))
    BY <1>1 DEF CallerSentFor, Seen
  <1> QED BY <1>1, <1>2, <1>3 DEF CallerSentFor, CallerOK

LEMMA SetupInvite ==
  ASSUME Base, OpenedOK, SetupOK, "lost_ack" \notin allowed, UNCHANGED <<side, allowed>>,
         NEW m \in Mail, Comes(m), NEW c, NEW r, TakesRequest(m, c, r), m.method = "INVITE"
  PROVE  SetupOK'
  <1> DEFINE d == callmap'[Cid]
  <1>1. /\ Reopens(c, m, r) /\ c \in CallType /\ d = r.call /\ m.kind = "request"
        /\ c = IF Live THEN Call ELSE NewCall(m)
    BY DEF TakesRequest, RequestResult
  <1>2. /\ side \in Sides /\ AgentsOK /\ WireOK /\ OnWire(m) /\ Seen(m) /\ OnlyNew(m) /\ Relays
        /\ UNCHANGED <<caller, callee>> /\ 1 \in Tries /\ 2 \in Tries
    BY DEF Base, Setting, Comes, Seen, Relays, agents, Tries
  <1>3. d.cseq = c.cseq /\ d.finalCode = c.finalCode /\ d.terminated = c.terminated
    BY <1>1 DEF Reopens, CallType
  <1>4. \A i \in Tries : m # Challenge(i) /\ m # Refusal(i, 486) /\ m # Refusal(i, 487) /\ m # AckFail(i)
    <2>1. \A i \in Tries : /\ Challenge(i).kind = "response" /\ Refusal(i, 486).kind = "response"
                           /\ Refusal(i, 487).kind = "response" /\ AckFail(i).method = "ACK"
      BY <1>2, AnswerFields, RequestFields DEF Says
    <2> QED BY <1>1, <2>1
  <1>5. \A i \in Tries : /\ Passed(Challenge(i))' <=> Passed(Challenge(i))
                         /\ Passed(Refusal(i, 486))' <=> Passed(Refusal(i, 486))
                         /\ Passed(Refusal(i, 487))' <=> Passed(Refusal(i, 487))
                         /\ Passed(AckFail(i))' <=> Passed(AckFail(i))
    BY <1>2, <1>4 DEF OnlyNew
  <1> HIDE DEF d
  <1>6. CASE m = Hold
    <2>1. caller.answer # "none"
      BY <1>2, <1>6, NotTalking
    <2>2. Passed(Hold)'
      BY <1>2, <1>6, ComesThrough
    <2>3. Passed(Challenge(1))' => Passed(Invite(2))'
      BY <1>2, <1>5, <2>1, Unused, StaysPassed DEF Seen
    <2> QED BY <1>2, <2>1, <2>2, <2>3 DEF SetupOK
  <1>7. ASSUME NEW i \in Tries, m = Invite(i) PROVE SetupOK'
    <2>1. Kept(m)
      BY <1>7 DEF Kept
    <2>2. OnWire(Invite(i)) /\ ~Passed(Invite(i))
      BY <1>2, <1>7, <2>1, FirstArrival
    <2>3. /\ caller.answer = "none" /\ caller.try = i /\ ~Seen(Hold) /\ (i = 2 <=> Passed(Invite(1)))
      BY <1>2, <2>2, FreshInvite
    <2>4. ~Live
      <3>1. ASSUME Live PROVE i = 2
        BY <2>3, <3>1 DEF OpenedOK
      <3>2. ASSUME Live, i = 2 PROVE FALSE
        <4>1. Passed(Challenge(1)) /\ Passed(AckFail(1))
          BY <1>2, <2>3, <3>2 DEF AgentsOK, CallerOK
        <4> QED BY <2>2, <3>2, <4>1 DEF SetupOK
      <3> QED BY <3>1, <3>2
    <2>5. d.cseq = i /\ ~d.terminated
      <3>1. Invite(i).seq = i
        BY RequestFields DEF Says
      <3> QED BY <1>1, <1>3, <1>7, <2>4, <3>1 DEF NewCall
    <2>6. i = 2 => Passed(Invite(2))'
      BY <1>2, <1>7, ComesThrough
    <2>7. i = 1 => ~Passed(Invite(2))' /\ ~Passed(Challenge(1))'
      <3>1. i = 1 => ~Passed(Invite(2))
        BY <1>2, <2>3 DEF AgentsOK, CallerSentOK, CallerSentFor, Seen
      <3>2. i = 1 => Invite(2) # m
        BY <1>2, <1>7, CallerDiffer
      <3>3. i = 1 => ~Passed(Challenge(1))
        BY <1>2, <2>2 DEF AgentsOK, CalleeSentOK, CalleeSentFor, Seen
      <3> QED BY <1>2, <1>5, <3>1, <3>2, <3>3 DEF OnlyNew
    <2> QED BY <2>5, <2>6, <2>7 DEF SetupOK, Live, Call, d, Tries
  <1> QED BY <1>1, <1>2, <1>6, <1>7, RequestNames

LEMMA SetupRequest ==
  ASSUME Base, OpenedOK, SetupOK, "lost_ack" \notin allowed, UNCHANGED <<side, allowed>>,
         NEW m \in Mail, Comes(m), NEW c, NEW r, TakesRequest(m, c, r), m.method # "INVITE"
  PROVE  SetupOK'
  <1> DEFINE d == callmap'[Cid]
  <1>1. m.kind = "request" /\ d = r.call /\ Live /\ Call \in CallType
    BY RequestLeaves DEF TakesRequest
  <1>2. /\ side \in Sides /\ AgentsOK /\ WireOK /\ OnWire(m) /\ Seen(m) /\ OnlyNew(m) /\ Relays
        /\ UNCHANGED <<caller, callee>> /\ 1 \in Tries /\ 2 \in Tries
    BY DEF Base, Setting, Comes, Seen, Relays, agents, Tries
  <1>3. m # Hold /\ \A i \in Tries : m # Invite(i) /\ m # Challenge(i) /\ m # Refusal(i, 486) /\ m # Refusal(i, 487)
    <2>1. Hold.method = "INVITE"
      BY RequestFields DEF Says, Tries
    <2>2. \A i \in Tries : /\ Challenge(i).kind = "response" /\ Refusal(i, 486).kind = "response"
                           /\ Refusal(i, 487).kind = "response" /\ Invite(i).method = "INVITE"
      BY <1>2, AnswerFields, RequestFields DEF Says
    <2> QED BY <1>1, <2>1, <2>2
  <1>4. /\ Passed(Hold)' <=> Passed(Hold)
        /\ \A i \in Tries : /\ Passed(Invite(i))' <=> Passed(Invite(i))
                            /\ Passed(Challenge(i))' <=> Passed(Challenge(i))
                            /\ Passed(Refusal(i, 486))' <=> Passed(Refusal(i, 486))
                            /\ Passed(Refusal(i, 487))' <=> Passed(Refusal(i, 487))
    BY <1>2, <1>3 DEF OnlyNew
  <1> HIDE DEF d
  <1>5. CASE d = None
    BY <1>5 DEF SetupOK, Live, Call, d
  <1>6. CASE d # None
    <2>1. d.cseq = Call.cseq /\ d.finalCode = Call.finalCode
      BY <1>1, <1>6, RequestLeaves
    <2>2. d.terminated => \/ Call.terminated
                          \/ m.method = "ACK" /\ m.seq = Call.cseq /\ Call.finalCode = NoCode
      <3>1. m.method \in {"INVITE", "CANCEL", "BYE", "ACK"}
        BY <1>1, <1>2, RequestNames
      <3>2. NoCode # 200
        BY DEF NoCode
      <3> QED BY <1>1, <1>6, <3>1, <3>2, RequestMarks
    <2>3. ~(Passed(Challenge(1)) /\ ~Passed(Invite(2)) /\ Passed(AckFail(1))')
      <3>1. ASSUME Passed(Challenge(1)), ~Passed(Invite(2)), Passed(AckFail(1))' PROVE FALSE
        <4>1. m = AckFail(1)
          BY <1>1, <1>2, <3>1 DEF SetupOK, OnlyNew
        <4>2. m.seq = 1 /\ m.method = "ACK"
          BY <1>2, <4>1, RequestFields DEF Says
        <4>3. ~Passed(Hold)
          BY <3>1, Unused, NotTalking DEF Seen
        <4>4. Call.cseq = 1 /\ Call.finalCode = 407 /\ ~Call.terminated
          BY <1>1, <3>1, <4>3 DEF SetupOK
        <4> QED BY <1>1, <1>6, <4>2, <4>4, RequestMarks DEF NoCode
      <3> QED BY <3>1
    <2>4. Passed(Challenge(1)) /\ ~Passed(Invite(2)) => Call.finalCode = 407 /\ ~d.terminated
      BY <1>1, <2>2 DEF SetupOK, NoCode
    <2>5. d.terminated => \/ caller.answer # "none"
                          \/ \E i \in Tries : Passed(Refusal(i, 486)) \/ Passed(Refusal(i, 487))
      <3>1. CASE Call.terminated
        BY <1>1, <3>1 DEF SetupOK
      <3>2. ASSUME m.method = "ACK", Call.finalCode = NoCode
            PROVE  caller.answer # "none" \/ \E i \in Tries : Passed(Refusal(i, 486)) \/ Passed(Refusal(i, 487))
        <4>1. CASE m \in {HeldAck, HoldNoAck}
          BY <1>2, <4>1, NotTalking
        <4>2. ASSUME NEW i \in Tries, m = AckOk(i) PROVE caller.answer # "none"
          BY <1>2, <4>2, NotTalking
        <4>3. ASSUME NEW i \in Tries, m = AckFail(i) PROVE Passed(Refusal(i, 486)) \/ Passed(Refusal(i, 487))
          <5>1. Kept(m)
            BY <4>3 DEF Kept
          <5>2. ~Passed(AckFail(i)) /\ Seen(AckFail(i))
            BY <1>2, <4>3, <5>1, FirstArrival
          <5>3. ~(Passed(Challenge(1)) /\ ~Passed(Invite(2)))
            BY <1>1, <3>2 DEF SetupOK, NoCode
          <5> QED BY <5>2, <5>3, FailureAcked
        <4> QED BY <1>1, <1>2, <3>2, <4>1, <4>2, <4>3, RequestNames
      <3> QED BY <2>2, <3>1, <3>2
    <2>6. ~Passed(Hold) => Call.cseq = IF Passed(Invite(2)) THEN 2 ELSE 1
      BY <1>1 DEF SetupOK
    <2> QED BY <1>2, <1>4, <2>1, <2>3, <2>4, <2>5, <2>6 DEF SetupOK, Live, Call, d
  <1> QED BY <1>5, <1>6

LEMMA SetupResponse ==
  ASSUME Base, SetupOK, "lost_ack" \notin allowed, UNCHANGED <<side, allowed>>,
         NEW m \in Mail, Comes(m), NEW c, NEW r, TakesResponse(m, c, r)
  PROVE  SetupOK'
  <1> DEFINE d == callmap'[Cid]
  <1>1. m.kind = "response" /\ d = r.call /\ Live /\ Call \in CallType
    BY ResponseLeaves DEF TakesResponse
  <1>2. /\ side \in Sides /\ AgentsOK /\ WireOK /\ OnWire(m) /\ Seen(m) /\ OnlyNew(m) /\ Relays
        /\ UNCHANGED <<caller, callee>> /\ 1 \in Tries /\ 2 \in Tries
    BY DEF Base, Setting, Comes, Seen, Relays, agents, Tries
  <1>3. m # Hold /\ \A i \in Tries : m # Invite(i) /\ m # AckFail(i)
    BY <1>1, RequestFields DEF Says, Tries
  <1>4. /\ Passed(Hold)' <=> Passed(Hold)
        /\ \A i \in Tries : /\ Passed(Invite(i))' <=> Passed(Invite(i))
                            /\ Passed(AckFail(i))' <=> Passed(AckFail(i))
    BY <1>2, <1>3 DEF OnlyNew
  <1>5. \A i \in Tries : /\ Passed(Refusal(i, 486)) => Passed(Refusal(i, 486))'
                         /\ Passed(Refusal(i, 487)) => Passed(Refusal(i, 487))'
    BY <1>2, StaysPassed
  <1>6. Challenge(1) # m => (Passed(Challenge(1))' <=> Passed(Challenge(1)))
    BY <1>2 DEF OnlyNew
  <1>7. m.method \in {"INVITE", "CANCEL", "BYE"}
    BY <1>1, <1>2, ResponseNames
  <1> HIDE DEF d
  <1>8. CASE d = None
    BY <1>8 DEF SetupOK, Live, Call, d
  <1>9. ASSUME d # None, m.method = "BYE" PROVE caller.answer # "none"
    BY <1>1, <1>2, <1>9, ResponseNames, NotTalking
  <1>10. ASSUME d # None, Passed(Challenge(1))', ~Passed(Invite(2))
         PROVE  /\ d.finalCode = 407 /\ ~d.terminated /\ ~Passed(AckFail(1))
    <2>1. Seen(Challenge(1))
      BY <1>2, <1>6, <1>10 DEF Seen
    <2>2. /\ caller.answer = "none"
          /\ \A i \in Tries : ~Seen(Ok(i)) /\ ~Seen(Refusal(i, 486)) /\ ~Seen(Refusal(i, 487))
      BY <1>10, <2>1, Unused
    <2>3. ~Seen(HoldOk) /\ ~Seen(HoldNo) /\ ~Seen(Hold)
      BY <2>2, NotTalking
    <2>4. Call.cseq = 1 /\ ~Call.terminated
      BY <1>1, <1>10, <2>2, <2>3 DEF SetupOK, Seen
    <2>5. CASE m = Challenge(1)
      <3>1. m.method = "INVITE" /\ m.code = 407 /\ m.seq = 1
        BY <1>2, <2>5, AnswerFields DEF Says
      <3>2. d.finalCode = 407 /\ ~d.terminated
        BY <1>1, <1>10, <2>4, <3>1, ResponseMarks
      <3>3. Passed(AckFail(1)) => Passed(Challenge(1))
        BY <1>2, <2>2 DEF AgentsOK, CallerOK, CallerSentOK, CallerSentFor, Seen
      <3>4. ~(Passed(AckFail(1)) /\ Passed(Challenge(1)))
        BY <1>1, <1>10 DEF SetupOK
      <3> QED BY <3>2, <3>3, <3>4
    <2>6. CASE m # Challenge(1)
      <3>1. Passed(Challenge(1))
        BY <1>6, <1>10, <2>6
      <3>2. Call.finalCode = 407 /\ ~Passed(AckFail(1))
        BY <1>1, <1>10, <3>1 DEF SetupOK
      <3>3. m.method # "BYE"
        BY <1>9, <1>10, <2>2
      <3>4. m.method = "INVITE" => m.code = 180
        <4>1. \A i \in Tries : Seen(Challenge(i)) => i = 1
          BY <1>2 DEF AgentsOK, CalleeSentOK, CalleeSentFor
        <4> QED BY <1>1, <1>2, <2>2, <2>3, <2>6, <4>1, ResponseNames
      <3> QED BY <1>1, <1>7, <1>10, <2>4, <3>2, <3>3, <3>4, ResponseMarks
    <2> QED BY <2>5, <2>6
  <1>11. CASE d # None
    <2>1. d.cseq = Call.cseq
      BY <1>1, <1>11, ResponseLeaves
    <2>2. d.terminated => Call.terminated \/ m.method = "BYE"
      BY <1>1, <1>7, <1>11, ResponseMarks
    <2>3. d.terminated => \/ caller.answer # "none"
                          \/ \E i \in Tries : Passed(Refusal(i, 486))' \/ Passed(Refusal(i, 487))'
      BY <1>1, <1>5, <1>9, <1>11, <2>2 DEF SetupOK
    <2>4. ~Passed(Hold) => Call.cseq = IF Passed(Invite(2)) THEN 2 ELSE 1
      BY <1>1 DEF SetupOK
    <2>5. Passed(Challenge(1))' /\ ~Passed(Invite(2))
            => d.finalCode = 407 /\ ~d.terminated /\ ~Passed(AckFail(1))
      BY <1>10, <1>11
    <2> QED BY <1>2, <1>4, <2>1, <2>3, <2>4, <2>5 DEF SetupOK, Live, Call, d, Tries
  <1> QED BY <1>8, <1>11

LEMMA SetupStep ==
  ASSUME Base, OpenedOK, SetupOK, [CallNext]_callVars
  PROVE  SetupOK'
  <1>1. /\ UNCHANGED <<side, allowed>> /\ side \in Sides
        /\ Still \/ (\E m \in Mail : Comes(m)) \/ Fires
    BY CallTurns DEF Base, Setting
  <1> SUFFICES ASSUME "lost_ack" \notin allowed PROVE SetupOK'
    BY <1>1 DEF SetupOK
  <1>2. CASE Still
    <2>1. callmap' = callmap /\ SamePassed /\ (caller.answer # "none" => caller'.answer # "none")
      BY <1>2 DEF Still, cc, Moves, Relays, agents
    <2> QED BY <1>1, <2>1 DEF SamePassed, SetupOK, Live, Call, Tries
  <1>3. CASE Fires
    <2>1. PICK c, r : TimesOut(c, r)
      BY <1>3 DEF Fires
    <2>2. /\ callmap'[Cid] = r.call /\ Live /\ SamePassed /\ UNCHANGED caller /\ 1 \in Tries /\ 2 \in Tries
      BY <1>3, <2>1 DEF TimesOut, Fires, Relays, agents, Tries
    <2>3. r.call # None => r.call.cseq = Call.cseq /\ Call.terminated
      BY <2>1, TimerLeaves, TimerMarks DEF Base, IInv
    <2>4. CASE r.call = None
      BY <2>2, <2>4 DEF SetupOK, Live, Call
    <2>5. CASE r.call # None
      <3>1. /\ ~(Passed(Challenge(1)) /\ ~Passed(Invite(2)))
            /\ \/ caller.answer # "none"
               \/ \E i \in Tries : Passed(Refusal(i, 486)) \/ Passed(Refusal(i, 487))
            /\ ~Passed(Hold) => r.call.cseq = IF Passed(Invite(2)) THEN 2 ELSE 1
        BY <2>2, <2>3, <2>5 DEF SetupOK
      <3> QED BY <2>2, <3>1 DEF SetupOK, SamePassed, Live, Call, Tries
    <2> QED BY <2>4, <2>5
  <1>4. ASSUME NEW m \in Mail, Comes(m) PROVE SetupOK'
    <2>1. CASE Through(m)
      <3>1. callmap'[Cid] = None
        BY <2>1 DEF Through, cc, Live
      <3> QED BY <3>1 DEF SetupOK, Live, Call
    <2>2. ASSUME NEW c, NEW r, TakesRequest(m, c, r) PROVE SetupOK'
      BY <1>1, <1>4, <2>2, SetupInvite, SetupRequest
    <2>3. ASSUME NEW c, NEW r, TakesResponse(m, c, r) PROVE SetupOK'
      BY <1>1, <1>4, <2>3, SetupResponse
    <2> QED BY <1>4, <2>1, <2>2, <2>3 DEF Comes
  <1> QED BY <1>1, <1>2, <1>3, <1>4

----------------------------------------------------------------------------
(* While the two agree.                                                    *)

NoLoss == "lost_ack" \notin allowed /\ "long_ring" \notin allowed
\* If the caller may refuse the callee's INVITE, that has another CSeq number
\* than the INVITE that was answered: a 488 to it is not taken for an answer.
OwnNumbers == "refused_hold" \in allowed => CalleeSeq # (IF "challenge" \in allowed THEN 2 ELSE 1)

\* The caller waits for an answer to its INVITE, which came through, or talks,
\* and neither of the two has left.
Agreed ==
  /\ NoLoss /\ ~caller.cancelled /\ Passed(Invite(caller.try))
  /\ caller.st = "calling" \/ (caller.st = "up" /\ OwnNumbers)
  /\ callee.st \in {"idle", "ringing", "answered", "up"}

\* Then there is a call for that INVITE, and it knows of the answer and its ACK.
TalkOK ==
  Agreed => /\ Live /\ Call.cseq = caller.try /\ ~Call.terminated
            /\ Passed(Ok(caller.try)) => Call.finalCode = 200
            /\ Passed(AckOk(caller.try)) => told[Cid] = "connected"
\* So no answer passes zsipos by.
AnswerOK == NoLoss /\ caller.st = "calling" /\ Unredirected(caller.try) => caller.cancelled

\* What can be under way between the two.
LEMMA AgreedMail ==
  ASSUME Base, Agreed
  PROVE  /\ side \in Sides /\ caller.try \in Tries /\ "lost_ack" \notin allowed
         /\ \A i \in Tries :
              /\ ~Seen(Cancel(i)) /\ ~Seen(CancelOk(i)) /\ ~Seen(Bye(i)) /\ ~Seen(ByeOk(i))
              /\ ~Seen(Refusal(i, 486)) /\ ~Seen(Refusal(i, 487))
              /\ Seen(Ok(i)) => i = caller.try
              /\ Seen(AckOk(i)) => i = caller.try /\ Passed(Ok(caller.try))
              /\ Seen(AckFail(i)) => Passed(AckFail(i))
              /\ Seen(Challenge(i)) => i = 1 /\ (caller.try = 1 => ~Seen(Ok(1)))
         /\ ~Seen(CalleeBye) /\ ~Seen(CalleeByeOk)
         /\ Seen(HeldAck) \/ Seen(HoldNoAck) => Passed(Ok(caller.try))
         /\ Seen(HoldNo) => CalleeSeq # caller.try
  <1>1. /\ AgentsOK /\ side \in Sides /\ caller.try \in Tries /\ callee.try \in Tries
        /\ WireOK /\ "lost_ack" \notin allowed
    BY AgentTypes DEF Base, Setting, Agreed, NoLoss
  <1>2. \A i \in Tries : CallerSentFor(i) /\ CalleeSentFor(i)
    BY <1>1 DEF AgentsOK, CallerSentOK, CalleeSentOK
  <1>3. \A i \in Tries : /\ ~Seen(Cancel(i)) /\ ~Seen(Bye(i))
                         /\ ~Seen(Refusal(i, 486)) /\ ~Seen(Refusal(i, 487))
    BY <1>2 DEF CallerSentFor, CalleeSentFor, Agreed
  <1>4. \A i \in Tries : ~Seen(CancelOk(i)) /\ ~Seen(ByeOk(i))
    BY <1>2, <1>3 DEF CalleeSentFor, Seen
  <1>5. ~Seen(CalleeBye) /\ ~Seen(CalleeByeOk)
    <2>1. ~Seen(CalleeBye)
      BY <1>1 DEF AgentsOK, CalleeSentOK, Agreed
    <2> QED BY <1>1, <2>1 DEF AgentsOK, CallerSentOK, Seen
  <1>6. caller.try = 2 => Passed(AckFail(1)) /\ Passed(Challenge(1)) /\ "challenge" \in allowed
    BY <1>1, <1>2 DEF AgentsOK, CallerOK, CalleeSentFor, Seen, Tries
  <1>7. ASSUME NEW i \in Tries, Seen(Ok(i)) PROVE i = caller.try
    <2>1. Used(i)
      BY <1>2, <1>7 DEF CalleeSentFor
    <2>2. i <= caller.try
      BY <1>2, <2>1 DEF CallerSentFor, Used, Seen
    <2>3. ~(i = 1 /\ caller.try = 2)
      BY <1>6, <2>1 DEF Used
    <2> QED BY <1>1, <2>2, <2>3 DEF Tries
  <1>8. caller.answer # "none" => Passed(Ok(caller.try))
    BY Talking
  <1>9. ASSUME NEW i \in Tries, Seen(AckOk(i)) PROVE i = caller.try /\ Passed(Ok(caller.try))
    BY <1>2, <1>8, <1>9 DEF CallerSentFor
  <1>10. ASSUME NEW i \in Tries, Seen(AckFail(i)) PROVE Passed(AckFail(i))
    BY <1>2, <1>6, <1>10 DEF CallerSentFor, Agreed
  <1>11. ASSUME NEW i \in Tries, Seen(Challenge(i)) PROVE i = 1 /\ (caller.try = 1 => ~Seen(Ok(1)))
    <2>1. i = 1 /\ "challenge" \in allowed
      BY <1>2, <1>11 DEF CalleeSentFor
    <2>2. ~Used(1)
      BY <2>1 DEF Used
    <2>3. ~Seen(Ok(1))
      BY <1>2, <2>2 DEF CalleeSentFor, Tries
    <2> QED BY <2>1, <2>3
  <1>12. Seen(Hold) => caller.answer # "none"
    BY NotTalking
  <1>13. Seen(HeldAck) \/ Seen(HoldNoAck) => Passed(Ok(caller.try))
    BY <1>8, NotTalking
  <1>14. ASSUME Seen(HoldNo) PROVE CalleeSeq # caller.try
    <2>1. "refused_hold" \in allowed /\ caller.answer # "none"
      BY <1>1, <1>12, <1>14 DEF AgentsOK, CallerSentOK, Seen
    <2>2. OwnNumbers
      BY <1>1, <2>1 DEF Agreed, AgentsOK, CallerOK
    <2>3. caller.try = IF "challenge" \in allowed THEN 2 ELSE 1
      <3>1. Used(caller.try)
        BY <2>1, Talking
      <3> QED BY <1>1, <1>6, <3>1 DEF Used, Tries
    <2> QED BY <2>1, <2>2, <2>3 DEF OwnNumbers
  <1> QED BY <1>1, <1>3, <1>4, <1>5, <1>7, <1>9, <1>10, <1>11, <1>13, <1>14

\* A call that is opened by the caller's INVITE is a new one.
LEMMA FreshCall ==
  ASSUME Base, OpenedOK, SetupOK, "lost_ack" \notin allowed, NEW i \in Tries,
         OnWire(Invite(i)), ~Passed(Invite(i))
  PROVE  ~Live
  <1>1. side \in Sides /\ WireOK /\ AgentsOK
    BY DEF Base, Setting
  <1>2. caller.try = i /\ (i = 2 <=> Passed(Invite(1)))
    BY <1>1, FreshInvite
  <1>3. Live => i = 2
    BY <1>2 DEF OpenedOK
  <1>4. i = 2 => Passed(Challenge(1)) /\ Passed(AckFail(1))
    BY <1>1, <1>2 DEF AgentsOK, CallerOK
  <1> QED BY <1>3, <1>4 DEF SetupOK

\* No answer passes by.
LEMMA AnswerStep ==
  ASSUME Base, TalkOK, AnswerOK, [CallNext]_callVars
  PROVE  AnswerOK'
  <1>1. /\ UNCHANGED <<side, allowed>> /\ side \in Sides /\ WireOK /\ AgentsOK /\ caller.try \in Tries
        /\ Still \/ (\E m \in Mail : Comes(m)) \/ Fires
    BY CallTurns, AgentTypes DEF Base, Setting
  <1> SUFFICES ASSUME NoLoss, caller'.st = "calling", Unredirected(caller.try)'
               PROVE  caller'.cancelled
    BY <1>1 DEF AnswerOK, NoLoss
  <1>2. CASE Still /\ ~Relays
    <2>1. Moves /\ SamePassed
      BY <1>2 DEF Still
    <2>2. caller'.try \in Tries /\ Unredirected(caller'.try)
      <3>1. caller'.try \in Tries
        BY <2>1 DEF Moves
      <3>2. \A i \in Tries : Unredirected(i)' <=> Unredirected(i)
        BY <2>1 DEF SamePassed
      <3>3. Unredirected(caller.try)' => \E i \in Tries : i = caller'.try /\ Unredirected(i)'
        BY <3>1 DEF Unredirected, Ok, Rsp, Invite, Req
      <3> QED BY <3>1, <3>2, <3>3
    <2>3. Passed(Invite(caller'.try))
      BY <1>1, <2>2, AnswerPassed DEF AgentsOK, CalleeSentOK, CalleeSentFor, Seen, Used
    <2>4. caller.st = "calling" /\ caller'.try = caller.try /\ (caller.cancelled => caller'.cancelled)
      BY <2>1, <2>3 DEF Moves
    <2> QED BY <2>2, <2>4 DEF AnswerOK
  <1>3. ASSUME UNCHANGED caller, Unredirected(caller.try)' => Unredirected(caller.try)
        PROVE  caller'.cancelled
    BY <1>3 DEF AnswerOK
  <1>4. CASE Relays /\ SamePassed
    BY <1>1, <1>3, <1>4 DEF Relays, agents, SamePassed
  <1>5. ASSUME NEW m \in Mail, Comes(m) PROVE caller'.cancelled
    <2>1. OnWire(m) /\ OnlyNew(m) /\ UNCHANGED <<caller, callee>> /\ Seen(m)
      BY <1>5 DEF Comes, Relays, agents, Seen
    <2>2. CASE m # Ok(caller.try)
      <3>1. Ok(caller.try) # m => (Unredirected(caller.try)' <=> Unredirected(caller.try))
        BY <1>1, <2>1 DEF OnlyNew
      <3> QED BY <1>3, <2>1, <2>2, <3>1
    <2>3. CASE m = Ok(caller.try) /\ Through(m)
      <3>1. Used(caller.try) /\ callee.st # "ringing" /\ caller.answer = "none" /\ caller.st = "calling"
        BY <1>1, <2>1, <2>3 DEF AgentsOK, CalleeSentOK, CalleeSentFor, CallerOK
      <3>2. callee.st \notin {"up", "bye", "ended", "dead"}
        BY <1>1, <2>1, <2>3, <3>1 DEF AgentsOK, CalleeSentOK, CalleeSentFor
      <3>3. callee.st \in {"idle", "ringing", "answered", "up"}
        BY <1>1, <3>2, AgentTypes DEF AgentsOK, CalleeOK
      <3>4. ~Live
        BY <2>3 DEF Through
      <3>5. caller.cancelled
        BY <3>1, <3>3, <3>4 DEF TalkOK, Agreed, Used
      <3> QED BY <2>1, <3>5
    <2>4. ASSUME m = Ok(caller.try), NEW c, NEW r, TakesRequest(m, c, r) \/ TakesResponse(m, c, r)
          PROVE  Unredirected(caller.try)' => Unredirected(caller.try)
      <3>1. NothingNew \/ IsNew(m, FALSE)
        <4>1. m.kind = "response"
          BY <1>1, <2>4, AnswerFields DEF Says
        <4> QED BY <2>4, <4>1 DEF TakesRequest, TakesResponse
      <3> QED BY <1>1, <2>1, <3>1 DEF NothingNew, IsNew
    <2> QED BY <1>3, <1>5, <2>1, <2>2, <2>3, <2>4 DEF Comes
  <1> QED BY <1>1, <1>2, <1>4, <1>5 DEF Still, Fires

\* An INVITE comes while they agree, or lets them agree.
LEMMA TalkInvite ==
  ASSUME Base, OpenedOK, SetupOK, TalkOK, UNCHANGED <<side, allowed>>,
         NEW m \in Mail, Comes(m), NEW c, NEW r, TakesRequest(m, c, r), m.method = "INVITE", Agreed'
  PROVE  /\ callmap'[Cid] # None /\ callmap'[Cid].cseq = caller.try /\ ~callmap'[Cid].terminated
         /\ Passed(Ok(caller.try))' => callmap'[Cid].finalCode = 200
         /\ Passed(AckOk(caller.try))' => told'[Cid] = "connected"
  <1> DEFINE d == callmap'[Cid]
  <1>1. /\ Reopens(c, m, r) /\ c \in CallType /\ d = r.call /\ m.kind = "request"
        /\ c = IF Live THEN Call ELSE NewCall(m)
    BY DEF TakesRequest, RequestResult
  <1>2. /\ side \in Sides /\ AgentsOK /\ WireOK /\ OnWire(m) /\ Seen(m) /\ OnlyNew(m) /\ caller.try \in Tries
        /\ UNCHANGED <<caller, callee>>
    BY AgentTypes DEF Base, Setting, Comes, Seen, Relays, agents
  <1>3. /\ d.cseq = c.cseq /\ d.finalCode = c.finalCode /\ d.terminated = c.terminated /\ d # None
    <2>1. d \in CallType
      <3>1. m.from \in Sides
        BY <1>1, <1>2, MailKinds DEF far, Opposite, Sides
      <3> QED BY <1>1, <3>1 DEF Reopens, CallType
    <2>2. d # None
      BY <2>1, NoneAssumption
    <2> QED BY <1>1, <2>2 DEF Reopens, CallType
  <1> HIDE DEF d
  <1>4. /\ Passed(Ok(caller.try))' <=> Passed(Ok(caller.try))
        /\ Passed(AckOk(caller.try))' <=> Passed(AckOk(caller.try))
    <2>1. Ok(caller.try) # m /\ AckOk(caller.try) # m
      <3>1. Ok(caller.try).kind = "response" /\ AckOk(caller.try).method = "ACK"
        BY <1>2, AnswerFields, RequestFields DEF Says
      <3> QED BY <1>1, <3>1
    <2> QED BY <1>2, <2>1 DEF OnlyNew
  <1>5. NoLoss /\ ~caller.cancelled /\ (caller.st = "calling" \/ (caller.st = "up" /\ OwnNumbers))
        /\ callee.st \in {"idle", "ringing", "answered", "up"}
    BY <1>2 DEF Agreed, NoLoss, OwnNumbers
  <1>6. Passed(Invite(caller.try))'
    BY DEF Agreed
  <1>7. CASE \E i \in Tries : m = Invite(i)
    <2>1. PICK i \in Tries : m = Invite(i)
      BY <1>7
    <2>2. Kept(m)
      BY <2>1 DEF Kept
    <2>3. OnWire(Invite(i)) /\ ~Passed(Invite(i))
      BY <1>2, <2>1, <2>2, FirstArrival
    <2>4. caller.try = i /\ ~Seen(Ok(i)) /\ ~Seen(AckOk(i))
      BY <1>2, <2>3, FreshInvite
    <2>5. ~Live
      BY <1>5, <2>3, FreshCall DEF NoLoss
    <2>6. c.cseq = i /\ ~c.terminated
      <3>1. Invite(i).seq = i
        BY RequestFields DEF Says
      <3> QED BY <1>1, <2>1, <2>5, <3>1 DEF NewCall
    <2> QED BY <1>3, <1>4, <2>4, <2>6 DEF d, Seen
  <1>8. CASE m = Hold
    <2>1. Invite(caller.try) # m
      <3>1. Invite(caller.try).from = side /\ Hold.from = far /\ side # far
        BY <1>2, RequestFields DEF Says, far, Opposite, Sides
      <3> QED BY <1>8, <3>1
    <2>2. Passed(Invite(caller.try))
      BY <1>2, <1>6, <2>1 DEF OnlyNew
    <2>3. Agreed
      BY <1>5, <2>2 DEF Agreed
    <2>4. c = Call /\ Live
      BY <1>1, <2>3 DEF TalkOK
    <2>5. told'[Cid] = told[Cid]
      <3>1. r.event = "none"
        BY <1>1 DEF Reopens
      <3> QED BY <2>4, <3>1 DEF TakesRequest, Tells
    <2> QED BY <1>3, <1>4, <2>3, <2>4, <2>5 DEF TalkOK, d
  <1> QED BY <1>1, <1>2, <1>7, <1>8, RequestNames

\* So does another request, or a response.
LEMMA TalkRequest ==
  ASSUME Base, TalkOK, UNCHANGED <<side, allowed>>, Agreed,
         NEW m \in Mail, Comes(m), NEW c, NEW r, TakesRequest(m, c, r), m.method # "INVITE"
  PROVE  /\ callmap'[Cid] # None /\ callmap'[Cid].cseq = caller.try /\ ~callmap'[Cid].terminated
         /\ Passed(Ok(caller.try))' => callmap'[Cid].finalCode = 200
         /\ Passed(AckOk(caller.try))' => told'[Cid] = "connected"
  <1> DEFINE d == callmap'[Cid]
  <1>1. m.kind = "request" /\ d = r.call /\ Live /\ Call \in CallType /\ c = Call /\ RequestResult(c, m, r) /\ Tells(r)
    BY RequestLeaves DEF TakesRequest
  <1>2. /\ side \in Sides /\ OnWire(m) /\ Seen(m) /\ OnlyNew(m) /\ caller.try \in Tries
        /\ UNCHANGED <<caller, callee>>
    BY AgentTypes DEF Base, Setting, Comes, Seen, Relays, agents
  <1>3. /\ Call.cseq = caller.try /\ ~Call.terminated
        /\ Passed(Ok(caller.try)) => Call.finalCode = 200
        /\ Passed(AckOk(caller.try)) => told[Cid] = "connected"
    BY DEF TalkOK
  <1>4. m \in {HeldAck, HoldNoAck} \/ \E i \in Tries : m = AckOk(i)
    <2>1. ASSUME NEW i \in Tries, m = AckFail(i) PROVE FALSE
      <3>1. Kept(m)
        BY <2>1 DEF Kept
      <3> QED BY <1>2, <2>1, <3>1, FirstArrival, AgreedMail
    <2> QED BY <1>1, <1>2, <2>1, AgreedMail, RequestNames
  <1>5. m.method = "ACK" /\ Call.finalCode = 200 /\ (m = AckOk(caller.try) => m.seq = Call.cseq)
    <2>1. m.method = "ACK" /\ (m = AckOk(caller.try) => m.seq = caller.try)
      BY <1>2, <1>4, RequestFields DEF Says, Tries
    <2>2. Call.finalCode = 200
      BY <1>2, <1>3, <1>4, AgreedMail
    <2> QED BY <1>3, <2>1, <2>2
  <1>6. \/ m.seq = Call.cseq /\ Connects(c, r)
        \/ m # AckOk(caller.try) /\ Becomes([c EXCEPT !.t3 = FALSE], r)
    BY <1>1, <1>5 DEF RequestResult
  <1>7. d \in CallType /\ ~d.terminated
    <2>1. CASE Connects(c, r)
      <3>1. r.call = [c EXCEPT !.t3 = FALSE, !.ts = FALSE] /\ c \in CallType
        BY <1>1, <2>1 DEF Connects
      <3>2. r.call \in CallType /\ r.call.terminated = c.terminated
        BY <3>1 DEF CallType
      <3> QED BY <1>1, <1>3, <3>2
    <2>2. CASE Becomes([c EXCEPT !.t3 = FALSE], r)
      <3>1. r.call = [c EXCEPT !.t3 = FALSE] /\ c \in CallType
        BY <1>1, <2>2 DEF Becomes
      <3>2. r.call \in CallType /\ r.call.terminated = c.terminated
        BY <3>1 DEF CallType
      <3> QED BY <1>1, <1>3, <3>2
    <2> QED BY <1>6, <2>1, <2>2
  <1>8. d # None
    BY <1>7, NoneAssumption
  <1> HIDE DEF d
  <1>9. d.cseq = caller.try /\ d.finalCode = 200
    BY <1>1, <1>3, <1>5, <1>8, RequestLeaves
  <1>10. Passed(AckOk(caller.try))' => told'[Cid] = "connected"
    <2>1. CASE m.seq = Call.cseq /\ Connects(c, r)
      BY <1>1, <1>3, <2>1 DEF Connects, Tells
    <2>2. CASE m # AckOk(caller.try) /\ Becomes([c EXCEPT !.t3 = FALSE], r)
      <3>1. r.event = "none"
        BY <2>2 DEF Becomes
      <3> QED BY <1>1, <1>2, <1>3, <2>2, <3>1 DEF OnlyNew, Tells
    <2> QED BY <1>6, <2>1, <2>2
  <1> QED BY <1>7, <1>8, <1>9, <1>10 DEF d

LEMMA TalkResponse ==
  ASSUME Base, TalkOK, UNCHANGED <<side, allowed>>, Agreed,
         NEW m \in Mail, Comes(m), NEW c, NEW r, TakesResponse(m, c, r)
  PROVE  /\ callmap'[Cid] # None /\ callmap'[Cid].cseq = caller.try /\ ~callmap'[Cid].terminated
         /\ Passed(Ok(caller.try))' => callmap'[Cid].finalCode = 200
         /\ Passed(AckOk(caller.try))' => told'[Cid] = "connected"
  <1> DEFINE d == callmap'[Cid]
  <1>1. m.kind = "response" /\ d = r.call /\ Live /\ Call \in CallType /\ c = Call /\ ResponseResult(c, m, r) /\ Tells(r)
    BY ResponseLeaves DEF TakesResponse
  <1>2. /\ side \in Sides /\ OnWire(m) /\ Seen(m) /\ OnlyNew(m) /\ caller.try \in Tries
        /\ UNCHANGED <<caller, callee>>
    BY AgentTypes DEF Base, Setting, Comes, Seen, Relays, agents
  <1>3. /\ Call.cseq = caller.try /\ ~Call.terminated
        /\ Passed(Ok(caller.try)) => Call.finalCode = 200
        /\ Passed(AckOk(caller.try)) => told[Cid] = "connected"
    BY DEF TalkOK
  <1>4. m.method = "INVITE" /\ m.code \in {180, 200, 407, 488}
    BY <1>1, <1>2, AgreedMail, ResponseNames
  <1>5. r.call # None /\ r.event \in {"none", "progress"}
    <2> DEFINE final == IF m.seq = c.cseq THEN [c EXCEPT !.finalCode = m.code] ELSE c
    <2>1. final \in CallType
      <3>1. m \in ResponseType
        BY <1>1, <1>2, MailKinds
      <3> QED BY <1>1, <3>1 DEF ResponseType, CallType
    <2>2. CASE m.code = 200
      <3>1. Answers(final, m, r)
        BY <1>1, <1>4, <2>2 DEF ResponseResult
      <3> HIDE DEF final
      <3>2. m.from \in Sides
        BY <1>1, <1>2, MailKinds DEF far, Opposite, Sides
      <3>3. /\ r.call = [final EXCEPT !.addr = final.addr \cup {m.from},
                                      !.ready = @ \/ final.addr \cup {m.from} = Sides]
            /\ r.event = "none"
        BY <3>1 DEF Answers
      <3>4. r.call \in CallType
        <4>1. final.addr \cup {m.from} \in SUBSET Sides /\ final.ready \in BOOLEAN
          BY <2>1, <3>2 DEF CallType
        <4> QED BY <2>1, <3>3, <4>1 DEF CallType
      <3> QED BY <3>3, <3>4, NoneAssumption
    <2>3. CASE m.code # 200
      <3>1. r.call \in {c, final} /\ r.event \in {"none", "progress"}
        BY <1>1, <1>4, <2>3 DEF ResponseResult, Becomes
      <3> HIDE DEF final
      <3> QED BY <1>1, <2>1, <3>1, NoneAssumption
    <2> QED BY <2>2, <2>3
  <1>6. d.cseq = caller.try /\ ~d.terminated /\ told'[Cid] = told[Cid]
    BY <1>1, <1>3, <1>4, <1>5, ResponseLeaves, ResponseMarks DEF Tells
  <1>7. d.finalCode = IF m.code # 180 /\ m.seq = caller.try THEN m.code ELSE Call.finalCode
    BY <1>1, <1>3, <1>4, <1>5, ResponseMarks
  <1> HIDE DEF d
  <1>8. Passed(AckOk(caller.try))' => Passed(AckOk(caller.try))
    <2>1. AckOk(caller.try).kind = "request"
      BY <1>2, RequestFields DEF Says
    <2> QED BY <1>1, <1>2, <2>1 DEF OnlyNew
  <1>9. ASSUME Passed(Ok(caller.try))' PROVE d.finalCode = 200
    <2>1. CASE m.code = 180
      <3>1. Ok(caller.try) # m
        <4>1. \A i \in Tries : Ok(i).code = 200
          BY <1>2, AnswerFields DEF Says
        <4> QED BY <1>2, <2>1, <4>1
      <3> QED BY <1>2, <1>3, <1>7, <1>9, <2>1, <3>1 DEF OnlyNew
    <2>2. CASE m.code = 200
      <3>1. m = HoldOk \/ m = Ok(caller.try)
        BY <1>1, <1>2, <1>4, <2>2, AgreedMail, ResponseNames
      <3>2. CASE m = Ok(caller.try)
        <4>1. m.seq = caller.try
          BY <1>2, <3>2, AnswerFields DEF Says
        <4> QED BY <1>7, <2>2, <4>1
      <3>3. CASE m # Ok(caller.try)
        BY <1>2, <1>3, <1>7, <1>9, <2>2, <3>3 DEF OnlyNew
      <3> QED BY <3>2, <3>3
    <2>3. CASE m.code = 407
      <3>1. m = Challenge(1) /\ (caller.try = 1 => ~Seen(Ok(1)))
        BY <1>1, <1>2, <1>4, <2>3, AgreedMail, ResponseNames
      <3>2. m.seq = 1 /\ Ok(caller.try) # m
        BY <1>2, <2>3, <3>1, AnswerFields DEF Says, Tries
      <3>3. Passed(Ok(caller.try))
        BY <1>2, <1>9, <3>2 DEF OnlyNew
      <3> QED BY <1>2, <1>3, <1>7, <3>1, <3>2, <3>3 DEF Seen
    <2>4. CASE m.code = 488
      <3>1. m = HoldNo /\ CalleeSeq # caller.try
        BY <1>1, <1>2, <1>4, <2>4, AgreedMail, ResponseNames
      <3>2. m.seq = CalleeSeq /\ Ok(caller.try) # m
        BY <1>2, <2>4, <3>1, AnswerFields DEF Says, Tries
      <3> QED BY <1>2, <1>3, <1>7, <1>9, <3>1, <3>2 DEF OnlyNew
    <2> QED BY <1>4, <2>1, <2>2, <2>3, <2>4
  <1> QED BY <1>1, <1>3, <1>5, <1>6, <1>8, <1>9 DEF d

LEMMA TalkStep ==
  ASSUME Base, OpenedOK, SetupOK, TalkOK, [CallNext]_callVars
  PROVE  TalkOK'
  <1>1. /\ UNCHANGED <<side, allowed>> /\ side \in Sides /\ WireOK /\ AgentsOK /\ caller.try \in Tries
        /\ Still \/ (\E m \in Mail : Comes(m)) \/ Fires
    BY CallTurns, AgentTypes DEF Base, Setting
  <1> SUFFICES ASSUME Agreed' PROVE TalkOK'
    BY DEF TalkOK
  <1>2. NoLoss /\ (OwnNumbers' <=> OwnNumbers)
    BY <1>1 DEF Agreed, NoLoss, OwnNumbers
  <1>3. ASSUME UNCHANGED caller, callmap'[Cid] # None, callmap'[Cid].cseq = caller.try, ~callmap'[Cid].terminated,
               Passed(Ok(caller.try))' => callmap'[Cid].finalCode = 200,
               Passed(AckOk(caller.try))' => told'[Cid] = "connected"
        PROVE  TalkOK'
    BY <1>3 DEF TalkOK, Live, Call
  <1>4. ASSUME Agreed, UNCHANGED cc, SamePassed, caller'.try = caller.try PROVE TalkOK'
    <2>1. UNCHANGED <<callmap, told>>
      BY <1>4 DEF cc
    <2>2. /\ Passed(Ok(caller.try))' <=> Passed(Ok(caller.try))
          /\ Passed(AckOk(caller.try))' <=> Passed(AckOk(caller.try))
      BY <1>1, <1>4 DEF SamePassed
    <2> QED BY <1>4, <2>1, <2>2 DEF TalkOK, Live, Call
  <1>5. CASE Still
    <2>1. SamePassed /\ UNCHANGED cc
      BY <1>5 DEF Still
    <2>2. CASE Relays
      <3>1. UNCHANGED <<caller, callee>>
        BY <2>2 DEF Relays, agents
      <3>2. Passed(Invite(caller.try))
        BY <1>1, <2>1, <3>1 DEF Agreed, SamePassed
      <3>3. Agreed
        BY <1>2, <3>1, <3>2 DEF Agreed
      <3> QED BY <1>4, <2>1, <3>1, <3>3
    <2>3. CASE Moves
      <3>1. caller'.try \in Tries /\ (caller.cancelled => caller'.cancelled)
            /\ callee.st \in {"idle", "ringing", "answered", "up"}
        BY <2>3 DEF Moves, Agreed
      <3>2. Passed(Invite(caller'.try))
        <4>1. Passed(Invite(caller.try))' => \E i \in Tries : i = caller'.try /\ Passed(Invite(i))'
          BY <3>1 DEF Passed, Got, Invite, Req
        <4>2. \A i \in Tries : Passed(Invite(i))' <=> Passed(Invite(i))
          BY <2>1 DEF SamePassed
        <4> QED BY <4>1, <4>2 DEF Agreed
      <3>3. /\ caller'.try = caller.try
            /\ caller'.st = "calling" => caller.st = "calling"
            /\ caller'.st = "up" => caller.st \in {"calling", "up"}
        BY <2>3, <3>2 DEF Moves, Agreed
      <3>4. Agreed
        BY <1>2, <3>1, <3>2, <3>3 DEF Agreed
      <3> QED BY <1>4, <2>1, <3>3, <3>4
    <2> QED BY <1>5, <2>2, <2>3 DEF Still
  <1>6. CASE Fires
    <2>1. PICK c, r : TimesOut(c, r)
      BY <1>6 DEF Fires
    <2>2. UNCHANGED <<caller, callee>> /\ SamePassed
      BY <1>6 DEF Fires, Relays, agents
    <2>3. Passed(Invite(caller.try))
      BY <1>1, <2>2 DEF Agreed, SamePassed
    <2>4. Agreed
      BY <1>2, <2>2, <2>3 DEF Agreed
    <2>5. Call.ts /\ Live
      BY <2>1, <2>4 DEF TimesOut, Agreed, NoLoss
    <2>6. FALSE
      BY <2>4, <2>5, AgreedMail DEF OpenedOK, Agreed, Seen
    <2> QED BY <2>6
  <1>7. ASSUME NEW m \in Mail, Comes(m) PROVE TalkOK'
    <2>1. UNCHANGED <<caller, callee>> /\ OnlyNew(m)
      BY <1>7 DEF Comes, Relays, agents
    <2>2. ASSUME ~Agreed PROVE m = Invite(caller.try)
      <3>1. ~Passed(Invite(caller.try))
        BY <1>2, <2>1, <2>2 DEF Agreed
      <3> QED BY <1>1, <2>1, <3>1 DEF OnlyNew, Agreed
    <2>3. ~Agreed => m.kind = "request" /\ m.method = "INVITE"
      BY <1>1, <2>2, RequestFields DEF Says
    <2>4. ~Through(m)
      BY <2>3 DEF Through, TalkOK
    <2>5. ASSUME NEW c, NEW r, TakesRequest(m, c, r) PROVE TalkOK'
      BY <1>1, <1>3, <1>7, <2>1, <2>3, <2>5, TalkInvite, TalkRequest
    <2>6. ASSUME NEW c, NEW r, TakesResponse(m, c, r) PROVE TalkOK'
      <3>1. m.kind = "response"
        BY <2>6 DEF TakesResponse
      <3> QED BY <1>1, <1>3, <1>7, <2>1, <2>3, <2>6, <3>1, TalkResponse
    <2> QED BY <1>7, <2>4, <2>5, <2>6 DEF Comes
  <1> QED BY <1>1, <1>5, <1>6, <1>7

\* What holds of the call while it is set up and while the two talk.
GoesOn == Base /\ OpenedOK /\ SetupOK /\ TalkOK /\ AnswerOK /\ (NoLoss => AnswerRedirected)

LEMMA GoesOnStep ==
  ASSUME GoesOn, [CallNext]_callVars
  PROVE  GoesOn'
  <1>1. Base' /\ OpenedOK' /\ SetupOK' /\ TalkOK' /\ AnswerOK'
    BY CallSteps, OpenedStep, SetupStep, TalkStep, AnswerStep DEF GoesOn
  <1>2. (NoLoss => AnswerRedirected)'
    <2> SUFFICES ASSUME NoLoss', caller'.answer = "raw" PROVE caller'.cancelled
      BY DEF AnswerRedirected
    <2>1. UNCHANGED <<side, allowed>> /\ (Still \/ (\E m \in Mail : Comes(m)) \/ Fires)
      BY CallTurns DEF GoesOn
    <2>2. NoLoss
      BY <2>1 DEF NoLoss
    <2>3. UNCHANGED caller \/ Moves
      BY <2>1 DEF Still, Comes, Fires, Relays, agents
    <2>4. caller.answer = "raw" => caller.cancelled
      BY <2>2 DEF GoesOn, AnswerRedirected
    <2>5. CASE Moves
      <3>1. caller.answer = "raw" \/ (caller.st = "calling" /\ Unredirected(caller.try))
        BY <2>5 DEF Moves
      <3>2. caller.cancelled
        BY <2>2, <2>4, <3>1 DEF GoesOn, AnswerOK
      <3> QED BY <2>5, <3>2 DEF Moves
    <2> QED BY <2>3, <2>4, <2>5
  <1> QED BY <1>1, <1>2 DEF GoesOn

LEMMA GoesOnInit ==
  ASSUME CallInit
  PROVE  GoesOn
  <1>1. Base /\ ~Live /\ wire = {}
    BY InitBase
  <1>2. caller.st = "idle" /\ caller.answer = "none"
    BY DEF CallInit
  <1>3. \A m : ~Passed(m)
    BY <1>1 DEF Passed, Got
  <1>4. OpenedOK /\ SetupOK
    BY <1>1, <1>3 DEF OpenedOK, SetupOK
  <1>5. TalkOK /\ AnswerOK /\ AnswerRedirected
    BY <1>2 DEF TalkOK, Agreed, AnswerOK, AnswerRedirected
  <1> QED BY <1>1, <1>4, <1>5 DEF GoesOn

LEMMA CallGoesOn == CallSpec => []GoesOn
  <1>1. CallInit => GoesOn
    BY GoesOnInit
  <1>2. GoesOn /\ [CallNext]_callVars => GoesOn'
    BY GoesOnStep
  <1> QED BY <1>1, <1>2, PTL DEF CallSpec

\* In every call in which the ACK of the 407 is not overtaken and timer C does
\* not expire while it rings: the answer the caller accepts has been rewritten
\* by handle_dlg_response to lead to zsipos, unless the caller had cancelled.
THEOREM AnswersLeadToZsipos == CallSpec => [](NoLoss => AnswerRedirected)
  <1>1. GoesOn => (NoLoss => AnswerRedirected)
    BY DEF GoesOn
  <1> QED BY <1>1, CallGoesOn, PTL

\* In the same calls, the callee's INVITE having a CSeq number of its own if it
\* may be refused: as long as both ends talk, CallController has the call and
\* has reported it connected; neither a timer nor a late message has ended it.
THEOREM TalkIsTracked == CallSpec => [](NoLoss /\ OwnNumbers => EstablishedIsTracked)
  <1>1. GoesOn => (NoLoss /\ OwnNumbers => EstablishedIsTracked)
    <2> SUFFICES ASSUME GoesOn, NoLoss, OwnNumbers,
                        caller.st = "up", callee.st = "up", ~caller.cancelled
                 PROVE  Live /\ told[Cid] = "connected"
      BY DEF EstablishedIsTracked
    <2>1. Base /\ AgentsOK
      BY DEF GoesOn, Base
    <2>2. caller.answer # "none" /\ Passed(AckOk(callee.try))
      BY <2>1 DEF AgentsOK, CallerOK, CalleeOK
    <2>3. Passed(Invite(caller.try)) /\ callee.try = caller.try
      BY <2>1, <2>2, Talking
    <2>4. Agreed
      BY <2>3 DEF Agreed
    <2> QED BY <2>2, <2>3, <2>4 DEF GoesOn, TalkOK
  <1> QED BY <1>1, CallGoesOn, PTL

----------------------------------------------------------------------------
(* The end of the call.                                                    *)

\* A call goes at once when it ends.  Timer C is stopped by the ACK of the answer;
\* after the caller's BYE was answered there is a call only if the callee's late
\* INVITE opened one; after the callee's there is none; where the callee's host
\* may go away, a BYE that came has left timer S running.
EndOK ==
  ~LogEvents /\ "lost_ack" \notin allowed =>
    /\ Live => ~Call.terminated
    /\ Live /\ ~Call.t3 => \E i \in Tries : Passed(AckOk(i))
    /\ \A i \in Tries : Live /\ Passed(ByeOk(i)) => /\ Call.t3 /\ callee.hold # "no"
                                                    /\ ~Seen(HoldOk) /\ ~Seen(HoldNo)
    /\ Passed(CalleeByeOk) => ~Live
    /\ /\ "crash" \in allowed /\ "early_bye" \notin allowed /\ "hold" \notin allowed /\ Live
       /\ (\E i \in Tries : Passed(Bye(i))) \/ Passed(CalleeBye)
       => Call.ts

\* An ACK that comes after an answer was accepted is that answer's, for the
\* first time, or one of the callee.
LEMMA LateAck ==
  ASSUME Base, "lost_ack" \notin allowed, caller.answer # "none", NEW m \in Mail, NEW c, NEW r,
         OnWire(m), TakesRequest(m, c, r), m.method = "ACK"
  PROVE  /\ m \in {HeldAck, HoldNoAck, AckOk(caller.try)}
         /\ m = AckOk(caller.try) => ~Passed(AckOk(caller.try))
  <1>1. /\ side \in Sides /\ AgentsOK /\ m.kind = "request" /\ Seen(m) /\ caller.try \in Tries
    BY AgentTypes DEF Base, Setting, TakesRequest, Seen
  <1>2. \A i \in Tries : m \in {AckFail(i), AckOk(i)} => ~Passed(m)
    BY FirstArrival DEF Kept
  <1>3. ASSUME NEW i \in Tries, m = AckFail(i) PROVE FALSE
    <2>1. Seen(AckFail(i)) /\ ~Passed(AckFail(i))
      BY <1>1, <1>2, <1>3
    <2>2. caller.st # "challenged"
      BY <1>1 DEF AgentsOK, CallerOK
    <2>3. i = 1 /\ caller.try = 2
      BY <1>1, <2>1, <2>2 DEF AgentsOK, CallerSentOK, CallerSentFor
    <2> QED BY <1>1, <2>1, <2>3 DEF AgentsOK, CallerOK
  <1>4. ASSUME NEW i \in Tries, m = AckOk(i) PROVE i = caller.try /\ ~Passed(m)
    BY <1>1, <1>2, <1>4 DEF AgentsOK, CallerSentOK, CallerSentFor
  <1> QED BY <1>1, <1>3, <1>4, RequestNames

\* The ACK of a refusal or of the 407 ends the call.
LEMMA FailureEnds ==
  ASSUME Base, OpenedOK, SetupOK, "lost_ack" \notin allowed, Live, NEW i \in Tries, Seen(AckFail(i)), ~Passed(AckFail(i))
  PROVE  Call.cseq = i /\ Call.finalCode # 200
  <1>1. /\ side \in Sides /\ AgentsOK /\ caller.try \in Tries /\ 1 \in Tries /\ 2 \in Tries
    BY AgentTypes DEF Base, Setting, Tries
  <1>2. CASE i = 1 /\ Passed(Challenge(1)) /\ ~Passed(Invite(2))
    <2>1. ~Passed(Hold)
      BY <1>2, Unused, NotTalking DEF Seen
    <2> QED BY <1>2, <2>1 DEF SetupOK
  <1>3. CASE Passed(Refusal(i, 486)) \/ Passed(Refusal(i, 487))
    <2>1. Used(i) /\ ~Seen(Ok(i))
      BY <1>1, <1>3 DEF AgentsOK, CalleeSentOK, CalleeSentFor, Seen
    <2>2. \A j \in Tries : ~Seen(Ok(j))
      BY <1>1, <2>1 DEF AgentsOK, CalleeSentOK, CalleeSentFor, Used
    <2>3. caller.answer = "none"
      BY <1>1, <2>2, Talking DEF Seen
    <2>4. ~Passed(Hold)
      BY <2>3, NotTalking DEF Seen
    <2>5. i = 2 <=> Passed(Invite(2))
      <3>1. Passed(Invite(2)) => Passed(Challenge(1)) /\ caller.try = 2
        BY <1>1 DEF AgentsOK, CallerOK, CallerSentOK, CallerSentFor, Seen, Tries
      <3>2. Passed(Challenge(1)) => "challenge" \in allowed
        BY <1>1 DEF AgentsOK, CalleeSentOK, CalleeSentFor, Seen
      <3> QED BY <2>1, <3>1, <3>2 DEF Used, Tries
    <2>6. Call.cseq = i
      BY <2>4, <2>5 DEF SetupOK, Tries
    <2>7. Call.finalCode # 200
      BY <2>2 DEF OpenedOK, Seen
    <2> QED BY <2>6, <2>7
  <1> QED BY <1>2, <1>3, FailureAcked

\* After the caller's BYE was answered, nobody answers the callee's INVITE.
LEMMA HoldUnanswered ==
  ASSUME Base, [CallNext]_callVars, NEW i \in Tries, Passed(ByeOk(i)),
         callee.hold # "no", ~Seen(HoldOk), ~Seen(HoldNo)
  PROVE  callee'.hold # "no" /\ ~Seen(HoldOk)' /\ ~Seen(HoldNo)'
  <1>1. /\ UNCHANGED <<side, allowed>> /\ side \in Sides /\ WireOK /\ AgentsOK
        /\ (Outside /\ Moves /\ SamePassed) \/ Relays
    BY CallTurns DEF Base, Setting, Still, Comes, Fires
  <1>2. HoldOk \in Mail /\ HoldNo \in Mail /\ HoldOk' = HoldOk /\ HoldNo' = HoldNo
    BY <1>1, Named, SameMail
  <1>3. CASE Relays
    <2>1. \A n \in Mail : Seen(n)' => Seen(n)
      BY <1>3 DEF Relays
    <2> QED BY <1>2, <1>3, <2>1 DEF Relays, agents
  <1>4. CASE Outside /\ Moves /\ SamePassed
    <2>1. caller.st # "up"
      BY <1>1 DEF AgentsOK, CalleeSentOK, CalleeSentFor, CallerSentOK, CallerSentFor, Seen
    <2>2. \A n \in Mail : n \in {HoldOk, HoldNo} /\ OnWire(n)' => OnWire(n)
      BY <1>4, <2>1 DEF Moves
    <2>3. ~OnWire(HoldOk)' /\ ~OnWire(HoldNo)'
      BY <1>2, <2>2 DEF Seen
    <2>4. ~Passed(HoldOk)' /\ ~Passed(HoldNo)'
      BY <1>4 DEF SamePassed, Seen
    <2> QED BY <1>4, <2>3, <2>4 DEF Seen, Moves
  <1> QED BY <1>1, <1>3, <1>4

\* What is to be shown of the call when a message has come.
EndsWell(d) ==
  /\ ~d.terminated
  /\ ~d.t3 => \E i \in Tries : Passed(AckOk(i))'
  /\ \A i \in Tries : Passed(ByeOk(i))' => /\ d.t3 /\ callee.hold # "no"
                                           /\ ~Seen(HoldOk) /\ ~Seen(HoldNo)
  /\ ~Passed(CalleeByeOk)'
  /\ /\ "crash" \in allowed /\ "early_bye" \notin allowed /\ "hold" \notin allowed
     /\ (\E i \in Tries : Passed(Bye(i))') \/ Passed(CalleeBye)'
     => d.ts

LEMMA EndAfter ==
  ASSUME side \in Sides, Relays, callmap'[Cid] = None \/ EndsWell(callmap'[Cid])
  PROVE  EndOK'
  <1>1. UNCHANGED <<side, allowed, caller, callee>>
    BY DEF Relays, agents
  <1>2. (Seen(HoldOk)' => Seen(HoldOk)) /\ (Seen(HoldNo)' => Seen(HoldNo))
    <2>1. HoldOk \in Mail /\ HoldNo \in Mail /\ HoldOk' = HoldOk /\ HoldNo' = HoldNo
      BY <1>1, Named, SameMail
    <2>2. \A n \in Mail : Seen(n)' => Seen(n)
      BY DEF Relays
    <2> QED BY <2>1, <2>2
  <1>3. CASE callmap'[Cid] = None
    BY <1>3 DEF EndOK, Live
  <1>4. CASE EndsWell(callmap'[Cid])
    BY <1>1, <1>2, <1>4 DEF EndOK, EndsWell, Live, Call
  <1> QED BY <1>3, <1>4

LEMMA EndInvite ==
  ASSUME Base, EndOK, ~LogEvents, "lost_ack" \notin allowed, UNCHANGED <<side, allowed>>,
         NEW m \in Mail, Comes(m), NEW c, NEW r, TakesRequest(m, c, r), m.method = "INVITE"
  PROVE  EndsWell(callmap'[Cid])
  <1> DEFINE d == callmap'[Cid]
  <1>1. /\ Reopens(c, m, r) /\ c \in CallType /\ d = r.call /\ m.kind = "request"
        /\ c = IF Live THEN Call ELSE NewCall(m)
    BY DEF TakesRequest, RequestResult
  <1>2. /\ side \in Sides /\ AgentsOK /\ WireOK /\ OnWire(m) /\ Seen(m) /\ OnlyNew(m)
        /\ UNCHANGED <<caller, callee>> /\ callee.try \in Tries
    BY AgentTypes DEF Base, Setting, Comes, Seen, Relays, agents
  <1>3. d.t3 = c.t3 /\ d.ts = c.ts /\ d.terminated = c.terminated
    BY <1>1 DEF Reopens, CallType
  <1> HIDE DEF d
  <1>4. /\ Passed(CalleeByeOk)' <=> Passed(CalleeByeOk)
        /\ Passed(CalleeBye)' <=> Passed(CalleeBye)
        /\ \A i \in Tries : /\ Passed(AckOk(i))' <=> Passed(AckOk(i))
                            /\ Passed(ByeOk(i))' <=> Passed(ByeOk(i))
                            /\ Passed(Bye(i))' <=> Passed(Bye(i))
    <2>1. /\ CalleeByeOk # m /\ CalleeBye # m
          /\ \A i \in Tries : AckOk(i) # m /\ ByeOk(i) # m /\ Bye(i) # m
      <3>1. /\ CalleeByeOk.kind = "response" /\ CalleeBye.method = "BYE"
            /\ \A i \in Tries : AckOk(i).method = "ACK" /\ ByeOk(i).kind = "response" /\ Bye(i).method = "BYE"
        BY <1>2, AnswerFields, RequestFields DEF Says, Tries
      <3> QED BY <1>1, <3>1
    <2> QED BY <1>2, <2>1 DEF OnlyNew
  <1>5. CASE Live
    BY <1>1, <1>3, <1>4, <1>5 DEF EndOK, EndsWell, d
  <1>6. CASE ~Live
    <2>1. d.t3 /\ ~d.terminated
      BY <1>1, <1>3, <1>6 DEF NewCall
    <2>2. ASSUME NEW i \in Tries, m = Invite(i) PROVE EndsWell(d)
      <3>1. Kept(m)
        BY <2>2 DEF Kept
      <3>2. OnWire(Invite(i)) /\ ~Passed(Invite(i))
        BY <1>2, <2>2, <3>1, FirstArrival
      <3>3. ~Seen(CalleeBye) /\ \A j \in Tries : ~Seen(Bye(j))
        BY <1>2, <3>2, FreshInvite
      <3>4. ~Passed(CalleeByeOk) /\ \A j \in Tries : ~Passed(ByeOk(j))
        BY <1>2, <3>3 DEF AgentsOK, CallerSentOK, CalleeSentOK, CalleeSentFor, Seen
      <3> QED BY <1>4, <2>1, <3>3, <3>4 DEF EndsWell, Seen
    <2>3. CASE m = Hold
      <3>1. Kept(m)
        BY <2>3 DEF Kept
      <3>2. ~Passed(Hold) /\ callee.hold # "no" /\ "hold" \in allowed
        BY <1>2, <2>3, <3>1, FirstArrival DEF AgentsOK, CalleeSentOK, CalleeOK
      <3>3. ~Seen(HoldOk) /\ ~Seen(HoldNo)
        BY <1>2, <3>2 DEF AgentsOK, CallerSentOK
      <3>4. ~Passed(CalleeByeOk)
        <4>1. ~Seen(CalleeBye)
          BY <1>2, <3>2, <3>3, AgentTypes DEF AgentsOK, CalleeSentOK, CalleeOK, Seen
        <4> QED BY <1>2, <4>1 DEF AgentsOK, CallerSentOK, Seen
      <3> QED BY <1>4, <2>1, <3>2, <3>3, <3>4 DEF EndsWell, d
    <2> QED BY <1>1, <1>2, <2>2, <2>3, RequestNames DEF d
  <1> QED BY <1>5, <1>6 DEF d

LEMMA EndAck ==
  ASSUME Base, OpenedOK, SetupOK, EndOK, ~LogEvents, "lost_ack" \notin allowed, UNCHANGED <<side, allowed>>,
         NEW m \in Mail, Comes(m), NEW c, NEW r, TakesRequest(m, c, r), m.method = "ACK", callmap'[Cid] # None
  PROVE  EndsWell(callmap'[Cid])
  <1> DEFINE d == callmap'[Cid]
  <1>1. m.kind = "request" /\ d = r.call /\ Live /\ Call \in CallType /\ c = Call /\ RequestResult(c, m, r)
    BY RequestLeaves DEF TakesRequest
  <1>2. /\ side \in Sides /\ AgentsOK /\ WireOK /\ OnWire(m) /\ Seen(m) /\ OnlyNew(m) /\ Relays
        /\ UNCHANGED <<caller, callee>> /\ callee.try \in Tries /\ caller.try \in Tries
    BY AgentTypes DEF Base, Setting, Comes, Seen, Relays, agents
  <1>3. ~Call.terminated
    BY <1>1 DEF EndOK
  <1>4. ~(m.seq = Call.cseq /\ Call.finalCode # 200) /\ ~d.terminated
    BY <1>1, <1>3, RequestMarks
  <1> HIDE DEF d
  <1>5. caller.answer # "none"
    <2> SUFFICES ASSUME caller.answer = "none" PROVE FALSE
      OBVIOUS
    <2>1. PICK i \in Tries : m = AckFail(i)
      BY <1>1, <1>2, NotTalking, RequestNames
    <2>2. Kept(m)
      BY <2>1 DEF Kept
    <2>3. ~Passed(AckFail(i))
      BY <1>2, <2>1, <2>2, FirstArrival
    <2>4. Call.cseq = i /\ Call.finalCode # 200
      BY <1>1, <1>2, <2>1, <2>3, FailureEnds
    <2>5. m.seq = i
      BY <2>1, RequestFields DEF Says
    <2> QED BY <1>4, <2>4, <2>5
  <1>6. /\ m \in {HeldAck, HoldNoAck, AckOk(caller.try)}
        /\ m = AckOk(caller.try) => ~Passed(AckOk(caller.try))
    BY <1>2, <1>5, LateAck
  <1>7. m \in {HeldAck, HoldNoAck} =>
          /\ "hold" \in allowed /\ Passed(AckOk(callee.try))
          /\ m = HeldAck => Passed(HoldOk)
          /\ m = HoldNoAck => Passed(HoldNo)
    BY <1>2 DEF AgentsOK, CalleeOK, CallerSentOK, CalleeSentOK, Seen
  <1>8. callee.try = caller.try
    BY <1>5, Talking
  <1>9. Passed(AckOk(caller.try))'
    <2>1. CASE m = AckOk(caller.try)
      <3>1. r.ok
        BY <1>1, <1>4 DEF RequestResult, Connects, Becomes
      <3>2. IsNew(m, TRUE)
        BY <3>1 DEF TakesRequest
      <3> QED BY <1>2, <2>1, <3>2, SameMail, Named DEF IsNew
    <2>2. CASE m \in {HeldAck, HoldNoAck}
      BY <1>2, <1>7, <1>8, <2>2, StaysPassed
    <2> QED BY <1>6, <2>1, <2>2
  <1>10. /\ Passed(CalleeByeOk)' <=> Passed(CalleeByeOk)
         /\ Passed(CalleeBye)' <=> Passed(CalleeBye)
         /\ \A i \in Tries : /\ Passed(ByeOk(i))' <=> Passed(ByeOk(i))
                             /\ Passed(Bye(i))' <=> Passed(Bye(i))
    <2>1. /\ CalleeByeOk # m /\ CalleeBye # m /\ \A i \in Tries : ByeOk(i) # m /\ Bye(i) # m
      <3>1. /\ CalleeByeOk.method = "BYE" /\ CalleeBye.method = "BYE"
            /\ \A i \in Tries : ByeOk(i).method = "BYE" /\ Bye(i).method = "BYE"
        BY <1>2, AnswerFields, RequestFields DEF Says, Tries
      <3> QED BY <3>1
    <2> QED BY <1>2, <2>1 DEF OnlyNew
  <1>11. ASSUME NEW i \in Tries, Passed(ByeOk(i)) PROVE FALSE
    <2>1. callee.hold # "no" /\ ~Seen(HoldOk) /\ ~Seen(HoldNo)
      BY <1>1, <1>11 DEF EndOK
    <2>2. Passed(AckOk(callee.try))
      BY <1>2, <2>1 DEF AgentsOK, CalleeOK
    <2> QED BY <1>6, <1>7, <1>8, <2>1, <2>2 DEF Seen
  <1>12. ASSUME "early_bye" \notin allowed, "hold" \notin allowed,
                (\E i \in Tries : Passed(Bye(i))) \/ Passed(CalleeBye)
         PROVE  FALSE
    <2>1. ~Passed(AckOk(caller.try))
      BY <1>6, <1>7, <1>12
    <2>2. ~Passed(CalleeBye)
      BY <1>2, <1>8, <2>1 DEF AgentsOK, CalleeSentOK, Seen
    <2>3. \A i \in Tries : ~Passed(Bye(i))
      BY <1>2, <1>12, <2>1 DEF AgentsOK, CallerSentOK, CallerSentFor, Seen
    <2> QED BY <1>12, <2>2, <2>3
  <1>13. ~Passed(CalleeByeOk)
    BY <1>1 DEF EndOK
  <1> QED BY <1>2, <1>4, <1>9, <1>10, <1>11, <1>12, <1>13 DEF EndsWell, d

LEMMA EndBye ==
  ASSUME Base, EndOK, ~LogEvents, "lost_ack" \notin allowed, UNCHANGED <<side, allowed>>,
         NEW m \in Mail, Comes(m), NEW c, NEW r, TakesRequest(m, c, r),
         m.method \in {"BYE", "CANCEL"}, callmap'[Cid] # None
  PROVE  EndsWell(callmap'[Cid])
  <1> DEFINE d == callmap'[Cid]
  <1>1. m.kind = "request" /\ d = r.call /\ Live /\ Call \in CallType /\ c = Call /\ RequestResult(c, m, r)
    BY RequestLeaves DEF TakesRequest
  <1>2. side \in Sides /\ OnlyNew(m) /\ Relays
    BY DEF Base, Setting, Comes
  <1>3. d.t3 = Call.t3 /\ ~d.terminated
    <2>1. ~Call.terminated
      BY <1>1 DEF EndOK
    <2> QED BY <1>1, <2>1, RequestMarks
  <1>4. m.method = "BYE" => d.ts
    BY <1>1, RequestMarks
  <1>5. m.method = "CANCEL" /\ Call.ts => d.ts
    <2> SUFFICES ASSUME m.method = "CANCEL", Call.ts PROVE d.ts
      OBVIOUS
    <2>1. r.call = [Call EXCEPT !.ts = TRUE] \/ r.call = Call
      BY <1>1 DEF RequestResult, Becomes
    <2>2. [Call EXCEPT !.ts = TRUE].ts
      BY <1>1 DEF CallType
    <2> QED BY <1>1, <2>1, <2>2
  <1> HIDE DEF d
  <1>6. /\ Passed(CalleeByeOk)' <=> Passed(CalleeByeOk)
        /\ \A i \in Tries : Passed(ByeOk(i))' <=> Passed(ByeOk(i))
    <2>1. CalleeByeOk.kind = "response" /\ \A i \in Tries : ByeOk(i).kind = "response"
      BY <1>2, AnswerFields DEF Says, Tries
    <2> QED BY <1>1, <1>2, <2>1 DEF OnlyNew
  <1>7. \A i \in Tries : Passed(AckOk(i)) => Passed(AckOk(i))'
    BY <1>2, StaysPassed
  <1>8. m.method = "CANCEL" => /\ Passed(CalleeBye)' <=> Passed(CalleeBye)
                               /\ \A i \in Tries : Passed(Bye(i))' <=> Passed(Bye(i))
    <2>1. CalleeBye.method = "BYE" /\ \A i \in Tries : Bye(i).method = "BYE"
      BY RequestFields DEF Says, Tries
    <2> QED BY <1>2, <2>1 DEF OnlyNew
  <1>9. EndsWell(d)
    <2>1. CASE m.method = "BYE"
      BY <1>1, <1>3, <1>4, <1>6, <1>7, <2>1 DEF EndOK, EndsWell
    <2>2. CASE m.method = "CANCEL"
      BY <1>1, <1>3, <1>5, <1>6, <1>7, <1>8, <2>2 DEF EndOK, EndsWell
    <2> QED BY <2>1, <2>2
  <1> QED BY <1>9 DEF d

LEMMA EndResponse ==
  ASSUME Base, EndOK, ~LogEvents, "lost_ack" \notin allowed, UNCHANGED <<side, allowed>>,
         NEW m \in Mail, Comes(m), NEW c, NEW r, TakesResponse(m, c, r), callmap'[Cid] # None
  PROVE  EndsWell(callmap'[Cid])
  <1> DEFINE d == callmap'[Cid]
  <1>1. m.kind = "response" /\ d = r.call /\ Live /\ Call \in CallType
    BY ResponseLeaves DEF TakesResponse
  <1>2. side \in Sides /\ OnlyNew(m) /\ Relays
    BY DEF Base, Setting, Comes
  <1>3. ~Call.terminated
    BY <1>1 DEF EndOK
  <1>4. m.method \in {"INVITE", "CANCEL"}
    BY <1>1, <1>2, <1>3, ResponseNames, ResponseMarks
  <1>5. d.t3 = Call.t3 /\ d.ts = Call.ts /\ ~d.terminated
    BY <1>1, <1>3, <1>4, ResponseMarks
  <1> HIDE DEF d
  <1>6. /\ Passed(CalleeByeOk)' <=> Passed(CalleeByeOk)
        /\ Passed(CalleeBye)' <=> Passed(CalleeBye)
        /\ \A i \in Tries : /\ Passed(ByeOk(i))' <=> Passed(ByeOk(i))
                            /\ Passed(Bye(i))' <=> Passed(Bye(i))
    <2>1. /\ CalleeByeOk.method = "BYE" /\ CalleeBye.method = "BYE"
          /\ \A i \in Tries : ByeOk(i).method = "BYE" /\ Bye(i).method = "BYE"
      BY <1>2, AnswerFields, RequestFields DEF Says, Tries
    <2> QED BY <1>2, <1>4, <2>1 DEF OnlyNew
  <1>7. \A i \in Tries : Passed(AckOk(i)) => Passed(AckOk(i))'
    BY <1>2, StaysPassed
  <1>8. EndsWell(d)
    BY <1>1, <1>5, <1>6, <1>7 DEF EndOK, EndsWell
  <1> QED BY <1>8 DEF d

LEMMA EndStep ==
  ASSUME GoesOn, EndOK, [CallNext]_callVars
  PROVE  EndOK'
  <1>1. /\ Base /\ OpenedOK /\ SetupOK /\ UNCHANGED <<side, allowed>> /\ side \in Sides
        /\ Still \/ (\E m \in Mail : Comes(m)) \/ Fires
    BY CallTurns DEF GoesOn, Base, Setting
  <1> SUFFICES ASSUME ~LogEvents, "lost_ack" \notin allowed PROVE EndOK'
    BY <1>1 DEF EndOK
  <1>2. CASE Still
    <2>1. callmap' = callmap /\ SamePassed
      BY <1>2 DEF Still, cc
    <2>2. \A i \in Tries : Live /\ Passed(ByeOk(i)) =>
            /\ Call.t3 /\ callee'.hold # "no" /\ ~Seen(HoldOk)' /\ ~Seen(HoldNo)'
      BY <1>1, HoldUnanswered DEF EndOK
    <2> QED BY <1>1, <2>1, <2>2 DEF SamePassed, EndOK, Live, Call
  <1>3. CASE Fires
    <2>1. PICK c, r : TimesOut(c, r)
      BY <1>3 DEF Fires
    <2>2. Live /\ callmap'[Cid] = r.call
      BY <2>1 DEF TimesOut
    <2>3. r.call = None
      BY <1>1, <2>1, <2>2, TimerMarks DEF EndOK
    <2> QED BY <2>2, <2>3 DEF EndOK, Live
  <1>4. ASSUME NEW m \in Mail, Comes(m) PROVE EndOK'
    <2> SUFFICES ASSUME callmap'[Cid] # None PROVE EndsWell(callmap'[Cid])
      BY <1>1, <1>4, EndAfter DEF Comes
    <2>1. ~Through(m)
      BY DEF Through, cc, Live
    <2>2. ASSUME NEW c, NEW r, TakesRequest(m, c, r) PROVE EndsWell(callmap'[Cid])
      <3>1. m.method \in {"INVITE", "CANCEL", "BYE", "ACK"}
        BY <1>1, <2>2, RequestNames DEF TakesRequest
      <3> QED BY <1>1, <1>4, <2>2, <3>1, EndInvite, EndAck, EndBye
    <2>3. ASSUME NEW c, NEW r, TakesResponse(m, c, r) PROVE EndsWell(callmap'[Cid])
      BY <1>1, <1>4, <2>3, EndResponse
    <2> QED BY <1>4, <2>1, <2>2, <2>3 DEF Comes
  <1> QED BY <1>1, <1>2, <1>3, <1>4

\* The scenarios in which no call is forgotten: where the callee's host may go away
\* without a word, no ACK comes after the caller's BYE and stops timer S: neither
\* the caller's, overtaken by its BYE, nor that of an INVITE of the callee.
OrderlyEnd ==
  /\ "lost_ack" \notin allowed
  /\ "crash" \in allowed => "early_bye" \notin allowed /\ "hold" \notin allowed

\* If the end of a call is not logged (logCCEvents), then in those scenarios a
\* call that both ends have left has a timer running, which will end it: nothing
\* else would, and it keeps its port pair and keeps idleactions from running.
THEOREM CallsAreNotForgotten ==
  CallSpec => [](~LogEvents /\ OrderlyEnd => NoForgottenCall)
  <1>1. CallInit => GoesOn /\ EndOK
    <2> SUFFICES ASSUME CallInit PROVE GoesOn /\ EndOK
      OBVIOUS
    <2>1. ~Live /\ wire = {}
      BY InitBase
    <2>2. \A m : ~Passed(m)
      BY <2>1 DEF Passed, Got
    <2> QED BY <2>1, <2>2, GoesOnInit DEF EndOK
  <1>2. (GoesOn /\ EndOK) /\ [CallNext]_callVars => (GoesOn /\ EndOK)'
    <2> SUFFICES ASSUME GoesOn, EndOK, [CallNext]_callVars PROVE GoesOn' /\ EndOK'
      OBVIOUS
    <2> QED BY GoesOnStep, EndStep
  <1>3. GoesOn /\ EndOK => (~LogEvents /\ OrderlyEnd => NoForgottenCall)
    <2> SUFFICES ASSUME GoesOn, EndOK, ~LogEvents, OrderlyEnd, caller.st = "ended",
                        callee.st \in {"ended", "dead"}, Live, ~Call.t3
                 PROVE  Call.ts
      BY DEF NoForgottenCall, Call
    <2>1. AgentsOK /\ Base /\ caller.try \in Tries
      BY AgentTypes DEF GoesOn, Base
    <2>2. "lost_ack" \notin allowed
      BY DEF OrderlyEnd
    <2>3. caller.answer # "none"
      BY <2>1, <2>2, NotTalking DEF EndOK, Seen
    <2>4. ~Passed(ByeOk(caller.try)) /\ ~Passed(CalleeByeOk)
      BY <2>1, <2>2 DEF EndOK
    <2>5. Passed(CalleeBye) \/ (callee.st = "dead" /\ Passed(Bye(caller.try)))
      BY <2>1, <2>3, <2>4 DEF AgentsOK, CallerOK
    <2>6. callee.st = "dead"
      BY <2>1, <2>4, <2>5 DEF AgentsOK, CalleeOK, Seen
    <2>7. "crash" \in allowed /\ "early_bye" \notin allowed /\ "hold" \notin allowed
      BY <2>1, <2>6 DEF AgentsOK, CalleeOK, OrderlyEnd
    <2> QED BY <2>1, <2>2, <2>5, <2>7 DEF EndOK
  <1> QED BY <1>1, <1>2, <1>3, PTL DEF CallSpec
=============================================================================
