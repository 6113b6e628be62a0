------------------------------- MODULE SipCall -------------------------------
(***************************************************************************)
(* One call through zsipos: the caller's and the callee's user agent with  *)
(* Gmitm between them.  The two user agents are not part of the repository; *)
(* they follow the basic INVITE, CANCEL and BYE flow of SIP, as CallController *)
(* expects it.  The caller is the phone or the far end.                    *)
(*                                                                         *)
(* UDP: wire holds every datagram sent.  A datagram is delivered any number *)
(* of times, in any order, or never.  A retransmission is a datagram        *)
(* delivered again.  What a transaction absorbed has died out before its    *)
(* Branch is deleted: that is what timers B, D, F and K are chosen for.     *)
(***************************************************************************)
EXTENDS Gmitm

CONSTANTS
  Cid,          \* the call-id of the call
  CalleeSeq,    \* CSeq number of the callee's first request: its own number space
  Scenarios     \* of a call: [sides, allowed], the sides the caller may be on (the
                \* phone's or the far one) and the optional things that may happen

\* challenge: the callee's proxy asks for credentials first (407).
\* lost_ack: the ACK of the 407 is lost, or overtaken by the next INVITE.
\* long_ring: timer C expires while the callee is still ringing.
\* cancel: the caller gives up while it rings.
\* early_bye: the caller's BYE may overtake its ACK.
\* crash: the callee's host goes away without a word.
\* callee_bye: the callee may end the call, too.
\* hold: the callee may change its media with an INVITE of its own.
\* refused_hold: the caller does not agree.
Optional == {"challenge", "lost_ack", "long_ring", "cancel", "early_bye", "crash",
             "callee_bye", "hold", "refused_hold"}

\* There is a port for the call, and room for the branches and CSeq numbers the
\* two user agents use: see Invite to CalleeBye below.
ASSUME CallAssumption ==
  /\ \A sc \in Scenarios : sc.sides \subseteq Sides /\ sc.allowed \subseteq Optional
  /\ Cid \in Cids /\ MaxSessions # 0
  /\ CalleeSeq \in Nat /\ {1, 2, 3, CalleeSeq, CalleeSeq + 1} \subseteq Seqs
  /\ {"inv", "ack", "bye"} \X {1, 2} \subseteq Vias
  /\ {<<"hang", 1>>, <<"hold", 1>>, <<"held", 1>>} \subseteq Vias

VARIABLES
  wire,     \* datagrams sent: [to, msg]
  side,     \* the side the caller is on
  allowed,  \* the optional things of this call
  caller,   \* [st, try, answer, cancelled]
  callee    \* [st, try, hold], hold being how far its INVITE is

callVars == <<vars, wire, side, allowed, caller, callee>>
agents == <<side, allowed, caller, callee>>

far == Opposite(side)

Req(from, method, via, seq, sdp) ==
  [kind |-> "request", from |-> from, method |-> method, cid |-> Cid,
   via |-> via, seq |-> seq, sdp |-> sdp, toMe |-> TRUE]
Rsp(q, sdp, code) ==
  [kind |-> "response", from |-> Opposite(q.from), method |-> q.method, cid |-> Cid,
   via |-> q.via, seq |-> q.seq, sdp |-> sdp, code |-> code]

Invite(i) == Req(side, "INVITE", <<"inv", i>>, i, "raw")
Cancel(i) == Req(side, "CANCEL", <<"inv", i>>, i, "none")
\* The ACK of a failure belongs to the INVITE's transaction, that of a 2xx not.
AckFail(i) == Req(side, "ACK", <<"inv", i>>, i, "none")
AckOk(i)   == Req(side, "ACK", <<"ack", i>>, i, "none")
Bye(i)     == Req(side, "BYE", <<"bye", i>>, i + 1, "none")
Hold    == Req(far, "INVITE", <<"hold", 1>>, CalleeSeq, "raw")
HoldAck(via) == Req(far, "ACK", via, CalleeSeq, "none")
CalleeBye ==
  Req(far, "BYE", <<"hang", 1>>, IF "hold" \in allowed THEN CalleeSeq + 1 ELSE CalleeSeq, "none")

Send(msgs) == wire' = wire \cup {[to |-> "mitm", msg |-> m] : m \in msgs}
\* The datagram is at the user agent; the body may have been rewritten.
Got(s, m) == \E w \in wire : w.to = s /\ [w.msg EXCEPT !.sdp = m.sdp] = m
\* Nothing happens in zsipos.
Quiet == out' = {} /\ UNCHANGED <<phoneInfoValid, sip, cc, side, allowed>>

----------------------------------------------------------------------------
(* The caller.                                                             *)

Dial ==
  /\ caller.st = "idle"
  /\ caller' = [caller EXCEPT !.st = "calling"]
  /\ Send({Invite(1)}) /\ Quiet /\ UNCHANGED callee

Challenged ==
  /\ caller.st = "calling" /\ caller.try = 1
  /\ Got(side, Rsp(Invite(1), "none", 407))
  /\ caller' = [caller EXCEPT !.st = "challenged"]
  /\ Send({AckFail(1)}) /\ Quiet /\ UNCHANGED callee

Redial ==
  /\ caller.st = "challenged"
  /\ "lost_ack" \in allowed \/ \E w \in wire : w.to = far /\ w.msg = AckFail(1)
  /\ caller' = [caller EXCEPT !.st = "calling", !.try = 2]
  /\ Send({Invite(2)}) /\ Quiet /\ UNCHANGED callee

GiveUp ==
  /\ "cancel" \in allowed /\ caller.st = "calling" /\ ~caller.cancelled
  /\ Got(side, Rsp(Invite(caller.try), "none", 180))
  /\ caller' = [caller EXCEPT !.cancelled = TRUE]
  /\ Send({Cancel(caller.try)}) /\ Quiet /\ UNCHANGED callee

Accepted ==
  /\ caller.st = "calling"
  /\ \E w \in wire :
       /\ w.to = side
       /\ [w.msg EXCEPT !.sdp = "raw"] = Rsp(Invite(caller.try), "raw", 200)
       /\ caller' = [caller EXCEPT !.st = "up", !.answer = w.msg.sdp]
  /\ Send({AckOk(caller.try)}) /\ Quiet /\ UNCHANGED callee

Refused ==
  /\ caller.st = "calling"
  /\ \E code \in {486, 487} : Got(side, Rsp(Invite(caller.try), "none", code))
  /\ caller' = [caller EXCEPT !.st = "ended"]
  /\ Send({AckFail(caller.try)}) /\ Quiet /\ UNCHANGED callee

AckPassed == \E w \in wire : w.to = far /\ w.msg = AckOk(caller.try)

HangUp ==
  /\ caller.st = "up" /\ ("early_bye" \in allowed \/ AckPassed)
  /\ caller' = [caller EXCEPT !.st = "bye"]
  /\ Send({Bye(caller.try)}) /\ Quiet /\ UNCHANGED callee

CallerByeAnswered ==
  /\ caller.st = "bye" /\ Got(side, Rsp(Bye(caller.try), "none", 200))
  /\ caller' = [caller EXCEPT !.st = "ended"]
  /\ Quiet /\ UNCHANGED <<wire, callee>>

CalleeHungUp ==
  /\ caller.st \in {"up", "bye"} /\ Got(side, CalleeBye)
  /\ caller' = [caller EXCEPT !.st = IF @ = "up" THEN "ended" ELSE @]
  /\ Send({Rsp(CalleeBye, "none", 200)}) /\ Quiet /\ UNCHANGED callee

\* The callee's INVITE while they talk.
Held ==
  /\ caller.st = "up" /\ Got(side, Hold)
  /\ Send({IF "refused_hold" \in allowed THEN Rsp(Hold, "none", 488) ELSE Rsp(Hold, "raw", 200)})
  /\ Quiet /\ UNCHANGED <<caller, callee>>

\* Timer B or F of the caller: nobody is left to answer its INVITE or BYE,
\* of which one copy has come through zsipos in all that time.
Unanswered ==
  /\ callee.st = "dead"
  /\ \/ caller.st = "calling"
     \/ caller.st = "bye" /\ \E w \in wire : w.to = far /\ w.msg = Bye(caller.try)
  /\ caller' = [caller EXCEPT !.st = "ended"]
  /\ Quiet /\ UNCHANGED <<wire, callee>>

----------------------------------------------------------------------------
(* The callee.                                                             *)

Ring ==
  /\ callee.st = "idle"
  /\ \E i \in {1, 2} :
       /\ Got(far, Invite(i))
       /\ IF "challenge" \in allowed /\ i = 1
            THEN /\ callee' = callee
                 /\ Send({Rsp(Invite(1), "none", 407)})
            ELSE /\ callee' = [callee EXCEPT !.st = "ringing", !.try = i]
                 /\ Send({Rsp(Invite(i), "none", 180)})
  /\ Quiet /\ UNCHANGED caller

Answer ==
  /\ callee.st = "ringing"
  /\ callee' = [callee EXCEPT !.st = "answered"]
  /\ Send({Rsp(Invite(callee.try), "raw", 200)}) /\ Quiet /\ UNCHANGED caller

Reject ==
  /\ callee.st = "ringing"
  /\ callee' = [callee EXCEPT !.st = "ended"]
  /\ Send({Rsp(Invite(callee.try), "none", 486)}) /\ Quiet /\ UNCHANGED caller

Cancelled ==
  /\ callee.st \in {"ringing", "answered", "up"} /\ Got(far, Cancel(callee.try))
  /\ callee' = [callee EXCEPT !.st = IF @ = "ringing" THEN "ended" ELSE @]
  /\ Send({Rsp(Cancel(callee.try), "none", 200)} \cup
          IF callee.st = "ringing" THEN {Rsp(Invite(callee.try), "none", 487)} ELSE {})
  /\ Quiet /\ UNCHANGED caller

Acked ==
  /\ callee.st = "answered" /\ Got(far, AckOk(callee.try))
  /\ callee' = [callee EXCEPT !.st = "up"]
  /\ Quiet /\ UNCHANGED <<wire, caller>>

PutOnHold ==
  /\ "hold" \in allowed /\ callee.st = "up" /\ callee.hold = "no"
  /\ callee' = [callee EXCEPT !.hold = "asked"]
  /\ Send({Hold}) /\ Quiet /\ UNCHANGED caller

\* The ACK of a 2xx has a branch of its own.
HoldAnswered ==
  /\ callee.st = "up" /\ callee.hold = "asked"
  /\ callee' = [callee EXCEPT !.hold = "done"]
  /\ \/ Got(far, Rsp(Hold, "raw", 200)) /\ Send({HoldAck(<<"held", 1>>)})
     \/ Got(far, Rsp(Hold, "none", 488)) /\ Send({HoldAck(<<"hold", 1>>)})
  /\ Quiet /\ UNCHANGED caller

CalleeHangUp ==
  /\ "callee_bye" \in allowed /\ callee.st = "up" /\ callee.hold # "asked"
  /\ callee' = [callee EXCEPT !.st = "bye"]
  /\ Send({CalleeBye}) /\ Quiet /\ UNCHANGED caller

CalleeByeAnswered ==
  /\ callee.st = "bye" /\ Got(far, Rsp(CalleeBye, "none", 200))
  /\ callee' = [callee EXCEPT !.st = "ended"]
  /\ Quiet /\ UNCHANGED <<wire, caller>>

CallerHungUp ==
  /\ callee.st \in {"answered", "up", "bye"} /\ Got(far, Bye(callee.try))
  /\ callee' = [callee EXCEPT !.st = IF @ = "bye" THEN @ ELSE "ended"]
  /\ Send({Rsp(Bye(callee.try), "none", 200)}) /\ Quiet /\ UNCHANGED caller

\* The callee's host goes away; what it sent is delivered by then or lost.
CalleeDies ==
  /\ "crash" \in allowed /\ callee.st \notin {"ended", "dead"}
  /\ callee' = [callee EXCEPT !.st = "dead"]
  /\ wire' = {w \in wire : w.to # "mitm" \/ w.msg.from = side}
  /\ Quiet /\ UNCHANGED caller

----------------------------------------------------------------------------
(* zsipos between them.                                                    *)

Deliver ==
  /\ \E w \in wire : /\ w.to = "mitm"
                     /\ \/ w.msg.kind = "request" /\ Request(w.msg)
                        \/ w.msg.kind = "response" /\ Response(w.msg)
  /\ wire' = wire \cup {[to |-> o.to, msg |-> o.msg] : o \in out'}
  /\ UNCHANGED agents

\* Timer B, D, F or K: no copy of what this Branch absorbed is on its way.
ExpireBranch(k) ==
  /\ BranchTimedout(k)
  /\ wire' = {w \in wire : ~(/\ w.to = "mitm" /\ w.msg.kind = "request"
                             /\ \/ w.msg.via = k
                                \/ branchmap[k].reqs[w.msg.method] # None
                                   /\ branchmap[k].reqs[w.msg.method].via = w.msg.via)}
  /\ UNCHANGED agents

\* Timer C (t3), restarted by every message of the call until it is connected.
ExpireT3 ==
  /\ callee.st \in {"ended", "dead"} \/ ("long_ring" \in allowed /\ callee.st = "ringing")
  /\ OnT3(Cid) /\ UNCHANGED <<wire, agents>>

ExpireTS == OnTS(Cid) /\ UNCHANGED <<wire, agents>>

CallInit ==
  /\ phoneInfoValid = TRUE /\ Empty
  /\ wire = {}
  /\ \E sc \in Scenarios : side \in sc.sides /\ allowed = sc.allowed
  /\ caller = [st |-> "idle", try |-> 1, answer |-> "none", cancelled |-> FALSE]
  /\ callee = [st |-> "idle", try |-> 1, hold |-> "no"]

CallerStep ==
  \/ Dial \/ Challenged \/ Redial \/ GiveUp \/ Accepted \/ Refused \/ HangUp
  \/ CallerByeAnswered \/ CalleeHungUp \/ Held \/ Unanswered
CalleeStep ==
  \/ Ring \/ Answer \/ Reject \/ Cancelled \/ Acked \/ PutOnHold \/ HoldAnswered \/ CalleeHangUp
  \/ CalleeByeAnswered \/ CallerHungUp \/ CalleeDies
ExpireBranches == \E k \in Vias : ExpireBranch(k)

CallNext ==
  CallerStep \/ CalleeStep \/ Deliver \/ ExpireBranches \/ ExpireT3 \/ ExpireTS

CallSpec == CallInit /\ [][CallNext]_callVars

\* A pending timer of the reactor fires once the messages that keep
\* restarting it have stopped.
FairCallSpec ==
  /\ CallSpec
  /\ WF_callVars(ExpireT3) /\ WF_callVars(ExpireTS) /\ WF_callVars(ExpireBranches)

----------------------------------------------------------------------------
(* Properties.                                                             *)

Live == callmap[Cid] # None
Renegotiating == callee.hold = "asked" \/ (callee.hold = "done" /\ "refused_hold" \in allowed)

\* When the caller has been given a redirected answer, both RTP addresses of
\* the call are known and set: retransmitted INVITEs, which clear them in
\* handle_dlg_request, are absorbed by the Branch before they get there.  An
\* INVITE of the callee clears them again until it is answered, not if refused.
MediaPaired ==
  caller.answer = "fixed" /\ Live /\ ~Renegotiating
    => callmap[Cid].addr = Sides /\ callmap[Cid].ready

\* The answer a caller accepts has been rewritten to lead to zsipos, unless
\* the caller had cancelled and the answer crossed its CANCEL.
AnswerRedirected == caller.answer = "raw" => caller.cancelled

\* While both ends talk, zsipos has the call and has reported it connected:
\* no message or timer of the setup can end or bypass it.
EstablishedIsTracked ==
  caller.st = "up" /\ callee.st = "up" /\ ~caller.cancelled
    => Live /\ told[Cid] = "connected"

\* A call that both ends have left still has a timer that will end it.
NoForgottenCall ==
  caller.st = "ended" /\ callee.st \in {"ended", "dead"} /\ Live
    => callmap[Cid].t3 \/ callmap[Cid].ts

\* Once BYE or CANCEL has started timer S, the call ends, answered or not; only
\* an answer that crossed the CANCEL, or an ACK its BYE has overtaken, lets it go on.
HangupEnds ==
  (Live /\ callmap[Cid].ts)
    ~> (~Live \/ (told[Cid] = "connected" /\ (caller.cancelled \/ "early_bye" \in allowed)))

\* After both ends are done, calls and branches are all gone in the end, so
\* that idleactions can run and ports are free.
Drains ==
  (caller.st = "ended" /\ callee.st \in {"ended", "dead"})
    ~> (~Live /\ \A k \in Vias : branchmap[k] = None)
=============================================================================
