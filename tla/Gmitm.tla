------------------------------- MODULE Gmitm -------------------------------
(***************************************************************************)
(* The SIP half of zsipos: the "good man in the middle" (GMITM.py) with    *)
(* its transaction layer (Branch.py) and its calls (CallController.py).    *)
(*                                                                         *)
(* All of it runs on the one thread of the twisted reactor, so handling a  *)
(* datagram, or firing a timer, is one atomic step.  What arrives is left  *)
(* open: any message of Requests and Responses may arrive at any time and  *)
(* any number of times, which covers loss, duplication, reordering and     *)
(* whatever the two user agents decide to send.  SipCall.tla closes the    *)
(* system with user agents that follow the SIP call flow.                  *)
(*                                                                         *)
(* Time is abstract: a pending reactor.callLater may fire at any moment,   *)
(* so moving a pending timer (reset) is not a state change.                *)
(***************************************************************************)
EXTENDS Naturals, FiniteSets

CONSTANTS
  Cids,         \* call-ids
  Vias,         \* branch parameters of the topmost Via header
  Seqs,         \* CSeq numbers
  Requests,     \* the requests that may arrive
  Responses,    \* the responses that may arrive
  MaxSessions,  \* how many RTP port pairs _sockalloc finds: 50 in the code
  LogEvents,    \* the configuration option logCCEvents
  None

VARIABLES
  phoneInfoValid,  \* the phone has been seen (GMITM.phoneInfoValid)
  branchmap,       \* via branch -> Branch, or None
  seq2branch,      \* side -> CSeq number -> key of a Branch, or None
  callmap,         \* call-id -> CallController, or None
  ports,           \* RTP port pairs held by media sessions
  told,            \* call-id -> what the event sink was last told of it
  out              \* what the last step put on the wire

sip  == <<branchmap, seq2branch>>
cc   == <<callmap, ports, told>>
vars == <<phoneInfoValid, branchmap, seq2branch, callmap, ports, told, out>>

Sides   == {"loc", "ext"}
Opposite(s) == IF s = "loc" THEN "ext" ELSE "loc"
Methods == {"INVITE", "ACK", "BYE", "CANCEL", "REGISTER", "OTHER"}
Codes   == 100 .. 699
NoCode  == 0
Final(code) == code >= 200

\* A body is no SDP, an SDP as the user agent wrote it, one without audio that
\* newFixConnection raises on, one without c= that it cannot fix and returns
\* None for, or one that zsipos has rewritten.
SdpForms == {"none", "raw", "bad", "nocon", "fixed"}

RequestType ==
  [kind : {"request"}, from : Sides, method : Methods, cid : Cids, via : Vias,
   seq : Seqs, sdp : SdpForms, toMe : BOOLEAN]
ResponseType ==
  [kind : {"response"}, from : Sides, method : Methods, cid : Cids, via : Vias,
   seq : Seqs, sdp : SdpForms, code : Codes]

ASSUME MessagesAssumption ==
  /\ Requests \subseteq RequestType
  /\ Responses \subseteq ResponseType
ASSUME ConfigAssumption ==
  /\ MaxSessions \in Nat
  /\ LogEvents \in BOOLEAN

BranchType ==
  [external : Sides, cseq : Seqs, isInvite : BOOLEAN,
   reqs : [Methods -> RequestType \cup {None}],    \* cachedRequests
   rsps : [Methods -> ResponseType \cup {None}]]   \* cachedResponses
CallType ==
  [cseq : Seqs, incoming : BOOLEAN, finalCode : Codes \cup {NoCode},
   t3 : BOOLEAN, ts : BOOLEAN,      \* the timer is pending
   addr : SUBSET Sides,             \* sides whose SDP address is known
   ready : BOOLEAN,                 \* addressesReady() was called
   terminated : BOOLEAN]
OutType == [to : Sides, msg : RequestType \cup ResponseType, for : Cids]

ASSUME NoneAssumption ==
  /\ None \notin RequestType \cup ResponseType
  /\ None \notin Vias
  /\ None \notin BranchType
  /\ None \notin CallType

NoBranch == [m \in Methods |-> None]

----------------------------------------------------------------------------
(* The call: CallController.  A handler yields the call after it (None     *)
(* once on_call_terminated has removed it), the event it reported, the     *)
(* body that is forwarded, and whether it ran to its end without raising.  *)

Keep(c, m) == [call |-> c, event |-> "none", sdp |-> m.sdp, ok |-> TRUE]

NewCall(m) ==
  [cseq |-> m.seq, incoming |-> m.from = "ext", finalCode |-> NoCode,
   t3 |-> TRUE, ts |-> FALSE, addr |-> {}, ready |-> FALSE, terminated |-> FALSE]

\* Mutant: setBody is forgotten.
FixSDPNoBody(c, m) ==
  LET known == c.addr \cup {m.from} IN
  Keep([c EXCEPT !.addr = known, !.ready = @ \/ known = Sides], m)

\* A response or an ACK brings the answer, whose audio connection is used: where
\* it has none (None) this raises, after the body has been written.
IsAnswer(m) == m.kind = "response" \/ m.method = "ACK"

FixSDP(c, m) ==
  LET known == c.addr \cup {m.from} IN
  CASE m.sdp = "bad" -> [Keep(c, m) EXCEPT !.ok = FALSE]
    [] m.sdp = "nocon" -> [Keep([c EXCEPT !.addr = @ \ {m.from}], m)
                           EXCEPT !.ok = ~IsAnswer(m)]
    [] m.sdp = "raw" -> [Keep([c EXCEPT !.addr = known,
                                        !.ready = @ \/ known = Sides], m)
                         EXCEPT !.sdp = "fixed"]
    [] OTHER         -> Keep(c, m)

OnProgress(c, m) ==
  [call |-> c, event |-> "progress", sdp |-> "none", ok |-> TRUE]

OnConnected(r) ==
  [r EXCEPT !.call = [@ EXCEPT !.t3 = FALSE, !.ts = FALSE],
            !.event = IF r.call.terminated THEN "none" ELSE "connected"]

\* Mutant: the call is marked as ended and never leaves the call map.
OnTerminatedLost(r) ==
  [r EXCEPT !.call = [@ EXCEPT !.t3 = FALSE, !.ts = FALSE, !.terminated = TRUE]]

\* Mutant: the end is reported, the call and its ports stay.
OnTerminatedStays(r) == [OnTerminatedLost(r) EXCEPT !.event = "terminated"]

\* With logCCEvents the event text formats finalCode with %d: a call that
\* ends before any final code raises here, after terminated has been set.
OnTerminated(r) ==
  LET ended == [r.call EXCEPT !.t3 = FALSE, !.ts = FALSE, !.terminated = TRUE] IN
  CASE r.call.terminated -> [r EXCEPT !.call = ended]
    [] ~r.call.terminated /\ LogEvents /\ r.call.finalCode = NoCode
         -> [r EXCEPT !.call = ended, !.ok = FALSE]
    [] OTHER -> [r EXCEPT !.call = None, !.event = "terminated"]

\* Mutant: an ACK counts only when it carries a body.
DlgRequestSdpOnly(c, m) ==
  CASE m.method = "INVITE" -> FixSDP([c EXCEPT !.addr = {}], m)
    [] m.method \in {"BYE", "CANCEL"} -> Keep([c EXCEPT !.ts = TRUE], m)
    [] m.method = "ACK" /\ m.sdp # "none" -> OnConnected(FixSDP(c, m))
    [] OTHER -> Keep(c, m)

DlgRequest(c, m) ==
  LET acked == FixSDP(c, m) IN
  CASE m.method = "INVITE" -> FixSDP([c EXCEPT !.addr = {}], m)
    [] m.method \in {"BYE", "CANCEL"} -> Keep([c EXCEPT !.ts = TRUE], m)
    [] m.method = "ACK" /\ ~acked.ok -> acked
    [] m.method = "ACK" /\ acked.ok /\ c.finalCode = 200 -> OnConnected(acked)
    [] m.method = "ACK" /\ acked.ok /\ c.finalCode # 200 -> OnTerminated(acked)
    [] OTHER -> Keep(c, m)

\* Mutant: a BYE within the dialog starts no timer.
InDlgRequestNoTS(c, m) ==
  CASE m.method = "INVITE" -> FixSDP([c EXCEPT !.addr = {}], m)
    [] m.method = "ACK" -> FixSDP([c EXCEPT !.t3 = FALSE], m)
    [] OTHER -> Keep(c, m)

InDlgRequest(c, m) ==
  CASE m.method = "INVITE" -> FixSDP([c EXCEPT !.addr = {}], m)
    [] m.method = "ACK" -> FixSDP([c EXCEPT !.t3 = FALSE], m)
    [] m.method = "BYE" -> Keep([c EXCEPT !.ts = TRUE], m)
    [] OTHER -> Keep(c, m)

CallRequest(c, m) ==
  IF m.seq = c.cseq THEN DlgRequest(c, m) ELSE InDlgRequest(c, m)

DlgResponse(c, m) ==
  CASE m.method = "INVITE" /\ Final(m.code) ->
         FixSDP([c EXCEPT !.finalCode = m.code], m)
    [] m.method = "INVITE" /\ ~Final(m.code) -> OnProgress(c, m)
    [] m.method = "BYE" -> OnTerminated(Keep(c, m))
    [] m.method = "CANCEL" ->
         OnTerminated(Keep([c EXCEPT !.finalCode = IF @ = NoCode THEN 487 ELSE @], m))
    [] OTHER -> Keep(c, m)

InDlgResponse(c, m) ==
  CASE m.method = "INVITE" /\ Final(m.code) -> FixSDP(c, m)
    [] m.method = "INVITE" /\ ~Final(m.code) -> OnProgress(c, m)
    [] m.method = "BYE" -> OnTerminated(Keep(c, m))
    [] OTHER -> Keep(c, m)

CallResponse(c, m) ==
  IF m.seq = c.cseq THEN DlgResponse(c, m) ELSE InDlgResponse(c, m)

----------------------------------------------------------------------------
(* Which Branch a message belongs to: GMITM.getBranch.                     *)

\* An ACK whose own branch is unknown is looked up by its CSeq number.
BranchOf(m) ==
  IF /\ branchmap[m.via] = None
     /\ m.kind = "request" /\ m.method = "ACK"
     /\ seq2branch[m.from][m.seq] # None
  THEN seq2branch[m.from][m.seq] ELSE m.via

BranchFor(m) ==
  IF branchmap[BranchOf(m)] # None THEN branchmap[BranchOf(m)]
  ELSE [external |-> m.from, cseq |-> m.seq, isInvite |-> m.method = "INVITE",
        reqs |-> NoBranch, rsps |-> NoBranch]

Emit(side, msg, m) == out' = {[to |-> side, msg |-> msg, for |-> m.cid]}

Known(m) == phoneInfoValid \/ (m.from = "loc" /\ m.method \in {"REGISTER", "INVITE"})

SaveRequest(m, branch) ==
  /\ branchmap' = [branchmap EXCEPT ![BranchOf(m)] = branch]
  /\ seq2branch' = IF branchmap[BranchOf(m)] # None THEN seq2branch
                   ELSE [seq2branch EXCEPT ![m.from][m.seq] = BranchOf(m)]

SaveResponse(m, sdp) ==
  /\ branchmap' = IF branchmap[m.via] = None THEN branchmap
                  ELSE [branchmap EXCEPT ![m.via].rsps[m.method] = [m EXCEPT !.sdp = sdp]]
  /\ UNCHANGED seq2branch

\* Mutant: a call whose constructor did not get far gives back a port all the same.
ApplyNoOpen(cid, r) ==
  /\ callmap' = [callmap EXCEPT ![cid] = r.call]
  /\ ports' = IF r.call = None THEN ports - 1 ELSE ports
  /\ UNCHANGED told

\* Mutant: the media session of a call is not closed with it.
ApplyNoClose(cid, r) ==
  /\ callmap' = [callmap EXCEPT ![cid] = r.call]
  /\ ports' = IF callmap[cid] = None THEN ports + 1 ELSE ports
  /\ UNCHANGED told

\* Store what the call's handler yielded, and tell the event sink.
Apply(cid, r) ==
  /\ callmap' = [callmap EXCEPT ![cid] = r.call]
  /\ ports' = LET opened == IF callmap[cid] = None THEN ports + 1 ELSE ports
              IN IF r.call = None THEN opened - 1 ELSE opened
  /\ told' = [told EXCEPT ![cid] =
               CASE r.event = "connected"  -> "connected"
                 [] r.event = "terminated" -> "idle"
                 [] r.event \in {"none", "progress"} ->
                      IF callmap[cid] = None THEN "early" ELSE @]

----------------------------------------------------------------------------
(* A request arrives: Branch.handle_request, GMITM.handle_request.         *)

Answered(m) ==
  LET cached == BranchFor(m).rsps[m.method] IN cached # None /\ Final(cached.code)
\* Mutant: forwarded requests are not remembered.
ForwardedNever(m) == FALSE
Forwarded(m) == BranchFor(m).reqs[m.method] # None

\* A final answer to this request is cached: it is sent again.
ReplayAnswer(m) ==
  /\ Answered(m)
  /\ Emit(m.from, BranchFor(m).rsps[m.method], m)
  /\ UNCHANGED <<phoneInfoValid, sip, cc>>

\* The request was forwarded before: what was forwarded is sent again.
ResendRequest(m) ==
  /\ ~Answered(m) /\ Forwarded(m)
  /\ Emit(Opposite(m.from), BranchFor(m).reqs[m.method], m)
  /\ UNCHANGED <<phoneInfoValid, sip, cc>>

NewRequest(m) ==
  /\ ~Answered(m) /\ ~Forwarded(m)
  /\ phoneInfoValid' = Known(m)

\* The phone is still unknown: the message is ignored, its branch stays.
IgnoreRequest(m) ==
  /\ NewRequest(m) /\ ~Known(m)
  /\ SaveRequest(m, BranchFor(m))
  /\ out' = {}
  /\ UNCHANGED cc

OpensCall(m) ==
  m.method = "INVITE" /\ callmap[m.cid] = None /\ (m.from = "loc" \/ m.toMe)

\* No port is left for the media session: the constructor raises.
RefuseCall(m) ==
  /\ NewRequest(m) /\ Known(m) /\ OpensCall(m) /\ ports >= MaxSessions
  /\ SaveRequest(m, BranchFor(m))
  /\ out' = {}
  /\ UNCHANGED cc

\* No call is concerned: forwarded as it is.
PassRequest(m) ==
  /\ NewRequest(m) /\ Known(m) /\ callmap[m.cid] = None /\ ~OpensCall(m)
  /\ SaveRequest(m, [BranchFor(m) EXCEPT !.reqs[m.method] = m])
  /\ Emit(Opposite(m.from), m, m)
  /\ UNCHANGED cc

CallForRequest(m) == IF callmap[m.cid] = None THEN NewCall(m) ELSE callmap[m.cid]

\* The call handles it and forwards it, unless a handler raises on the way.
HandleRequest(m) ==
  LET r == CallRequest(CallForRequest(m), m)
      fwd == [m EXCEPT !.sdp = r.sdp]
  IN
  /\ NewRequest(m) /\ Known(m)
  /\ callmap[m.cid] # None \/ (OpensCall(m) /\ ports < MaxSessions)
  /\ Apply(m.cid, r)
  /\ IF r.ok THEN /\ SaveRequest(m, [BranchFor(m) EXCEPT !.reqs[m.method] = fwd])
                  /\ Emit(Opposite(m.from), fwd, m)
             ELSE /\ SaveRequest(m, BranchFor(m))
                  /\ out' = {}

Request(m) ==
  \/ ReplayAnswer(m) \/ ResendRequest(m) \/ IgnoreRequest(m)
  \/ RefuseCall(m) \/ PassRequest(m) \/ HandleRequest(m)

----------------------------------------------------------------------------
(* A response arrives: Branch.handle_response, GMITM.handle_response.      *)

\* Mutant: a response that comes again is not recognised.
RepeatedNever(m) == FALSE

\* The same code was forwarded before: what was forwarded is sent again.
Repeated(m) ==
  /\ branchmap[m.via] # None
  /\ branchmap[m.via].rsps[m.method] # None
  /\ branchmap[m.via].rsps[m.method].code = m.code

ResendResponse(m) ==
  /\ Repeated(m)
  /\ Emit(Opposite(m.from), branchmap[m.via].rsps[m.method], m)
  /\ UNCHANGED <<phoneInfoValid, sip, cc>>

\* The phone is unknown: with a branch the handler raises, without it ignores.
IgnoreResponse(m) ==
  /\ ~Repeated(m) /\ ~phoneInfoValid
  /\ out' = {}
  /\ UNCHANGED <<phoneInfoValid, sip, cc>>

PassResponse(m) ==
  /\ ~Repeated(m) /\ phoneInfoValid /\ callmap[m.cid] = None
  /\ SaveResponse(m, m.sdp)
  /\ Emit(Opposite(m.from), m, m)
  /\ UNCHANGED <<phoneInfoValid, cc>>

HandleResponse(m) ==
  LET r == CallResponse(callmap[m.cid], m) IN
  /\ ~Repeated(m) /\ phoneInfoValid /\ callmap[m.cid] # None
  /\ Apply(m.cid, r)
  /\ IF r.ok THEN SaveResponse(m, r.sdp) /\ Emit(Opposite(m.from), [m EXCEPT !.sdp = r.sdp], m)
             ELSE UNCHANGED sip /\ out' = {}
  /\ UNCHANGED phoneInfoValid

Response(m) ==
  \/ ResendResponse(m) \/ IgnoreResponse(m) \/ PassResponse(m) \/ HandleResponse(m)

----------------------------------------------------------------------------
(* Timers.                                                                 *)

\* Mutant: the Branch is deleted, its number stays in the index.
BranchTimedoutNoIndex(k) ==
  /\ branchmap[k] # None
  /\ branchmap' = [branchmap EXCEPT ![k] = None]
  /\ out' = {}
  /\ UNCHANGED <<phoneInfoValid, seq2branch, cc>>

\* Mutant: only the index entry is deleted.
BranchTimedoutHalf(k) ==
  /\ branchmap[k] # None
  /\ seq2branch' = [seq2branch EXCEPT ![branchmap[k].external][branchmap[k].cseq] = None]
  /\ out' = {}
  /\ UNCHANGED <<phoneInfoValid, branchmap, cc>>

\* Timer B or F ends a transaction without an answer, D or K a completed one.
BranchTimedout(k) ==
  /\ branchmap[k] # None
  /\ branchmap' = [branchmap EXCEPT ![k] = None]
  /\ seq2branch' = [seq2branch EXCEPT ![branchmap[k].external][branchmap[k].cseq] = None]
  /\ out' = {}
  /\ UNCHANGED <<phoneInfoValid, cc>>

CallTimedout(c, call) ==
  /\ Apply(c, OnTerminated([call |-> call, event |-> "none", sdp |-> "none", ok |-> TRUE]))
  /\ out' = {}
  /\ UNCHANGED <<phoneInfoValid, sip>>

\* Nobody answered the call.
OnT3(c) ==
  /\ callmap[c] # None /\ callmap[c].t3
  /\ CallTimedout(c, [callmap[c] EXCEPT !.finalCode = 408])

\* Mutant: timer S only cancels itself.
OnTSIgnored(c) ==
  /\ callmap[c] # None /\ callmap[c].ts
  /\ callmap' = [callmap EXCEPT ![c].ts = FALSE]
  /\ out' = {}
  /\ UNCHANGED <<phoneInfoValid, sip, ports, told>>

\* Nobody answered the BYE or CANCEL.
OnTS(c) ==
  /\ callmap[c] # None /\ callmap[c].ts
  /\ CallTimedout(c, [callmap[c] EXCEPT !.finalCode = IF @ = NoCode THEN 487 ELSE @])

----------------------------------------------------------------------------
Empty ==
  /\ branchmap = [k \in Vias |-> None]
  /\ seq2branch = [s \in Sides |-> [n \in Seqs |-> None]]
  /\ callmap = [c \in Cids |-> None]
  /\ ports = 0
  /\ told = [c \in Cids |-> "idle"]
  /\ out = {}

Init == phoneInfoValid = FALSE /\ Empty

Timeout ==
  \/ \E k \in Vias : BranchTimedout(k)
  \/ \E c \in Cids : OnT3(c) \/ OnTS(c)

Next ==
  \/ \E m \in Requests : Request(m)
  \/ \E m \in Responses : Response(m)
  \/ Timeout

Spec == Init /\ [][Next]_vars

----------------------------------------------------------------------------
(* Properties.                                                             *)

\* Every variable holds a value of its kind.
TypeOK ==
  /\ phoneInfoValid \in BOOLEAN
  /\ branchmap \in [Vias -> BranchType \cup {None}]
  /\ seq2branch \in [Sides -> [Seqs -> Vias \cup {None}]]
  /\ callmap \in [Cids -> CallType \cup {None}]
  /\ ports \in Nat
  /\ told \in [Cids -> {"idle", "early", "connected"}]
  /\ out \in SUBSET OutType

\* The index by CSeq number never leads to a Branch that was deleted, and
\* leads only to a Branch of that side and number: getBranch and delBranch
\* keep the two maps in step although several branches share one entry.
BranchIndexSound ==
  \A s \in Sides, n \in Seqs : seq2branch[s][n] # None =>
    LET b == branchmap[seq2branch[s][n]] IN
    b # None /\ b.external = s /\ b.cseq = n

\* Ports are held for the calls in the call map and for nothing else, and
\* never more than there are: whatever ends a call gives its ports back.
PortsMatchCalls ==
  /\ ports = Cardinality({c \in Cids : callmap[c] # None})
  /\ ports <= MaxSessions

\* The event sink knows of exactly the calls that exist, so that each
\* onCallCreated is followed by one onCallTerminated and no event comes after.
SinkKnowsCalls == \A c \in Cids : told[c] = "idle" <=> callmap[c] = None

\* A call whose end was reported is gone: on_terminated sets the flag and the
\* call leaves the map in the same step, whichever message or timer ended it.
EndedCallIsGone ==
  \A c \in Cids : callmap[c] # None => ~callmap[c].terminated

\* What zsipos sends while it handles a message of one call belongs to that
\* call: cached messages of a Branch are not sent on behalf of another call.
CallsKeptApart == \A o \in out : o.msg.cid = o.for

\* A cached message is a message of the branch it is cached in, except for
\* the ACK of a 2xx, which has a branch of its own and shares the CSeq number.
CacheIsOfBranch ==
  \A k \in Vias, mt \in Methods : branchmap[k] # None =>
    LET q == branchmap[k].reqs[mt]
        p == branchmap[k].rsps[mt]
    IN /\ q # None => q.method = mt /\ (q.via = k \/ (mt = "ACK" /\ q.seq = branchmap[k].cseq))
       /\ p # None => p.method = mt /\ p.via = k

Lifecycle == INSTANCE CallLifecycle WITH phase <- told, held <- ports

\* Handlers, retransmissions and timers together keep the promise that the
\* events and the port pool of a call follow its lifecycle.
KeepsLifecycle == Lifecycle!Spec
=============================================================================
