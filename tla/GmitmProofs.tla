---------------------------- MODULE GmitmProofs ----------------------------
(***************************************************************************)
(* Theorems about Gmitm: they hold for every set of messages that may      *)
(* arrive, every number of calls, branches and ports.                      *)
(***************************************************************************)
EXTENDS Gmitm, FiniteSetTheorems, TLAPS

MessageType == RequestType \cup ResponseType

\* What a handler of CallController yields.
ResultType ==
  [call : CallType \cup {None}, event : {"none", "progress", "connected", "terminated"},
   sdp : SdpForms, ok : BOOLEAN]

\* A result that still has its call.
OpenResult == {r \in ResultType : r.call \in CallType}

----------------------------------------------------------------------------
(* The handlers of the call.                                               *)

\* Keep leaves the call as it is given.
LEMMA KeepType ==
  ASSUME NEW c \in CallType, NEW m \in MessageType
  PROVE  /\ Keep(c, m) \in OpenResult
         /\ Keep(c, m).call = c /\ Keep(c, m).event = "none"
  BY DEF Keep, OpenResult, ResultType, MessageType, RequestType, ResponseType

\* fixSDP yields a call that ended only if it had ended before.
LEMMA FixSDPType ==
  ASSUME NEW c \in CallType, NEW m \in MessageType
  PROVE  /\ FixSDP(c, m) \in OpenResult
         /\ FixSDP(c, m).event = "none"
         /\ FixSDP(c, m).call.terminated = c.terminated
  <1> DEFINE known == c.addr \cup {m.from}
             c2 == [c EXCEPT !.addr = known, !.ready = @ \/ known = Sides]
  <1>1. m.from \in Sides
    BY DEF MessageType, RequestType, ResponseType
  <1>2. c2 \in CallType /\ c2.terminated = c.terminated
    BY <1>1 DEF CallType
  <1> HIDE DEF c2
  <1>3. CASE m.sdp = "bad"
    <2>1. FixSDP(c, m) = [Keep(c, m) EXCEPT !.ok = FALSE]
      BY <1>3 DEF FixSDP
    <2>2. Keep(c, m) \in OpenResult /\ Keep(c, m).call = c /\ Keep(c, m).event = "none"
      BY KeepType
    <2>3. [Keep(c, m) EXCEPT !.ok = FALSE] \in ResultType
      BY <2>2 DEF OpenResult, ResultType
    <2> QED
      BY <2>1, <2>2, <2>3 DEF OpenResult, ResultType
  <1>4. CASE m.sdp = "raw"
    <2>1. FixSDP(c, m) = [Keep(c2, m) EXCEPT !.sdp = "fixed"]
      BY <1>4 DEF FixSDP, c2
    <2>2. Keep(c2, m) \in OpenResult /\ Keep(c2, m).call = c2 /\ Keep(c2, m).event = "none"
      BY <1>2, KeepType
    <2> QED
      BY <2>1, <2>2, <1>2 DEF OpenResult, ResultType, SdpForms
  <1>5. CASE m.sdp = "nocon"
    <2> DEFINE c3 == [c EXCEPT !.addr = @ \ {m.from}]
    <2>1. c3 \in CallType /\ c3.terminated = c.terminated
      BY DEF CallType
    <2>2. FixSDP(c, m) = [Keep(c3, m) EXCEPT !.ok = ~IsAnswer(m)]
      BY <1>5 DEF FixSDP
    <2> HIDE DEF c3
    <2>3. Keep(c3, m) \in OpenResult /\ Keep(c3, m).call = c3 /\ Keep(c3, m).event = "none"
      BY <2>1, KeepType
    <2>4. (~IsAnswer(m)) \in BOOLEAN
      BY DEF IsAnswer
    <2> QED BY <2>1, <2>2, <2>3, <2>4 DEF OpenResult, ResultType
  <1>6. CASE m.sdp \notin {"bad", "nocon", "raw"}
    BY <1>6, KeepType DEF FixSDP
  <1> QED BY <1>3, <1>4, <1>5, <1>6

\* on_connected keeps the call.
LEMMA OnConnectedType ==
  ASSUME NEW r \in OpenResult
  PROVE  /\ OnConnected(r) \in OpenResult
         /\ OnConnected(r).event \in {"none", "connected"}
         /\ OnConnected(r).call.terminated = r.call.terminated
  BY DEF OnConnected, OpenResult, ResultType, CallType

\* on_terminated either drops the call and says so, or leaves an ended call.
LEMMA OnTerminatedType ==
  ASSUME NEW r \in OpenResult, r.event = "none"
  PROVE  /\ OnTerminated(r) \in ResultType
         /\ OnTerminated(r).call = None <=> OnTerminated(r).event = "terminated"
         /\ OnTerminated(r).event \in {"none", "terminated"}
         /\ ~LogEvents /\ ~r.call.terminated => OnTerminated(r).call = None
  <1> DEFINE ended == [r.call EXCEPT !.t3 = FALSE, !.ts = FALSE, !.terminated = TRUE]
  <1>1. ended \in CallType
    BY DEF OpenResult, CallType
  <1>2. ended # None
    BY <1>1, NoneAssumption
  <1> HIDE DEF ended
  <1>3. \/ OnTerminated(r) = [r EXCEPT !.call = ended] /\ r.call.terminated
        \/ OnTerminated(r) = [r EXCEPT !.call = ended, !.ok = FALSE] /\ LogEvents
        \/ OnTerminated(r) = [r EXCEPT !.call = None, !.event = "terminated"]
    BY DEF OnTerminated, ended
  <1>4. CASE OnTerminated(r) = [r EXCEPT !.call = ended] /\ r.call.terminated
    BY <1>1, <1>2, <1>4 DEF OpenResult, ResultType
  <1>5. CASE OnTerminated(r) = [r EXCEPT !.call = ended, !.ok = FALSE] /\ LogEvents
    BY <1>1, <1>2, <1>5 DEF OpenResult, ResultType
  <1>6. CASE OnTerminated(r) = [r EXCEPT !.call = None, !.event = "terminated"]
    BY <1>6 DEF OpenResult, ResultType
  <1> QED
    BY <1>3, <1>4, <1>5, <1>6

\* What GMITM relies on when the call c has been handled: the call is gone if
\* and only if its end was reported, and a call only ends by leaving.
Sound(c, r) ==
  /\ r \in ResultType
  /\ r.call = None <=> r.event = "terminated"
  /\ ~LogEvents /\ ~c.terminated => r.call = None \/ ~r.call.terminated

\* A handler that keeps the call is sound.
LEMMA OpenSound ==
  ASSUME NEW c \in CallType, NEW r \in OpenResult,
         r.event \in {"none", "progress", "connected"}, r.call.terminated = c.terminated
  PROVE  Sound(c, r)
  BY NoneAssumption DEF Sound, OpenResult

\* So is one that ends it.
LEMMA EndSound ==
  ASSUME NEW c \in CallType, NEW r \in OpenResult,
         r.event = "none", r.call.terminated = c.terminated
  PROVE  Sound(c, OnTerminated(r))
  BY OnTerminatedType DEF Sound

\* The results of fixSDP and of forwarding the message as it is are sound.
LEMMA QuietSound ==
  ASSUME NEW c \in CallType, NEW d \in CallType, NEW m \in MessageType,
         d.terminated = c.terminated
  PROVE  Sound(c, FixSDP(d, m)) /\ Sound(c, Keep(d, m))
  <1>1. Sound(c, FixSDP(d, m))
    BY FixSDPType, OpenSound
  <1>2. Sound(c, Keep(d, m))
    BY KeepType, OpenSound
  <1> QED BY <1>1, <1>2

\* handle_request of the call, for both kinds of CSeq.
LEMMA CallRequestSound ==
  ASSUME NEW c \in CallType, NEW m \in MessageType
  PROVE  Sound(c, CallRequest(c, m))
  <1>1. /\ [c EXCEPT !.addr = {}] \in CallType
        /\ [c EXCEPT !.addr = {}].terminated = c.terminated
    BY DEF CallType
  <1>2. /\ [c EXCEPT !.ts = TRUE] \in CallType
        /\ [c EXCEPT !.ts = TRUE].terminated = c.terminated
    BY DEF CallType
  <1>3. /\ [c EXCEPT !.t3 = FALSE] \in CallType
        /\ [c EXCEPT !.t3 = FALSE].terminated = c.terminated
    BY DEF CallType
  <1>4. /\ FixSDP(c, m) \in OpenResult /\ FixSDP(c, m).event = "none"
        /\ FixSDP(c, m).call.terminated = c.terminated
    BY FixSDPType
  <1>5. Sound(c, OnConnected(FixSDP(c, m)))
    <2>1. /\ OnConnected(FixSDP(c, m)) \in OpenResult
          /\ OnConnected(FixSDP(c, m)).event \in {"none", "connected"}
          /\ OnConnected(FixSDP(c, m)).call.terminated = c.terminated
      BY <1>4, OnConnectedType
    <2> QED BY <2>1, OpenSound
  <1>6. Sound(c, OnTerminated(FixSDP(c, m)))
    BY <1>4, EndSound
  <1>7. Sound(c, DlgRequest(c, m))
    BY <1>1, <1>2, <1>5, <1>6, QuietSound DEF DlgRequest
  <1>8. Sound(c, InDlgRequest(c, m))
    BY <1>1, <1>2, <1>3, QuietSound DEF InDlgRequest
  <1> QED BY <1>7, <1>8 DEF CallRequest

\* handle_response of the call, for both kinds of CSeq.
LEMMA CallResponseSound ==
  ASSUME NEW c \in CallType, NEW m \in ResponseType
  PROVE  Sound(c, CallResponse(c, m))
  <1> DEFINE final == [c EXCEPT !.finalCode = m.code]
             given == [c EXCEPT !.finalCode = IF @ = NoCode THEN 487 ELSE @]
  <1>1. m \in MessageType /\ m.code \in Codes
    BY DEF MessageType, ResponseType
  <1>2. final \in CallType /\ final.terminated = c.terminated
    BY <1>1 DEF CallType
  <1>3. given \in CallType /\ given.terminated = c.terminated
    BY DEF CallType, Codes
  <1>4. Sound(c, OnTerminated(Keep(c, m))) /\ Sound(c, OnTerminated(Keep(given, m)))
    <2>1. Sound(c, OnTerminated(Keep(c, m)))
      BY <1>1, KeepType, EndSound
    <2> HIDE DEF given
    <2>2. Sound(c, OnTerminated(Keep(given, m)))
      BY <1>1, <1>3, KeepType, EndSound
    <2> QED BY <2>1, <2>2
  <1>5. Sound(c, OnProgress(c, m))
    <2>1. OnProgress(c, m) \in OpenResult /\ OnProgress(c, m).call = c
          /\ OnProgress(c, m).event = "progress"
      BY DEF OnProgress, OpenResult, ResultType, SdpForms
    <2> QED BY <2>1, OpenSound
  <1>6. Sound(c, FixSDP(final, m)) /\ Sound(c, FixSDP(c, m)) /\ Sound(c, Keep(c, m))
    BY <1>1, <1>2, QuietSound
  <1>7. Sound(c, DlgResponse(c, m))
    BY <1>4, <1>5, <1>6 DEF DlgResponse
  <1>8. Sound(c, InDlgResponse(c, m))
    BY <1>4, <1>5, <1>6 DEF InDlgResponse
  <1> QED BY <1>7, <1>8 DEF CallResponse

----------------------------------------------------------------------------
(* The inductive invariant.  The transaction layer and the calls do not     *)
(* need each other; the calls need their number to be finite, so that a     *)
(* port given back is one that was held.                                    *)

LiveCalls == {c \in Cids : callmap[c] # None}

SipOK ==
  /\ phoneInfoValid \in BOOLEAN
  /\ branchmap \in [Vias -> BranchType \cup {None}]
  /\ seq2branch \in [Sides -> [Seqs -> Vias \cup {None}]]
  /\ out \in SUBSET OutType
  /\ BranchIndexSound

CallsOK ==
  /\ callmap \in [Cids -> CallType \cup {None}]
  /\ told \in [Cids -> {"idle", "early", "connected"}]
  /\ ports \in Nat
  /\ IsFiniteSet(LiveCalls)
  /\ PortsMatchCalls
  /\ SinkKnowsCalls

IInv == SipOK /\ CallsOK

\* A step that stores a sound result keeps ports, events and calls in step,
\* provided that a call is only made while there is a port.
LEMMA ApplyKeeps ==
  ASSUME CallsOK, NEW cid \in Cids, NEW c \in CallType, NEW r, Sound(c, r),
         Apply(cid, r), callmap[cid] # None \/ ports < MaxSessions
  PROVE  CallsOK'
  <1>1. r \in ResultType /\ r.call \in CallType \cup {None}
    BY DEF Sound, ResultType
  <1>2. callmap' = [callmap EXCEPT ![cid] = r.call]
        /\ callmap' \in [Cids -> CallType \cup {None}]
    BY <1>1 DEF Apply, CallsOK
  <1>3. told' \in [Cids -> {"idle", "early", "connected"}]
        /\ SinkKnowsCalls'
    <2> DEFINE t == CASE r.event = "connected"  -> "connected"
                      [] r.event = "terminated" -> "idle"
                      [] r.event \in {"none", "progress"} ->
                           IF callmap[cid] = None THEN "early" ELSE told[cid]
    <2>1. told' = [told EXCEPT ![cid] = t]
      BY DEF Apply, CallsOK
    <2>2. told[cid] \in {"idle", "early", "connected"}
          /\ (told[cid] = "idle" <=> callmap[cid] = None)
      BY DEF CallsOK, SinkKnowsCalls
    <2>3. r.event \in {"none", "progress", "connected", "terminated"}
          /\ (r.call = None <=> r.event = "terminated")
      BY <1>1 DEF Sound, ResultType
    <2>4. t \in {"idle", "early", "connected"} /\ (t = "idle" <=> r.call = None)
      BY <2>2, <2>3
    <2> HIDE DEF t
    <2> QED BY <1>2, <2>1, <2>4 DEF CallsOK, SinkKnowsCalls
  <1>4. IsFiniteSet(LiveCalls) /\ Cardinality(LiveCalls) \in Nat
        /\ ports = Cardinality(LiveCalls) /\ ports <= MaxSessions
        /\ MaxSessions \in Nat
    BY FS_CardinalityType, ConfigAssumption DEF CallsOK, PortsMatchCalls, LiveCalls
  <1>5. LiveCalls' = IF r.call = None THEN LiveCalls \ {cid} ELSE LiveCalls \cup {cid}
    BY <1>2 DEF LiveCalls, CallsOK
  <1>6. cid \in LiveCalls <=> callmap[cid] # None
    BY DEF LiveCalls
  <1>7. /\ IsFiniteSet(LiveCalls \ {cid}) /\ IsFiniteSet(LiveCalls \cup {cid})
        /\ Cardinality(LiveCalls \ {cid}) =
             IF cid \in LiveCalls THEN Cardinality(LiveCalls) - 1 ELSE Cardinality(LiveCalls)
        /\ Cardinality(LiveCalls \cup {cid}) =
             IF cid \in LiveCalls THEN Cardinality(LiveCalls) ELSE Cardinality(LiveCalls) + 1
    BY <1>4, FS_AddElement, FS_RemoveElement
  <1> DEFINE opened == IF callmap[cid] = None THEN ports + 1 ELSE ports
  <1>8. ports' = IF r.call = None THEN opened - 1 ELSE opened
    BY Zenon DEF Apply
  <1>9. IsFiniteSet(LiveCalls')
    BY <1>5, <1>7
  <1>10. ports' = Cardinality(LiveCalls') /\ ports' <= MaxSessions
    BY <1>4, <1>5, <1>6, <1>7, <1>8
  <1>11. ports' \in Nat
    BY <1>9, <1>10, FS_CardinalityType
  <1> QED
    BY <1>2, <1>3, <1>9, <1>10, <1>11 DEF CallsOK, PortsMatchCalls, LiveCalls

\* Nothing changes for the calls.
LEMMA CallsUnchanged ==
  ASSUME CallsOK, UNCHANGED cc
  PROVE  CallsOK'
  BY DEF CallsOK, cc, LiveCalls, PortsMatchCalls, SinkKnowsCalls

\* A call timer that fires ends the call, or leaves it ended.
LEMMA CallTimedoutKeeps ==
  ASSUME CallsOK, NEW cid \in Cids, NEW call \in CallType,
         callmap[cid] # None, CallTimedout(cid, call)
  PROVE  CallsOK'
  <1> DEFINE r == [call |-> call, event |-> "none", sdp |-> "none", ok |-> TRUE]
  <1>1. r \in OpenResult /\ r.event = "none" /\ r.call.terminated = call.terminated
    BY DEF OpenResult, ResultType, SdpForms
  <1>2. Sound(call, OnTerminated(r))
    BY <1>1, EndSound
  <1>3. Apply(cid, OnTerminated(r))
    BY DEF CallTimedout
  <1> QED BY <1>2, <1>3, ApplyKeeps

\* Both timers of a call.
LEMMA TimersKeep ==
  ASSUME CallsOK, NEW cid \in Cids, OnT3(cid) \/ OnTS(cid)
  PROVE  CallsOK'
  <1>1. callmap[cid] \in CallType /\ callmap[cid] # None
    BY DEF OnT3, OnTS, CallsOK
  <1>2. [callmap[cid] EXCEPT !.finalCode = 408] \in CallType
    BY <1>1 DEF CallType, Codes
  <1>3. [callmap[cid] EXCEPT !.finalCode = IF @ = NoCode THEN 487 ELSE @] \in CallType
    BY <1>1 DEF CallType, Codes
  <1> QED BY <1>1, <1>2, <1>3, CallTimedoutKeeps DEF OnT3, OnTS

\* A call that handles a request is one.
LEMMA CallForRequestType ==
  ASSUME CallsOK, NEW m \in RequestType
  PROVE  CallForRequest(m) \in CallType
  <1>1. NewCall(m) \in CallType
    BY DEF NewCall, CallType, RequestType, NoCode, Codes
  <1>2. m.cid \in Cids
    BY DEF RequestType
  <1> QED BY <1>1, <1>2 DEF CallForRequest, CallsOK

\* A request, handled by a call or not.
LEMMA RequestKeepsCalls ==
  ASSUME CallsOK, NEW m \in RequestType, Request(m)
  PROVE  CallsOK'
  <1>1. CASE HandleRequest(m)
    <2> DEFINE c == CallForRequest(m)
    <2>1. c \in CallType
      BY CallForRequestType
    <2>2. m \in MessageType /\ m.cid \in Cids
      BY DEF MessageType, RequestType
    <2>3. Sound(c, CallRequest(c, m))
      BY <2>1, <2>2, CallRequestSound
    <2>4. Apply(m.cid, CallRequest(c, m))
          /\ (callmap[m.cid] # None \/ ports < MaxSessions)
      BY <1>1 DEF HandleRequest
    <2> HIDE DEF c
    <2> QED BY <2>1, <2>2, <2>3, <2>4, ApplyKeeps
  <1>2. CASE ~HandleRequest(m)
    <2>1. UNCHANGED cc
      BY <1>2 DEF Request, ReplayAnswer, ResendRequest, IgnoreRequest, RefuseCall, PassRequest
    <2> QED BY <2>1, CallsUnchanged
  <1> QED BY <1>1, <1>2

\* A response, handled by a call or not.
LEMMA ResponseKeepsCalls ==
  ASSUME CallsOK, NEW m \in ResponseType, Response(m)
  PROVE  CallsOK'
  <1>1. CASE HandleResponse(m)
    <2> DEFINE c == callmap[m.cid]
    <2>1. m.cid \in Cids
      BY DEF ResponseType
    <2>2. c # None /\ Apply(m.cid, CallResponse(c, m))
      BY <1>1 DEF HandleResponse
    <2>3. c \in CallType
      BY <2>1, <2>2 DEF CallsOK
    <2>4. Sound(c, CallResponse(c, m))
      BY <2>3, CallResponseSound
    <2> QED BY <2>1, <2>2, <2>3, <2>4, ApplyKeeps
  <1>2. CASE ~HandleResponse(m)
    <2>1. UNCHANGED cc
      BY <1>2 DEF Response, ResendResponse, IgnoreResponse, PassResponse
    <2> QED BY <2>1, CallsUnchanged
  <1> QED BY <1>1, <1>2

----------------------------------------------------------------------------
(* The transaction layer.                                                  *)

\* What is sent on behalf of a message is well formed.
LEMMA EmitType ==
  ASSUME NEW s \in Sides, NEW msg \in MessageType, NEW m \in MessageType, Emit(s, msg, m)
  PROVE  out' \in SUBSET OutType
  BY DEF Emit, OutType, MessageType, RequestType, ResponseType

\* The Branch of a message is a Branch, found or new.
LEMMA BranchForType ==
  ASSUME SipOK, NEW m \in RequestType
  PROVE  /\ BranchOf(m) \in Vias
         /\ BranchFor(m) \in BranchType
         /\ branchmap[BranchOf(m)] # None => BranchFor(m) = branchmap[BranchOf(m)]
         /\ branchmap[BranchOf(m)] = None =>
              /\ BranchOf(m) = m.via
              /\ BranchFor(m).external = m.from /\ BranchFor(m).cseq = m.seq
  <1>1. m.via \in Vias /\ m.from \in Sides /\ m.seq \in Seqs
    BY DEF RequestType
  <1>2. seq2branch[m.from][m.seq] \in Vias \cup {None}
    BY <1>1 DEF SipOK
  <1>3. BranchOf(m) \in Vias
    BY <1>1, <1>2 DEF BranchOf
  <1>4. branchmap[BranchOf(m)] # None => branchmap[BranchOf(m)] \in BranchType
    BY <1>3 DEF SipOK
  <1>5. branchmap[BranchOf(m)] = None => BranchOf(m) = m.via
    BY <1>1 DEF BranchOf, SipOK, BranchIndexSound
  <1> DEFINE new == [external |-> m.from, cseq |-> m.seq, isInvite |-> m.method = "INVITE",
                     reqs |-> NoBranch, rsps |-> NoBranch]
  <1>6. new \in BranchType /\ new.external = m.from /\ new.cseq = m.seq
    BY <1>1 DEF BranchType, NoBranch
  <1>7. BranchFor(m) = IF branchmap[BranchOf(m)] # None THEN branchmap[BranchOf(m)] ELSE new
    BY DEF BranchFor
  <1> HIDE DEF new
  <1> QED BY <1>3, <1>4, <1>5, <1>6, <1>7

\* Storing the Branch of a request keeps the index by CSeq number in step.
LEMMA SaveRequestKeeps ==
  ASSUME SipOK, NEW m \in RequestType, NEW b \in BranchType,
         b.external = BranchFor(m).external, b.cseq = BranchFor(m).cseq,
         SaveRequest(m, b)
  PROVE  /\ branchmap' \in [Vias -> BranchType \cup {None}]
         /\ seq2branch' \in [Sides -> [Seqs -> Vias \cup {None}]]
         /\ BranchIndexSound'
  <1> DEFINE k == BranchOf(m)
  <1>1. m.from \in Sides /\ m.seq \in Seqs
    BY DEF RequestType
  <1>2. /\ k \in Vias
        /\ branchmap[k] # None => BranchFor(m) = branchmap[k]
        /\ branchmap[k] = None => BranchFor(m).external = m.from /\ BranchFor(m).cseq = m.seq
    BY BranchForType
  <1>3. b # None
    BY NoneAssumption
  <1>4. /\ branchmap' = [branchmap EXCEPT ![k] = b]
        /\ seq2branch' = IF branchmap[k] # None THEN seq2branch
                         ELSE [seq2branch EXCEPT ![m.from][m.seq] = k]
    BY DEF SaveRequest
  <1> HIDE DEF k
  <1>5. branchmap' \in [Vias -> BranchType \cup {None}]
    BY <1>2, <1>4 DEF SipOK
  <1>6. seq2branch' \in [Sides -> [Seqs -> Vias \cup {None}]]
    BY <1>1, <1>2, <1>4 DEF SipOK
  <1>7. ASSUME NEW s \in Sides, NEW n \in Seqs, seq2branch'[s][n] # None
        PROVE  LET e == branchmap'[seq2branch'[s][n]] IN
               e # None /\ e.external = s /\ e.cseq = n
    <2>1. seq2branch[s][n] # None =>
            LET e == branchmap[seq2branch[s][n]] IN
            seq2branch[s][n] \in Vias /\ e # None /\ e.external = s /\ e.cseq = n
      BY DEF SipOK, BranchIndexSound
    <2>2. CASE branchmap[k] # None
      BY <1>2, <1>3, <1>4, <1>7, <2>1, <2>2 DEF SipOK
    <2>3. CASE branchmap[k] = None /\ s = m.from /\ n = m.seq
      BY <1>1, <1>2, <1>3, <1>4, <2>3 DEF SipOK
    <2>4. CASE branchmap[k] = None /\ ~(s = m.from /\ n = m.seq)
      <3>1. seq2branch'[s][n] = seq2branch[s][n]
        BY <1>1, <1>4, <2>4 DEF SipOK
      <3> QED BY <1>2, <1>4, <1>7, <2>1, <2>4, <3>1 DEF SipOK
    <2> QED BY <2>2, <2>3, <2>4
  <1> QED BY <1>5, <1>6, <1>7 DEF BranchIndexSound

\* A rewritten body is a body.
LEMMA SdpType ==
  /\ \A m \in RequestType : \A f \in SdpForms : [m EXCEPT !.sdp = f] \in RequestType
  /\ \A m \in ResponseType : \A f \in SdpForms : [m EXCEPT !.sdp = f] \in ResponseType
  BY DEF RequestType, ResponseType

\* Caching the forwarded request in its Branch.
LEMMA CacheRequestType ==
  ASSUME SipOK, NEW m \in RequestType, NEW fwd \in RequestType
  PROVE  LET b == [BranchFor(m) EXCEPT !.reqs[m.method] = fwd] IN
         /\ b \in BranchType
         /\ b.external = BranchFor(m).external /\ b.cseq = BranchFor(m).cseq
  <1>1. BranchFor(m) \in BranchType
    BY BranchForType
  <1>2. m.method \in Methods
    BY DEF RequestType
  <1> QED BY <1>1, <1>2 DEF BranchType

\* A request leaves the transaction layer sound, whichever way it is handled.
LEMMA RequestKeepsSip ==
  ASSUME SipOK, CallsOK, NEW m \in RequestType, Request(m)
  PROVE  SipOK'
  <1>1. m \in MessageType /\ m.from \in Sides /\ Opposite(m.from) \in Sides /\ m.method \in Methods
    BY DEF MessageType, RequestType, Opposite, Sides
  <1>2. BranchFor(m) \in BranchType
    BY BranchForType
  <1>3. CASE ReplayAnswer(m) \/ ResendRequest(m)
    <2>1. ReplayAnswer(m) => out' \in SUBSET OutType
      <3>1. ReplayAnswer(m) => BranchFor(m).rsps[m.method] \in MessageType
        BY <1>1, <1>2 DEF ReplayAnswer, Answered, BranchType, MessageType
      <3> QED BY <1>1, <3>1, EmitType DEF ReplayAnswer
    <2>2. ResendRequest(m) => out' \in SUBSET OutType
      <3>1. ResendRequest(m) => BranchFor(m).reqs[m.method] \in MessageType
        BY <1>1, <1>2 DEF ResendRequest, Forwarded, BranchType, MessageType
      <3> QED BY <1>1, <3>1, EmitType DEF ResendRequest
    <2> QED
      BY <1>3, <2>1, <2>2 DEF ReplayAnswer, ResendRequest, SipOK, sip, BranchIndexSound
  <1>4. ASSUME NEW fwd \in RequestType, phoneInfoValid' = Known(m),
               \/ SaveRequest(m, BranchFor(m)) /\ out' = {}
               \/ /\ SaveRequest(m, [BranchFor(m) EXCEPT !.reqs[m.method] = fwd])
                  /\ Emit(Opposite(m.from), fwd, m)
        PROVE  SipOK'
    <2>1. phoneInfoValid' \in BOOLEAN
      BY <1>4 DEF Known, SipOK
    <2>2. CASE SaveRequest(m, BranchFor(m)) /\ out' = {}
      BY <1>2, <2>1, <2>2, SaveRequestKeeps DEF SipOK
    <2>3. CASE /\ SaveRequest(m, [BranchFor(m) EXCEPT !.reqs[m.method] = fwd])
               /\ Emit(Opposite(m.from), fwd, m)
      <3>1. fwd \in MessageType
        BY DEF MessageType
      <3>2. out' \in SUBSET OutType
        BY <1>1, <2>3, <3>1, EmitType
      <3> QED
        BY <2>1, <2>3, <3>2, CacheRequestType, SaveRequestKeeps DEF SipOK
    <2> QED BY <1>4, <2>2, <2>3
  <1>5. CASE IgnoreRequest(m) \/ RefuseCall(m) \/ PassRequest(m)
    BY <1>4, <1>5 DEF IgnoreRequest, RefuseCall, PassRequest, NewRequest
  <1>6. CASE HandleRequest(m)
    <2> DEFINE r == CallRequest(CallForRequest(m), m)
    <2>1. r.sdp \in SdpForms
      BY <1>1, CallForRequestType, CallRequestSound DEF Sound, ResultType
    <2>2. [m EXCEPT !.sdp = r.sdp] \in RequestType
      BY <2>1, SdpType
    <2> QED BY <1>4, <1>6, <2>2 DEF HandleRequest, NewRequest
  <1> QED BY <1>3, <1>5, <1>6 DEF Request

\* Caching a response changes no Branch's place in the index.
LEMMA SaveResponseKeeps ==
  ASSUME SipOK, NEW m \in ResponseType, NEW f \in SdpForms, SaveResponse(m, f)
  PROVE  /\ branchmap' \in [Vias -> BranchType \cup {None}]
         /\ seq2branch' \in [Sides -> [Seqs -> Vias \cup {None}]]
         /\ BranchIndexSound'
  <1> DEFINE b == [branchmap[m.via] EXCEPT !.rsps[m.method] = [m EXCEPT !.sdp = f]]
  <1>1. m.via \in Vias /\ m.method \in Methods
    BY DEF ResponseType
  <1>2. CASE branchmap[m.via] = None
    BY <1>2 DEF SaveResponse, SipOK, BranchIndexSound
  <1>3. CASE branchmap[m.via] # None
    <2>1. branchmap[m.via] \in BranchType
      BY <1>1, <1>3 DEF SipOK
    <2>2. /\ b \in BranchType /\ b # None
          /\ b.external = branchmap[m.via].external /\ b.cseq = branchmap[m.via].cseq
      BY <1>1, <2>1, SdpType, NoneAssumption DEF BranchType
    <2>3. branchmap' = [branchmap EXCEPT ![m.via] = b] /\ seq2branch' = seq2branch
      BY <1>3 DEF SaveResponse
    <2> HIDE DEF b
    <2> QED BY <1>1, <2>2, <2>3 DEF SipOK, BranchIndexSound
  <1> QED BY <1>2, <1>3

\* A response leaves the transaction layer sound.
LEMMA ResponseKeepsSip ==
  ASSUME SipOK, CallsOK, NEW m \in ResponseType, Response(m)
  PROVE  SipOK'
  <1>1. m \in MessageType /\ m.from \in Sides /\ Opposite(m.from) \in Sides
        /\ m.method \in Methods /\ m.via \in Vias /\ m.cid \in Cids /\ m.sdp \in SdpForms
    BY DEF MessageType, ResponseType, Opposite, Sides
  <1>2. CASE ResendResponse(m)
    <2>1. branchmap[m.via] \in BranchType
      BY <1>1, <1>2 DEF ResendResponse, Repeated, SipOK
    <2>2. branchmap[m.via].rsps[m.method] \in MessageType
      BY <1>1, <1>2, <2>1 DEF ResendResponse, Repeated, BranchType, MessageType
    <2>3. out' \in SUBSET OutType
      BY <1>1, <1>2, <2>2, EmitType DEF ResendResponse
    <2> QED BY <1>2, <2>3 DEF ResendResponse, SipOK, sip, BranchIndexSound
  <1>3. CASE IgnoreResponse(m)
    BY <1>3 DEF IgnoreResponse, SipOK, sip, BranchIndexSound
  <1>4. CASE PassResponse(m)
    <2>1. out' \in SUBSET OutType
      BY <1>1, <1>4, EmitType DEF PassResponse
    <2> QED BY <1>1, <1>4, <2>1, SaveResponseKeeps DEF PassResponse, SipOK
  <1>5. CASE HandleResponse(m)
    <2> DEFINE r == CallResponse(callmap[m.cid], m)
    <2>1. callmap[m.cid] \in CallType
      BY <1>1, <1>5 DEF HandleResponse, CallsOK
    <2>2. r.sdp \in SdpForms
      BY <2>1, CallResponseSound DEF Sound, ResultType
    <2>3. phoneInfoValid' = phoneInfoValid
          /\ \/ /\ SaveResponse(m, r.sdp)
                /\ Emit(Opposite(m.from), [m EXCEPT !.sdp = r.sdp], m)
             \/ UNCHANGED sip /\ out' = {}
      BY <1>5 DEF HandleResponse
    <2> HIDE DEF r
    <2>4. CASE SaveResponse(m, r.sdp) /\ Emit(Opposite(m.from), [m EXCEPT !.sdp = r.sdp], m)
      <3>1. [m EXCEPT !.sdp = r.sdp] \in MessageType
        BY <2>2, SdpType DEF MessageType
      <3>2. out' \in SUBSET OutType
        BY <1>1, <2>4, <3>1, EmitType
      <3> QED BY <2>2, <2>3, <2>4, <3>2, SaveResponseKeeps DEF SipOK
    <2>5. CASE UNCHANGED sip /\ out' = {}
      BY <2>3, <2>5 DEF SipOK, sip, BranchIndexSound
    <2> QED BY <2>3, <2>4, <2>5
  <1> QED BY <1>2, <1>3, <1>4, <1>5 DEF Response

\* Deleting a Branch takes its number out of the index, whosever it was.
LEMMA BranchTimedoutKeepsSip ==
  ASSUME SipOK, NEW k \in Vias, BranchTimedout(k)
  PROVE  SipOK'
  <1> DEFINE b == branchmap[k]
  <1>1. b \in BranchType /\ b.external \in Sides /\ b.cseq \in Seqs
    BY DEF BranchTimedout, SipOK, BranchType
  <1>2. /\ branchmap' = [branchmap EXCEPT ![k] = None]
        /\ seq2branch' = [seq2branch EXCEPT ![b.external][b.cseq] = None]
        /\ out' = {} /\ phoneInfoValid' = phoneInfoValid
    BY DEF BranchTimedout
  <1>3. /\ branchmap' \in [Vias -> BranchType \cup {None}]
        /\ seq2branch' \in [Sides -> [Seqs -> Vias \cup {None}]]
    BY <1>1, <1>2 DEF SipOK
  <1>4. ASSUME NEW s \in Sides, NEW n \in Seqs, seq2branch'[s][n] # None
        PROVE  LET e == branchmap'[seq2branch'[s][n]] IN
               e # None /\ e.external = s /\ e.cseq = n
    <2>1. seq2branch'[s][n] = seq2branch[s][n] /\ ~(s = b.external /\ n = b.cseq)
      BY <1>1, <1>2, <1>4 DEF SipOK
    <2>2. LET e == branchmap[seq2branch[s][n]] IN
          seq2branch[s][n] \in Vias /\ e # None /\ e.external = s /\ e.cseq = n
      BY <1>4, <2>1 DEF SipOK, BranchIndexSound
    <2>3. seq2branch[s][n] # k
      BY <2>1, <2>2
    <2> QED BY <1>2, <2>1, <2>2, <2>3 DEF SipOK
  <1> QED BY <1>2, <1>3, <1>4 DEF SipOK, BranchIndexSound

----------------------------------------------------------------------------
(* The theorems.                                                           *)

\* The invariant holds before anything has happened.
LEMMA InitIInv == Init => IInv
  <1> SUFFICES ASSUME Init PROVE IInv
    OBVIOUS
  <1>1. SipOK
    BY DEF Init, Empty, SipOK, BranchIndexSound
  <1>2. CallsOK
    <2>1. LiveCalls = {}
      BY DEF Init, Empty, LiveCalls
    <2>2. IsFiniteSet(LiveCalls) /\ Cardinality(LiveCalls) = 0
      BY <2>1, FS_EmptySet
    <2> QED
      BY <2>2, ConfigAssumption
      DEF Init, Empty, CallsOK, PortsMatchCalls, SinkKnowsCalls, LiveCalls
  <1> QED BY <1>1, <1>2 DEF IInv

\* And every step of zsipos keeps it.
LEMMA NextIInv == IInv /\ [Next]_vars => IInv'
  <1> SUFFICES ASSUME IInv, [Next]_vars PROVE IInv'
    OBVIOUS
  <1>1. SipOK /\ CallsOK
    BY DEF IInv
  <1>2. ASSUME NEW m \in Requests, Request(m) PROVE IInv'
    <2>1. m \in RequestType
      BY MessagesAssumption
    <2> QED BY <1>1, <1>2, <2>1, RequestKeepsSip, RequestKeepsCalls DEF IInv
  <1>3. ASSUME NEW m \in Responses, Response(m) PROVE IInv'
    <2>1. m \in ResponseType
      BY MessagesAssumption
    <2> QED BY <1>1, <1>3, <2>1, ResponseKeepsSip, ResponseKeepsCalls DEF IInv
  <1>4. ASSUME NEW k \in Vias, BranchTimedout(k) PROVE IInv'
    <2>1. UNCHANGED cc
      BY <1>4 DEF BranchTimedout
    <2> QED BY <1>1, <1>4, <2>1, BranchTimedoutKeepsSip, CallsUnchanged DEF IInv
  <1>5. ASSUME NEW c \in Cids, OnT3(c) \/ OnTS(c) PROVE IInv'
    <2>1. UNCHANGED sip /\ out' = {} /\ phoneInfoValid' = phoneInfoValid
      BY <1>5 DEF OnT3, OnTS, CallTimedout
    <2>2. SipOK'
      BY <1>1, <2>1 DEF SipOK, sip, BranchIndexSound
    <2> QED BY <1>1, <1>5, <2>2, TimersKeep DEF IInv
  <1>6. CASE UNCHANGED vars
    <2>1. SipOK'
      BY <1>1, <1>6 DEF SipOK, vars, BranchIndexSound
    <2>2. UNCHANGED cc
      BY <1>6 DEF vars, cc
    <2> QED BY <1>1, <2>1, <2>2, CallsUnchanged DEF IInv
  <1> QED BY <1>2, <1>3, <1>4, <1>5, <1>6 DEF Next, Timeout

\* The invariant always holds.
THEOREM Inductive == Spec => []IInv
  BY InitIInv, NextIInv, PTL DEF Spec

\* Every variable holds a value of its kind, whatever arrives and when; that
\* ports is never negative rests on the whole invariant.
THEOREM TypeCorrect == Spec => []TypeOK
  <1>1. IInv => TypeOK
    BY DEF IInv, SipOK, CallsOK, TypeOK
  <1> QED BY <1>1, Inductive, PTL

\* getBranch and delBranch keep the index by CSeq number in step with the
\* branches, although branches of several calls share an entry.
THEOREM IndexSound == Spec => []BranchIndexSound
  <1>1. IInv => BranchIndexSound
    BY DEF IInv, SipOK
  <1> QED BY <1>1, Inductive, PTL

\* Ports are held for the calls of the call map and nothing else, and there
\* are never more calls than port pairs.
THEOREM PortsMatch == Spec => []PortsMatchCalls
  <1>1. IInv => PortsMatchCalls
    BY DEF IInv, CallsOK
  <1> QED BY <1>1, Inductive, PTL

\* The event sink knows of exactly the calls that exist.
THEOREM SinkKnows == Spec => []SinkKnowsCalls
  <1>1. IInv => SinkKnowsCalls
    BY DEF IInv, CallsOK
  <1> QED BY <1>1, Inductive, PTL

\* A step that stores a sound result is a step of the call's lifecycle, or
\* none, provided that a call is not made and connected at once.
LEMMA ApplyRefines ==
  ASSUME CallsOK, NEW cid \in Cids, NEW c \in CallType, NEW r, Sound(c, r), Apply(cid, r),
         callmap[cid] # None \/ (ports < MaxSessions /\ r.event = "none")
  PROVE  [Lifecycle!Next]_<<told, ports>>
  <1> DEFINE opened == IF callmap[cid] = None THEN ports + 1 ELSE ports
  <1>1. ports' = IF r.call = None THEN opened - 1 ELSE opened
    BY Zenon DEF Apply
  <1>2. /\ r.event \in {"none", "progress", "connected", "terminated"}
        /\ r.call = None <=> r.event = "terminated"
    BY DEF Sound, ResultType
  <1>3. /\ told \in [Cids -> {"idle", "early", "connected"}] /\ ports \in Nat
        /\ told[cid] = "idle" <=> callmap[cid] = None
    BY DEF CallsOK, SinkKnowsCalls
  <1>4. CASE r.event = "connected"
    <2>1. told' = [told EXCEPT ![cid] = "connected"] /\ ports' = ports /\ told[cid] # "idle"
      BY <1>1, <1>2, <1>3, <1>4 DEF Apply
    <2>2. CASE told[cid] = "early"
      <3>1. Lifecycle!Connect(cid)
        BY <2>1, <2>2 DEF Lifecycle!Connect
      <3> QED BY <3>1 DEF Lifecycle!Next
    <2>3. CASE told[cid] = "connected"
      BY <1>3, <2>1, <2>3
    <2> QED BY <1>3, <2>1, <2>2, <2>3
  <1>5. CASE r.event = "terminated"
    <2>1. told' = [told EXCEPT ![cid] = "idle"] /\ ports' = opened - 1 /\ callmap[cid] # None
      BY <1>1, <1>2, <1>5 DEF Apply
    <2>2. Lifecycle!Close(cid)
      BY <1>3, <2>1 DEF Lifecycle!Close
    <2> QED BY <2>2 DEF Lifecycle!Next
  <1>6. CASE r.event \in {"none", "progress"}
    <2>1. ports' = opened
          /\ told' = [told EXCEPT ![cid] = IF callmap[cid] = None THEN "early" ELSE told[cid]]
      BY <1>1, <1>2, <1>6 DEF Apply
    <2>2. CASE callmap[cid] = None
      <3>1. Lifecycle!Open(cid)
        BY <1>3, <2>1, <2>2 DEF Lifecycle!Open
      <3> QED BY <3>1 DEF Lifecycle!Next
    <2>3. CASE callmap[cid] # None
      BY <1>3, <2>1, <2>3
    <2> QED BY <2>2, <2>3
  <1> QED BY <1>2, <1>4, <1>5, <1>6

\* Only an INVITE makes a call, and an INVITE reports nothing.
LEMMA OpeningIsQuiet ==
  ASSUME CallsOK, NEW m \in RequestType, callmap[m.cid] = None, OpensCall(m)
  PROVE  CallRequest(CallForRequest(m), m).event = "none"
  <1> DEFINE c == CallForRequest(m)
  <1>1. c \in CallType /\ m \in MessageType /\ m.method = "INVITE"
    BY CallForRequestType DEF MessageType, OpensCall
  <1>2. [c EXCEPT !.addr = {}] \in CallType
    BY <1>1 DEF CallType
  <1>3. CallRequest(c, m) = FixSDP([c EXCEPT !.addr = {}], m)
    BY <1>1 DEF CallRequest, DlgRequest, InDlgRequest
  <1> QED BY <1>1, <1>2, <1>3, FixSDPType

\* Every step of zsipos is a step of the lifecycle of one call, or none.
LEMMA StepRefines == IInv /\ [Next]_vars => [Lifecycle!Next]_<<told, ports>>
  <1> SUFFICES ASSUME IInv, [Next]_vars PROVE [Lifecycle!Next]_<<told, ports>>
    OBVIOUS
  <1>1. CallsOK
    BY DEF IInv
  <1>2. ASSUME NEW m \in Requests, HandleRequest(m)
        PROVE  [Lifecycle!Next]_<<told, ports>>
    <2> DEFINE c == CallForRequest(m)
               r == CallRequest(c, m)
    <2>1. m \in RequestType /\ m \in MessageType /\ m.cid \in Cids
      BY MessagesAssumption DEF MessageType, RequestType
    <2>2. c \in CallType /\ Sound(c, r)
      BY <1>1, <2>1, CallForRequestType, CallRequestSound
    <2>3. Apply(m.cid, r) /\ (callmap[m.cid] # None \/ (OpensCall(m) /\ ports < MaxSessions))
      BY <1>2 DEF HandleRequest
    <2>4. callmap[m.cid] # None \/ (ports < MaxSessions /\ r.event = "none")
      BY <1>1, <2>1, <2>3, OpeningIsQuiet
    <2> HIDE DEF c, r
    <2> QED BY <1>1, <2>1, <2>2, <2>3, <2>4, ApplyRefines
  <1>3. ASSUME NEW m \in Responses, HandleResponse(m)
        PROVE  [Lifecycle!Next]_<<told, ports>>
    <2> DEFINE c == callmap[m.cid]
    <2>1. m \in ResponseType /\ m.cid \in Cids
      BY MessagesAssumption DEF ResponseType
    <2>2. c # None /\ Apply(m.cid, CallResponse(c, m))
      BY <1>3 DEF HandleResponse
    <2>3. c \in CallType
      BY <1>1, <2>1, <2>2 DEF CallsOK
    <2> QED BY <1>1, <2>1, <2>2, <2>3, CallResponseSound, ApplyRefines
  <1>4. ASSUME NEW cid \in Cids, OnT3(cid) \/ OnTS(cid)
        PROVE  [Lifecycle!Next]_<<told, ports>>
    <2>1. ASSUME NEW call \in CallType, CallTimedout(cid, call), callmap[cid] # None
          PROVE  [Lifecycle!Next]_<<told, ports>>
      <3> DEFINE r == [call |-> call, event |-> "none", sdp |-> "none", ok |-> TRUE]
      <3>1. r \in OpenResult /\ r.event = "none" /\ r.call.terminated = call.terminated
        BY DEF OpenResult, ResultType, SdpForms
      <3>2. Sound(call, OnTerminated(r)) /\ Apply(cid, OnTerminated(r))
        BY <2>1, <3>1, EndSound DEF CallTimedout
      <3> QED BY <1>1, <2>1, <3>2, ApplyRefines
    <2>2. callmap[cid] \in CallType /\ callmap[cid] # None
      BY <1>1, <1>4 DEF OnT3, OnTS, CallsOK
    <2>3. [callmap[cid] EXCEPT !.finalCode = 408] \in CallType
      BY <2>2 DEF CallType, Codes
    <2>4. [callmap[cid] EXCEPT !.finalCode = IF @ = NoCode THEN 487 ELSE @] \in CallType
      BY <2>2 DEF CallType, Codes
    <2> QED BY <1>4, <2>1, <2>2, <2>3, <2>4 DEF OnT3, OnTS
  <1>5. ASSUME UNCHANGED cc PROVE UNCHANGED <<told, ports>>
    BY <1>5 DEF cc
  <1>6. ASSUME NEW m \in Requests, Request(m), ~HandleRequest(m) PROVE UNCHANGED cc
    BY <1>6 DEF Request, ReplayAnswer, ResendRequest, IgnoreRequest, RefuseCall, PassRequest
  <1>7. ASSUME NEW m \in Responses, Response(m), ~HandleResponse(m) PROVE UNCHANGED cc
    BY <1>7 DEF Response, ResendResponse, IgnoreResponse, PassResponse
  <1>8. ASSUME NEW k \in Vias, BranchTimedout(k) PROVE UNCHANGED cc
    BY <1>8 DEF BranchTimedout
  <1>9. UNCHANGED vars => UNCHANGED cc
    BY DEF vars, cc
  <1> QED
    BY <1>2, <1>3, <1>4, <1>5, <1>6, <1>7, <1>8, <1>9 DEF Next, Timeout

\* zsipos implements the lifecycle it promises its event sink: each call is
\* created once, may be connected, is terminated once, and holds its ports
\* exactly in between.
THEOREM ImplementsLifecycle == Spec => KeepsLifecycle
  <1>1. Init => Lifecycle!Init
    BY DEF Init, Empty, Lifecycle!Init
  <1> QED
    BY <1>1, StepRefines, Inductive, PTL DEF Spec, KeepsLifecycle, Lifecycle!Spec

\* A step that stores a sound result leaves no ended call in the call map.
LEMMA ApplyDropsEnded ==
  ASSUME ~LogEvents, CallsOK, EndedCallIsGone, NEW cid \in Cids, NEW c \in CallType,
         NEW r, Sound(c, r), ~c.terminated, Apply(cid, r)
  PROVE  EndedCallIsGone'
  <1>1. callmap' = [callmap EXCEPT ![cid] = r.call]
    BY DEF Apply
  <1>2. r.call = None \/ ~r.call.terminated
    BY DEF Sound
  <1> QED BY <1>1, <1>2 DEF EndedCallIsGone, CallsOK

\* Without the event log, every step keeps ended calls out of the call map.
LEMMA NextEnded ==
  ASSUME ~LogEvents
  PROVE  IInv /\ EndedCallIsGone /\ [Next]_vars => EndedCallIsGone'
  <1> SUFFICES ASSUME IInv, EndedCallIsGone, [Next]_vars PROVE EndedCallIsGone'
    OBVIOUS
  <1>1. CallsOK
    BY DEF IInv
  <1>2. ASSUME NEW m \in Requests, HandleRequest(m) PROVE EndedCallIsGone'
    <2> DEFINE c == CallForRequest(m)
    <2>1. m \in RequestType /\ m \in MessageType /\ m.cid \in Cids
      BY MessagesAssumption DEF MessageType, RequestType
    <2>2. c \in CallType /\ Sound(c, CallRequest(c, m)) /\ Apply(m.cid, CallRequest(c, m))
      BY <1>1, <1>2, <2>1, CallForRequestType, CallRequestSound DEF HandleRequest
    <2>3. ~c.terminated
      BY <2>1 DEF CallForRequest, NewCall, EndedCallIsGone
    <2> HIDE DEF c
    <2> QED BY <1>1, <2>1, <2>2, <2>3, ApplyDropsEnded
  <1>3. ASSUME NEW m \in Responses, HandleResponse(m) PROVE EndedCallIsGone'
    <2> DEFINE c == callmap[m.cid]
    <2>1. m \in ResponseType /\ m.cid \in Cids
      BY MessagesAssumption DEF ResponseType
    <2>2. c # None /\ Apply(m.cid, CallResponse(c, m))
      BY <1>3 DEF HandleResponse
    <2>3. c \in CallType /\ ~c.terminated
      BY <1>1, <2>1, <2>2 DEF CallsOK, EndedCallIsGone
    <2> QED BY <1>1, <2>1, <2>2, <2>3, CallResponseSound, ApplyDropsEnded
  <1>4. ASSUME NEW cid \in Cids, OnT3(cid) \/ OnTS(cid) PROVE EndedCallIsGone'
    <2>1. ASSUME NEW call \in CallType, CallTimedout(cid, call), ~call.terminated
          PROVE  EndedCallIsGone'
      <3> DEFINE r == [call |-> call, event |-> "none", sdp |-> "none", ok |-> TRUE]
      <3>1. r \in OpenResult /\ r.event = "none" /\ r.call.terminated = call.terminated
        BY DEF OpenResult, ResultType, SdpForms
      <3>2. Sound(call, OnTerminated(r)) /\ Apply(cid, OnTerminated(r))
        BY <2>1, <3>1, EndSound DEF CallTimedout
      <3> QED BY <1>1, <2>1, <3>2, ApplyDropsEnded
    <2>2. callmap[cid] \in CallType /\ ~callmap[cid].terminated
      BY <1>1, <1>4 DEF OnT3, OnTS, CallsOK, EndedCallIsGone
    <2>3. CASE OnT3(cid)
      <3>1. /\ [callmap[cid] EXCEPT !.finalCode = 408] \in CallType
            /\ ~[callmap[cid] EXCEPT !.finalCode = 408].terminated
        BY <2>2 DEF CallType, Codes
      <3> QED BY <2>1, <2>3, <3>1 DEF OnT3
    <2>4. CASE OnTS(cid)
      <3> DEFINE d == [callmap[cid] EXCEPT !.finalCode = IF @ = NoCode THEN 487 ELSE @]
      <3>1. d \in CallType /\ ~d.terminated
        BY <2>2 DEF CallType, Codes
      <3>2. CallTimedout(cid, d)
        BY <2>4 DEF OnTS
      <3> HIDE DEF d
      <3> QED BY <2>1, <3>1, <3>2
    <2> QED BY <1>4, <2>3, <2>4
  <1>5. UNCHANGED cc => EndedCallIsGone'
    BY DEF cc, EndedCallIsGone
  <1>6. ASSUME NEW m \in Requests, Request(m), ~HandleRequest(m) PROVE UNCHANGED cc
    BY <1>6 DEF Request, ReplayAnswer, ResendRequest, IgnoreRequest, RefuseCall, PassRequest
  <1>7. ASSUME NEW m \in Responses, Response(m), ~HandleResponse(m) PROVE UNCHANGED cc
    BY <1>7 DEF Response, ResendResponse, IgnoreResponse, PassResponse
  <1>8. ASSUME NEW k \in Vias, BranchTimedout(k) PROVE UNCHANGED cc
    BY <1>8 DEF BranchTimedout
  <1>9. UNCHANGED vars => UNCHANGED cc
    BY DEF vars, cc
  <1> QED
    BY <1>2, <1>3, <1>4, <1>5, <1>6, <1>7, <1>8, <1>9 DEF Next, Timeout

\* Unless logCCEvents is on, a call whose end has been decided is gone in the
\* same step.  With it, a call that has no final code stays: the event text cannot be
\* formatted.
THEOREM EndedLeaves == ASSUME ~LogEvents PROVE Spec => []EndedCallIsGone
  <1>1. Init => EndedCallIsGone
    BY DEF Init, Empty, EndedCallIsGone
  <1> QED BY <1>1, NextEnded, Inductive, PTL DEF Spec

----------------------------------------------------------------------------
(* The caches.                                                             *)

\* What CacheIsOfBranch says of one Branch.
CacheOK(b, k) ==
  \A mt \in Methods :
    /\ b.reqs[mt] # None =>
         b.reqs[mt].method = mt /\ (b.reqs[mt].via = k \/ (mt = "ACK" /\ b.reqs[mt].seq = b.cseq))
    /\ b.rsps[mt] # None => b.rsps[mt].method = mt /\ b.rsps[mt].via = k

LEMMA CachesOK ==
  CacheIsOfBranch <=> \A k \in Vias : branchmap[k] # None => CacheOK(branchmap[k], k)
  BY DEF CacheIsOfBranch, CacheOK

\* The Branch a request finds, or gets, caches what is its own.
LEMMA BranchForCache ==
  ASSUME SipOK, CacheIsOfBranch, NEW m \in RequestType
  PROVE  /\ CacheOK(BranchFor(m), BranchOf(m))
         /\ BranchOf(m) = m.via \/ (m.method = "ACK" /\ m.seq = BranchFor(m).cseq)
  <1>1. /\ BranchOf(m) \in Vias
        /\ branchmap[BranchOf(m)] # None => BranchFor(m) = branchmap[BranchOf(m)]
    BY BranchForType
  <1>2. m.from \in Sides /\ m.seq \in Seqs
    BY DEF RequestType
  <1>3. BranchOf(m) = m.via \/ (m.method = "ACK" /\ m.seq = BranchFor(m).cseq)
    <2> SUFFICES ASSUME BranchOf(m) # m.via PROVE m.method = "ACK" /\ m.seq = BranchFor(m).cseq
      OBVIOUS
    <2>1. /\ m.method = "ACK" /\ seq2branch[m.from][m.seq] # None
          /\ BranchOf(m) = seq2branch[m.from][m.seq]
      BY DEF BranchOf
    <2>2. branchmap[BranchOf(m)] # None /\ branchmap[BranchOf(m)].cseq = m.seq
      BY <1>2, <2>1 DEF SipOK, BranchIndexSound
    <2> QED BY <1>1, <2>1, <2>2
  <1>4. CASE branchmap[BranchOf(m)] # None
    BY <1>1, <1>3, <1>4, CachesOK
  <1>5. CASE branchmap[BranchOf(m)] = None
    <2>1. BranchFor(m).reqs = NoBranch /\ BranchFor(m).rsps = NoBranch
      BY <1>5 DEF BranchFor
    <2>2. \A mt \in Methods : NoBranch[mt] = None
      BY DEF NoBranch
    <2>3. CacheOK(BranchFor(m), BranchOf(m))
      BY <2>1, <2>2 DEF CacheOK
    <2> QED BY <1>3, <2>3
  <1> QED BY <1>4, <1>5

\* Storing a Branch whose cache is its own.
LEMMA StoreCache ==
  ASSUME SipOK, CacheIsOfBranch, NEW k \in Vias, NEW b, CacheOK(b, k),
         branchmap' = [branchmap EXCEPT ![k] = b]
  PROVE  CacheIsOfBranch'
  <1>1. \A l \in Vias : branchmap'[l] # None => CacheOK(branchmap'[l], l)
    BY CachesOK DEF SipOK
  <1> QED BY <1>1 DEF CacheIsOfBranch, CacheOK

\* A request is cached by its own method, in the Branch of its number.
LEMMA RequestKeepsCache ==
  ASSUME SipOK, CacheIsOfBranch, NEW m \in RequestType, Request(m)
  PROVE  CacheIsOfBranch'
  <1>1. /\ CacheOK(BranchFor(m), BranchOf(m)) /\ BranchOf(m) \in Vias /\ BranchFor(m) \in BranchType
        /\ BranchOf(m) = m.via \/ (m.method = "ACK" /\ m.seq = BranchFor(m).cseq)
    BY BranchForCache, BranchForType
  <1>2. m.method \in Methods
    BY DEF RequestType
  <1>3. CASE ReplayAnswer(m) \/ ResendRequest(m)
    BY <1>3 DEF ReplayAnswer, ResendRequest, sip, CacheIsOfBranch
  <1>4. CASE SaveRequest(m, BranchFor(m))
    BY <1>1, <1>4, StoreCache DEF SaveRequest
  <1>5. ASSUME NEW f, SaveRequest(m, [BranchFor(m) EXCEPT !.reqs[m.method] = [m EXCEPT !.sdp = f]])
        PROVE  CacheIsOfBranch'
    <2> DEFINE fwd == [m EXCEPT !.sdp = f]
               b == [BranchFor(m) EXCEPT !.reqs[m.method] = fwd]
    <2>1. fwd.method = m.method /\ fwd.via = m.via /\ fwd.seq = m.seq
      BY DEF RequestType
    <2> HIDE DEF fwd
    <2>2. b.cseq = BranchFor(m).cseq /\ b.rsps = BranchFor(m).rsps /\ b.reqs[m.method] = fwd
      BY <1>1, <1>2 DEF BranchType
    <2>3. \A mt \in Methods \ {m.method} : b.reqs[mt] = BranchFor(m).reqs[mt]
      BY <1>1, <1>2 DEF BranchType
    <2>4. branchmap' = [branchmap EXCEPT ![BranchOf(m)] = b]
      BY <1>5 DEF SaveRequest, fwd
    <2> HIDE DEF b
    <2>5. CacheOK(b, BranchOf(m))
      BY <1>1, <2>1, <2>2, <2>3 DEF CacheOK
    <2> QED BY <1>1, <2>4, <2>5, StoreCache
  <1>6. CASE IgnoreRequest(m) \/ RefuseCall(m)
    BY <1>4, <1>6 DEF IgnoreRequest, RefuseCall
  <1>7. CASE PassRequest(m)
    <2>1. m = [m EXCEPT !.sdp = m.sdp]
      BY DEF RequestType
    <2>2. SaveRequest(m, [BranchFor(m) EXCEPT !.reqs[m.method] = m])
      BY <1>7 DEF PassRequest
    <2> QED BY <1>5, <2>1, <2>2
  <1>8. CASE HandleRequest(m)
    BY <1>4, <1>5, <1>8 DEF HandleRequest
  <1> QED BY <1>3, <1>6, <1>7, <1>8 DEF Request

\* A response is cached by its own method, in the Branch of its Via header.
LEMMA ResponseKeepsCache ==
  ASSUME SipOK, CacheIsOfBranch, NEW m \in ResponseType, Response(m)
  PROVE  CacheIsOfBranch'
  <1>1. ASSUME NEW f, SaveResponse(m, f) PROVE CacheIsOfBranch'
    <2> DEFINE p == [m EXCEPT !.sdp = f]
               b == [branchmap[m.via] EXCEPT !.rsps[m.method] = p]
    <2>1. p.method = m.method /\ p.via = m.via /\ m.via \in Vias /\ m.method \in Methods
      BY DEF ResponseType
    <2> HIDE DEF p
    <2>2. CASE branchmap[m.via] = None
      BY <1>1, <2>2 DEF SaveResponse, CacheIsOfBranch
    <2>3. CASE branchmap[m.via] # None
      <3>1. branchmap[m.via] \in BranchType /\ CacheOK(branchmap[m.via], m.via)
        BY <2>1, <2>3, CachesOK DEF SipOK
      <3>2. /\ b.cseq = branchmap[m.via].cseq /\ b.reqs = branchmap[m.via].reqs
            /\ b.rsps[m.method] = p
            /\ \A mt \in Methods \ {m.method} : b.rsps[mt] = branchmap[m.via].rsps[mt]
        BY <2>1, <3>1 DEF BranchType
      <3>3. branchmap' = [branchmap EXCEPT ![m.via] = b]
        BY <1>1, <2>3 DEF SaveResponse, p
      <3> HIDE DEF b
      <3>4. CacheOK(b, m.via)
        BY <2>1, <3>1, <3>2 DEF CacheOK
      <3> QED BY <2>1, <3>3, <3>4, StoreCache
    <2> QED BY <2>2, <2>3
  <1>2. UNCHANGED sip => CacheIsOfBranch'
    BY DEF sip, CacheIsOfBranch
  <1> QED BY <1>1, <1>2 DEF Response, ResendResponse, IgnoreResponse, PassResponse, HandleResponse

\* Every step keeps it, but only together with the index by CSeq number.
LEMMA NextCache == IInv /\ CacheIsOfBranch /\ [Next]_vars => CacheIsOfBranch'
  <1> SUFFICES ASSUME SipOK, CacheIsOfBranch, [Next]_vars PROVE CacheIsOfBranch'
    BY DEF IInv
  <1>1. ASSUME NEW m \in Requests, Request(m) PROVE CacheIsOfBranch'
    BY <1>1, MessagesAssumption, RequestKeepsCache
  <1>2. ASSUME NEW m \in Responses, Response(m) PROVE CacheIsOfBranch'
    BY <1>2, MessagesAssumption, ResponseKeepsCache
  <1>3. ASSUME NEW k \in Vias, BranchTimedout(k) PROVE CacheIsOfBranch'
    BY <1>3 DEF BranchTimedout, CacheIsOfBranch, SipOK
  <1>4. ASSUME NEW c \in Cids, OnT3(c) \/ OnTS(c) PROVE CacheIsOfBranch'
    BY <1>4 DEF OnT3, OnTS, CallTimedout, sip, CacheIsOfBranch
  <1>5. CASE UNCHANGED vars
    BY <1>5 DEF vars, CacheIsOfBranch
  <1> QED BY <1>1, <1>2, <1>3, <1>4, <1>5 DEF Next, Timeout

\* A retransmission is answered, or sent on, with a message of its own method
\* and branch, whatever else the Branch has been used for.
THEOREM CacheHolds == Spec => []CacheIsOfBranch
  <1>1. Init => CacheIsOfBranch
    BY DEF Init, Empty, CacheIsOfBranch
  <1> QED BY <1>1, NextCache, Inductive, PTL DEF Spec

----------------------------------------------------------------------------
(* Retransmissions.                                                        *)

Cached(k, mt) == branchmap[k] # None /\ branchmap[k].reqs[mt] # None

\* A request other than an ACK is looked for in the Branch of its Via header.
LEMMA ForwardedIsCached ==
  ASSUME NEW m \in RequestType, m.method # "ACK"
  PROVE  BranchOf(m) = m.via /\ (Forwarded(m) <=> Cached(m.via, m.method))
  BY DEF BranchOf, BranchFor, NoBranch, Forwarded, Cached, RequestType

LEMMA CachedIsForwarded ==
  ASSUME NEW m \in RequestType, m.method # "ACK", Cached(m.via, m.method)'
  PROVE  Forwarded(m)'
  <1>1. (BranchOf(m))' = m.via
    BY DEF BranchOf
  <1>2. (BranchFor(m))' = branchmap'[m.via]
    BY <1>1 DEF BranchFor, Cached
  <1> QED BY <1>2 DEF Forwarded, Cached

\* What a Branch has forwarded stays in it whatever message comes.
LEMMA MessageKeepsCached ==
  ASSUME SipOK, CallsOK, NEW k \in Vias, NEW mt \in Methods, Cached(k, mt),
         (\E m \in Requests : Request(m)) \/ (\E m \in Responses : Response(m))
  PROVE  Cached(k, mt)'
  <1>1. /\ branchmap \in [Vias -> BranchType \cup {None}]
        /\ branchmap[k] \in BranchType /\ branchmap[k].reqs[mt] # None
    BY DEF SipOK, Cached
  <1>2. ASSUME NEW m \in RequestType, NEW b \in BranchType, SaveRequest(m, b),
               \A n \in Methods : BranchFor(m).reqs[n] # None => b.reqs[n] # None
        PROVE  Cached(k, mt)'
    <2>1. branchmap' = [branchmap EXCEPT ![BranchOf(m)] = b]
      BY <1>2 DEF SaveRequest
    <2>2. CASE BranchOf(m) = k
      <3>1. BranchFor(m) = branchmap[k] /\ branchmap'[k] = b
        BY <1>1, <2>1, <2>2, NoneAssumption DEF BranchFor
      <3> QED BY <1>1, <1>2, <3>1, NoneAssumption DEF Cached
    <2>3. CASE BranchOf(m) # k
      <3>1. branchmap'[k] = branchmap[k]
        BY <1>1, <2>1, <2>3
      <3> QED BY <3>1 DEF Cached
    <2> QED BY <2>2, <2>3
  <1>3. UNCHANGED branchmap => Cached(k, mt)'
    BY DEF Cached
  <1>4. ASSUME NEW m \in Requests, Request(m) PROVE Cached(k, mt)'
    <2>1. m \in RequestType /\ m.method \in Methods /\ BranchFor(m) \in BranchType
      BY MessagesAssumption, BranchForType DEF RequestType
    <2>2. CASE ReplayAnswer(m) \/ ResendRequest(m)
      BY <1>3, <2>2 DEF ReplayAnswer, ResendRequest, sip
    <2>3. CASE SaveRequest(m, BranchFor(m))
      BY <1>2, <2>1, <2>3
    <2>4. ASSUME NEW x \in RequestType, SaveRequest(m, [BranchFor(m) EXCEPT !.reqs[m.method] = x])
          PROVE  Cached(k, mt)'
      <3> DEFINE b == [BranchFor(m) EXCEPT !.reqs[m.method] = x]
      <3>1. b \in BranchType
        BY <2>1 DEF BranchType
      <3>2. \A n \in Methods : BranchFor(m).reqs[n] # None => b.reqs[n] # None
        BY <2>1, NoneAssumption DEF BranchType
      <3> HIDE DEF b
      <3> QED BY <1>2, <2>1, <2>4, <3>1, <3>2 DEF b
    <2>5. CASE PassRequest(m)
      BY <2>1, <2>4, <2>5 DEF PassRequest
    <2>6. CASE HandleRequest(m) /\ ~SaveRequest(m, BranchFor(m))
      <3>1. PICK f : f = CallRequest(CallForRequest(m), m)
        OBVIOUS
      <3>2. /\ callmap[m.cid] # None \/ OpensCall(m)
            /\ f.ok /\ SaveRequest(m, [BranchFor(m) EXCEPT !.reqs[m.method] = [m EXCEPT !.sdp = f.sdp]])
        BY <2>6, <3>1 DEF HandleRequest
      <3>3. f.sdp \in SdpForms
        BY <2>1, <3>1, CallForRequestType, CallRequestSound DEF Sound, ResultType, MessageType
      <3>4. [m EXCEPT !.sdp = f.sdp] \in RequestType
        BY <2>1, <3>3, SdpType
      <3> QED BY <2>4, <3>2, <3>4
    <2> QED BY <1>4, <2>2, <2>3, <2>5, <2>6 DEF Request, IgnoreRequest, RefuseCall
  <1>5. ASSUME NEW m \in Responses, Response(m) PROVE Cached(k, mt)'
    <2>1. m \in ResponseType /\ m.via \in Vias /\ m.method \in Methods /\ m.cid \in Cids /\ m.sdp \in SdpForms
      BY MessagesAssumption DEF ResponseType
    <2>2. ASSUME NEW f \in SdpForms, SaveResponse(m, f) PROVE Cached(k, mt)'
      <3>1. CASE branchmap[m.via] = None \/ m.via # k
        BY <1>1, <2>1, <2>2, <3>1 DEF SaveResponse, Cached
      <3>2. CASE branchmap[m.via] # None /\ m.via = k
        <4> DEFINE p == [m EXCEPT !.sdp = f]
                   b == [branchmap[k] EXCEPT !.rsps[m.method] = p]
        <4>1. p \in ResponseType
          BY <2>1, SdpType
        <4>2. branchmap'[k] = b
          BY <1>1, <2>2, <3>2 DEF SaveResponse
        <4> HIDE DEF p
        <4>3. b.reqs = branchmap[k].reqs /\ b \in BranchType
          BY <1>1, <2>1, <4>1 DEF BranchType
        <4> HIDE DEF b
        <4> QED BY <1>1, <4>2, <4>3, NoneAssumption DEF Cached
      <3> QED BY <3>1, <3>2
    <2>3. CASE HandleResponse(m)
      <3>1. callmap[m.cid] \in CallType
        BY <2>1, <2>3 DEF HandleResponse, CallsOK
      <3>2. CallResponse(callmap[m.cid], m).sdp \in SdpForms
        BY <2>1, <3>1, CallResponseSound DEF Sound, ResultType
      <3> QED BY <1>3, <2>2, <2>3, <3>2 DEF HandleResponse, sip
    <2> QED BY <1>3, <1>5, <2>1, <2>2, <2>3
         DEF Response, ResendResponse, IgnoreResponse, PassResponse, sip
  <1> QED BY <1>4, <1>5

\* It goes with the Branch, when the timer of the Branch fires.
LEMMA CachedStays ==
  ASSUME SipOK, CallsOK, [Next]_vars, NEW k \in Vias, NEW mt \in Methods, Cached(k, mt), ~BranchTimedout(k)
  PROVE  Cached(k, mt)'
  <1>1. UNCHANGED branchmap => Cached(k, mt)'
    BY DEF Cached
  <1>2. ASSUME NEW l \in Vias, BranchTimedout(l) PROVE Cached(k, mt)'
    <2>1. l # k
      BY <1>2
    <2> QED BY <1>2, <2>1 DEF BranchTimedout, Cached, SipOK
  <1>3. ASSUME NEW c \in Cids, OnT3(c) \/ OnTS(c) PROVE Cached(k, mt)'
    BY <1>1, <1>3 DEF OnT3, OnTS, CallTimedout, sip
  <1>4. CASE UNCHANGED vars
    BY <1>1, <1>4 DEF vars
  <1> QED BY <1>2, <1>3, <1>4, MessageKeepsCached DEF Next, Timeout

\* A request other than an ACK that was forwarded: it disturbs nothing, and
\* stays known until the timer of its Branch.
Absorbs(m) ==
  m.method # "ACK" /\ Forwarded(m) =>
    /\ Request(m) => UNCHANGED <<sip, cc>>
    /\ BranchTimedout(m.via) \/ Forwarded(m)'

LEMMA NextAbsorbs == IInv /\ [Next]_vars => \A m \in Requests : Absorbs(m)
  <1> SUFFICES ASSUME SipOK, CallsOK, [Next]_vars, NEW m \in Requests, m.method # "ACK", Forwarded(m)
               PROVE  /\ Request(m) => UNCHANGED <<sip, cc>>
                      /\ BranchTimedout(m.via) \/ Forwarded(m)'
    BY DEF Absorbs, IInv
  <1>1. m \in RequestType /\ m.via \in Vias /\ m.method \in Methods
    BY MessagesAssumption DEF RequestType
  <1>2. Request(m) => UNCHANGED <<sip, cc>>
    BY DEF Request, ReplayAnswer, ResendRequest, NewRequest, IgnoreRequest, RefuseCall,
           PassRequest, HandleRequest
  <1>3. Cached(m.via, m.method)
    BY <1>1, ForwardedIsCached
  <1> QED BY <1>1, <1>2, <1>3, CachedStays, CachedIsForwarded

\* Whatever else arrives in between: a request other than an ACK that has been
\* forwarded is absorbed by its Branch, as Branch.handle_request intends, until
\* the Branch's own timer deletes it.  An ACK is not: it may be looked up by its
\* CSeq number, and another Branch may take that entry of the index.
THEOREM RetransmissionsAbsorbed == Spec => [][\A m \in Requests : Absorbs(m)]_vars
  BY NextAbsorbs, Inductive, PTL DEF Spec

----------------------------------------------------------------------------
(* When calls are kept apart.                                              *)

\* A Via branch is used in one call only, and the CSeq number of an ACK is used
\* by no other call of the same side.  RFC 3261 asks for the former only.
NumbersApart ==
  \A m \in Requests :
    /\ \A n \in Requests \cup Responses : m.via = n.via => m.cid = n.cid
    /\ m.method = "ACK" => \A n \in Requests : m.from = n.from /\ m.seq = n.seq => m.cid = n.cid

CacheOf(b, c) ==
  \A mt \in Methods : /\ b.reqs[mt] # None => b.reqs[mt].cid = c
                      /\ b.rsps[mt] # None => b.rsps[mt].cid = c

\* A Branch was made by a request, and caches messages of that request's call.
OfOneCall(b, k) ==
  \E r \in Requests : r.via = k /\ r.from = b.external /\ r.seq = b.cseq /\ CacheOf(b, r.cid)
BranchesApart == \A k \in Vias : branchmap[k] # None => OfOneCall(branchmap[k], k)

\* The Branch a request finds is one of its call, however it is found.
LEMMA BranchIsOfCall ==
  ASSUME NumbersApart, SipOK, BranchesApart, NEW m \in Requests
  PROVE  CacheOf(BranchFor(m), m.cid) /\ OfOneCall(BranchFor(m), BranchOf(m))
  <1>1. m \in RequestType /\ m.via \in Vias /\ m.from \in Sides /\ m.seq \in Seqs
    BY MessagesAssumption DEF RequestType
  <1>2. /\ BranchOf(m) \in Vias
        /\ branchmap[BranchOf(m)] # None => BranchFor(m) = branchmap[BranchOf(m)]
        /\ branchmap[BranchOf(m)] = None =>
             BranchOf(m) = m.via /\ BranchFor(m).external = m.from /\ BranchFor(m).cseq = m.seq
    BY <1>1, BranchForType
  <1>3. CASE branchmap[BranchOf(m)] = None
    <2>1. BranchFor(m).reqs = NoBranch /\ BranchFor(m).rsps = NoBranch
      BY <1>3 DEF BranchFor
    <2>2. CacheOf(BranchFor(m), m.cid)
      BY <2>1 DEF CacheOf, NoBranch
    <2> QED BY <1>2, <1>3, <2>2 DEF OfOneCall
  <1>4. CASE branchmap[BranchOf(m)] # None
    <2>1. PICK r \in Requests : /\ r.via = BranchOf(m) /\ r.from = BranchFor(m).external
                                /\ r.seq = BranchFor(m).cseq /\ CacheOf(BranchFor(m), r.cid)
      BY <1>2, <1>4 DEF BranchesApart, OfOneCall
    <2>2. CASE BranchOf(m) = m.via
      BY <2>1, <2>2 DEF NumbersApart, OfOneCall
    <2>3. CASE BranchOf(m) # m.via
      <3>1. /\ m.method = "ACK" /\ seq2branch[m.from][m.seq] # None
            /\ BranchOf(m) = seq2branch[m.from][m.seq]
        BY <2>3 DEF BranchOf
      <3>2. BranchFor(m).external = m.from /\ BranchFor(m).cseq = m.seq
        BY <1>1, <1>2, <1>4, <3>1 DEF SipOK, BranchIndexSound
      <3>3. m.cid = r.cid
        BY <2>1, <3>1, <3>2 DEF NumbersApart
      <3> QED BY <2>1, <3>3 DEF OfOneCall
    <2> QED BY <2>2, <2>3
  <1> QED BY <1>3, <1>4

\* Storing a Branch that is of one call.
LEMMA StoreApart ==
  ASSUME SipOK, BranchesApart, NEW k \in Vias, NEW b, OfOneCall(b, k),
         branchmap' = [branchmap EXCEPT ![k] = b]
  PROVE  BranchesApart'
  <1>1. \A l \in Vias : branchmap'[l] # None => OfOneCall(branchmap'[l], l)
    BY DEF SipOK, BranchesApart
  <1> QED BY <1>1 DEF BranchesApart, OfOneCall, CacheOf

LEMMA RequestKeepsApart ==
  ASSUME NumbersApart, SipOK, BranchesApart, NEW m \in Requests, Request(m)
  PROVE  BranchesApart' /\ CallsKeptApart'
  <1>1. m \in RequestType /\ m.method \in Methods
    BY MessagesAssumption DEF RequestType
  <1>2. /\ CacheOf(BranchFor(m), m.cid) /\ OfOneCall(BranchFor(m), BranchOf(m))
        /\ BranchOf(m) \in Vias /\ BranchFor(m) \in BranchType
    BY <1>1, BranchIsOfCall, BranchForType
  <1>3. CASE ReplayAnswer(m) \/ ResendRequest(m)
    <2>1. CallsKeptApart'
      BY <1>1, <1>2, <1>3 DEF ReplayAnswer, ResendRequest, Answered, Forwarded, CacheOf, Emit, CallsKeptApart
    <2>2. BranchesApart'
      BY <1>3 DEF ReplayAnswer, ResendRequest, sip, BranchesApart
    <2> QED BY <2>1, <2>2
  <1>4. CASE SaveRequest(m, BranchFor(m)) /\ out' = {}
    BY <1>2, <1>4, StoreApart DEF SaveRequest, CallsKeptApart
  <1>5. ASSUME NEW f, SaveRequest(m, [BranchFor(m) EXCEPT !.reqs[m.method] = [m EXCEPT !.sdp = f]]),
               Emit(Opposite(m.from), [m EXCEPT !.sdp = f], m)
        PROVE  BranchesApart' /\ CallsKeptApart'
    <2> DEFINE fwd == [m EXCEPT !.sdp = f]
               b == [BranchFor(m) EXCEPT !.reqs[m.method] = fwd]
    <2>1. fwd.cid = m.cid
      BY <1>1 DEF RequestType
    <2>2. out' = {[to |-> Opposite(m.from), msg |-> fwd, for |-> m.cid]}
      BY <1>5 DEF Emit
    <2> HIDE DEF fwd
    <2>3. CallsKeptApart'
      BY <2>1, <2>2 DEF CallsKeptApart
    <2>4. /\ b.external = BranchFor(m).external /\ b.cseq = BranchFor(m).cseq
          /\ b.rsps = BranchFor(m).rsps /\ b.reqs[m.method] = fwd
          /\ \A mt \in Methods \ {m.method} : b.reqs[mt] = BranchFor(m).reqs[mt]
      BY <1>1, <1>2 DEF BranchType
    <2>5. branchmap' = [branchmap EXCEPT ![BranchOf(m)] = b]
      BY <1>5 DEF SaveRequest, fwd
    <2> HIDE DEF b
    <2>6. PICK r \in Requests : /\ r.via = BranchOf(m) /\ r.from = BranchFor(m).external
                                /\ r.seq = BranchFor(m).cseq /\ CacheOf(BranchFor(m), r.cid)
      BY <1>2 DEF OfOneCall
    <2>7. r.cid = m.cid
      <3>1. CASE r.via = m.via
        BY <3>1 DEF NumbersApart
      <3>2. CASE r.via # m.via
        <4>1. m.method = "ACK" /\ seq2branch[m.from][m.seq] = BranchOf(m) /\ BranchOf(m) # None
          BY <2>6, <3>2 DEF BranchOf
        <4>2. m.from \in Sides /\ m.seq \in Seqs
          BY <1>1 DEF RequestType
        <4>3. branchmap[BranchOf(m)] # None /\ branchmap[BranchOf(m)].external = m.from
              /\ branchmap[BranchOf(m)].cseq = m.seq
          BY <4>1, <4>2 DEF SipOK, BranchIndexSound
        <4>4. r.from = m.from /\ r.seq = m.seq
          BY <1>1, <2>6, <4>3, BranchForType
        <4> QED BY <4>1, <4>4 DEF NumbersApart
      <3> QED BY <3>1, <3>2
    <2>8. CacheOf(b, m.cid)
      BY <1>2, <2>1, <2>4 DEF CacheOf
    <2>9. OfOneCall(b, BranchOf(m))
      BY <2>4, <2>6, <2>7, <2>8 DEF OfOneCall
    <2> QED BY <1>2, <2>3, <2>5, <2>9, StoreApart
  <1>6. CASE IgnoreRequest(m) \/ RefuseCall(m)
    BY <1>4, <1>6 DEF IgnoreRequest, RefuseCall
  <1>7. CASE PassRequest(m)
    <2>1. m = [m EXCEPT !.sdp = m.sdp]
      BY <1>1 DEF RequestType
    <2>2. /\ SaveRequest(m, [BranchFor(m) EXCEPT !.reqs[m.method] = m])
          /\ Emit(Opposite(m.from), m, m)
      BY <1>7 DEF PassRequest
    <2> QED BY <1>5, <2>1, <2>2
  <1>8. CASE HandleRequest(m)
    BY <1>4, <1>5, <1>8 DEF HandleRequest
  <1> QED BY <1>3, <1>6, <1>7, <1>8 DEF Request

LEMMA ResponseKeepsApart ==
  ASSUME NumbersApart, SipOK, BranchesApart, NEW m \in Responses, Response(m)
  PROVE  BranchesApart' /\ CallsKeptApart'
  <1>1. m \in ResponseType /\ m.via \in Vias /\ m.method \in Methods
    BY MessagesAssumption DEF ResponseType
  <1>2. branchmap[m.via] # None =>
          /\ branchmap[m.via] \in BranchType
          /\ CacheOf(branchmap[m.via], m.cid) /\ OfOneCall(branchmap[m.via], m.via)
    BY <1>1 DEF SipOK, BranchesApart, OfOneCall, NumbersApart
  <1>3. ASSUME NEW f, SaveResponse(m, f), Emit(Opposite(m.from), [m EXCEPT !.sdp = f], m)
        PROVE  BranchesApart' /\ CallsKeptApart'
    <2> DEFINE p == [m EXCEPT !.sdp = f]
               b == [branchmap[m.via] EXCEPT !.rsps[m.method] = p]
    <2>1. p.cid = m.cid
      BY <1>1 DEF ResponseType
    <2>2. out' = {[to |-> Opposite(m.from), msg |-> p, for |-> m.cid]}
      BY <1>3 DEF Emit
    <2> HIDE DEF p
    <2>3. CallsKeptApart'
      BY <2>1, <2>2 DEF CallsKeptApart
    <2>4. CASE branchmap[m.via] = None
      BY <1>3, <2>3, <2>4 DEF SaveResponse, BranchesApart
    <2>5. CASE branchmap[m.via] # None
      <3>1. /\ b.external = branchmap[m.via].external /\ b.cseq = branchmap[m.via].cseq
            /\ b.reqs = branchmap[m.via].reqs /\ b.rsps[m.method] = p
            /\ \A mt \in Methods \ {m.method} : b.rsps[mt] = branchmap[m.via].rsps[mt]
        BY <1>1, <1>2, <2>5 DEF BranchType
      <3>2. branchmap' = [branchmap EXCEPT ![m.via] = b]
        BY <1>3, <2>5 DEF SaveResponse, p
      <3> HIDE DEF b
      <3>3. CacheOf(b, m.cid)
        BY <1>2, <2>1, <2>5, <3>1 DEF CacheOf
      <3>4. OfOneCall(b, m.via)
        BY <1>2, <2>5, <3>1, <3>3 DEF OfOneCall, NumbersApart
      <3> QED BY <1>1, <2>3, <3>2, <3>4, StoreApart
    <2> QED BY <2>4, <2>5
  <1>4. CASE ResendResponse(m)
    <2>1. CallsKeptApart'
      BY <1>1, <1>2, <1>4 DEF ResendResponse, Repeated, CacheOf, Emit, CallsKeptApart
    <2> QED BY <1>4, <2>1 DEF ResendResponse, sip, BranchesApart
  <1>5. CASE PassResponse(m)
    <2>1. m = [m EXCEPT !.sdp = m.sdp]
      BY <1>1 DEF ResponseType
    <2> QED BY <1>3, <1>5, <2>1 DEF PassResponse
  <1>6. ASSUME UNCHANGED sip, out' = {} PROVE BranchesApart' /\ CallsKeptApart'
    BY <1>6 DEF sip, BranchesApart, CallsKeptApart
  <1>7. CASE IgnoreResponse(m)
    BY <1>6, <1>7 DEF IgnoreResponse, sip
  <1>8. CASE HandleResponse(m)
    BY <1>3, <1>6, <1>8 DEF HandleResponse
  <1> QED BY <1>4, <1>5, <1>7, <1>8 DEF Response

LEMMA NextApart ==
  ASSUME NumbersApart, SipOK, BranchesApart, CallsKeptApart, [Next]_vars
  PROVE  BranchesApart' /\ CallsKeptApart'
  <1>1. ASSUME NEW k \in Vias, BranchTimedout(k) PROVE BranchesApart' /\ CallsKeptApart'
    BY <1>1 DEF BranchTimedout, BranchesApart, CallsKeptApart, SipOK
  <1>2. ASSUME NEW c \in Cids, OnT3(c) \/ OnTS(c) PROVE BranchesApart' /\ CallsKeptApart'
    BY <1>2 DEF OnT3, OnTS, CallTimedout, sip, BranchesApart, CallsKeptApart
  <1>3. CASE UNCHANGED vars
    BY <1>3 DEF vars, BranchesApart, CallsKeptApart
  <1> QED BY <1>1, <1>2, <1>3, RequestKeepsApart, ResponseKeepsApart DEF Next, Timeout

\* No message of one call is sent on behalf of another, if no ACK carries the
\* CSeq number of another call of its side: it is the lookup by number in
\* GMITM.getBranch, and nothing else, that mixes calls.
THEOREM CallsApart == ASSUME NumbersApart PROVE Spec => []CallsKeptApart
  <1>1. Init => BranchesApart /\ CallsKeptApart
    BY DEF Init, Empty, BranchesApart, CallsKeptApart
  <1>2. IInv /\ (BranchesApart /\ CallsKeptApart) /\ [Next]_vars => (BranchesApart /\ CallsKeptApart)'
    BY NextApart DEF IInv
  <1> QED BY <1>1, <1>2, Inductive, PTL DEF Spec
=============================================================================
