---------------------------- MODULE CryptoStream ----------------------------
(***************************************************************************)
(* One media stream of a call (CyRTPStream in zstream.pxi): how threads    *)
(* that share nothing but two message queues and two auto-reset events     *)
(* drive its ZRTP and ICE states, its keys and its handshake flag.         *)
(*                                                                         *)
(*   "rtp"   the RTP thread: packets, ICE and DTMF callbacks, rtp_mq       *)
(*   "zrtp"  the ZRTP thread: the ZRTP engine and its timer, zrtp_mq       *)
(*   "gui"   the thread of the button that calls goSecure                  *)
(*                                                                         *)
(* The reactor's thread closes the stream.  A step is what a thread does   *)
(* until another thread can act on what it wrote; waits are steps of their *)
(* own.  The ZRTP engine and pjnath are libraries: when they call back is  *)
(* open, what the stream then does is not.  What the event sink is told,   *)
(* RTCP and clear media are left out, and so is the loss of a message (the *)
(* queues are loopback UDP sockets).                                       *)
(***************************************************************************)
EXTENDS Naturals, Sequences, FiniteSets

CONSTANTS
  Configs,    \* the configurations: skipzrtp1, and whether icestorageurl is there
  MaxPackets, \* bound on the queue a ZRTP packet is put on
  MaxStarts,  \* bound on the queue a start of ICE is put on
  MaxEngines, \* bound on the engines that clicks and packets create
  MaxClicks   \* bound on the calls of goSecure

ASSUME StreamAssumption ==
  /\ Configs \subseteq [skipzrtp1 : BOOLEAN, icestorage : BOOLEAN]
  /\ MaxPackets \in Nat /\ MaxStarts \in Nat /\ MaxEngines \in Nat /\ MaxClicks \in Nat

VARIABLES
  cfg,         \* the configuration
  zrtp_state,  \* "none", "started", "connected", "failed"
  ice_state,   \* the same
  zcontext,    \* the engine: "null", "created", "hello" and "quiet" before the peer's
               \* hello, "running", "half" with the receiver's key, "secure", "over"
  engine,      \* how many engines there have been; the last one is zcontext's
  lost,        \* the engines that another thread's has been put in the place of
  taking,      \* the directions whose key an engine still has to take back
  secure,      \* what is sent is encrypted
  ctx, ctrl,   \* direction -> the engine of its RTP and its RTCP key, 0 for NULL
  handshake,   \* media is held back
  dtmfex,      \* "none", "open", "closed"
  icestream,   \* "none", "init", "ready", "talking", "over"
  keepalive,   \* keepalive_timer is scheduled
  stream,      \* "open", "closing", "closed"
  rtp_mq, zrtp_mq,          \* messages to the two threads
  start_event, stop_event,  \* set; releases one waiter, which resets it
  pc,          \* thread -> where it is in a handler, and what comes after
  clicks       \* calls of goSecure

states == <<zrtp_state, ice_state>>
eng    == <<zcontext, engine, lost>>
keys   == <<secure, ctx, ctrl>>
ice    == <<dtmfex, icestream, keepalive>>
mqs    == <<rtp_mq, zrtp_mq>>
events == <<start_event, stop_event>>
rest   == <<cfg, stream, clicks>>
svars  == <<states, eng, taking, keys, ice, handshake, mqs, events, pc, rest>>

Threads    == {"rtp", "zrtp", "gui"}
Directions == {"send", "recv"}
NoKeys     == [d \in Directions |-> 0]
Idle       == [at |-> "idle", then |-> ""]

IsIdle(t) == pc[t] = Idle
Goto(t, where, what) == pc' = [pc EXCEPT ![t] = [at |-> where, then |-> what]]
Done(t)   == pc' = [pc EXCEPT ![t] = Idle]
ToRtp(m)  == rtp_mq' = Append(rtp_mq, m)
ToZrtp(m) == zrtp_mq' = Append(zrtp_mq, m)

----------------------------------------------------------------------------
(* startZrtp, on the RTP thread and on the GUI's.  It finds no negotiation *)
(* (BeginZrtp), looks for an engine (FindEngine), makes one where it has   *)
(* found none (CreateEngine), asks the ZRTP thread for a start and waits   *)
(* (QueueStart), and believes in it from then on (Started); "what" comes   *)
(* after it.  Nothing keeps the other thread from doing the same meanwhile.*)

BeginZrtp(t, what) ==
  /\ zrtp_state = "none"
  /\ engine + Cardinality({u \in Threads : pc[u].at \in {"begin", "create"}}) < MaxEngines
  /\ Goto(t, "begin", what)

FindEngine(t) ==
  /\ pc[t].at = "begin"
  /\ handshake' = TRUE
  /\ Goto(t, IF zcontext = "null" THEN "create" ELSE "queue", pc[t].then)
  /\ UNCHANGED <<states, eng, taking, keys, ice, mqs, events, rest>>

CreateEngine(t) ==
  /\ pc[t].at = "create"
  /\ zcontext' = "created" /\ engine' = engine + 1
  /\ lost' = IF zcontext = "null" THEN lost ELSE lost \cup {engine}
  /\ Goto(t, "queue", pc[t].then)
  /\ UNCHANGED <<states, taking, keys, ice, handshake, mqs, events, rest>>

QueueStart(t) ==
  /\ pc[t].at = "queue"
  /\ start_event' = FALSE
  /\ ToZrtp("start")
  /\ Goto(t, "wait", pc[t].then)
  /\ UNCHANGED <<states, eng, taking, keys, ice, handshake, rtp_mq, stop_event, rest>>

Started(t) ==
  /\ pc[t].at = "wait" /\ start_event
  /\ start_event' = FALSE
  /\ zrtp_state' = "started"
  /\ zrtp_mq' = IF pc[t].then = "packet" THEN Append(zrtp_mq, "packet") ELSE zrtp_mq
  /\ Done(t)
  /\ UNCHANGED <<ice_state, eng, taking, keys, ice, handshake, rtp_mq, stop_event, rest>>

\* The engine stops when its thread comes to it.
StopZrtp ==
  /\ zrtp_state' = "none"
  /\ stop_event' = FALSE
  /\ ToZrtp("stop")

----------------------------------------------------------------------------
(* The button, and the packets that the RTP thread reads.                  *)

\* At any time: a click that has found the session goes on when it is closed.
GoSecure ==
  /\ IsIdle("gui") /\ clicks < MaxClicks
  /\ clicks' = clicks + 1
  /\ \/ cfg.skipzrtp1 /\ ToRtp("start ice") /\ UNCHANGED pc
     \/ ~cfg.skipzrtp1 /\ BeginZrtp("gui", "") /\ UNCHANGED rtp_mq
     \/ ~cfg.skipzrtp1 /\ zrtp_state # "none" /\ UNCHANGED <<rtp_mq, pc>>
  /\ UNCHANGED <<states, eng, taking, keys, ice, handshake, zrtp_mq, events, cfg, stream>>

\* From the peer's address, unless ICE is under way, or through ICE.
Hears == IsIdle("rtp") /\ stream # "closed" /\ ice_state # "started"

ZrtpPacket ==
  /\ Hears /\ Len(zrtp_mq) < MaxPackets
  /\ \/ BeginZrtp("rtp", "packet") /\ UNCHANGED zrtp_mq
     \/ zrtp_state # "none" /\ ToZrtp("packet") /\ UNCHANGED pc
  /\ UNCHANGED <<states, eng, taking, keys, ice, handshake, rtp_mq, events, rest>>

\* The peer's DTMF start character.
DtmfStart ==
  /\ IsIdle("rtp") /\ stream # "closed" /\ Len(rtp_mq) < MaxStarts
  /\ ToRtp("start ice")
  /\ UNCHANGED <<states, eng, taking, keys, ice, handshake, zrtp_mq, events, pc, rest>>

----------------------------------------------------------------------------
(* The RTP thread: messages.                                               *)

Take(m) == IsIdle("rtp") /\ rtp_mq # <<>> /\ Head(rtp_mq) = m /\ rtp_mq' = Tail(rtp_mq)

\* Mutant: the exchange goes on.
HandshakeStopsOnly == handshake' = FALSE /\ UNCHANGED dtmfex

HandshakeStops ==
  /\ handshake' = FALSE
  /\ dtmfex' = IF handshake /\ dtmfex = "open" THEN "closed" ELSE dtmfex

StopHandshake ==
  /\ Take("stop handshake")
  /\ HandshakeStops
  /\ UNCHANGED <<states, icestream, keepalive, eng, taking, keys, zrtp_mq, events, pc, rest>>

\* do_start_ice up to the stop of ZRTP, which it does not wait for.
DoStartIce ==
  /\ Take("start ice")
  /\ IF ice_state = "none" THEN Goto("rtp", "ice", "") ELSE UNCHANGED pc
  /\ IF ice_state = "none" /\ zrtp_state # "none" THEN StopZrtp
     ELSE UNCHANGED <<zrtp_state, stop_event, zrtp_mq>>
  /\ UNCHANGED <<ice_state, eng, taking, keys, ice, handshake, start_event, rest>>

IceFails ==
  /\ ice_state' = "failed"
  /\ HandshakeStops

StartIce ==
  /\ pc["rtp"].at = "ice"
  /\ keepalive' = TRUE
  /\ IF cfg.icestorage
       THEN /\ handshake' = TRUE /\ dtmfex' = "open" /\ icestream' = "init"
            /\ ice_state' = "started"
       ELSE IceFails /\ UNCHANGED icestream
  /\ Done("rtp")
  /\ UNCHANGED <<zrtp_state, eng, taking, keys, mqs, events, rest>>

\* Mutant: the engine is told to stop, and not waited for.
DoCloseAtOnce ==
  /\ Take("close")
  /\ dtmfex' = IF dtmfex = "open" THEN "closed" ELSE dtmfex
  /\ IF zcontext # "null" THEN StopZrtp ELSE UNCHANGED <<zrtp_state, stop_event, zrtp_mq>>
  /\ Goto("rtp", "free", "")
  /\ UNCHANGED <<ice_state, icestream, keepalive, eng, taking, keys, handshake, start_event, rest>>

DoClose ==
  /\ Take("close")
  /\ dtmfex' = IF dtmfex = "open" THEN "closed" ELSE dtmfex
  /\ IF zcontext # "null" THEN StopZrtp ELSE UNCHANGED <<zrtp_state, stop_event, zrtp_mq>>
  /\ Goto("rtp", IF zcontext # "null" THEN "wait stop" ELSE "free", "")
  /\ UNCHANGED <<ice_state, icestream, keepalive, eng, taking, keys, handshake, start_event, rest>>

FreeStream ==
  /\ \/ pc["rtp"].at = "free" /\ UNCHANGED stop_event
     \/ pc["rtp"].at = "wait stop" /\ stop_event /\ stop_event' = FALSE
  /\ ctx' = NoKeys /\ ctrl' = NoKeys
  /\ icestream' = "none" /\ keepalive' = FALSE
  /\ stream' = "closed"
  /\ Done("rtp")
  /\ UNCHANGED <<states, dtmfex, eng, taking, secure, handshake, mqs, start_event, cfg, clicks>>

----------------------------------------------------------------------------
(* The RTP thread: callbacks of the ICE stream and of the DTMF exchange.   *)

\* Our offer is stored, and its id can go out; or one of this fails.
IceReady ==
  /\ IsIdle("rtp") /\ icestream = "init"
  /\ \/ icestream' = "ready" /\ UNCHANGED <<ice_state, handshake, dtmfex>>
     \/ icestream' = "over" /\ IceFails
  /\ UNCHANGED <<zrtp_state, keepalive, eng, taking, keys, mqs, events, pc, rest>>

\* The peer's id has come, and the peer has ours: checkDone sees it at the
\* next packet, also when the exchange is closed.  setRemoteId catches its
\* failures and onDTMFDone goes on.
DtmfDone ==
  /\ IsIdle("rtp") /\ icestream = "ready" /\ handshake
  /\ \/ icestream' = "talking" /\ UNCHANGED <<ice_state, handshake, dtmfex>>
     \/ /\ icestream' = "over" /\ ice_state' = "failed"
        /\ HandshakeStops
  /\ UNCHANGED <<zrtp_state, keepalive, eng, taking, keys, mqs, events, pc, rest>>

DtmfFails ==
  /\ IsIdle("rtp") /\ icestream = "ready" /\ dtmfex = "open"
  /\ icestream' = "over" /\ IceFails
  /\ UNCHANGED <<zrtp_state, keepalive, eng, taking, keys, mqs, events, pc, rest>>

IceFailed ==
  /\ IsIdle("rtp") /\ icestream = "talking"
  /\ icestream' = "over" /\ IceFails
  /\ UNCHANGED <<zrtp_state, keepalive, eng, taking, keys, mqs, events, pc, rest>>

IceConnected ==
  /\ IsIdle("rtp") /\ icestream = "talking"
  /\ icestream' = "over" /\ ice_state' = "connected"
  /\ BeginZrtp("rtp", "") \/ (zrtp_state # "none" /\ UNCHANGED pc)
  /\ UNCHANGED <<zrtp_state, eng, taking, handshake, dtmfex, keepalive, keys, mqs, events, rest>>

----------------------------------------------------------------------------
(* The ZRTP thread.  The library takes a NULL context and does nothing.    *)

TakeZ(m) == IsIdle("zrtp") /\ zrtp_mq # <<>> /\ Head(zrtp_mq) = m /\ zrtp_mq' = Tail(zrtp_mq)

\* Mutant: the event is set for an engine that starts only.
StartEngineQuiet ==
  /\ TakeZ("start")
  /\ zcontext' = IF zcontext = "created" THEN "hello" ELSE zcontext
  /\ start_event' = (start_event \/ zcontext = "created")
  /\ UNCHANGED <<states, engine, lost, taking, keys, ice, handshake, rtp_mq, stop_event, pc, rest>>

StartEngine ==
  /\ TakeZ("start")
  /\ zcontext' = IF zcontext = "created" THEN "hello" ELSE zcontext
  /\ start_event' = TRUE
  /\ UNCHANGED <<states, engine, lost, taking, keys, ice, handshake, rtp_mq, stop_event, pc, rest>>

\* The keys that the engine has given, and takes back when it ends.
Given == CASE zcontext = "secure" -> Directions
           [] zcontext = "half"   -> {"recv"}
           [] OTHER               -> {}

\* Mutant: the receiver's key is left where it is.
SendSecretOff(d) ==
  /\ pc["zrtp"].at = "off" /\ d \in taking
  /\ ctx' = IF d = "send" THEN [ctx EXCEPT ![d] = 0] ELSE ctx
  /\ taking' = taking \ {d}
  /\ Goto("zrtp", "flag", pc["zrtp"].then)
  /\ UNCHANGED <<states, eng, secure, ctrl, ice, handshake, mqs, events, rest>>

\* srtpSecretsOff, for one direction after the other: the key goes first and
\* then the flag.  The RTCP keys stay.
SecretsOff(d) ==
  /\ pc["zrtp"].at = "off" /\ d \in taking
  /\ ctx' = [ctx EXCEPT ![d] = 0]
  /\ taking' = taking \ {d}
  /\ Goto("zrtp", "flag", pc["zrtp"].then)
  /\ UNCHANGED <<states, eng, secure, ctrl, ice, handshake, mqs, events, rest>>

\* Mutant: the flag is not reset.
SecureStays ==
  /\ pc["zrtp"].at = "flag"
  /\ Goto("zrtp", "off", pc["zrtp"].then)
  /\ UNCHANGED <<states, eng, taking, keys, ice, handshake, mqs, events, rest>>

SecureOff ==
  /\ pc["zrtp"].at = "flag"
  /\ secure' = FALSE
  /\ Goto("zrtp", "off", pc["zrtp"].then)
  /\ UNCHANGED <<states, eng, taking, ctx, ctrl, ice, handshake, mqs, events, rest>>

\* Mutant: for an engine that was never started there is nothing to do.
StopEngineQuiet ==
  /\ TakeZ("stop")
  /\ taking' = Given
  /\ zcontext' = IF zcontext \in {"null", "created"} THEN "null" ELSE "over"
  /\ IF zcontext \in {"null", "created"} THEN UNCHANGED pc ELSE Goto("zrtp", "off", "stop")
  /\ UNCHANGED <<states, ice, engine, lost, keys, handshake, rtp_mq, events, rest>>

StopEngine ==
  /\ TakeZ("stop")
  /\ taking' = Given
  /\ zcontext' = IF zcontext = "null" THEN "null" ELSE "over"
  /\ Goto("zrtp", "off", "stop")
  /\ UNCHANGED <<states, ice, engine, lost, keys, handshake, rtp_mq, events, rest>>

EngineStopped ==
  /\ pc["zrtp"] = [at |-> "off", then |-> "stop"] /\ taking = {}
  /\ zcontext' = "null"
  /\ stop_event' = TRUE
  /\ Done("zrtp")
  /\ UNCHANGED <<states, ice, engine, lost, taking, keys, handshake, mqs, start_event, rest>>

\* A packet that is the peer's hello, or that makes no difference.
HandleInput ==
  /\ TakeZ("packet")
  /\ zcontext' \in IF zcontext \in {"hello", "quiet"} THEN {zcontext, "running"} ELSE {zcontext}
  /\ UNCHANGED <<states, ice, engine, lost, taking, keys, handshake, rtp_mq, events, pc, rest>>

\* srtpSecretsReady: a key that is there stays.
KeyReady(dirs) ==
  /\ ctx'  = [d \in Directions |-> IF d \in dirs /\ ctx[d] = 0 THEN engine ELSE ctx[d]]
  /\ ctrl' = [d \in Directions |-> IF d \in dirs /\ ctx[d] = 0 THEN engine ELSE ctrl[d]]

\* A side may receive with the new keys before it sends with them.
SecretsReady ==
  /\ TakeZ("packet") /\ zcontext = "running"
  /\ zcontext' = "half"
  /\ KeyReady({"recv"})
  /\ UNCHANGED <<states, ice, engine, lost, taking, secure, handshake, rtp_mq, events, pc, rest>>

SecretsOn ==
  /\ zcontext' = "secure"
  /\ KeyReady(Directions)
  /\ IF secure THEN UNCHANGED <<secure, zrtp_state, rtp_mq>>
               ELSE /\ secure' = TRUE /\ zrtp_state' = "connected"
                    /\ ToRtp("stop handshake")
  /\ UNCHANGED <<ice_state, ice, engine, lost, taking, handshake, events, pc, rest>>

\* The peer's packet ends the negotiation, on the ZRTP thread.
Negotiated == TakeZ("packet") /\ zcontext \in {"running", "half"} /\ SecretsOn

\* So does, on the RTP thread, media that the new key opens: it stands for the
\* packet.  The engine's lock keeps the ZRTP thread out of the engine.
Conf2AckSecure ==
  /\ Hears /\ ~handshake /\ ctx["recv"] # 0
  /\ IsIdle("zrtp") /\ zcontext = "half"
  /\ SecretsOn
  /\ UNCHANGED zrtp_mq

\* By a packet, or when nothing comes back.
NegotiationFailed ==
  /\ \/ TakeZ("packet") /\ zcontext \in {"running", "half", "secure"}
     \/ IsIdle("zrtp") /\ zcontext \in {"running", "half"} /\ UNCHANGED zrtp_mq
  /\ taking' = Given
  /\ zcontext' = "over"
  /\ Goto("zrtp", "off", "fail")
  /\ UNCHANGED <<states, ice, engine, lost, keys, handshake, rtp_mq, events, rest>>

EngineFailed ==
  /\ pc["zrtp"] = [at |-> "off", then |-> "fail"] /\ taking = {}
  /\ zrtp_state' = "failed"
  /\ Goto("zrtp", "failed", "")
  /\ UNCHANGED <<ice_state, ice, eng, taking, keys, handshake, mqs, events, rest>>

\* Nobody says hello: the engine goes on listening.
NotSuppOther ==
  /\ IsIdle("zrtp") /\ zcontext = "hello"
  /\ zcontext' = "quiet"
  /\ zrtp_state' = "failed"
  /\ Goto("zrtp", "failed", "")
  /\ UNCHANGED <<ice_state, ice, engine, lost, taking, keys, handshake, mqs, events, rest>>

\* The first try ends in ICE, the second one for good.
TryFailed ==
  /\ pc["zrtp"].at = "failed"
  /\ IF ice_state = "none" THEN ToRtp("start ice")
                           ELSE ToRtp("stop handshake")
  /\ Done("zrtp")
  /\ UNCHANGED <<states, ice, eng, taking, keys, handshake, zrtp_mq, events, rest>>

----------------------------------------------------------------------------
Close ==
  /\ stream = "open"
  /\ stream' = "closing"
  /\ ToRtp("close")
  /\ UNCHANGED <<states, ice, eng, taking, keys, handshake, zrtp_mq, events, pc, cfg, clicks>>

Init ==
  /\ cfg \in Configs
  /\ zrtp_state = "none" /\ ice_state = "none"
  /\ zcontext = "null" /\ engine = 0 /\ lost = {} /\ taking = {}
  /\ secure = FALSE /\ ctx = NoKeys /\ ctrl = NoKeys
  /\ handshake = FALSE /\ dtmfex = "none" /\ icestream = "none" /\ keepalive = FALSE
  /\ stream = "open"
  /\ rtp_mq = <<>> /\ zrtp_mq = <<>>
  /\ start_event = FALSE /\ stop_event = FALSE
  /\ pc = [t \in Threads |-> Idle] /\ clicks = 0

Starts(t) == FindEngine(t) \/ CreateEngine(t) \/ QueueStart(t) \/ Started(t)
RtpStep ==
  \/ Starts("rtp") \/ DoStartIce \/ StartIce \/ StopHandshake \/ DoClose \/ FreeStream
ZrtpStep ==
  \/ StartEngine \/ StopEngine \/ (\E d \in Directions : SecretsOff(d)) \/ SecureOff
  \/ EngineStopped \/ EngineFailed \/ HandleInput \/ SecretsReady \/ Negotiated
  \/ NegotiationFailed \/ NotSuppOther \/ TryFailed
IceStep == IceReady \/ DtmfDone \/ DtmfFails \/ IceFailed \/ IceConnected
GuiStep == GoSecure \/ Starts("gui")
Next == RtpStep \/ ZrtpStep \/ IceStep \/ GuiStep \/ ZrtpPacket \/ Conf2AckSecure \/ DtmfStart \/ Close

Spec == Init /\ [][Next]_svars

(* The threads poll for ever, and pj_ioqueue_poll leaves no queue out;     *)
(* a click's handler goes on.  The network, ICE and the ZRTP engine's      *)
(* callbacks owe nothing.                                                  *)
FairSpec ==
  /\ Spec
  /\ WF_svars(RtpStep) /\ WF_svars(ZrtpStep)
  /\ WF_svars(Starts("gui"))

----------------------------------------------------------------------------
(* Properties.                                                             *)

\* A stream that says it encrypts does so with the keys of the engine that
\* runs, in both directions and for RTCP too, whatever else is queued or has
\* failed.  A key may be missing only between the two writes of srtpSecretsOff
\* that take it and reset the flag; and two threads may have made an engine
\* each, so that one is lost with what it has given.
SecureKeys ==
  secure /\ lost = {} =>
    /\ zcontext = "secure" \/ pc["zrtp"].at \in {"off", "flag"}
    /\ \A d \in Directions : \/ ctx[d] = engine /\ ctrl[d] = engine
                             \/ ctx[d] = 0 /\ pc["zrtp"].at = "flag"

\* A key outlives no engine but one that was lost: secretsReady ignores a new
\* key where an old one is still there, so that the next negotiation would be
\* of no use.
NoOldKeys == \A d \in Directions : ctx[d] \in {0, engine} \cup lost

\* do_close waits for the engine before it frees keys, sockets and events:
\* nothing that was still queued gives the stream keys again.
ClosedHasNoKeys == stream = "closed" => ctx = NoKeys /\ (secure => lost # {})

\* While do_close waits, the ZRTP thread has set the event or will: also when
\* do_start_ice has asked for the same engine to be stopped before.
StopIsAnswered ==
  pc["rtp"].at = "wait stop" /\ ~stop_event =>
    (\E i \in DOMAIN zrtp_mq : zrtp_mq[i] = "stop") \/ pc["zrtp"].then = "stop"

\* handleDTMF hands the peer's tones on during a handshake only: an exchange
\* of ids that is not closed is never deaf, whoever else ends the handshake.
ExchangeIsHeard == dtmfex = "open" => handshake

\* With skipzrtp1 only the RTP thread starts engines, and a close that the
\* reactor waits for comes to its end.
CloseEnds == cfg.skipzrtp1 => (stream = "closing" ~> stream = "closed")

\* The RTP thread pumps packets "during handshake": it does not wait for
\* ever in startZrtp.  Without skipzrtp1 it may, since one event is waited for
\* by two threads; close then waits for ever, and with it the reactor.
RtpThreadGoesOn == pc["rtp"].at = "wait" ~> pc["rtp"].at # "wait"
=============================================================================
