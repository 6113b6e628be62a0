----------------------------- MODULE Rendezvous -----------------------------
(***************************************************************************)
(* How the boxes at the two ends of a call find each other for ICE:        *)
(* each stores its description with the storage server (icestream.pxi) and  *)
(* sends the id it is given through the voice channel, as DTMF digits       *)
(* (dtmfexchange.pxi): '*', the id and its checksum, or '#' in front once    *)
(* the other's id is known.                                                *)
(*                                                                         *)
(* Time counts in halves of tms, the time an id takes.  An id is its first  *)
(* character and its digits; each may be lost, in the network or because the *)
(* other end is sending itself.  The last digit is sent in many packets: the *)
(* first one completes the id, a later one makes use of it.  A mixture of    *)
(* two ids is taken to fail its checksum.                                    *)
(***************************************************************************)
EXTENDS IceStorage

Boxes == {"out", "in"}   \* the box that has made the call, the one that is called
Peer(b) == IF b = "out" THEN "in" ELSE "out"

ASSUME RendezvousAssumption ==
  /\ Boxes \cup {"other"} \subseteq Offers
  /\ Users = Boxes \cup {"other"}

Tms     == 2
NoTimer == 2 * Tms + 1

VARIABLES
  box,   \* box -> the state of its stream, see BoxType
  due,   \* the boxes whose transmission is to be advanced before time goes on
  calm   \* nothing fails, and nothing is lost, from now on

xvars == <<data, box, due, calm>>

BoxType ==
  [ice : {"none", "gathering", "ready", "started", "connected", "failed"},
   tries : 0 .. 1,                    \* urlopen: attempts that failed
   remoteStarted : BOOLEAN,           \* remote_started_ice
   exchange : {"none", "open", "closed"},   \* dtmfex; the handshake is on while open
   insync : BOOLEAN, localid : Ids \cup {None},
   remoteid : Ids \cup {None}, remote_has_my_id : BOOLEAN, done : BOOLEAN,
   clean : BOOLEAN,                   \* receivedDigits is empty
   timer : 0 .. NoTimer,              \* localidout_timer
   phase : {"idle", "head", "digits", "over"},   \* of dtmfOutChars
   confirm : BOOLEAN,                 \* its first character is '#'
   loaded : Offers \cup {None}]       \* remote_data

Fresh ==
  [ice |-> "none", tries |-> 0, remoteStarted |-> FALSE, exchange |-> "none",
   insync |-> FALSE, localid |-> None, remoteid |-> None,
   remote_has_my_id |-> FALSE, done |-> FALSE, clean |-> TRUE, timer |-> NoTimer,
   phase |-> "idle", confirm |-> FALSE, loaded |-> None]

ASSUME FreshAssumption == Fresh \in BoxType

Open(b)    == box[b].exchange = "open"
Sending(e) == e.phase # "idle"
Set(b, e)  == box' = [box EXCEPT ![b] = e]
Closed(e)  == [e EXCEPT !.exchange = "closed", !.timer = NoTimer, !.phase = "idle"]
\* onICEFailed
Failed(e)  == Closed([e EXCEPT !.ice = "failed"])

----------------------------------------------------------------------------
(* The stream starts ICE: its user asks for it, the first ZRTP attempt has  *)
(* failed, or the other end has started.                                   *)

do_start_ice(b) ==
  /\ box[b].ice = "none" /\ box[b].exchange = "none"
  /\ Set(b, [box[b] EXCEPT !.ice = "gathering", !.exchange = "open",
                           !.insync = box[b].remoteStarted])
  /\ UNCHANGED <<data, due, calm>>

\* Who has not heard from the other end begins at once, the other waits for it;
\* insync, tries and remoteStarted are not read any more.
LocalIdReceived(e, i) ==
  [e EXCEPT !.ice = "ready", !.tries = 0, !.insync = TRUE, !.remoteStarted = TRUE, !.localid = i,
            !.timer = IF e.insync THEN @ ELSE 0]

\* storeConf: PUT, which is tried twice when no answer comes.  The server may
\* have stored the description for an answer that was lost.
storeConf(b) ==
  /\ box[b].ice = "gathering" /\ Open(b)
  /\ \E i \in Ids : Put(b, i, b) /\ Set(b, LocalIdReceived(box[b], i))
  /\ UNCHANGED <<due, calm>>

storeConfUnanswered(b) ==
  /\ box[b].ice = "gathering" /\ Open(b) /\ ~calm
  /\ \/ UNCHANGED data
     \/ \E i \in Ids : Put(b, i, b)
  /\ Set(b, IF box[b].tries = 0 THEN [box[b] EXCEPT !.tries = 1] ELSE Failed(box[b]))
  /\ UNCHANGED <<due, calm>>

----------------------------------------------------------------------------
(* checkDone, with onDone: the other's description is loaded and ICE       *)
(* starts.  The result e is what the caller of checkDone goes on with.      *)

Ready(e) == ~e.done /\ e.remote_has_my_id /\ e.remoteid # None

loadConf(e, ok) ==
  IF Ready(e) THEN IF ok THEN Found(e.remoteid) # None ELSE ~calm \/ Found(e.remoteid) = None
              ELSE ok

checkDone(e, ok) ==
  CASE ~Ready(e) -> e
    [] Ready(e) /\ ok  -> [e EXCEPT !.done = TRUE, !.ice = "started", !.loaded = Found(e.remoteid)]
    [] Ready(e) /\ ~ok -> [Failed(e) EXCEPT !.done = TRUE]

\* Mutant: the next id is due only when none has been heard yet.
dispatchOnce(e, d) ==
  [e EXCEPT !.timer = IF e.localid = None \/ e.remoteid # None THEN NoTimer ELSE d]

\* Nothing is sent before the own id is known.
dispatchIdTransmission(e, d) == [e EXCEPT !.timer = IF e.localid = None THEN NoTimer ELSE d]

----------------------------------------------------------------------------
(* Sending.                                                                *)

\* Mutant: the confirmation is sent from the start.
ConfirmAlways(e) == TRUE

Confirms(e) == e.remoteid # None

\* A timer that fires after the exchange was closed does nothing.
localidTimedout(b) ==
  /\ box[b].timer = 0 /\ due = {}
  /\ Set(b, IF Open(b) /\ ~Sending(box[b])
              THEN [box[b] EXCEPT !.timer = NoTimer, !.phase = "head", !.confirm = Confirms(box[b])]
              ELSE [box[b] EXCEPT !.timer = NoTimer])
  /\ UNCHANGED <<data, due, calm>>

\* The called box waits twice as long before it repeats its id, so that two that
\* have collided do not collide again.
Pause(b) == IF b = "in" THEN 2 * Tms ELSE Tms

\* The last packet of an id; confirm is not read any more.
dtmfSendPacketLast(b) ==
  /\ box[b].phase = "over"
  /\ \E ok \in BOOLEAN :
       /\ loadConf(box[b], ok)
       /\ Set(b, dispatchIdTransmission([checkDone(box[b], ok) EXCEPT !.phase = "idle", !.confirm = FALSE],
                                        Pause(b)))
  /\ UNCHANGED <<data, due, calm>>

----------------------------------------------------------------------------
(* Hearing: what box e makes of a part of the id of box s.  Once it knows  *)
(* the other's id it does not read receivedDigits any more: clean is       *)
(* FALSE then.                                                             *)

Interpret(e, part, s) ==
  CASE part = "head"  -> [e EXCEPT !.clean = (e.remoteid = None), !.remote_has_my_id = @ \/ s.confirm]
    [] part \in {"whole", "once"} ->
                         [e EXCEPT !.clean = FALSE,
                            !.remoteid = IF @ = None /\ e.clean THEN s.localid ELSE @]
    [] part = "some"  -> [e EXCEPT !.clean = FALSE]

inputData(e, part, s) ==
  LET f == [e EXCEPT !.insync = TRUE] IN
  IF e.exchange = "closed" \/ Sending(e) THEN f
  ELSE LET g == dispatchIdTransmission(f, 1) IN
       IF e.done THEN g ELSE Interpret(g, part, s)

Parts(phase) == IF phase = "head" THEN {"head"} ELSE {"whole", "once", "some"}
NextPhase(phase) == IF phase = "head" THEN "digits" ELSE "over"

\* handleDTMF: a '*' starts ICE at the box that hears it, if it has not started.
Started(e, part, s) ==
  IF part = "head" /\ ~s.confirm /\ e.exchange = "none" THEN [e EXCEPT !.remoteStarted = TRUE] ELSE e

\* The part of an id that box b sends is lost, or heard by the other box.
Lose(b) ==
  /\ b \in due /\ box[b].phase \in {"head", "digits"} /\ ~calm
  /\ Set(b, [box[b] EXCEPT !.phase = NextPhase(@)])
  /\ due' = due \ {b} /\ UNCHANGED <<data, calm>>

\* The packet that makes use of an id is the next one that is heard.
Repeated(e, part) == part = "whole" /\ ~Ready(e)
Hears(e, part, s, ok) ==
  IF Repeated(e, part) THEN checkDone(inputData(e, part, s), ok)
                       ELSE inputData(checkDone(e, ok), part, s)

Carry(b, part) ==
  LET s == box[b]
      e == Started(box[Peer(b)], part, s) IN
  /\ b \in due /\ s.phase \in {"head", "digits"} /\ part \in Parts(s.phase)
  /\ part = "some" => ~calm
  /\ \E ok \in BOOLEAN :
       /\ Open(Peer(b)) => loadConf(IF Repeated(e, part) THEN inputData(e, part, s) ELSE e, ok)
       /\ box' = [box EXCEPT
            ![b]       = [s EXCEPT !.phase = NextPhase(@)],
            ![Peer(b)] = IF Open(Peer(b)) THEN Hears(e, part, s, ok) ELSE e]
  /\ due' = {c \in due \ {b} : Sending(box'[c])} /\ UNCHANGED <<data, calm>>

----------------------------------------------------------------------------
(* What else happens: ICE itself, the end of the call, the clock, and the   *)
(* other users of the server.                                              *)

\* onICEConnected needs checks that the other end answers.
Connect(b) ==
  /\ box[b].ice = "started" /\ box[b].loaded = Peer(b)
  /\ box[Peer(b)].ice \in {"started", "connected"} /\ box[Peer(b)].loaded = b
  /\ Set(b, [box[b] EXCEPT !.ice = "connected"])
  /\ UNCHANGED <<data, due, calm>>

NegotiationFails(b) ==
  /\ box[b].ice = "started" /\ ~calm
  /\ Set(b, Failed(box[b])) /\ due' = due \ {b} /\ UNCHANGED <<data, calm>>

\* stopHandshake, once ZRTP has succeeded over ICE.
stopHandshake(b) ==
  /\ Open(b) /\ box[b].ice = "connected" /\ box[Peer(b)].ice = "connected"
  /\ Set(b, Closed(box[b])) /\ due' = due \ {b} /\ UNCHANGED <<data, calm>>

Busy == \E b \in Boxes : box[b].phase = "over" \/ box[b].timer = 0
Tick ==
  /\ due = {} /\ ~Busy
  /\ \E b \in Boxes : Sending(box[b]) \/ box[b].timer # NoTimer
  /\ box' = [b \in Boxes |-> IF box[b].timer = NoTimer THEN box[b]
                             ELSE [box[b] EXCEPT !.timer = @ - 1]]
  /\ due' = {b \in Boxes : Sending(box[b])}
  /\ UNCHANGED <<data, calm>>

Others ==
  /\ \E i \in Ids : expireSettings(i) \/ Put("other", i, "other") \/ Post("other", i, "other")
  /\ UNCHANGED <<box, due, calm>>

Calm == ~calm /\ calm' = TRUE /\ UNCHANGED <<data, box, due>>

RendezvousInit ==
  /\ data = [i \in Ids |-> None] /\ box = [b \in Boxes |-> Fresh]
  /\ due = {} /\ calm = FALSE

Store == \E b \in Boxes : storeConf(b) \/ storeConfUnanswered(b)
Send  == \E b \in Boxes : localidTimedout(b) \/ dtmfSendPacketLast(b)
Hear  == \E b \in Boxes : Lose(b) \/ \E part \in {"head", "whole", "once", "some"} : Carry(b, part)
Ice   == \E b \in Boxes : do_start_ice(b) \/ Connect(b) \/ NegotiationFails(b) \/ stopHandshake(b)

RendezvousNext == Ice \/ Store \/ Send \/ Hear \/ Tick \/ Others \/ Calm

RendezvousSpec == RendezvousInit /\ [][RendezvousNext]_xvars

\* The threads go on.
FairRendezvousSpec == RendezvousSpec /\ WF_xvars(Tick \/ Send \/ Hear)

----------------------------------------------------------------------------
(* Properties.                                                             *)

\* Who has loaded the other's description knows that the other has its id, too:
\* both can start ICE, whatever is lost and whoever sends when.
DoneIsMutual ==
  \A b \in Boxes : box[b].done =>
    /\ box[Peer(b)].remoteid = box[b].localid
    /\ box[b].remoteid = box[Peer(b)].localid

\* What is found by an id is what was stored under it, until it is removed or
\* its owner stores something else, whoever else uses the server.
OfferIsKept ==
  [][\A i \in Ids : data[i] # None /\ data[i].owner # "other"
       => data'[i] \in {None, data[i]}]_data

\* Once nothing is lost any more two boxes that have both stored their
\* description are both done some time, whatever they have sent and heard till
\* then and however they have collided, unless ICE fails at one of them.
Meets ==
  (calm /\ \A b \in Boxes : Open(b) /\ box[b].localid # None)
    ~> ((\A b \in Boxes : box[b].done) \/ \E b \in Boxes : box[b].ice = "failed")
=============================================================================
