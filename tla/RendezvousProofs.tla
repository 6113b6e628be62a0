-------------------------- MODULE RendezvousProofs --------------------------
(***************************************************************************)
(* The rendezvous of two boxes for every set of ids and of other users of  *)
(* the storage server: types, what the server keeps, and that whoever has  *)
(* done the exchange is known to the other end.                            *)
(***************************************************************************)
EXTENDS Rendezvous, TLAPS

Entries == [offer : Offers, owner : Users]

DataOK == data \in [Ids -> Entries \cup {None}]

XTypeOK ==
  /\ DataOK
  /\ box \in [Boxes -> BoxType] /\ due \in SUBSET Boxes /\ calm \in BOOLEAN

\* What box b knows of its own id and of the other's.
IdsOK(b) ==
  /\ box[b].ice \in {"none", "gathering"} => box[b].localid = None
  /\ Sending(box[b]) \/ box[b].timer # NoTimer => box[b].localid # None
  /\ box[b].confirm => box[b].remoteid # None
  /\ box[b].remoteid # None => box[b].remoteid = box[Peer(b)].localid
  /\ box[b].remote_has_my_id => box[Peer(b)].remoteid # None
  /\ box[b].done => box[b].remote_has_my_id /\ box[b].remoteid # None

IdsInv == \A b \in Boxes : IdsOK(b)

\* What a box may become by all it does and hears from a box s, once it has its id.
Lawful(e, h, s) ==
  /\ h \in BoxType /\ h.localid = e.localid
  /\ h.ice \in {"none", "gathering"} => e.ice \in {"none", "gathering"}
  /\ Sending(h) \/ h.timer # NoTimer => e.localid # None \/ Sending(e) \/ e.timer # NoTimer
  /\ h.confirm => e.confirm \/ h.remoteid # None
  /\ h.remoteid # e.remoteid => e.remoteid = None /\ h.remoteid = s.localid
  /\ h.remote_has_my_id => e.remote_has_my_id \/ s.confirm
  /\ e.remote_has_my_id => h.remote_has_my_id
  /\ h.done => e.done \/ (h.remote_has_my_id /\ h.remoteid # None)

----------------------------------------------------------------------------
(* The operators on boxes.                                                 *)

\* A box with one field set to another value of its type is a box.
LEMMA BoxFields ==
  ASSUME NEW e \in BoxType
  PROVE  /\ \A v \in {"none", "gathering", "ready", "started", "connected", "failed"} :
              [e EXCEPT !.ice = v] \in BoxType
         /\ \A v \in 0 .. 1 : [e EXCEPT !.tries = v] \in BoxType
         /\ \A v \in {"none", "open", "closed"} : [e EXCEPT !.exchange = v] \in BoxType
         /\ \A v \in 0 .. NoTimer : [e EXCEPT !.timer = v] \in BoxType
         /\ \A v \in {"idle", "head", "digits", "over"} : [e EXCEPT !.phase = v] \in BoxType
         /\ \A v \in Ids \cup {None} :
              [e EXCEPT !.localid = v] \in BoxType /\ [e EXCEPT !.remoteid = v] \in BoxType
         /\ \A v \in BOOLEAN :
              /\ [e EXCEPT !.remoteStarted = v] \in BoxType /\ [e EXCEPT !.insync = v] \in BoxType
              /\ [e EXCEPT !.remote_has_my_id = v] \in BoxType /\ [e EXCEPT !.done = v] \in BoxType
              /\ [e EXCEPT !.clean = v] \in BoxType /\ [e EXCEPT !.confirm = v] \in BoxType
         /\ \A v \in Offers \cup {None} : [e EXCEPT !.loaded = v] \in BoxType
  BY SMTT(20) DEF BoxType

LEMMA Ranges ==
  /\ NoTimer = 5 /\ Tms = 2 /\ {0, 1, Tms, 2 * Tms, NoTimer} \subseteq 0 .. NoTimer
  /\ 0 \in 0 .. 1 /\ 1 \in 0 .. 1
  BY DEF NoTimer, Tms

LEMMA LawfulStays == ASSUME NEW e \in BoxType, NEW s PROVE Lawful(e, e, s)
  BY DEF Lawful

LEMMA LawfulTwice ==
  ASSUME NEW e \in BoxType, NEW g \in BoxType, NEW h \in BoxType, NEW s,
         Lawful(e, g, s), Lawful(g, h, s)
  PROVE  Lawful(e, h, s)
  <1>1. h \in BoxType /\ h.localid = e.localid
    BY DEF Lawful
  <1>2. h.ice \in {"none", "gathering"} => e.ice \in {"none", "gathering"}
    BY DEF Lawful
  <1>3. Sending(h) \/ h.timer # NoTimer => e.localid # None \/ Sending(e) \/ e.timer # NoTimer
    BY DEF Lawful
  <1>4. h.confirm => e.confirm \/ h.remoteid # None
    BY DEF Lawful
  <1>5. h.remoteid # e.remoteid => e.remoteid = None /\ h.remoteid = s.localid
    BY DEF Lawful
  <1>6. h.remote_has_my_id => e.remote_has_my_id \/ s.confirm
    BY DEF Lawful
  <1>7. e.remote_has_my_id => h.remote_has_my_id
    BY DEF Lawful
  <1>8. h.done => e.done \/ (h.remote_has_my_id /\ h.remoteid # None)
    BY DEF Lawful
  <1> QED BY <1>1, <1>2, <1>3, <1>4, <1>5, <1>6, <1>7, <1>8 DEF Lawful

LEMMA ClosedType == ASSUME NEW e \in BoxType PROVE Closed(e) \in BoxType
  <1> DEFINE f == [e EXCEPT !.exchange = "closed"]
             g == [f EXCEPT !.timer = NoTimer]
             h == [g EXCEPT !.phase = "idle"]
  <1>1. f \in BoxType
    BY BoxFields
  <1>2. g \in BoxType
    <2> HIDE DEF f
    <2> QED BY <1>1, BoxFields, Ranges
  <1>3. h \in BoxType
    <2> HIDE DEF g
    <2> QED BY <1>2, BoxFields
  <1> QED BY <1>3 DEF Closed

LEMMA ClosedLawful ==
  ASSUME NEW e \in BoxType, NEW s
  PROVE  /\ Closed(e) \in BoxType /\ Lawful(e, Closed(e), s)
  <1> DEFINE h == Closed(e)
  <1>1. /\ h.localid = e.localid /\ h.ice = e.ice /\ h.phase = "idle" /\ h.timer = NoTimer
        /\ h.confirm = e.confirm /\ h.remoteid = e.remoteid
        /\ h.remote_has_my_id = e.remote_has_my_id /\ h.done = e.done
    BY DEF Closed, BoxType
  <1>2. h \in BoxType
    BY ClosedType
  <1> HIDE DEF h
  <1>3. Lawful(e, h, s)
    BY <1>1, <1>2 DEF Lawful, Sending
  <1> QED BY <1>2, <1>3 DEF h

LEMMA FailedLawful ==
  ASSUME NEW e \in BoxType, NEW s
  PROVE  /\ Failed(e) \in BoxType /\ Lawful(e, Failed(e), s)
  <1> DEFINE f == [e EXCEPT !.ice = "failed"]
  <1>1. f \in BoxType
    BY BoxFields
  <1>2. Lawful(e, f, s)
    BY <1>1 DEF Lawful, BoxType, Sending
  <1>3. Failed(e) = Closed(f)
    BY DEF Failed
  <1> HIDE DEF f
  <1> QED BY <1>1, <1>2, <1>3, ClosedLawful, LawfulTwice

LEMMA FoundType == ASSUME DataOK, NEW i \in Ids PROVE Found(i) \in Offers \cup {None}
  BY DEF DataOK, Found, Entries

LEMMA CheckDoneLawful ==
  ASSUME DataOK, NEW e \in BoxType, NEW ok \in BOOLEAN, NEW s
  PROVE  checkDone(e, ok) \in BoxType /\ Lawful(e, checkDone(e, ok), s)
  <1> DEFINE f == [e EXCEPT !.done = TRUE]
  <1>1. f \in BoxType
    BY BoxFields
  <1>2. Ready(e) => Lawful(e, f, s)
    BY <1>1 DEF Lawful, BoxType, Sending, Ready
  <1>3. CASE ~Ready(e)
    BY <1>3, LawfulStays DEF checkDone
  <1>4. CASE Ready(e) /\ ok
    <2> DEFINE g == [f EXCEPT !.ice = "started"]
               h == [g EXCEPT !.loaded = Found(e.remoteid)]
    <2>1. Found(e.remoteid) \in Offers \cup {None}
      BY <1>4, FoundType DEF Ready, BoxType
    <2>2. checkDone(e, ok) = h
      BY <1>4 DEF checkDone
    <2>3. g \in BoxType /\ Lawful(f, g, s)
      <3> HIDE DEF f
      <3>1. g \in BoxType
        BY <1>1, BoxFields
      <3> QED BY <1>1, <3>1 DEF Lawful, BoxType, Sending
    <2>4. h \in BoxType /\ Lawful(g, h, s)
      <3> HIDE DEF g
      <3>1. h \in BoxType
        BY <2>1, <2>3, BoxFields
      <3> QED BY <2>3, <3>1 DEF Lawful, BoxType, Sending
    <2> HIDE DEF f, g, h
    <2>5. Lawful(e, g, s)
      BY <1>1, <1>2, <1>4, <2>3, LawfulTwice
    <2> QED BY <2>2, <2>3, <2>4, <2>5, LawfulTwice
  <1>5. CASE Ready(e) /\ ~ok
    <2> DEFINE g == Failed(e)
               h == [g EXCEPT !.done = TRUE]
    <2>1. checkDone(e, ok) = h
      BY <1>5 DEF checkDone
    <2>2. g \in BoxType /\ Lawful(e, g, s)
      BY FailedLawful
    <2>3. g.remoteid = e.remoteid /\ g.remote_has_my_id = e.remote_has_my_id
      BY DEF Failed, Closed, BoxType
    <2> HIDE DEF g
    <2>4. h \in BoxType
      BY <2>2, BoxFields
    <2>5. Lawful(g, h, s)
      BY <1>5, <2>2, <2>3, <2>4 DEF Lawful, BoxType, Sending, Ready
    <2> QED BY <2>1, <2>2, <2>4, <2>5, LawfulTwice
  <1> QED BY <1>3, <1>4, <1>5

LEMMA InterpretLawful ==
  ASSUME NEW e \in BoxType, NEW s \in BoxType, NEW part \in {"head", "whole", "once", "some"}
  PROVE  /\ Interpret(e, part, s) \in BoxType /\ Lawful(e, Interpret(e, part, s), s)
  <1>1. CASE part = "head"
    <2> DEFINE f == [e EXCEPT !.clean = (e.remoteid = None)]
               h == [f EXCEPT !.remote_has_my_id = @ \/ s.confirm]
    <2>1. f \in BoxType /\ f.remote_has_my_id = e.remote_has_my_id
      <3>1. (e.remoteid = None) \in BOOLEAN
        OBVIOUS
      <3>2. f \in BoxType
        BY <3>1, BoxFields
      <3> QED BY <3>2 DEF BoxType
    <2>2. h \in BoxType
      <3> HIDE DEF f
      <3>1. (f.remote_has_my_id \/ s.confirm) \in BOOLEAN
        OBVIOUS
      <3> QED BY <2>1, <3>1, BoxFields
    <2>3. Interpret(e, part, s) = h
      BY <1>1, <2>1 DEF Interpret
    <2> QED BY <2>2, <2>3 DEF Lawful, BoxType, Sending
  <1>2. CASE part \in {"whole", "once"}
    <2> DEFINE f == [e EXCEPT !.clean = FALSE]
               h == [f EXCEPT !.remoteid = IF @ = None /\ e.clean THEN s.localid ELSE @]
    <2>1. f \in BoxType /\ f.remoteid = e.remoteid
      <3>1. f \in BoxType
        BY BoxFields
      <3> QED BY <3>1 DEF BoxType
    <2>2. h \in BoxType
      <3> HIDE DEF f
      <3>1. (IF f.remoteid = None /\ e.clean THEN s.localid ELSE f.remoteid) \in Ids \cup {None}
        BY <2>1 DEF BoxType
      <3> QED BY <2>1, <3>1, BoxFields
    <2>3. Interpret(e, part, s) = h
      BY <1>2, <2>1 DEF Interpret
    <2> QED BY <2>2, <2>3 DEF Lawful, BoxType, Sending
  <1>3. CASE part = "some"
    <2>1. [e EXCEPT !.clean = FALSE] \in BoxType
      BY BoxFields
    <2> QED BY <1>3, <2>1 DEF Interpret, Lawful, BoxType, Sending
  <1> QED BY <1>1, <1>2, <1>3

LEMMA DispatchLawful ==
  ASSUME NEW e \in BoxType, NEW d \in 0 .. NoTimer, NEW s
  PROVE  /\ dispatchIdTransmission(e, d) \in BoxType /\ Lawful(e, dispatchIdTransmission(e, d), s)
  <1>1. (IF e.localid = None THEN NoTimer ELSE d) \in 0 .. NoTimer
    BY Ranges
  <1>2. dispatchIdTransmission(e, d) \in BoxType
    BY <1>1, BoxFields DEF dispatchIdTransmission
  <1> QED BY <1>2 DEF Lawful, BoxType, Sending, dispatchIdTransmission

LEMMA InputDataLawful ==
  ASSUME NEW e \in BoxType, NEW s \in BoxType, NEW part \in {"head", "whole", "once", "some"}
  PROVE  /\ inputData(e, part, s) \in BoxType /\ Lawful(e, inputData(e, part, s), s)
  <1> DEFINE f == [e EXCEPT !.insync = TRUE]
             g == dispatchIdTransmission(f, 1)
             h == Interpret(g, part, s)
  <1>1. f \in BoxType
    BY BoxFields
  <1>2. Lawful(e, f, s)
    BY <1>1 DEF Lawful, BoxType, Sending
  <1>3. inputData(e, part, s) \in {f, g, h}
    BY DEF inputData
  <1> HIDE DEF f
  <1>4. g \in BoxType /\ Lawful(f, g, s)
    BY <1>1, DispatchLawful, Ranges
  <1> HIDE DEF g
  <1>5. h \in BoxType /\ Lawful(g, h, s)
    BY <1>4, InterpretLawful
  <1> HIDE DEF h
  <1>6. Lawful(e, g, s)
    BY <1>1, <1>2, <1>4, LawfulTwice
  <1>7. Lawful(e, h, s)
    BY <1>4, <1>5, <1>6, LawfulTwice
  <1> QED BY <1>1, <1>2, <1>3, <1>4, <1>5, <1>6, <1>7

LEMMA HearsLawful ==
  ASSUME DataOK, NEW e \in BoxType, NEW s \in BoxType, NEW ok \in BOOLEAN,
         NEW part \in {"head", "whole", "once", "some"}
  PROVE  /\ Hears(e, part, s, ok) \in BoxType /\ Lawful(e, Hears(e, part, s, ok), s)
  <1>1. CASE Repeated(e, part)
    <2>1. inputData(e, part, s) \in BoxType /\ Lawful(e, inputData(e, part, s), s)
      BY InputDataLawful
    <2> DEFINE f == inputData(e, part, s)
               h == checkDone(f, ok)
    <2>2. Hears(e, part, s, ok) = h
      BY <1>1 DEF Hears
    <2> HIDE DEF f
    <2>3. h \in BoxType /\ Lawful(f, h, s)
      BY <2>1, CheckDoneLawful DEF f
    <2> QED BY <2>1, <2>2, <2>3, LawfulTwice DEF f
  <1>2. CASE ~Repeated(e, part)
    <2> DEFINE f == checkDone(e, ok)
               h == inputData(f, part, s)
    <2>1. f \in BoxType /\ Lawful(e, f, s)
      BY CheckDoneLawful
    <2>2. Hears(e, part, s, ok) = h
      BY <1>2 DEF Hears
    <2> HIDE DEF f
    <2>3. h \in BoxType /\ Lawful(f, h, s)
      BY <2>1, InputDataLawful
    <2> QED BY <2>1, <2>2, <2>3, LawfulTwice
  <1> QED BY <1>1, <1>2

----------------------------------------------------------------------------
(* The invariant.                                                          *)

\* What the boxes do lawfully keeps what they know of each other.
LEMMA LawfulKeeps ==
  ASSUME XTypeOK, IdsInv, \A b \in Boxes : Lawful(box[b], box'[b], box[Peer(b)])
  PROVE  IdsInv'
  <1> SUFFICES ASSUME NEW b \in Boxes PROVE IdsOK(b)'
    BY DEF IdsInv
  <1>1. Peer(b) \in Boxes /\ Peer(Peer(b)) = b
    BY DEF Boxes, Peer
  <1> DEFINE e == box[b]
             s == box[Peer(b)]
             h == box'[b]
             t == box'[Peer(b)]
  <1>2. Lawful(e, h, s) /\ Lawful(s, t, e)
    BY <1>1
  <1>3. IdsOK(b) /\ IdsOK(Peer(b))
    BY <1>1 DEF IdsInv
  <1>4. h.ice \in {"none", "gathering"} => h.localid = None
    BY <1>2, <1>3 DEF Lawful, IdsOK
  <1>5. Sending(h) \/ h.timer # NoTimer => h.localid # None
    BY <1>2, <1>3 DEF Lawful, IdsOK
  <1>6. h.confirm => h.remoteid # None
    <2>1. h.confirm => e.confirm \/ h.remoteid # None
      BY <1>2 DEF Lawful
    <2>2. e.confirm => e.remoteid # None
      BY <1>3 DEF IdsOK
    <2>3. e.remoteid # None => h.remoteid # None
      BY <1>2 DEF Lawful
    <2> QED BY <2>1, <2>2, <2>3
  <1>7. h.remoteid # None => h.remoteid = t.localid
    <2>1. t.localid = s.localid
      BY <1>2 DEF Lawful
    <2>2. e.remoteid # None => e.remoteid = s.localid
      BY <1>3 DEF IdsOK
    <2>3. h.remoteid # e.remoteid => h.remoteid = s.localid
      BY <1>2 DEF Lawful
    <2> QED BY <2>1, <2>2, <2>3
  <1>8. h.remote_has_my_id => t.remoteid # None
    <2>1. h.remote_has_my_id => e.remote_has_my_id \/ s.confirm
      BY <1>2 DEF Lawful
    <2>2. e.remote_has_my_id \/ s.confirm => s.remoteid # None
      BY <1>1, <1>3 DEF IdsOK
    <2>3. s.remoteid # None => t.remoteid # None
      BY <1>2 DEF Lawful
    <2> QED BY <2>1, <2>2, <2>3
  <1>9. h.done => h.remote_has_my_id /\ h.remoteid # None
    <2>1. h.done => e.done \/ (h.remote_has_my_id /\ h.remoteid # None)
      BY <1>2 DEF Lawful
    <2>2. e.done => e.remote_has_my_id /\ e.remoteid # None
      BY <1>3 DEF IdsOK
    <2>3. /\ e.remote_has_my_id => h.remote_has_my_id
          /\ e.remoteid # None => h.remoteid # None
      BY <1>2 DEF Lawful
    <2> QED BY <2>1, <2>2, <2>3
  <1> QED BY <1>4, <1>5, <1>6, <1>7, <1>8, <1>9 DEF IdsOK

\* A step of one box is lawful for both if it is for that one.
LEMMA SetLawful ==
  ASSUME XTypeOK, NEW b \in Boxes, NEW e \in BoxType, Set(b, e), Lawful(box[b], e, box[Peer(b)])
  PROVE  /\ box' \in [Boxes -> BoxType]
         /\ \A c \in Boxes : Lawful(box[c], box'[c], box[Peer(c)])
  <1>1. box' = [box EXCEPT ![b] = e] /\ box \in [Boxes -> BoxType]
    BY DEF Set, XTypeOK
  <1>2. box'[b] = e /\ \A c \in Boxes \ {b} : box'[c] = box[c] /\ box[c] \in BoxType
    BY <1>1
  <1> QED BY <1>1, <1>2, LawfulStays

LEMMA UnchangedLawful ==
  ASSUME XTypeOK, box' = box
  PROVE  /\ box' \in [Boxes -> BoxType]
         /\ \A c \in Boxes : Lawful(box[c], box'[c], box[Peer(c)])
  <1>1. \A c \in Boxes : box[c] \in BoxType
    BY DEF XTypeOK
  <1> QED BY <1>1, LawfulStays DEF XTypeOK

LEMMA StorageTypes ==
  ASSUME XTypeOK, [RendezvousNext]_xvars
  PROVE  DataOK' /\ due' \in SUBSET Boxes /\ calm' \in BOOLEAN
  <1> USE DEF XTypeOK, DataOK
  <1>1. \A i \in Ids, b \in Boxes \cup {"other"} : Put(b, i, b) \/ expireSettings(i) => DataOK'
    BY RendezvousAssumption DEF Put, expireSettings, Entries, FreeIds
  <1>2. \A i \in Ids : Post("other", i, "other") => DataOK'
    BY RendezvousAssumption DEF Post, Entries
  <1>3. CASE Store
    <2>1. DataOK'
      BY <1>1, <1>3 DEF Store, storeConf, storeConfUnanswered
    <2> QED BY <1>3, <2>1 DEF Store, storeConf, storeConfUnanswered
  <1>4. CASE Others
    <2>1. DataOK'
      BY <1>1, <1>2, <1>4 DEF Others
    <2> QED BY <1>4, <2>1 DEF Others
  <1>5. CASE Ice \/ Send
    BY <1>5 DEF Ice, Send, do_start_ice, Connect, NegotiationFails, stopHandshake,
                localidTimedout, dtmfSendPacketLast
  <1>6. CASE Hear
    BY <1>6 DEF Hear, Lose, Carry
  <1>7. CASE Tick \/ Calm \/ UNCHANGED xvars
    BY <1>7 DEF Tick, Calm, xvars
  <1> QED BY <1>3, <1>4, <1>5, <1>6, <1>7 DEF RendezvousNext

----------------------------------------------------------------------------
(* The steps.                                                              *)

BoxesKeep == /\ box' \in [Boxes -> BoxType]
             /\ \A b \in Boxes : Lawful(box[b], box'[b], box[Peer(b)])

\* The box has its id from the server: nothing was known of it before.
LEMMA LocalIdStep ==
  ASSUME XTypeOK, IdsInv, NEW b \in Boxes, NEW i \in Ids,
         box[b].ice = "gathering", Set(b, LocalIdReceived(box[b], i))
  PROVE  box' \in [Boxes -> BoxType] /\ IdsInv'
  <1> DEFINE e  == box[b]
             e1 == [e EXCEPT !.ice = "ready"]
             e2 == [e1 EXCEPT !.tries = 0]
             e3 == [e2 EXCEPT !.insync = TRUE]
             e4 == [e3 EXCEPT !.remoteStarted = TRUE]
             e5 == [e4 EXCEPT !.localid = i]
             h  == [e5 EXCEPT !.timer = IF e.insync THEN e.timer ELSE 0]
  <1>1. e \in BoxType /\ box \in [Boxes -> BoxType]
    BY DEF XTypeOK
  <1>2. e1 \in BoxType
    BY <1>1, BoxFields
  <1>3. e2 \in BoxType
    <2> HIDE DEF e1
    <2> QED BY <1>2, BoxFields, Ranges
  <1>4. e3 \in BoxType
    <2> HIDE DEF e2
    <2> QED BY <1>3, BoxFields
  <1>5. e4 \in BoxType
    <2> HIDE DEF e3
    <2> QED BY <1>4, BoxFields
  <1>6. e5 \in BoxType
    <2> HIDE DEF e4
    <2> QED BY <1>5, BoxFields
  <1>7. h \in BoxType
    <2>1. (IF e.insync THEN e.timer ELSE 0) \in 0 .. NoTimer
      BY <1>1, Ranges DEF BoxType
    <2> HIDE DEF e5
    <2> QED BY <1>6, <2>1, BoxFields
  <1>8. LocalIdReceived(e, i) = h
    BY <1>1 DEF LocalIdReceived, BoxType
  <1>9. /\ h.ice = "ready" /\ h.localid = i /\ h.confirm = e.confirm /\ h.remoteid = e.remoteid
        /\ h.remote_has_my_id = e.remote_has_my_id /\ h.done = e.done
    BY <1>1 DEF BoxType
  <1> HIDE DEF h
  <1>10. box' = [box EXCEPT ![b] = h]
    BY <1>8 DEF Set
  <1>11. i # None
    BY StorageAssumption
  <1>12. Peer(b) \in Boxes /\ Peer(Peer(b)) = b /\ Peer(b) # b
    BY DEF Boxes, Peer
  <1>13. box'[b] = h /\ box'[Peer(b)] = box[Peer(b)]
    BY <1>1, <1>10, <1>12
  <1>14. IdsOK(b) /\ IdsOK(Peer(b)) /\ e.localid = None
    BY <1>12 DEF IdsInv, IdsOK
  <1>15. box[Peer(b)].remoteid = None
    BY <1>12, <1>14 DEF IdsOK
  <1>16. IdsOK(b)'
    <2>1. ~e.remote_has_my_id
      BY <1>14, <1>15 DEF IdsOK
    <2>2. ~h.remote_has_my_id
      BY <1>9, <2>1
    <2>3. h.confirm => h.remoteid # None
      BY <1>9, <1>14 DEF IdsOK
    <2>4. ~h.done
      BY <1>9, <1>14, <2>1 DEF IdsOK
    <2>5. h.remoteid # None => h.remoteid = box[Peer(b)].localid
      BY <1>9, <1>14 DEF IdsOK
    <2>6. h.ice \notin {"none", "gathering"} /\ h.localid # None
      BY <1>9, <1>11
    <2> QED BY <1>13, <2>2, <2>3, <2>4, <2>5, <2>6 DEF IdsOK
  <1>17. IdsOK(Peer(b))'
    BY <1>9, <1>12, <1>13, <1>14, <1>15 DEF IdsOK
  <1>18. \A c \in Boxes : c = b \/ c = Peer(b)
    BY DEF Boxes, Peer
  <1>19. IdsInv'
    BY <1>16, <1>17, <1>18 DEF IdsInv
  <1>20. box' \in [Boxes -> BoxType]
    BY <1>1, <1>7, <1>10
  <1> QED BY <1>19, <1>20

LEMMA StoreStep ==
  ASSUME XTypeOK, IdsInv, Store
  PROVE  box' \in [Boxes -> BoxType] /\ IdsInv'
  <1>1. PICK b \in Boxes : storeConf(b) \/ storeConfUnanswered(b)
    BY DEF Store
  <1>2. CASE storeConf(b)
    BY <1>2, LocalIdStep DEF storeConf
  <1>3. CASE storeConfUnanswered(b)
    <2>1. box[b] \in BoxType
      BY DEF XTypeOK
    <2>2. CASE Set(b, [box[b] EXCEPT !.tries = 1])
      <3>1. [box[b] EXCEPT !.tries = 1] \in BoxType
        BY <2>1, BoxFields, Ranges
      <3>2. Lawful(box[b], [box[b] EXCEPT !.tries = 1], box[Peer(b)])
        BY <2>1, <3>1 DEF Lawful, BoxType, Sending
      <3> QED BY <2>2, <3>1, <3>2, SetLawful, LawfulKeeps
    <2>3. CASE Set(b, Failed(box[b]))
      BY <2>1, <2>3, FailedLawful, SetLawful, LawfulKeeps
    <2> QED BY <1>3, <2>2, <2>3 DEF storeConfUnanswered
  <1> QED BY <1>1, <1>2, <1>3

LEMMA IceStep ==
  ASSUME XTypeOK, IdsInv, Ice
  PROVE  BoxesKeep
  <1>1. PICK b \in Boxes : do_start_ice(b) \/ Connect(b) \/ NegotiationFails(b) \/ stopHandshake(b)
    BY DEF Ice
  <1> DEFINE e == box[b]
  <1>2. e \in BoxType
    BY DEF XTypeOK
  <1>3. CASE do_start_ice(b)
    <2> DEFINE f == [e EXCEPT !.ice = "gathering"]
               g == [f EXCEPT !.exchange = "open"]
               h == [g EXCEPT !.insync = e.remoteStarted]
    <2>1. f \in BoxType
      BY <1>2, BoxFields
    <2>2. g \in BoxType
      <3> HIDE DEF f
      <3> QED BY <2>1, BoxFields
    <2>3. h \in BoxType
      <3>1. e.remoteStarted \in BOOLEAN
        BY <1>2 DEF BoxType
      <3> HIDE DEF g
      <3> QED BY <2>2, <3>1, BoxFields
    <2>4. Set(b, h) /\ e.ice = "none"
      BY <1>3 DEF do_start_ice
    <2>5. Lawful(e, h, box[Peer(b)])
      BY <1>2, <2>3, <2>4 DEF Lawful, BoxType, Sending
    <2> HIDE DEF h
    <2> QED BY <2>3, <2>4, <2>5, SetLawful DEF BoxesKeep
  <1>4. CASE Connect(b)
    <2> DEFINE h == [e EXCEPT !.ice = "connected"]
    <2>1. h \in BoxType /\ Set(b, h)
      BY <1>2, <1>4, BoxFields DEF Connect
    <2>2. Lawful(e, h, box[Peer(b)])
      BY <1>2, <2>1 DEF Lawful, BoxType, Sending
    <2> QED BY <2>1, <2>2, SetLawful DEF BoxesKeep
  <1>5. CASE NegotiationFails(b)
    BY <1>2, <1>5, FailedLawful, SetLawful DEF NegotiationFails, BoxesKeep
  <1>6. CASE stopHandshake(b)
    BY <1>2, <1>6, ClosedLawful, SetLawful DEF stopHandshake, BoxesKeep
  <1> QED BY <1>1, <1>3, <1>4, <1>5, <1>6

LEMMA SendStep ==
  ASSUME XTypeOK, IdsInv, Send
  PROVE  BoxesKeep
  <1>1. PICK b \in Boxes : localidTimedout(b) \/ dtmfSendPacketLast(b)
    BY DEF Send
  <1> DEFINE e == box[b]
             s == box[Peer(b)]
  <1>2. e \in BoxType /\ DataOK
    BY DEF XTypeOK
  <1>3. CASE localidTimedout(b)
    <2> DEFINE f == [e EXCEPT !.timer = NoTimer]
               g == [f EXCEPT !.phase = "head"]
               h == [g EXCEPT !.confirm = Confirms(e)]
    <2>1. Set(b, f) \/ Set(b, h)
      BY <1>3 DEF localidTimedout
    <2>2. e.timer # NoTimer
      BY <1>3, Ranges DEF localidTimedout
    <2>3. f \in BoxType
      BY <1>2, BoxFields, Ranges
    <2>4. g \in BoxType
      <3> HIDE DEF f
      <3> QED BY <2>3, BoxFields
    <2>5. h \in BoxType
      <3>1. Confirms(e) \in BOOLEAN
        BY DEF Confirms
      <3> HIDE DEF g
      <3> QED BY <2>4, <3>1, BoxFields
    <2>6. Lawful(e, f, s)
      BY <1>2, <2>3 DEF Lawful, BoxType, Sending
    <2>7. Lawful(e, h, s)
      <3>1. /\ h.localid = e.localid /\ h.ice = e.ice /\ h.confirm = (e.remoteid # None)
            /\ h.remoteid = e.remoteid /\ h.remote_has_my_id = e.remote_has_my_id /\ h.done = e.done
        <4>1. /\ h.localid = e.localid /\ h.ice = e.ice /\ h.confirm = Confirms(e)
              /\ h.remoteid = e.remoteid /\ h.remote_has_my_id = e.remote_has_my_id /\ h.done = e.done
          BY <1>2 DEF BoxType
        <4> QED BY <4>1 DEF Confirms
      <3> HIDE DEF h
      <3> QED BY <2>2, <2>5, <3>1 DEF Lawful
    <2> HIDE DEF f, h
    <2> QED BY <2>1, <2>3, <2>5, <2>6, <2>7, SetLawful DEF BoxesKeep
  <1>4. CASE dtmfSendPacketLast(b)
    <2>1. PICK ok \in BOOLEAN :
            Set(b, dispatchIdTransmission([checkDone(e, ok) EXCEPT !.phase = "idle", !.confirm = FALSE],
                                          Pause(b)))
      BY <1>4 DEF dtmfSendPacketLast
    <2> DEFINE f == checkDone(e, ok)
               g == [f EXCEPT !.phase = "idle"]
               h == [g EXCEPT !.confirm = FALSE]
               k == dispatchIdTransmission(h, Pause(b))
    <2>2. f \in BoxType /\ Lawful(e, f, s)
      BY <1>2, CheckDoneLawful
    <2>3. Set(b, k)
      BY <2>1
    <2> HIDE DEF f
    <2>4. g \in BoxType
      BY <2>2, BoxFields
    <2>5. h \in BoxType
      <3> HIDE DEF g
      <3> QED BY <2>4, BoxFields
    <2>6. Lawful(f, h, s)
      BY <2>2, <2>5 DEF Lawful, BoxType, Sending
    <2> HIDE DEF h
    <2>7. Pause(b) \in 0 .. NoTimer
      BY DEF Pause, NoTimer, Tms
    <2>8. k \in BoxType /\ Lawful(h, k, s)
      BY <2>5, <2>7, DispatchLawful
    <2> HIDE DEF k
    <2>9. Lawful(e, k, s)
      BY <1>2, <2>2, <2>5, <2>6, <2>8, LawfulTwice
    <2> QED BY <2>3, <2>8, <2>9, SetLawful DEF BoxesKeep
  <1> QED BY <1>1, <1>3, <1>4

LEMMA HearStep ==
  ASSUME XTypeOK, IdsInv, Hear
  PROVE  BoxesKeep
  <1>1. PICK b \in Boxes : Lose(b) \/ \E part \in {"head", "whole", "once", "some"} : Carry(b, part)
    BY DEF Hear
  <1>2. Peer(b) \in Boxes /\ Peer(Peer(b)) = b /\ Peer(b) # b
    BY DEF Boxes, Peer
  <1> DEFINE s == box[b]
             e == box[Peer(b)]
             h == [s EXCEPT !.phase = NextPhase(@)]
  <1>3. s \in BoxType /\ e \in BoxType /\ DataOK /\ box \in [Boxes -> BoxType]
    BY <1>2 DEF XTypeOK
  \* The sender goes on, which needs an id.
  <1>4. h \in BoxType /\ (s.phase \in {"head", "digits"} => Lawful(s, h, e))
    <2>1. NextPhase(s.phase) \in {"idle", "head", "digits", "over"}
      BY DEF NextPhase
    <2>2. h = [s EXCEPT !.phase = NextPhase(s.phase)]
      BY <1>3 DEF BoxType
    <2>3. h \in BoxType
      BY <1>3, <2>1, <2>2, BoxFields
    <2>4. /\ h.localid = s.localid /\ h.ice = s.ice /\ h.confirm = s.confirm /\ h.timer = s.timer
          /\ h.remoteid = s.remoteid /\ h.remote_has_my_id = s.remote_has_my_id /\ h.done = s.done
      BY <1>3 DEF BoxType
    <2> HIDE DEF h
    <2> QED BY <2>3, <2>4 DEF Lawful, Sending
  <1>5. CASE Lose(b)
    <2>1. Set(b, h) /\ s.phase \in {"head", "digits"}
      BY <1>5 DEF Lose
    <2> HIDE DEF h
    <2> QED BY <1>4, <2>1, SetLawful DEF BoxesKeep
  <1>6. CASE \E part \in {"head", "whole", "once", "some"} : Carry(b, part)
    <2>1. PICK part \in {"head", "whole", "once", "some"} : Carry(b, part)
      BY <1>6
    <2> DEFINE f == Started(e, part, s)
    <2>2. PICK ok \in BOOLEAN :
            box' = [box EXCEPT ![b] = h, ![Peer(b)] = IF Open(Peer(b)) THEN Hears(f, part, s, ok) ELSE f]
      BY <2>1 DEF Carry
    <2>3. s.phase \in {"head", "digits"}
      BY <2>1 DEF Carry
    <2>4. f \in BoxType /\ Lawful(e, f, s)
      <3> DEFINE g == [e EXCEPT !.remoteStarted = TRUE]
      <3>1. g \in BoxType
        BY <1>3, BoxFields
      <3>2. Lawful(e, g, s)
        BY <1>3, <3>1 DEF Lawful, BoxType, Sending
      <3>3. f = g \/ f = e
        BY DEF Started
      <3> QED BY <1>3, <3>1, <3>2, <3>3, LawfulStays
    <2> HIDE DEF f, h
    <2> DEFINE k == IF Open(Peer(b)) THEN Hears(f, part, s, ok) ELSE f
    <2>5. k \in BoxType /\ Lawful(e, k, s)
      <3>1. Hears(f, part, s, ok) \in BoxType /\ Lawful(f, Hears(f, part, s, ok), s)
        BY <1>3, <2>4, HearsLawful
      <3>2. Lawful(e, Hears(f, part, s, ok), s)
        BY <1>3, <2>4, <3>1, LawfulTwice
      <3> QED BY <2>4, <3>1, <3>2
    <2>6. box' = [box EXCEPT ![b] = h, ![Peer(b)] = k]
      BY <2>2
    <2> HIDE DEF k
    <2>7. box'[b] = h /\ box'[Peer(b)] = k /\ box' \in [Boxes -> BoxType]
      BY <1>2, <1>3, <1>4, <2>5, <2>6
    <2>8. \A c \in Boxes : c = b \/ c = Peer(b)
      BY DEF Boxes, Peer
    <2> QED BY <1>2, <1>4, <2>3, <2>5, <2>7, <2>8 DEF BoxesKeep
  <1> QED BY <1>1, <1>5, <1>6

LEMMA TickStep ==
  ASSUME XTypeOK, Tick
  PROVE  BoxesKeep
  <1>1. /\ ~Busy
        /\ box' = [b \in Boxes |-> IF box[b].timer = NoTimer THEN box[b]
                                   ELSE [box[b] EXCEPT !.timer = @ - 1]]
    BY DEF Tick
  <1> SUFFICES ASSUME NEW b \in Boxes
               PROVE  box'[b] \in BoxType /\ Lawful(box[b], box'[b], box[Peer(b)])
    BY <1>1 DEF BoxesKeep
  <1>2. box[b] \in BoxType
    BY DEF XTypeOK
  <1>3. CASE box[b].timer = NoTimer
    BY <1>1, <1>2, <1>3, LawfulStays
  <1>4. CASE box[b].timer # NoTimer
    <2> DEFINE h == [box[b] EXCEPT !.timer = box[b].timer - 1]
    <2>1. box[b].timer \in 0 .. NoTimer /\ box[b].timer # 0
      BY <1>1, <1>2 DEF Busy, BoxType
    <2>2. box[b].timer - 1 \in 0 .. NoTimer
      BY <2>1, Ranges
    <2>3. h \in BoxType
      BY <1>2, <2>2, BoxFields
    <2>4. box'[b] = h
      BY <1>1, <1>2, <1>4 DEF BoxType
    <2>5. Lawful(box[b], h, box[Peer(b)])
      BY <1>2, <1>4, <2>3 DEF Lawful, BoxType, Sending
    <2> QED BY <2>3, <2>4, <2>5
  <1> QED BY <1>3, <1>4

XInv == XTypeOK /\ IdsInv

LEMMA InitOK == RendezvousInit => XInv
  <1> SUFFICES ASSUME RendezvousInit PROVE XInv
    OBVIOUS
  <1>1. XTypeOK
    BY FreshAssumption DEF RendezvousInit, XTypeOK, DataOK
  <1>2. \A b \in Boxes : box[b] = Fresh
    BY DEF RendezvousInit
  <1>3. \A b \in Boxes : Peer(b) \in Boxes
    BY DEF Boxes, Peer
  <1>4. IdsInv
    BY <1>2, <1>3 DEF IdsInv, IdsOK, Fresh, Sending
  <1> QED BY <1>1, <1>4 DEF XInv

LEMMA InvStays == XInv /\ [RendezvousNext]_xvars => XInv'
  <1> SUFFICES ASSUME XTypeOK, IdsInv, [RendezvousNext]_xvars PROVE XInv'
    BY DEF XInv
  <1>1. DataOK' /\ due' \in SUBSET Boxes /\ calm' \in BOOLEAN
    BY StorageTypes
  <1>2. box' \in [Boxes -> BoxType] /\ IdsInv'
    <2>1. CASE Store
      BY <2>1, StoreStep
    <2>2. CASE Ice \/ Send \/ Hear \/ Tick
      BY <2>2, IceStep, SendStep, HearStep, TickStep, LawfulKeeps DEF BoxesKeep
    <2>3. CASE Others \/ Calm \/ UNCHANGED xvars
      <3>1. box' = box
        BY <2>3 DEF Others, Calm, xvars
      <3> QED BY <3>1, UnchangedLawful, LawfulKeeps
    <2> QED BY <2>1, <2>2, <2>3 DEF RendezvousNext
  <1> QED BY <1>1, <1>2 DEF XInv, XTypeOK

LEMMA InvHolds == RendezvousSpec => []XInv
  BY InitOK, InvStays, PTL DEF RendezvousSpec

----------------------------------------------------------------------------
(* The theorems.                                                           *)

\* The boxes and the server keep their types: a timer never runs below zero, and
\* what a box loads is a description or nothing.
THEOREM RendezvousTypes == RendezvousSpec => []XTypeOK
  <1>1. XInv => XTypeOK
    BY DEF XInv
  <1> QED BY <1>1, InvHolds, PTL

\* Whoever is done with the exchange has the other's id, and the other has its own:
\* digits that are lost, ids that collide and ends that give up do not change that.
THEOREM RendezvousMutual == RendezvousSpec => []DoneIsMutual
  <1>1. XInv => DoneIsMutual
    <2> SUFFICES ASSUME XInv, NEW b \in Boxes, box[b].done
                 PROVE  /\ box[Peer(b)].remoteid = box[b].localid
                        /\ box[b].remoteid = box[Peer(b)].localid
      BY DEF DoneIsMutual
    <2>1. Peer(b) \in Boxes /\ Peer(Peer(b)) = b
      BY DEF Boxes, Peer
    <2> QED BY <2>1 DEF XInv, IdsInv, IdsOK
  <1> QED BY <1>1, InvHolds, PTL

\* A step leaves a box's description under its id, or removes it.
LEMMA OfferStep ==
  ASSUME XTypeOK, [RendezvousNext]_xvars, NEW i \in Ids, data[i] # None, data[i].owner # "other"
  PROVE  data'[i] \in {None, data[i]}
  <1>1. \A j \in Ids, b \in Boxes \cup {"other"} :
          Put(b, j, b) \/ expireSettings(j) \/ Post("other", j, "other") => data'[i] \in {None, data[i]}
    BY DEF Put, FreeIds, expireSettings, Post, TokenFits, XTypeOK, DataOK
  <1>2. CASE Store
    BY <1>1, <1>2 DEF Store, storeConf, storeConfUnanswered
  <1>3. CASE Others
    BY <1>1, <1>3 DEF Others
  <1>4. CASE ~Store /\ ~Others
    BY <1>4 DEF RendezvousNext, xvars, Ice, Send, Hear, Tick, Calm, do_start_ice, Connect,
                NegotiationFails, stopHandshake, localidTimedout, dtmfSendPacketLast, Lose, Carry
  <1> QED BY <1>2, <1>3, <1>4

\* A description stays what it was under its id until it expires: the server's other
\* users cannot change it, whatever ids they try.
THEOREM OffersKept == RendezvousSpec => OfferIsKept
  <1>1. XInv /\ [RendezvousNext]_xvars =>
          [\A i \in Ids : data[i] # None /\ data[i].owner # "other"
             => data'[i] \in {None, data[i]}]_data
    BY OfferStep DEF XInv
  <1> QED BY <1>1, InvHolds, PTL DEF RendezvousSpec, OfferIsKept
=============================================================================
