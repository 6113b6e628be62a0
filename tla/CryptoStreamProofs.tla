------------------------- MODULE CryptoStreamProofs -------------------------
(***************************************************************************)
(* The keys and the end of a stream, for every configuration and any       *)
(* number of packets, clicks and engines.                                  *)
(***************************************************************************)
EXTENDS CryptoStream, TLAPS

Contexts == {"null", "created", "hello", "quiet", "running", "half", "secure", "over"}
Outcomes == {"none", "started", "connected", "failed"}
ToRtpMessages  == {"start ice", "stop handshake", "close"}
ToZrtpMessages == {"start", "stop", "packet"}
Places == {"idle", "begin", "create", "queue", "wait", "ice", "free", "wait stop", "off", "flag", "failed"}
Afters == {"", "packet", "stop", "fail"}

RtpQueues    == Seq(ToRtpMessages)
ZrtpQueues   == Seq(ToZrtpMessages)
ThreadPlaces == [Threads -> [at : Places, then : Afters]]
KeyOwners    == [Directions -> Nat]

StreamTypeOK ==
  /\ cfg \in [skipzrtp1 : BOOLEAN, icestorage : BOOLEAN]
  /\ zrtp_state \in Outcomes /\ ice_state \in Outcomes
  /\ zcontext \in Contexts /\ engine \in Nat
  /\ lost \in SUBSET Nat /\ taking \in SUBSET Directions
  /\ secure \in BOOLEAN /\ ctx \in KeyOwners /\ ctrl \in KeyOwners
  /\ handshake \in BOOLEAN /\ keepalive \in BOOLEAN
  /\ dtmfex \in {"none", "open", "closed"}
  /\ icestream \in {"none", "init", "ready", "talking", "over"}
  /\ stream \in {"open", "closing", "closed"}
  /\ rtp_mq \in RtpQueues /\ zrtp_mq \in ZrtpQueues
  /\ start_event \in BOOLEAN /\ stop_event \in BOOLEAN
  /\ pc \in ThreadPlaces
  /\ clicks \in Nat

\* What is in a queue: a message, one before another, three of a kind.
Has(q, m)       == \E i \in 1 .. Len(q) : q[i] = m
Before(q, m, n) == \E i, j \in 1 .. Len(q) : i < j /\ q[i] = m /\ q[j] = n
Three(q, m)     == \E i, j, k \in 1 .. Len(q) : i < j /\ j < k /\ q[i] = m /\ q[j] = m /\ q[k] = m

\* A direction's key is the engine's.
Owned(d) == ctx[d] = engine /\ ctrl[d] = engine
Early(d) == ctx[d] \in {0} \cup lost
AtWork   == pc["zrtp"].at \in {"off", "flag"}

\* The keys are those of the engine, as far as it has come and until it has
\* taken them back, or of one that was lost.
KeysOK ==
  /\ zcontext # "null" => engine # 0
  /\ \A n \in lost : n < engine
  /\ \A d \in Directions : IF d \in Given \cup taking THEN Owned(d) \/ ctx[d] \in lost ELSE Early(d)
  /\ AtWork => zcontext \in {"null", "over", "created"}
  /\ taking # {} \/ pc["zrtp"].at = "flag" => AtWork /\ zcontext # "null"
  /\ secure /\ lost = {} =>
       zcontext = "secure" \/ pc["zrtp"].at = "flag" \/ (AtWork /\ taking = Directions)

Waits(t) == pc[t].at = "wait"

\* Who waits for a start has a message or the event to come, but for each of
\* these there is somebody who waits.
WaitersOK ==
  /\ ~Waits("rtp") /\ ~Waits("gui") => ~Has(zrtp_mq, "start") /\ ~start_event
  /\ ~Waits("rtp") \/ ~Waits("gui") =>
       ~Before(zrtp_mq, "start", "start") /\ ~(start_event /\ Has(zrtp_mq, "start"))
  /\ ~Three(zrtp_mq, "start") /\ ~(start_event /\ Before(zrtp_mq, "start", "start"))

\* do_close has been entered; it is there, and the engine has not stopped.
Ending   == pc["rtp"].at \in {"free", "wait stop"}
Shut     == stream = "closed" \/ Ending
Stopping == pc["rtp"].at = "wait stop" /\ ~stop_event
StopUnderWay == pc["zrtp"].then = "stop"

ThreadsOK ==
  /\ pc["gui"].at \in {"idle", "begin", "create", "queue", "wait"} /\ pc["gui"].then = ""
  /\ pc["zrtp"].at \in {"idle", "off", "flag", "failed"}
  /\ \A t \in Threads : pc[t].at \in {"idle", "failed"} => pc[t].then = ""
  /\ Ending => stream = "closing"
  /\ stream = "open" \/ Shut => ~Has(rtp_mq, "close")
  /\ ~Before(rtp_mq, "close", "close")
  /\ Shut => pc["rtp"].then # "packet"

\* Until do_close, only do_start_ice stops an engine, so that there was none
\* before if there is none.
EnginesOK ==
  /\ engine = 0 => /\ zcontext = "null" /\ zrtp_state = "none" /\ ~Has(zrtp_mq, "packet")
                   /\ \A t \in Threads : pc[t].at \notin {"queue", "wait"}
                   /\ pc["zrtp"].then # "fail"
  /\ ~Shut /\ ice_state = "none" /\ pc["rtp"].at # "ice" =>
       ~Has(zrtp_mq, "stop") /\ ~StopUnderWay /\ (zcontext = "null" => engine = 0)

\* From then on no engine gets as far as to a key: packets that are still
\* queued come to none, or to one that was created and not started.
ShutOK ==
  /\ Shut /\ ~Stopping =>
       /\ zcontext \in {"null", "created", "hello", "quiet", "over"}
       /\ taking = {} /\ pc["zrtp"].at # "flag"
       /\ zcontext \in {"hello", "quiet"} => ~Has(zrtp_mq, "packet")
       /\ zcontext = "created" => ~Before(zrtp_mq, "start", "packet")
       /\ ice_state = "none" => ~Has(zrtp_mq, "packet")
  /\ stream = "closed" /\ Has(zrtp_mq, "packet") =>
       icestream = "none" /\ pc["rtp"].at \notin {"ice", "begin", "create", "queue", "wait"}
  /\ Stopping => Has(zrtp_mq, "stop") \/ StopUnderWay
  /\ Stopping /\ ice_state = "none" =>
       ~Before(zrtp_mq, "stop", "packet") /\ ~(StopUnderWay /\ Has(zrtp_mq, "packet"))

StreamInv ==
  /\ StreamTypeOK /\ KeysOK /\ ExchangeIsHeard /\ WaitersOK /\ ThreadsOK /\ EnginesOK /\ ShutOK
  /\ ClosedHasNoKeys

----------------------------------------------------------------------------
(* The queues.                                                             *)

LEMMA Appended ==
  ASSUME NEW S, NEW q \in Seq(S), NEW e \in S
  PROVE  /\ Append(q, e) \in Seq(S)
         /\ \A m : Has(Append(q, e), m) <=> Has(q, m) \/ e = m
         /\ \A m, n : Before(Append(q, e), m, n) <=> Before(q, m, n) \/ (e = n /\ Has(q, m))
         /\ \A m : Three(Append(q, e), m) <=> Three(q, m) \/ (e = m /\ Before(q, m, m))
  <1> DEFINE p == Append(q, e)
  <1>1. /\ p \in Seq(S) /\ Len(p) = Len(q) + 1 /\ Len(q) \in Nat
        /\ p[Len(p)] = e /\ \A i \in 1 .. Len(q) : p[i] = q[i]
    OBVIOUS
  <1>2. /\ \A i \in 1 .. Len(p) : i \in 1 .. Len(q) \/ i = Len(p)
        /\ \A i \in 1 .. Len(q) : i \in 1 .. Len(p) /\ i < Len(p) /\ i \in Nat
        /\ Len(p) \in 1 .. Len(p) /\ ~(Len(p) < Len(p)) /\ Len(p) \in Nat
    BY <1>1
  <1>3. \A i, j \in Nat : i < j => ~(j < i) /\ i # j
    OBVIOUS
  <1> HIDE DEF p
  <1>4. \A m : Has(p, m) <=> Has(q, m) \/ e = m
    BY <1>1, <1>2 DEF Has
  <1>5. \A m, n : Before(p, m, n) <=> Before(q, m, n) \/ (e = n /\ Has(q, m))
    BY <1>1, <1>2, <1>3 DEF Has, Before
  <1>6. \A m : Three(p, m) <=> Three(q, m) \/ (e = m /\ Before(q, m, m))
    BY <1>1, <1>2, <1>3 DEF Before, Three
  <1> QED BY <1>1, <1>4, <1>5, <1>6 DEF p

LEMMA Taken ==
  ASSUME NEW S, NEW q \in Seq(S), q # <<>>
  PROVE  /\ Tail(q) \in Seq(S) /\ Head(q) \in S
         /\ \A m : Has(q, m) <=> Head(q) = m \/ Has(Tail(q), m)
         /\ \A m, n : Before(q, m, n) <=> Before(Tail(q), m, n) \/ (Head(q) = m /\ Has(Tail(q), n))
         /\ \A m : Three(q, m) <=> Three(Tail(q), m) \/ (Head(q) = m /\ Before(Tail(q), m, m))
  <1> DEFINE p == Tail(q)
  <1>1. /\ p \in Seq(S) /\ Head(q) \in S /\ Len(q) = Len(p) + 1 /\ Len(p) \in Nat
        /\ q[1] = Head(q) /\ \A i \in 1 .. Len(p) : p[i] = q[i + 1]
    OBVIOUS
  <1>2. /\ \A i \in 1 .. Len(q) : i # 1 => i - 1 \in 1 .. Len(p) /\ i = (i - 1) + 1
        /\ \A i \in 1 .. Len(p) : i + 1 \in 1 .. Len(q) /\ 1 < i + 1
        /\ 1 \in 1 .. Len(q)
        /\ \A i, j \in 1 .. Len(p) : i < j <=> i + 1 < j + 1
        /\ \A i, j \in 1 .. Len(q) : i < j => j # 1 /\ (i # 1 => i - 1 < j - 1)
    BY <1>1
  <1> HIDE DEF p
  <1>3. \A i \in 1 .. Len(q) : i # 1 => p[i - 1] = q[i]
    BY <1>1, <1>2
  <1>4. \A m : Has(q, m) <=> Head(q) = m \/ Has(p, m)
    BY <1>1, <1>2, <1>3 DEF Has
  <1>5. ASSUME NEW m, NEW n
        PROVE  Before(q, m, n) <=> Before(p, m, n) \/ (Head(q) = m /\ Has(p, n))
    <2>1. ASSUME Before(q, m, n) PROVE Before(p, m, n) \/ (Head(q) = m /\ Has(p, n))
      <3>1. PICK i, j \in 1 .. Len(q) : i < j /\ q[i] = m /\ q[j] = n
        BY <2>1 DEF Before
      <3>2. j # 1 /\ j - 1 \in 1 .. Len(p) /\ p[j - 1] = n
        BY <3>1, <1>2, <1>3
      <3>3. i # 1 => i - 1 \in 1 .. Len(p) /\ p[i - 1] = m /\ i - 1 < j - 1
        BY <3>1, <1>2, <1>3
      <3>4. i = 1 => Head(q) = m
        BY <3>1, <1>1
      <3> DEFINE a == i - 1
                 b == j - 1
      <3> HIDE DEF a, b
      <3> QED BY <3>2, <3>3, <3>4 DEF Has, Before, a, b
    <2>2. ASSUME Before(p, m, n) PROVE Before(q, m, n)
      BY <2>2, <1>1, <1>2 DEF Before
    <2>3. ASSUME Head(q) = m, Has(p, n) PROVE Before(q, m, n)
      BY <2>3, <1>1, <1>2 DEF Has, Before
    <2> QED BY <2>1, <2>2, <2>3
  <1>6. ASSUME NEW m
        PROVE  Three(q, m) <=> Three(p, m) \/ (Head(q) = m /\ Before(p, m, m))
    <2>1. ASSUME Three(q, m) PROVE Three(p, m) \/ (Head(q) = m /\ Before(p, m, m))
      <3>1. PICK i, j, k \in 1 .. Len(q) : i < j /\ j < k /\ q[i] = m /\ q[j] = m /\ q[k] = m
        BY <2>1 DEF Three
      <3>2. /\ j # 1 /\ k # 1 /\ j - 1 \in 1 .. Len(p) /\ k - 1 \in 1 .. Len(p)
            /\ j - 1 < k - 1 /\ p[j - 1] = m /\ p[k - 1] = m
        BY <3>1, <1>2, <1>3
      <3>3. CASE i = 1
        <4>1. Before(p, m, m)
          BY <3>2 DEF Before
        <4> QED BY <3>1, <3>3, <4>1, <1>1
      <3>4. CASE i # 1
        <4>1. i - 1 \in 1 .. Len(p) /\ p[i - 1] = m /\ i - 1 < j - 1
          BY <3>1, <3>4, <1>2, <1>3
        <4> QED BY <3>2, <4>1 DEF Three
      <3> QED BY <3>3, <3>4
    <2>2. ASSUME Three(p, m) PROVE Three(q, m)
      <3>1. PICK i, j, k \in 1 .. Len(p) : i < j /\ j < k /\ p[i] = m /\ p[j] = m /\ p[k] = m
        BY <2>2 DEF Three
      <3>2. /\ i + 1 \in 1 .. Len(q) /\ j + 1 \in 1 .. Len(q) /\ k + 1 \in 1 .. Len(q)
            /\ i + 1 < j + 1 /\ j + 1 < k + 1 /\ q[i + 1] = m /\ q[j + 1] = m /\ q[k + 1] = m
        BY <3>1, <1>1, <1>2
      <3> QED BY <3>2 DEF Three
    <2>3. ASSUME Head(q) = m, Before(p, m, m) PROVE Three(q, m)
      <3>1. PICK j, k \in 1 .. Len(p) : j < k /\ p[j] = m /\ p[k] = m
        BY <2>3 DEF Before
      <3>2. /\ 1 \in 1 .. Len(q) /\ j + 1 \in 1 .. Len(q) /\ k + 1 \in 1 .. Len(q)
            /\ 1 < j + 1 /\ j + 1 < k + 1 /\ q[1] = m /\ q[j + 1] = m /\ q[k + 1] = m
        BY <2>3, <3>1, <1>1, <1>2
      <3> QED BY <3>2 DEF Three
    <2> QED BY <2>1, <2>2, <2>3
  <1> QED BY <1>1, <1>4, <1>5, <1>6 DEF p

\* The empty queue.
LEMMA NothingQueued ==
  \A m, n : ~Has(<<>>, m) /\ ~Before(<<>>, m, n) /\ ~Three(<<>>, m)
  BY DEF Has, Before, Three
\* What the queues hold after a step, in terms of what they held.
RtpGrows(e) ==
  /\ rtp_mq' \in RtpQueues
  /\ \A m : Has(rtp_mq', m) <=> Has(rtp_mq, m) \/ e = m
  /\ \A m, n : Before(rtp_mq', m, n) <=> Before(rtp_mq, m, n) \/ (e = n /\ Has(rtp_mq, m))
RtpShrinks(e) ==
  /\ rtp_mq' \in RtpQueues
  /\ \A m : Has(rtp_mq, m) <=> e = m \/ Has(rtp_mq', m)
  /\ \A m, n : Before(rtp_mq, m, n) <=> Before(rtp_mq', m, n) \/ (e = m /\ Has(rtp_mq', n))
ZrtpGrows(e) ==
  /\ zrtp_mq' \in ZrtpQueues
  /\ \A m : Has(zrtp_mq', m) <=> Has(zrtp_mq, m) \/ e = m
  /\ \A m, n : Before(zrtp_mq', m, n) <=> Before(zrtp_mq, m, n) \/ (e = n /\ Has(zrtp_mq, m))
  /\ \A m : Three(zrtp_mq', m) <=> Three(zrtp_mq, m) \/ (e = m /\ Before(zrtp_mq, m, m))
ZrtpShrinks(e) ==
  /\ zrtp_mq' \in ZrtpQueues
  /\ \A m : Has(zrtp_mq, m) <=> e = m \/ Has(zrtp_mq', m)
  /\ \A m, n : Before(zrtp_mq, m, n) <=> Before(zrtp_mq', m, n) \/ (e = m /\ Has(zrtp_mq', n))
  /\ \A m : Three(zrtp_mq, m) <=> Three(zrtp_mq', m) \/ (e = m /\ Before(zrtp_mq', m, m))

LEMMA QueuesMove ==
  ASSUME StreamTypeOK
  PROVE  /\ \A e \in ToRtpMessages : ToRtp(e) => RtpGrows(e)
         /\ \A e \in ToZrtpMessages : ToZrtp(e) => ZrtpGrows(e)
         /\ \A m : Take(m) => RtpShrinks(m)
         /\ \A m : TakeZ(m) => ZrtpShrinks(m)
  <1>1. rtp_mq \in RtpQueues /\ zrtp_mq \in ZrtpQueues
    BY DEF StreamTypeOK
  <1>2. ASSUME NEW e \in ToRtpMessages, ToRtp(e) PROVE RtpGrows(e)
    <2>1. rtp_mq' = Append(rtp_mq, e)
      BY <1>2 DEF ToRtp
    <2> QED BY <1>1, <2>1, Appended DEF RtpGrows, RtpQueues
  <1>3. ASSUME NEW e \in ToZrtpMessages, ToZrtp(e) PROVE ZrtpGrows(e)
    <2>1. zrtp_mq' = Append(zrtp_mq, e)
      BY <1>3 DEF ToZrtp
    <2> QED BY <1>1, <2>1, Appended DEF ZrtpGrows, ZrtpQueues
  <1>4. ASSUME NEW m, Take(m) PROVE RtpShrinks(m)
    <2>1. rtp_mq # <<>> /\ Head(rtp_mq) = m /\ rtp_mq' = Tail(rtp_mq)
      BY <1>4 DEF Take
    <2> QED BY <1>1, <2>1, Taken DEF RtpShrinks, RtpQueues
  <1>5. ASSUME NEW m, TakeZ(m) PROVE ZrtpShrinks(m)
    <2>1. zrtp_mq # <<>> /\ Head(zrtp_mq) = m /\ zrtp_mq' = Tail(zrtp_mq)
      BY <1>5 DEF TakeZ
    <2> QED BY <1>1, <2>1, Taken DEF ZrtpShrinks, ZrtpQueues
  <1> QED BY <1>2, <1>3, <1>4, <1>5

\* Where the threads are after a step.
Moves(t, where, what) ==
  /\ pc' \in ThreadPlaces
  /\ pc'[t].at = where /\ pc'[t].then = what
  /\ \A u \in Threads : u # t => pc'[u] = pc[u]

LEMMA ThreadMoves ==
  ASSUME StreamTypeOK, NEW t \in Threads
  PROVE  /\ \A where \in Places, what \in Afters : Goto(t, where, what) => Moves(t, where, what)
         /\ Done(t) => Moves(t, "idle", "")
         /\ pc[t].at \in Places /\ pc[t].then \in Afters
         /\ IsIdle(t) => pc[t].at = "idle" /\ pc[t].then = ""
  <1>1. pc \in ThreadPlaces
    BY DEF StreamTypeOK
  <1>2. ASSUME NEW where \in Places, NEW what \in Afters,
               pc' = [pc EXCEPT ![t] = [at |-> where, then |-> what]]
        PROVE  Moves(t, where, what)
    BY <1>1, <1>2 DEF Moves, ThreadPlaces
  <1>3. "idle" \in Places /\ "" \in Afters
    BY DEF Places, Afters
  <1>4. \A where \in Places, what \in Afters : Goto(t, where, what) => Moves(t, where, what)
    BY <1>2 DEF Goto
  <1>5. Done(t) => Moves(t, "idle", "")
    BY <1>2, <1>3 DEF Done, Idle
  <1>6. pc[t].at \in Places /\ pc[t].then \in Afters
    BY <1>1 DEF ThreadPlaces
  <1>7. Idle.at = "idle" /\ Idle.then = ""
    BY DEF Idle
  <1>8. IsIdle(t) => pc[t].at = "idle" /\ pc[t].then = ""
    BY <1>7 DEF IsIdle
  <1> QED BY <1>4, <1>5, <1>6, <1>8

----------------------------------------------------------------------------
(* Types.                                                                  *)

LEMMA TypesAtInit == Init => StreamTypeOK
  <1> SUFFICES ASSUME Init PROVE StreamTypeOK
    OBVIOUS
  <1>1. cfg \in [skipzrtp1 : BOOLEAN, icestorage : BOOLEAN]
    BY StreamAssumption DEF Init
  <1>2. pc \in ThreadPlaces
    BY DEF Init, Idle, Places, Afters, ThreadPlaces
  <1>3. secure \in BOOLEAN /\ handshake \in BOOLEAN /\ keepalive \in BOOLEAN
        /\ start_event \in BOOLEAN /\ stop_event \in BOOLEAN
    BY DEF Init
  <1>4. rtp_mq \in RtpQueues /\ zrtp_mq \in ZrtpQueues
    BY DEF Init, RtpQueues, ZrtpQueues
  <1>5. ctx \in KeyOwners /\ ctrl \in KeyOwners
    BY DEF Init, NoKeys, KeyOwners
  <1> QED
    BY <1>1, <1>2, <1>3, <1>4, <1>5 DEF Init, StreamTypeOK, Outcomes, Contexts

\* What the operators that several actions share do to the types.
LEMMA SharedTypes ==
  ASSUME StreamTypeOK
  PROVE  /\ \A e \in ToRtpMessages : ToRtp(e) => rtp_mq' \in RtpQueues
         /\ \A e \in ToZrtpMessages : ToZrtp(e) => zrtp_mq' \in ZrtpQueues
         /\ \A m : Take(m) => rtp_mq' \in RtpQueues
         /\ \A m : TakeZ(m) => zrtp_mq' \in ZrtpQueues
         /\ \A t \in Threads, where \in Places, what \in Afters :
              Goto(t, where, what) => pc' \in ThreadPlaces
         /\ \A t \in Threads : Done(t) => pc' \in ThreadPlaces
         /\ \A t \in Threads : pc[t].then \in Afters
         /\ \A t \in Threads, what \in Afters : BeginZrtp(t, what) => pc' \in ThreadPlaces
         /\ Given \in SUBSET Directions
         /\ StopZrtp => /\ zrtp_state' \in Outcomes /\ stop_event' \in BOOLEAN
                        /\ zrtp_mq' \in ZrtpQueues
         /\ HandshakeStops => handshake' \in BOOLEAN /\ dtmfex' \in {"none", "open", "closed"}
         /\ IceFails => /\ ice_state' \in Outcomes
                        /\ handshake' \in BOOLEAN /\ dtmfex' \in {"none", "open", "closed"}
         /\ SecretsOn /\ rtp_mq \in RtpQueues =>
              /\ zcontext' \in Contexts /\ ctx' \in KeyOwners /\ ctrl' \in KeyOwners
              /\ secure' \in BOOLEAN /\ zrtp_state' \in Outcomes /\ rtp_mq' \in RtpQueues
         /\ \A dirs : KeyReady(dirs) => ctx' \in KeyOwners /\ ctrl' \in KeyOwners
  <1>1. /\ \A e \in ToRtpMessages : ToRtp(e) => rtp_mq' \in RtpQueues
        /\ \A e \in ToZrtpMessages : ToZrtp(e) => zrtp_mq' \in ZrtpQueues
        /\ \A m : Take(m) => rtp_mq' \in RtpQueues
        /\ \A m : TakeZ(m) => zrtp_mq' \in ZrtpQueues
    BY QueuesMove DEF RtpGrows, RtpShrinks, ZrtpGrows, ZrtpShrinks
  <1>2. /\ \A t \in Threads, where \in Places, what \in Afters :
             Goto(t, where, what) => pc' \in ThreadPlaces
        /\ \A t \in Threads : Done(t) => pc' \in ThreadPlaces
        /\ \A t \in Threads : pc[t].then \in Afters
    BY ThreadMoves DEF Moves
  <1>3. \A t \in Threads, what \in Afters : BeginZrtp(t, what) => pc' \in ThreadPlaces
    <2>1. "begin" \in Places
      BY DEF Places
    <2> QED BY <1>2, <2>1 DEF BeginZrtp
  <1>4. StopZrtp => /\ zrtp_state' \in Outcomes /\ stop_event' \in BOOLEAN
                    /\ zrtp_mq' \in ZrtpQueues
    <2>1. "none" \in Outcomes /\ "stop" \in ToZrtpMessages
      BY DEF Outcomes, ToZrtpMessages
    <2> QED BY <2>1, <1>1 DEF StopZrtp
  <1>5. HandshakeStops => handshake' \in BOOLEAN /\ dtmfex' \in {"none", "open", "closed"}
    BY DEF HandshakeStops, StreamTypeOK
  <1>6. IceFails => /\ ice_state' \in Outcomes
                    /\ handshake' \in BOOLEAN /\ dtmfex' \in {"none", "open", "closed"}
    BY <1>5 DEF IceFails, Outcomes
  <1>7. Given \in SUBSET Directions
    BY DEF Given, Directions
  <1>8. \A dirs : KeyReady(dirs) => ctx' \in KeyOwners /\ ctrl' \in KeyOwners
    BY DEF KeyReady, StreamTypeOK, KeyOwners
  <1>9. SecretsOn /\ rtp_mq \in RtpQueues =>
          /\ zcontext' \in Contexts /\ ctx' \in KeyOwners /\ ctrl' \in KeyOwners
          /\ secure' \in BOOLEAN /\ zrtp_state' \in Outcomes /\ rtp_mq' \in RtpQueues
    <2>1. "secure" \in Contexts /\ "connected" \in Outcomes /\ "stop handshake" \in ToRtpMessages
      BY DEF Contexts, Outcomes, ToRtpMessages
    <2> QED BY <1>1, <1>8, <2>1 DEF SecretsOn, StreamTypeOK
  <1> QED
    BY <1>1, <1>2, <1>3, <1>4, <1>5, <1>6, <1>7, <1>8, <1>9

LEMMA TypesKept == StreamTypeOK /\ [Next]_svars => StreamTypeOK'
  <1> SUFFICES ASSUME StreamTypeOK, [Next]_svars PROVE StreamTypeOK'
    OBVIOUS
  <1>0. /\ \A e \in ToRtpMessages : ToRtp(e) => rtp_mq' \in RtpQueues
        /\ \A e \in ToZrtpMessages : ToZrtp(e) => zrtp_mq' \in ZrtpQueues
        /\ \A m : Take(m) => rtp_mq' \in RtpQueues
        /\ \A m : TakeZ(m) => zrtp_mq' \in ZrtpQueues
        /\ \A t \in Threads, where \in Places, what \in Afters :
             Goto(t, where, what) => pc' \in ThreadPlaces
        /\ \A t \in Threads : Done(t) => pc' \in ThreadPlaces
        /\ \A t \in Threads : pc[t].then \in Afters
        /\ \A t \in Threads, what \in Afters : BeginZrtp(t, what) => pc' \in ThreadPlaces
        /\ Given \in SUBSET Directions
        /\ StopZrtp => /\ zrtp_state' \in Outcomes /\ stop_event' \in BOOLEAN
                      /\ zrtp_mq' \in ZrtpQueues
        /\ HandshakeStops => handshake' \in BOOLEAN /\ dtmfex' \in {"none", "open", "closed"}
        /\ IceFails => /\ ice_state' \in Outcomes
                      /\ handshake' \in BOOLEAN /\ dtmfex' \in {"none", "open", "closed"}
        /\ SecretsOn /\ rtp_mq \in RtpQueues =>
             /\ zcontext' \in Contexts /\ ctx' \in KeyOwners /\ ctrl' \in KeyOwners
             /\ secure' \in BOOLEAN /\ zrtp_state' \in Outcomes /\ rtp_mq' \in RtpQueues
        /\ \A dirs : KeyReady(dirs) => ctx' \in KeyOwners /\ ctrl' \in KeyOwners
    BY SharedTypes
  <1>1. /\ "queue" \in Places /\ "wait" \in Places /\ "ice" \in Places /\ "free" \in Places
        /\ "wait stop" \in Places /\ "failed" \in Places
        /\ "create" \in Places /\ "off" \in Places /\ "flag" \in Places
        /\ "" \in Afters /\ "packet" \in Afters /\ "stop" \in Afters /\ "fail" \in Afters
        /\ "rtp" \in Threads /\ "zrtp" \in Threads /\ "gui" \in Threads
    BY DEF Places, Afters, Threads
  <1>2. /\ "start ice" \in ToRtpMessages /\ "stop handshake" \in ToRtpMessages /\ "close" \in ToRtpMessages
        /\ "start" \in ToZrtpMessages /\ "stop" \in ToZrtpMessages /\ "packet" \in ToZrtpMessages
        /\ "none" \in Outcomes /\ "started" \in Outcomes /\ "connected" \in Outcomes
        /\ "failed" \in Outcomes
        /\ "null" \in Contexts /\ "created" \in Contexts /\ "hello" \in Contexts /\ "quiet" \in Contexts /\ "running" \in Contexts
        /\ "half" \in Contexts /\ "secure" \in Contexts /\ "over" \in Contexts
        /\ NoKeys \in KeyOwners
    BY DEF ToRtpMessages, ToZrtpMessages, Outcomes, Contexts, NoKeys, KeyOwners
  <1>3. CASE UNCHANGED svars
    BY <1>3 DEF svars, StreamTypeOK, states, eng, keys, ice, mqs, events, rest
  <1>4. ASSUME NEW t \in Threads, QueueStart(t) PROVE StreamTypeOK'
    <2>1. start_event' \in BOOLEAN
      BY <1>0, <1>1, <1>2, <1>4 DEF QueueStart, StreamTypeOK, states, eng, keys, ice, mqs, events, rest
    <2>2. zrtp_mq' \in ZrtpQueues
      BY <1>0, <1>1, <1>2, <1>4 DEF QueueStart, StreamTypeOK, mqs
    <2>3. pc' \in ThreadPlaces
      BY <1>0, <1>1, <1>2, <1>4 DEF QueueStart, StreamTypeOK, mqs
    <2> QED BY <2>1, <2>2, <2>3, <1>4 DEF QueueStart, StreamTypeOK, states, eng, keys, ice, mqs, events, rest
  <1>5. ASSUME NEW t \in Threads, Started(t) PROVE StreamTypeOK'
    <2>1. start_event' \in BOOLEAN
      BY <1>0, <1>1, <1>2, <1>5 DEF Started, StreamTypeOK, states, eng, keys, ice, mqs, events, rest
    <2>2. zrtp_state' \in Outcomes
      BY <1>0, <1>1, <1>2, <1>5 DEF Started, StreamTypeOK, states, eng, keys, ice, mqs, events, rest
    <2>3. zrtp_mq' \in ZrtpQueues
      <3>1. ToZrtp("packet") \/ zrtp_mq' = zrtp_mq
        BY <1>5 DEF Started, ToZrtp
      <3> QED BY <3>1, <1>0, <1>2 DEF StreamTypeOK
    <2>4. pc' \in ThreadPlaces
      BY <1>0, <1>1, <1>2, <1>5 DEF Started, StreamTypeOK, mqs
    <2> QED BY <2>1, <2>2, <2>3, <2>4, <1>5 DEF Started, StreamTypeOK, states, eng, keys, ice, mqs, events, rest
  <1>6. CASE DoStartIce
    <2>1. rtp_mq' \in RtpQueues
      BY <1>0, <1>1, <1>2, <1>6 DEF DoStartIce, StreamTypeOK, mqs
    <2>2. pc' \in ThreadPlaces
      BY <1>0, <1>1, <1>2, <1>6 DEF DoStartIce, StreamTypeOK, mqs
    <2>3. zrtp_state' \in Outcomes /\ stop_event' \in BOOLEAN
      BY <1>0, <1>1, <1>2, <1>6 DEF DoStartIce, StreamTypeOK, states, eng, keys, ice, mqs, events, rest
    <2>4. zrtp_mq' \in ZrtpQueues
      BY <1>0, <1>1, <1>2, <1>6 DEF DoStartIce, StreamTypeOK, mqs
    <2>5. UNCHANGED <<ice_state, eng, taking, keys, ice, handshake, start_event, rest>>
      BY <1>6 DEF DoStartIce
    <2> QED BY <2>1, <2>2, <2>3, <2>4, <2>5 DEF StreamTypeOK, eng, keys, ice, rest
  <1>7. CASE StartIce
    <2>1. pc' \in ThreadPlaces /\ keepalive' \in BOOLEAN
      BY <1>0, <1>1, <1>7 DEF StartIce
    <2>2. ice_state' \in Outcomes /\ handshake' \in BOOLEAN
      BY <1>0, <1>2, <1>7 DEF StartIce
    <2>3. dtmfex' \in {"none", "open", "closed"} /\ icestream' \in {"none", "init", "ready", "talking", "over"}
      BY <1>0, <1>7 DEF StartIce, StreamTypeOK
    <2>4. UNCHANGED <<zrtp_state, eng, taking, keys, mqs, events, rest>>
      BY <1>7 DEF StartIce
    <2> QED BY <2>1, <2>2, <2>3, <2>4 DEF StreamTypeOK, eng, keys, mqs, events, rest
  <1>8. CASE StopHandshake
    <2>1. rtp_mq' \in RtpQueues /\ handshake' \in BOOLEAN /\ dtmfex' \in {"none", "open", "closed"}
      BY <1>0, <1>8 DEF StopHandshake
    <2>2. UNCHANGED <<states, icestream, keepalive, eng, taking, keys, zrtp_mq, events, pc, rest>>
      BY <1>8 DEF StopHandshake
    <2> QED BY <2>1, <2>2 DEF StreamTypeOK, states, eng, keys, events, rest
  <1>9. CASE DoClose
    <2>1. rtp_mq' \in RtpQueues
      BY <1>0, <1>1, <1>2, <1>9 DEF DoClose, StreamTypeOK, mqs
    <2>2. pc' \in ThreadPlaces
      BY <1>0, <1>1, <1>2, <1>9 DEF DoClose, StreamTypeOK, mqs
    <2>3. zrtp_state' \in Outcomes /\ stop_event' \in BOOLEAN
      BY <1>0, <1>1, <1>2, <1>9 DEF DoClose, StreamTypeOK, states, eng, keys, ice, mqs, events, rest
    <2>4. zrtp_mq' \in ZrtpQueues
      BY <1>0, <1>1, <1>2, <1>9 DEF DoClose, StreamTypeOK, mqs
    <2>5. dtmfex' \in {"none", "open", "closed"}
      BY <1>0, <1>1, <1>2, <1>9 DEF DoClose, StreamTypeOK, states, eng, keys, ice, mqs, events, rest
    <2>6. UNCHANGED <<ice_state, icestream, keepalive, eng, taking, keys, handshake, start_event, rest>>
      BY <1>9 DEF DoClose
    <2> QED BY <2>1, <2>2, <2>3, <2>4, <2>5, <2>6 DEF StreamTypeOK, eng, keys, rest
  <1>10. CASE FreeStream
    <2>1. /\ pc' \in ThreadPlaces /\ ctx' \in KeyOwners /\ ctrl' \in KeyOwners
          /\ keepalive' \in BOOLEAN
      BY <1>0, <1>1, <1>2, <1>10 DEF FreeStream
    <2>2. stop_event' \in BOOLEAN
      BY <1>10 DEF FreeStream, StreamTypeOK
    <2>3. icestream' = "none" /\ stream' = "closed"
      BY <1>10 DEF FreeStream
    <2>4. UNCHANGED <<states, dtmfex, eng, taking, secure, handshake, mqs, start_event, cfg, clicks>>
      BY <1>10 DEF FreeStream
    <2> QED BY <2>1, <2>2, <2>3, <2>4 DEF StreamTypeOK, states, eng, mqs
  <1>11. CASE StartEngine
    <2>1. zrtp_mq' \in ZrtpQueues
      BY <1>0, <1>1, <1>2, <1>11 DEF StartEngine, StreamTypeOK, mqs
    <2>2. zcontext' \in Contexts
      BY <1>0, <1>1, <1>2, <1>11 DEF StartEngine, StreamTypeOK, states, eng, keys, ice, mqs, events, rest
    <2>3. start_event' \in BOOLEAN
      BY <1>0, <1>1, <1>2, <1>11 DEF StartEngine, StreamTypeOK, states, eng, keys, ice, mqs, events, rest
    <2> QED BY <2>1, <2>2, <2>3, <1>11 DEF StartEngine, StreamTypeOK, states, eng, keys, ice, mqs, events, rest
  <1>12. CASE StopEngine
    <2>1. zrtp_mq' \in ZrtpQueues
      BY <1>0, <1>1, <1>2, <1>12 DEF StopEngine, StreamTypeOK, mqs
    <2>2. zcontext' \in Contexts
      BY <1>0, <1>1, <1>2, <1>12 DEF StopEngine, StreamTypeOK, states, eng, keys, ice, mqs, events, rest
    <2>3. pc' \in ThreadPlaces
      BY <1>0, <1>1, <1>2, <1>12 DEF StopEngine, StreamTypeOK, mqs
    <2>4. taking' \in SUBSET Directions
      BY <1>0, <1>1, <1>2, <1>12 DEF StopEngine, StreamTypeOK, states, eng, keys, ice, mqs, events, rest
    <2> QED BY <2>1, <2>2, <2>3, <2>4, <1>12 DEF StopEngine, StreamTypeOK, states, eng, keys, ice, mqs, events, rest
  <1>13. CASE HandleInput
    <2>1. zrtp_mq' \in ZrtpQueues
      BY <1>0, <1>1, <1>2, <1>13 DEF HandleInput, StreamTypeOK, mqs
    <2>2. zcontext' \in Contexts
      BY <1>0, <1>1, <1>2, <1>13 DEF HandleInput, StreamTypeOK, states, eng, keys, ice, mqs, events, rest
    <2> QED BY <2>1, <2>2, <1>13 DEF HandleInput, StreamTypeOK, states, eng, keys, ice, mqs, events, rest
  <1>14. CASE SecretsReady
    <2>1. zrtp_mq' \in ZrtpQueues
      BY <1>0, <1>1, <1>2, <1>14 DEF SecretsReady, StreamTypeOK, mqs
    <2>2. zcontext' \in Contexts
      BY <1>0, <1>1, <1>2, <1>14 DEF SecretsReady, StreamTypeOK, states, eng, keys, ice, mqs, events, rest
    <2>3. ctx' \in KeyOwners /\ ctrl' \in KeyOwners
      BY <1>0, <1>1, <1>2, <1>14 DEF SecretsReady, StreamTypeOK, states, eng, keys, ice, mqs, events, rest
    <2> QED BY <2>1, <2>2, <2>3, <1>14 DEF SecretsReady, StreamTypeOK, states, eng, keys, ice, mqs, events, rest
  <1>15. CASE Negotiated \/ Conf2AckSecure
    <2>1. zrtp_mq' \in ZrtpQueues
      BY <1>0, <1>15 DEF Negotiated, Conf2AckSecure, StreamTypeOK
    <2>2. SecretsOn
      BY <1>15 DEF Negotiated, Conf2AckSecure
    <2>3. rtp_mq \in RtpQueues
      BY DEF StreamTypeOK
    <2>4. /\ zcontext' \in Contexts /\ ctx' \in KeyOwners /\ ctrl' \in KeyOwners
          /\ secure' \in BOOLEAN /\ zrtp_state' \in Outcomes /\ rtp_mq' \in RtpQueues
      BY <1>0, <2>2, <2>3
    <2>5. UNCHANGED <<ice_state, ice, engine, lost, taking, handshake, events, pc, rest>>
      BY <2>2 DEF SecretsOn
    <2> QED BY <2>1, <2>4, <2>5 DEF StreamTypeOK, ice, events, rest
  <1>16. CASE NegotiationFailed
    <2>1. zrtp_mq' \in ZrtpQueues
      BY <1>0, <1>1, <1>2, <1>16 DEF NegotiationFailed, StreamTypeOK, mqs
    <2>2. zcontext' \in Contexts
      BY <1>0, <1>1, <1>2, <1>16 DEF NegotiationFailed, StreamTypeOK, states, eng, keys, ice, mqs, events, rest
    <2>3. taking' \in SUBSET Directions
      BY <1>0, <1>1, <1>2, <1>16 DEF NegotiationFailed, StreamTypeOK, states, eng, keys, ice, mqs, events, rest
    <2>4. pc' \in ThreadPlaces
      BY <1>0, <1>1, <1>2, <1>16 DEF NegotiationFailed, StreamTypeOK, mqs
    <2> QED BY <2>1, <2>2, <2>3, <2>4, <1>16 DEF NegotiationFailed, StreamTypeOK, states, eng, keys, ice, mqs, events, rest
  <1>17. CASE NotSuppOther
    <2>1. zcontext' \in Contexts
      BY <1>0, <1>1, <1>2, <1>17 DEF NotSuppOther, StreamTypeOK, states, eng, keys, ice, mqs, events, rest
    <2>2. zrtp_state' \in Outcomes
      BY <1>0, <1>1, <1>2, <1>17 DEF NotSuppOther, StreamTypeOK, states, eng, keys, ice, mqs, events, rest
    <2>3. pc' \in ThreadPlaces
      BY <1>0, <1>1, <1>2, <1>17 DEF NotSuppOther, StreamTypeOK, mqs
    <2>4. UNCHANGED <<cfg, ice_state, ice, engine, lost, taking, keys, handshake, mqs, events, stream, clicks>>
      BY <1>17 DEF NotSuppOther, rest
    <2> QED BY <2>1, <2>2, <2>3, <2>4 DEF StreamTypeOK, keys, ice, mqs, events
  <1>18. CASE TryFailed
    <2>1. rtp_mq' \in RtpQueues
      BY <1>0, <1>1, <1>2, <1>18 DEF TryFailed, StreamTypeOK, mqs
    <2>2. pc' \in ThreadPlaces
      BY <1>0, <1>1, <1>2, <1>18 DEF TryFailed, StreamTypeOK, mqs
    <2>3. UNCHANGED <<states, ice, eng, taking, keys, handshake, zrtp_mq, events, rest>>
      BY <1>18 DEF TryFailed
    <2> QED BY <2>1, <2>2, <2>3 DEF StreamTypeOK, states, eng, keys, ice, events, rest
  <1>19. CASE IceReady
    <2>1. ice_state' \in Outcomes /\ handshake' \in BOOLEAN /\ dtmfex' \in {"none", "open", "closed"}
      BY <1>0, <1>2, <1>19 DEF IceReady, StreamTypeOK
    <2>2. icestream' \in {"ready", "talking", "over"}
      BY <1>19 DEF IceReady
    <2>3. UNCHANGED <<zrtp_state, keepalive, eng, taking, keys, mqs, events, pc, rest>>
      BY <1>19 DEF IceReady
    <2> QED BY <2>1, <2>2, <2>3 DEF StreamTypeOK, eng, keys, mqs, events, rest
  <1>20. CASE DtmfDone
    <2>1. ice_state' \in Outcomes /\ handshake' \in BOOLEAN /\ dtmfex' \in {"none", "open", "closed"}
      BY <1>0, <1>2, <1>20 DEF DtmfDone, StreamTypeOK
    <2>2. icestream' \in {"ready", "talking", "over"}
      BY <1>20 DEF DtmfDone
    <2>3. UNCHANGED <<zrtp_state, keepalive, eng, taking, keys, mqs, events, pc, rest>>
      BY <1>20 DEF DtmfDone
    <2> QED BY <2>1, <2>2, <2>3 DEF StreamTypeOK, eng, keys, mqs, events, rest
  <1>21. CASE DtmfFails
    <2>1. ice_state' \in Outcomes /\ handshake' \in BOOLEAN /\ dtmfex' \in {"none", "open", "closed"}
      BY <1>0, <1>2, <1>21 DEF DtmfFails, StreamTypeOK
    <2>2. icestream' \in {"ready", "talking", "over"}
      BY <1>21 DEF DtmfFails
    <2>3. UNCHANGED <<zrtp_state, keepalive, eng, taking, keys, mqs, events, pc, rest>>
      BY <1>21 DEF DtmfFails
    <2> QED BY <2>1, <2>2, <2>3 DEF StreamTypeOK, eng, keys, mqs, events, rest
  <1>22. CASE IceFailed
    <2>1. ice_state' \in Outcomes /\ handshake' \in BOOLEAN /\ dtmfex' \in {"none", "open", "closed"}
      BY <1>0, <1>2, <1>22 DEF IceFailed, StreamTypeOK
    <2>2. icestream' \in {"ready", "talking", "over"}
      BY <1>22 DEF IceFailed
    <2>3. UNCHANGED <<zrtp_state, keepalive, eng, taking, keys, mqs, events, pc, rest>>
      BY <1>22 DEF IceFailed
    <2> QED BY <2>1, <2>2, <2>3 DEF StreamTypeOK, eng, keys, mqs, events, rest
  <1>23. CASE IceConnected
    <2>1. ice_state' \in Outcomes
      BY <1>0, <1>1, <1>2, <1>23 DEF IceConnected, StreamTypeOK, states, eng, keys, ice, mqs, events, rest
    <2>2. pc' \in ThreadPlaces
      BY <1>0, <1>1, <1>2, <1>23 DEF IceConnected, StreamTypeOK, mqs
    <2>3. icestream' = "over"
      BY <1>23 DEF IceConnected
    <2>4. UNCHANGED <<zrtp_state, eng, taking, handshake, dtmfex, keepalive, keys, mqs, events, rest>>
      BY <1>23 DEF IceConnected
    <2> QED BY <2>1, <2>2, <2>3, <2>4 DEF StreamTypeOK, eng, keys, mqs, events, rest
  <1>24. CASE GoSecure
    <2>1. clicks' \in Nat
      <3>1. clicks' = clicks + 1
        BY <1>24 DEF GoSecure
      <3> QED BY <3>1 DEF StreamTypeOK
    <2>2. rtp_mq' \in RtpQueues
      BY <1>0, <1>1, <1>2, <1>24 DEF GoSecure, StreamTypeOK, mqs
    <2>3. pc' \in ThreadPlaces
      BY <1>0, <1>1, <1>2, <1>24 DEF GoSecure, StreamTypeOK, mqs
    <2>4. UNCHANGED <<states, eng, taking, keys, ice, handshake, zrtp_mq, events, cfg, stream>>
      BY <1>24 DEF GoSecure
    <2> QED BY <2>1, <2>2, <2>3, <2>4 DEF StreamTypeOK, states, eng, keys, ice, events
  <1>25. CASE ZrtpPacket
    <2>1. zrtp_mq' \in ZrtpQueues
      BY <1>0, <1>1, <1>2, <1>25 DEF ZrtpPacket, StreamTypeOK, mqs
    <2>2. pc' \in ThreadPlaces
      BY <1>0, <1>1, <1>2, <1>25 DEF ZrtpPacket, StreamTypeOK, mqs
    <2> QED BY <2>1, <2>2, <1>25 DEF ZrtpPacket, StreamTypeOK, states, eng, keys, ice, mqs, events, rest
  <1>26. CASE DtmfStart
    <2>1. rtp_mq' \in RtpQueues
      BY <1>0, <1>1, <1>2, <1>26 DEF DtmfStart, StreamTypeOK, mqs
    <2>2. UNCHANGED <<states, eng, taking, keys, ice, handshake, zrtp_mq, events, pc, rest>>
      BY <1>26 DEF DtmfStart
    <2> QED BY <2>1, <2>2 DEF StreamTypeOK, states, eng, keys, ice, events, rest
  <1>27. CASE Close
    <2>1. rtp_mq' \in RtpQueues
      BY <1>0, <1>1, <1>2, <1>27 DEF Close, StreamTypeOK, mqs
    <2> QED BY <2>1, <1>27 DEF Close, StreamTypeOK, states, eng, keys, ice, mqs, events, rest
  <1>28. ASSUME NEW t \in Threads, FindEngine(t) PROVE StreamTypeOK'
    <2>1. pc' \in ThreadPlaces
      <3>1. \E where \in {"create", "queue"} : Goto(t, where, pc[t].then)
        BY <1>28 DEF FindEngine
      <3> QED BY <1>0, <1>1, <3>1
    <2> QED BY <2>1, <1>28 DEF FindEngine, StreamTypeOK, states, eng, keys, ice, mqs, events, rest
  <1>29. ASSUME NEW t \in Threads, CreateEngine(t) PROVE StreamTypeOK'
    <2>1. zcontext' \in Contexts /\ engine' \in Nat /\ lost' \in SUBSET Nat
      <3>1. engine \in Nat /\ lost \in SUBSET Nat
        BY DEF StreamTypeOK
      <3>2. zcontext' = "created" /\ engine' = engine + 1 /\ lost' \in {lost, lost \cup {engine}}
        BY <1>29 DEF CreateEngine
      <3>3. engine + 1 \in Nat /\ lost \cup {engine} \in SUBSET Nat
        BY <3>1
      <3> QED BY <1>2, <3>1, <3>2, <3>3, ZenonT(20)
    <2>2. pc' \in ThreadPlaces
      BY <1>0, <1>1, <1>29 DEF CreateEngine
    <2>3. UNCHANGED <<states, taking, keys, ice, handshake, mqs, events, rest>>
      BY <1>29 DEF CreateEngine
    <2> QED BY <2>1, <2>2, <2>3 DEF StreamTypeOK, states, keys, ice, mqs, events, rest
  <1>30. ASSUME NEW d \in Directions, SecretsOff(d) PROVE StreamTypeOK'
    <2>1. ctx' \in KeyOwners
      BY <1>0, <1>1, <1>2, <1>30 DEF SecretsOff, KeyOwners, StreamTypeOK, states, eng, keys, ice, mqs, events, rest
    <2>2. taking' \in SUBSET Directions
      BY <1>0, <1>1, <1>2, <1>30 DEF SecretsOff, StreamTypeOK, states, eng, keys, ice, mqs, events, rest
    <2>3. pc' \in ThreadPlaces
      BY <1>0, <1>1, <1>2, <1>30 DEF SecretsOff, StreamTypeOK, mqs
    <2>4. UNCHANGED <<states, eng, secure, ctrl, ice, handshake, mqs, events, rest>>
      BY <1>30 DEF SecretsOff
    <2> QED BY <2>1, <2>2, <2>3, <2>4 DEF StreamTypeOK, states, eng, ice, mqs, events, rest
  <1>31. CASE SecureOff
    <2>1. pc' \in ThreadPlaces
      BY <1>0, <1>1, <1>2, <1>31 DEF SecureOff, StreamTypeOK, mqs
    <2>2. secure' \in BOOLEAN
      BY <1>31 DEF SecureOff
    <2>3. UNCHANGED <<states, eng, taking, ctx, ctrl, ice, handshake, mqs, events, rest>>
      BY <1>31 DEF SecureOff
    <2> QED BY <2>1, <2>2, <2>3 DEF StreamTypeOK, states, eng, ice, mqs, events, rest
  <1>32. CASE EngineStopped
    <2>1. pc' \in ThreadPlaces /\ zcontext' \in Contexts /\ stop_event' \in BOOLEAN
      BY <1>0, <1>1, <1>2, <1>32 DEF EngineStopped
    <2>2. UNCHANGED <<states, ice, engine, lost, taking, keys, handshake, mqs, start_event, rest>>
      BY <1>32 DEF EngineStopped
    <2> QED BY <2>1, <2>2 DEF StreamTypeOK, states, keys, ice, mqs, rest
  <1>33. CASE EngineFailed
    <2>1. pc' \in ThreadPlaces /\ zrtp_state' \in Outcomes
      BY <1>0, <1>1, <1>2, <1>33 DEF EngineFailed
    <2>2. UNCHANGED <<ice_state, ice, eng, taking, keys, handshake, mqs, events, rest>>
      BY <1>33 DEF EngineFailed
    <2> QED BY <2>1, <2>2 DEF StreamTypeOK, eng, keys, ice, mqs, events, rest
  <1> QED
    BY <1>1, <1>3, <1>4, <1>5, <1>6, <1>7, <1>8, <1>9, <1>10, <1>11, <1>12, <1>13, <1>14, <1>15, <1>16, <1>17, <1>18, <1>19, <1>20, <1>21, <1>22, <1>23, <1>24, <1>25, <1>26, <1>27,
       <1>28, <1>29, <1>30, <1>31, <1>32, <1>33
    DEF Next, RtpStep, ZrtpStep, IceStep, GuiStep, Starts

\* What the ZRTP thread takes back, and whether it is between the key and the flag.
SameWork == (AtWork' <=> AtWork) /\ (pc'["zrtp"].at = "flag" <=> pc["zrtp"].at = "flag")

LEMMA WorkAsBefore ==
  /\ pc' = pc => SameWork
  /\ \A t \in {"rtp", "gui"} : \A where, what : Moves(t, where, what) => SameWork
  /\ \A where, what :
       Moves("zrtp", where, what) /\ pc["zrtp"].at \notin {"off", "flag"}
         /\ where \notin {"off", "flag"} => SameWork
  BY DEF Moves, SameWork, AtWork, Threads

\* A click, a packet and ICE let their thread begin to start an engine, if any does.
LEMMA Beginning ==
  ASSUME StreamTypeOK, IceConnected \/ ZrtpPacket \/ GoSecure
  PROVE  \/ pc' = pc
         \/ IceConnected /\ pc["rtp"].at = "idle" /\ Moves("rtp", "begin", "")
         \/ ZrtpPacket /\ pc["rtp"].at = "idle" /\ Moves("rtp", "begin", "packet")
         \/ GoSecure /\ pc["gui"].at = "idle" /\ Moves("gui", "begin", "")
  <1>1. "rtp" \in Threads /\ "gui" \in Threads /\ "begin" \in Places /\ "" \in Afters /\ "packet" \in Afters
    BY DEF Threads, Places, Afters
  <1>2. \/ pc' = pc
        \/ IceConnected /\ IsIdle("rtp") /\ Goto("rtp", "begin", "")
        \/ ZrtpPacket /\ IsIdle("rtp") /\ Goto("rtp", "begin", "packet")
        \/ GoSecure /\ IsIdle("gui") /\ Goto("gui", "begin", "")
    BY DEF IceConnected, ZrtpPacket, GoSecure, BeginZrtp, Hears
  <1> QED BY <1>1, <1>2, ThreadMoves

\* Where the steps to a started engine lead a thread.
LEMMA Starting ==
  ASSUME StreamTypeOK, NEW t \in {"rtp", "gui"}
  PROVE  /\ FindEngine(t) =>
              /\ pc[t].at = "begin"
              /\ \/ zcontext = "null" /\ Moves(t, "create", pc[t].then)
                 \/ zcontext # "null" /\ Moves(t, "queue", pc[t].then)
         /\ CreateEngine(t) => pc[t].at = "create" /\ Moves(t, "queue", pc[t].then)
         /\ QueueStart(t) => pc[t].at = "queue" /\ Moves(t, "wait", pc[t].then)
         /\ Started(t) => pc[t].at = "wait" /\ Moves(t, "idle", "")
  <1>1. t \in Threads /\ "create" \in Places /\ "queue" \in Places /\ "wait" \in Places
    BY DEF Threads, Places
  <1>2. /\ \A where \in Places, what \in Afters : Goto(t, where, what) => Moves(t, where, what)
        /\ Done(t) => Moves(t, "idle", "")
        /\ pc[t].then \in Afters
    BY <1>1, ThreadMoves
  <1> QED BY <1>1, <1>2 DEF FindEngine, CreateEngine, QueueStart, Started

\* And the ZRTP thread's way through the end of an engine.
LEMMA Ends ==
  ASSUME StreamTypeOK
  PROVE  /\ StopEngine => pc["zrtp"].at = "idle" /\ Moves("zrtp", "off", "stop")
         /\ NegotiationFailed => pc["zrtp"].at = "idle" /\ Moves("zrtp", "off", "fail")
         /\ \A d \in Directions : SecretsOff(d) =>
              pc["zrtp"].at = "off" /\ Moves("zrtp", "flag", pc["zrtp"].then)
         /\ SecureOff => pc["zrtp"].at = "flag" /\ Moves("zrtp", "off", pc["zrtp"].then)
         /\ EngineStopped => /\ pc["zrtp"].at = "off" /\ pc["zrtp"].then = "stop"
                             /\ Moves("zrtp", "idle", "")
         /\ EngineFailed => /\ pc["zrtp"].at = "off" /\ pc["zrtp"].then = "fail"
                            /\ Moves("zrtp", "failed", "")
         /\ NotSuppOther => pc["zrtp"].at = "idle" /\ Moves("zrtp", "failed", "")
         /\ TryFailed => pc["zrtp"].at = "failed" /\ Moves("zrtp", "idle", "")
  <1>1. /\ "zrtp" \in Threads /\ "off" \in Places /\ "flag" \in Places /\ "failed" \in Places
        /\ "" \in Afters /\ "stop" \in Afters /\ "fail" \in Afters
    BY DEF Threads, Places, Afters
  <1>2. /\ \A where \in Places, what \in Afters : Goto("zrtp", where, what) => Moves("zrtp", where, what)
        /\ Done("zrtp") => Moves("zrtp", "idle", "")
        /\ pc["zrtp"].then \in Afters
        /\ IsIdle("zrtp") => pc["zrtp"].at = "idle"
    BY <1>1, ThreadMoves
  <1>3. /\ StopEngine => IsIdle("zrtp") /\ Goto("zrtp", "off", "stop")
        /\ NegotiationFailed => IsIdle("zrtp") /\ Goto("zrtp", "off", "fail")
        /\ NotSuppOther => IsIdle("zrtp") /\ Goto("zrtp", "failed", "")
    BY DEF StopEngine, NegotiationFailed, NotSuppOther, TakeZ
  <1>4. /\ EngineStopped => pc["zrtp"].at = "off" /\ pc["zrtp"].then = "stop"
        /\ EngineFailed => pc["zrtp"].at = "off" /\ pc["zrtp"].then = "fail"
    <2>1. EngineStopped => pc["zrtp"] = [at |-> "off", then |-> "stop"]
      BY DEF EngineStopped
    <2>2. EngineFailed => pc["zrtp"] = [at |-> "off", then |-> "fail"]
      BY DEF EngineFailed
    <2> QED BY <2>1, <2>2
  <1> QED BY <1>1, <1>2, <1>3, <1>4 DEF SecretsOff, SecureOff, EngineStopped, EngineFailed, TryFailed

----------------------------------------------------------------------------
(* Keys.                                                                   *)

\* While the ZRTP thread is not at work there is nothing to take back, and what
\* an engine at its end has given is all there is.
LEMMA KeysAtRest ==
  ASSUME StreamTypeOK, KeysOK
  PROVE  /\ ~AtWork => taking = {}
         /\ AtWork => Given = {}
         /\ secure /\ lost = {} /\ ~AtWork => zcontext = "secure" /\ Given = Directions
  BY DEF KeysOK, AtWork, Given

LEMMA KeysKept == StreamInv /\ [Next]_svars => KeysOK'
  <1> SUFFICES ASSUME StreamInv, [Next]_svars PROVE KeysOK'
    OBVIOUS
  <1>0. StreamTypeOK /\ KeysOK /\ ShutOK
    BY DEF StreamInv
  <1>1. ASSUME UNCHANGED <<eng, taking, keys>>, SameWork PROVE KeysOK'
    <2>1. UNCHANGED <<zcontext, engine, lost, taking, secure, ctx, ctrl>>
      BY <1>1 DEF eng, keys
    <2> QED BY <1>0, <1>1, <2>1 DEF KeysOK, SameWork, Given, Owned, Early
  <1>2. CASE UNCHANGED svars
    BY <1>1, <1>2, WorkAsBefore DEF svars
  <1>3. CASE \E t \in {"rtp", "gui"} : FindEngine(t) \/ QueueStart(t) \/ Started(t)
    <2>1. PICK t \in {"rtp", "gui"} : FindEngine(t) \/ QueueStart(t) \/ Started(t)
      BY <1>3
    <2>2. \E where, what : Moves(t, where, what)
      BY <1>0, <2>1, Starting
    <2>3. UNCHANGED <<eng, taking, keys>>
      BY <2>1 DEF FindEngine, QueueStart, Started
    <2> QED BY <1>1, <2>2, <2>3, WorkAsBefore
  \* A lost engine's keys stay what they are; they were the last engine's.
  <1>4. ASSUME NEW t \in {"rtp", "gui"}, CreateEngine(t) PROVE KeysOK'
    <2>1. SameWork
      BY <1>0, <1>4, Starting, WorkAsBefore
    <2>2. /\ zcontext' = "created" /\ engine' = engine + 1 /\ taking' = taking
          /\ secure' = secure /\ ctx' = ctx /\ ctrl' = ctrl
          /\ lost' = IF zcontext = "null" THEN lost ELSE lost \cup {engine}
      BY <1>4 DEF CreateEngine, keys
    <2>3. engine \in Nat /\ lost \in SUBSET Nat
      BY <1>0 DEF StreamTypeOK
    <2>4. engine' # 0 /\ \A n \in lost' : n < engine'
      BY <1>0, <2>2, <2>3 DEF KeysOK
    <2>5. Given' = {}
      BY <2>2 DEF Given
    <2>6. zcontext = "null" => taking = {} /\ Given = {} /\ pc["zrtp"].at # "flag"
      BY <1>0 DEF KeysOK, Given
    <2>7. \A d \in Directions : IF d \in taking THEN ctx'[d] \in lost' ELSE Early(d)'
      BY <1>0, <2>2, <2>6 DEF KeysOK, Owned, Early
    <2>8. secure' => lost' # {}
      BY <1>0, <2>2, <2>6 DEF KeysOK, Directions
    <2> QED BY <1>0, <2>1, <2>2, <2>4, <2>5, <2>6, <2>7, <2>8 DEF KeysOK, SameWork
  <1>5. CASE DoStartIce \/ StartIce \/ StopHandshake \/ DoClose
    <2>1. UNCHANGED <<eng, taking, keys>>
      BY <1>5 DEF DoStartIce, StartIce, StopHandshake, DoClose
    <2>2. \/ pc' = pc \/ Done("rtp") \/ Goto("rtp", "ice", "")
          \/ Goto("rtp", "free", "") \/ Goto("rtp", "wait stop", "")
      BY <1>5 DEF DoStartIce, StartIce, StopHandshake, DoClose
    <2>3. pc' = pc \/ \E where, what : Moves("rtp", where, what)
      BY <1>0, <2>2, ThreadMoves DEF Threads, Places, Afters
    <2> QED BY <1>1, <2>1, <2>3, WorkAsBefore
  <1>6. CASE IceReady \/ DtmfDone \/ DtmfFails \/ IceFailed \/ DtmfStart \/ Close
    <2>1. UNCHANGED <<eng, taking, keys, pc>>
      BY <1>6 DEF IceReady, DtmfDone, DtmfFails, IceFailed, DtmfStart, Close
    <2> QED BY <1>1, <2>1, WorkAsBefore
  <1>7. CASE TryFailed
    <2>1. UNCHANGED <<eng, taking, keys>>
      BY <1>7 DEF TryFailed
    <2>2. pc["zrtp"].at = "failed" /\ Moves("zrtp", "idle", "")
      BY <1>0, <1>7, Ends
    <2>3. SameWork
      BY <2>2 DEF SameWork, AtWork, Moves
    <2> QED BY <1>1, <2>1, <2>3
  <1>8. CASE IceConnected \/ GoSecure \/ ZrtpPacket
    <2>1. UNCHANGED <<eng, taking, keys>>
      BY <1>8 DEF IceConnected, GoSecure, ZrtpPacket
    <2> QED BY <1>0, <1>1, <1>8, <2>1, Beginning, WorkAsBefore
  <1>9. CASE FreeStream
    <2>1. Shut /\ ~Stopping
      BY <1>9 DEF FreeStream, Shut, Ending, Stopping
    <2>2. /\ zcontext \notin {"half", "secure"} /\ taking = {} /\ pc["zrtp"].at # "flag"
      BY <1>0, <2>1 DEF ShutOK
    <2>3. /\ zcontext' = zcontext /\ engine' = engine /\ lost' = lost /\ taking' = taking
          /\ secure' = secure /\ ctx' = NoKeys
      BY <1>9 DEF FreeStream, eng
    <2>4. SameWork
      BY <1>0, <1>9, ThreadMoves, WorkAsBefore DEF FreeStream, Threads
    <2>5. Given' = {} /\ \A d \in Directions : Early(d)'
      BY <2>2, <2>3 DEF Given, Early, NoKeys
    <2>6. ~(secure /\ lost = {})
      BY <1>0, <2>2 DEF KeysOK, Directions
    <2> QED BY <1>0, <2>2, <2>3, <2>4, <2>5, <2>6 DEF KeysOK, SameWork
  \* No key comes or goes with these.
  <1>10. CASE StartEngine \/ HandleInput \/ NotSuppOther
    <2>1. UNCHANGED <<engine, lost, taking, secure, ctx, ctrl>>
      BY <1>10 DEF StartEngine, HandleInput, NotSuppOther, keys
    <2>2. pc["zrtp"].at = "idle" /\ SameWork
      BY <1>0, <1>10, ThreadMoves, Ends, WorkAsBefore
      DEF StartEngine, HandleInput, NotSuppOther, TakeZ, Threads
    <2>3. zcontext' = zcontext \/ (zcontext \in {"created", "hello", "quiet"} /\ zcontext' \in {"hello", "quiet", "running"})
      BY <1>10 DEF StartEngine, HandleInput, NotSuppOther
    <2>4. Given' = Given /\ (zcontext' # "null" <=> zcontext # "null") /\ (zcontext' = "secure" <=> zcontext = "secure")
      BY <2>3 DEF Given
    <2>5. \A d \in Directions : (Owned(d)' <=> Owned(d)) /\ (Early(d)' <=> Early(d))
      BY <2>1 DEF Owned, Early
    <2>6. ~AtWork /\ ~AtWork' /\ pc'["zrtp"].at # "flag"
      BY <2>2 DEF AtWork, SameWork
    <2> QED BY <1>0, <2>1, <2>4, <2>5, <2>6 DEF KeysOK
  <1>11. CASE StopEngine \/ NegotiationFailed
    <2>1. UNCHANGED <<engine, lost, secure, ctx, ctrl>> /\ taking' = Given
      BY <1>11 DEF StopEngine, NegotiationFailed, keys
    <2>2. zcontext' \in {"null", "over"} /\ (zcontext' = "null" <=> zcontext = "null")
      BY <1>11 DEF StopEngine, NegotiationFailed
    <2>3. ~AtWork /\ pc'["zrtp"].at = "off"
      BY <1>0, <1>11, Ends DEF AtWork, Moves
    <2>4. Given' = {} /\ (Given # {} => zcontext # "null") /\ taking = {}
      BY <1>0, <2>2, <2>3, KeysAtRest DEF Given
    <2>5. \A d \in Directions : (Owned(d)' <=> Owned(d)) /\ (Early(d)' <=> Early(d))
      BY <2>1 DEF Owned, Early
    <2>6. secure' /\ lost' = {} => taking' = Directions
      BY <1>0, <2>1, <2>3, KeysAtRest
    <2>7. AtWork' /\ pc'["zrtp"].at # "flag"
      BY <2>3 DEF AtWork
    <2> QED BY <1>0, <2>1, <2>2, <2>4, <2>5, <2>6, <2>7 DEF KeysOK
  <1>12. ASSUME NEW d \in Directions, SecretsOff(d) PROVE KeysOK'
    <2>1. /\ UNCHANGED <<zcontext, engine, lost, secure, ctrl>> /\ d \in taking
          /\ taking' = taking \ {d} /\ ctx' = [ctx EXCEPT ![d] = 0]
      BY <1>12 DEF SecretsOff, eng
    <2>2. pc["zrtp"].at = "off" /\ pc'["zrtp"].at = "flag" /\ AtWork /\ AtWork'
      BY <1>0, <1>12, Ends DEF AtWork, Moves
    <2>3. Given = {} /\ Given' = {} /\ zcontext # "null"
      BY <1>0, <2>1, <2>2, KeysAtRest DEF KeysOK, Given
    <2>4. ctx'[d] = 0 /\ \A e \in Directions : e # d => ctx'[e] = ctx[e]
      BY <1>0, <2>1 DEF StreamTypeOK, KeyOwners
    <2>5. \A e \in Directions : IF e \in taking' THEN Owned(e)' \/ ctx'[e] \in lost' ELSE Early(e)'
      BY <1>0, <2>1, <2>3, <2>4 DEF KeysOK, Owned, Early
    <2> QED BY <1>0, <2>1, <2>2, <2>3, <2>5 DEF KeysOK
  <1>13. CASE SecureOff
    <2>1. UNCHANGED <<zcontext, engine, lost, taking, ctx, ctrl>> /\ secure' = FALSE
      BY <1>13 DEF SecureOff, eng
    <2>2. AtWork /\ AtWork' /\ pc["zrtp"].at = "flag" /\ pc'["zrtp"].at = "off"
      BY <1>0, <1>13, Ends DEF AtWork, Moves
    <2> QED BY <1>0, <2>1, <2>2 DEF KeysOK, Given, Owned, Early
  <1>14. CASE EngineStopped \/ EngineFailed
    <2>1. UNCHANGED <<engine, lost, taking, secure, ctx, ctrl>> /\ taking = {}
      BY <1>14 DEF EngineStopped, EngineFailed, eng, keys
    <2>2. zcontext' = zcontext \/ zcontext' = "null"
      BY <1>14 DEF EngineStopped, EngineFailed, eng
    <2>3. AtWork /\ pc["zrtp"].at = "off" /\ ~AtWork' /\ pc'["zrtp"].at # "flag"
      BY <1>0, <1>14, Ends DEF AtWork, Moves
    <2>4. Given = {} /\ Given' = {}
      BY <1>0, <2>2, <2>3, KeysAtRest DEF Given
    <2>5. ~(secure /\ lost = {})
      BY <1>0, <2>1, <2>3 DEF KeysOK, Directions
    <2> QED BY <1>0, <2>1, <2>2, <2>3, <2>4, <2>5 DEF KeysOK, Owned, Early
  \* A key is put where there is none, and there is none but the receiver's of
  \* this engine or a lost one's.
  <1>15. CASE SecretsReady
    <2>1. UNCHANGED <<engine, lost, taking, secure>> /\ zcontext = "running" /\ zcontext' = "half"
          /\ KeyReady({"recv"}) /\ pc' = pc
      BY <1>15 DEF SecretsReady
    <2>2. pc["zrtp"].at = "idle" /\ ~AtWork /\ ~AtWork' /\ taking = {}
      BY <1>0, <1>15, <2>1, ThreadMoves, KeysAtRest DEF SecretsReady, TakeZ, AtWork, Threads
    <2>3. Given = {} /\ Given' = {"recv"} /\ engine # 0
      BY <1>0, <2>1 DEF Given, KeysOK
    <2>4. Owned("recv")' \/ ctx'["recv"] \in lost
      BY <1>0, <2>1, <2>2, <2>3 DEF KeysOK, KeyReady, Owned, Early, Directions
    <2>5. Early("send")'
      BY <1>0, <2>1, <2>2, <2>3 DEF KeysOK, KeyReady, Early, Directions
    <2>6. ~(secure /\ lost = {})
      BY <1>0, <2>1, <2>2, KeysAtRest
    <2> QED BY <1>0, <2>1, <2>2, <2>3, <2>4, <2>5, <2>6 DEF KeysOK, Directions
  <1>16. CASE Negotiated \/ Conf2AckSecure
    <2>1. UNCHANGED <<engine, lost, taking>> /\ zcontext \in {"running", "half"} /\ zcontext' = "secure"
          /\ KeyReady(Directions) /\ pc' = pc /\ IsIdle("zrtp")
      BY <1>16 DEF Negotiated, Conf2AckSecure, SecretsOn, TakeZ
    <2>2. pc["zrtp"].at = "idle" /\ ~AtWork /\ ~AtWork' /\ taking = {}
      BY <1>0, <2>1, ThreadMoves, KeysAtRest DEF AtWork, Threads
    <2>3. Given \in SUBSET Directions /\ Given' = Directions /\ engine # 0
      BY <1>0, <2>1 DEF Given, KeysOK, Directions
    <2>4. \A d \in Directions : Owned(d)' \/ ctx'[d] \in lost
      BY <1>0, <2>1, <2>2, <2>3 DEF KeysOK, KeyReady, Owned, Early
    <2> QED BY <1>0, <2>1, <2>2, <2>3, <2>4 DEF KeysOK
  <1> QED
    BY <1>2, <1>3, <1>4, <1>5, <1>6, <1>7, <1>8, <1>9, <1>10, <1>11, <1>12, <1>13, <1>14, <1>15, <1>16
    DEF Next, RtpStep, ZrtpStep, IceStep, GuiStep, Starts

\* A freed stream gets no key.
LEMMA ClosedKept == StreamInv /\ [Next]_svars => ClosedHasNoKeys'
  <1> SUFFICES ASSUME StreamInv, [Next]_svars, stream' = "closed" PROVE ClosedHasNoKeys'
    BY DEF ClosedHasNoKeys
  <1>0. StreamTypeOK /\ KeysOK /\ ShutOK /\ ThreadsOK /\ ClosedHasNoKeys
    BY DEF StreamInv
  <1>1. CASE FreeStream
    <2>1. Shut /\ ~Stopping
      BY <1>1 DEF FreeStream, Shut, Ending, Stopping
    <2>2. ~(secure /\ lost = {})
      BY <1>0, <2>1 DEF ShutOK, KeysOK, Directions
    <2> QED BY <1>1, <2>2 DEF FreeStream, ClosedHasNoKeys, eng
  <1>2. ASSUME stream = "closed", ctx' = ctx, lost' = lost \/ lost' # {}, secure' = secure \/ ~secure'
        PROVE  ClosedHasNoKeys'
    BY <1>0, <1>2 DEF ClosedHasNoKeys
  <1>3. ASSUME stream = "closed" PROVE zcontext \notin {"running", "half", "secure"} /\ taking = {}
    BY <1>0, <1>3 DEF ShutOK, ThreadsOK, Shut, Stopping, Ending
  <1>4. CASE UNCHANGED svars
    BY <1>2, <1>4 DEF svars, keys, rest, eng
  <1>5. CASE \E t \in {"rtp", "gui"} : FindEngine(t) \/ CreateEngine(t) \/ QueueStart(t) \/ Started(t)
    BY <1>2, <1>5 DEF FindEngine, CreateEngine, QueueStart, Started, keys, rest, eng
  <1>6. CASE DoStartIce \/ StartIce \/ StopHandshake \/ DoClose
    BY <1>2, <1>6 DEF DoStartIce, StartIce, StopHandshake, DoClose, keys, rest, eng
  <1>7. CASE IceReady \/ DtmfDone \/ DtmfFails \/ IceFailed \/ DtmfStart \/ Close
    BY <1>2, <1>7 DEF IceReady, DtmfDone, DtmfFails, IceFailed, DtmfStart, Close, keys, rest, eng
  <1>8. CASE IceConnected \/ GoSecure \/ ZrtpPacket
    BY <1>2, <1>8 DEF IceConnected, GoSecure, ZrtpPacket, keys, rest, eng
  <1>9. CASE StartEngine \/ HandleInput \/ NotSuppOther \/ TryFailed
    BY <1>2, <1>9 DEF StartEngine, HandleInput, NotSuppOther, TryFailed, keys, rest, eng
  <1>10. CASE StopEngine \/ NegotiationFailed \/ SecureOff \/ EngineStopped \/ EngineFailed
    BY <1>2, <1>10 DEF StopEngine, NegotiationFailed, SecureOff, EngineStopped, EngineFailed, keys, rest, eng
  <1>11. CASE (\E d \in Directions : SecretsOff(d)) \/ SecretsReady \/ Negotiated \/ Conf2AckSecure
    BY <1>3, <1>11 DEF SecretsOff, SecretsReady, Negotiated, Conf2AckSecure, SecretsOn, rest
  <1> QED
    BY <1>1, <1>4, <1>5, <1>6, <1>7, <1>8, <1>9, <1>10, <1>11
    DEF Next, RtpStep, ZrtpStep, IceStep, GuiStep, Starts

----------------------------------------------------------------------------
(* The handshake and the exchange of ids.                                  *)

\* Whoever ends the handshake ends the exchange, and who begins an engine
\* holds media back.
LEMMA ExchangeKept == ExchangeIsHeard /\ [Next]_svars => ExchangeIsHeard'
  <1> SUFFICES ASSUME ExchangeIsHeard, [Next]_svars PROVE ExchangeIsHeard'
    OBVIOUS
  <1>1. ASSUME UNCHANGED <<dtmfex, handshake>> PROVE ExchangeIsHeard'
    BY <1>1 DEF ExchangeIsHeard
  <1>2. ASSUME HandshakeStops PROVE ExchangeIsHeard'
    BY <1>2 DEF HandshakeStops, ExchangeIsHeard
  <1>3. ASSUME handshake' = TRUE PROVE ExchangeIsHeard'
    BY <1>3 DEF ExchangeIsHeard
  <1>4. CASE UNCHANGED svars
    BY <1>1, <1>4 DEF svars, ice
  <1>5. CASE \E t \in {"rtp", "gui"} : FindEngine(t) \/ CreateEngine(t) \/ QueueStart(t) \/ Started(t)
    BY <1>1, <1>3, <1>5 DEF FindEngine, CreateEngine, QueueStart, Started, ice
  <1>6. CASE DoStartIce \/ FreeStream \/ TryFailed \/ DtmfStart \/ Close
    BY <1>1, <1>6 DEF DoStartIce, FreeStream, TryFailed, DtmfStart, Close, ice
  <1>7. CASE StartEngine \/ StopEngine \/ EngineStopped \/ EngineFailed \/ HandleInput
    BY <1>1, <1>7 DEF StartEngine, StopEngine, EngineStopped, EngineFailed, HandleInput, ice
  <1>8. CASE (\E d \in Directions : SecretsOff(d)) \/ SecureOff \/ NegotiationFailed \/ NotSuppOther
    BY <1>1, <1>8 DEF SecretsOff, SecureOff, NegotiationFailed, NotSuppOther, ice
  <1>9. CASE SecretsReady \/ Negotiated \/ Conf2AckSecure
    BY <1>1, <1>9 DEF SecretsReady, Negotiated, Conf2AckSecure, SecretsOn, ice
  <1>10. CASE StopHandshake
    BY <1>2, <1>10 DEF StopHandshake
  <1>11. CASE StartIce
    BY <1>2, <1>3, <1>11 DEF StartIce, IceFails
  <1>12. CASE DoClose
    BY <1>12 DEF DoClose, ExchangeIsHeard
  <1>13. CASE IceReady \/ DtmfDone \/ DtmfFails \/ IceFailed
    BY <1>1, <1>2, <1>13 DEF IceReady, DtmfDone, DtmfFails, IceFailed, IceFails
  <1>14. CASE IceConnected \/ GoSecure \/ ZrtpPacket
    BY <1>1, <1>14 DEF IceConnected, GoSecure, ZrtpPacket, ice
  <1> QED
    BY <1>4, <1>5, <1>6, <1>7, <1>8, <1>9, <1>10, <1>11, <1>12, <1>13, <1>14
    DEF Next, RtpStep, ZrtpStep, IceStep, GuiStep, Starts

----------------------------------------------------------------------------
(* Who waits for a start.                                                  *)

\* No start and no event comes, and nobody begins or ceases to wait.
NoNewStart ==
  /\ Has(zrtp_mq', "start") => Has(zrtp_mq, "start")
  /\ Before(zrtp_mq', "start", "start") => Before(zrtp_mq, "start", "start")
  /\ Three(zrtp_mq', "start") => Three(zrtp_mq, "start")
SameWaiters == \A t \in {"rtp", "gui"} : pc'[t].at = "wait" <=> pc[t].at = "wait"

LEMMA NoStartComes ==
  /\ zrtp_mq' = zrtp_mq => NoNewStart
  /\ \A e : e # "start" /\ ZrtpGrows(e) => NoNewStart
  /\ \A e : ZrtpShrinks(e) => NoNewStart
  <1>1. zrtp_mq' = zrtp_mq => NoNewStart
    BY DEF NoNewStart
  <1>2. \A e : e # "start" /\ ZrtpGrows(e) => NoNewStart
    BY DEF NoNewStart, ZrtpGrows
  <1>3. \A e : ZrtpShrinks(e) => NoNewStart
    BY DEF NoNewStart, ZrtpShrinks
  <1> QED BY <1>1, <1>2, <1>3

LEMMA WaitersAsBefore ==
  /\ pc' = pc => SameWaiters
  /\ \A t \in {"rtp", "gui", "zrtp"} : \A where, what :
       Moves(t, where, what) /\ where # "wait" /\ pc[t].at # "wait" => SameWaiters
  <1>1. pc' = pc => SameWaiters
    BY DEF SameWaiters
  <1>2. ASSUME NEW t \in {"rtp", "gui", "zrtp"}, NEW where, NEW what,
               Moves(t, where, what), where # "wait", pc[t].at # "wait"
        PROVE  SameWaiters
    BY <1>2 DEF Moves, SameWaiters, Threads
  <1> QED BY <1>1, <1>2

LEMMA WaitersKept == StreamInv /\ [Next]_svars => WaitersOK'
  <1> SUFFICES ASSUME StreamInv, [Next]_svars PROVE WaitersOK'
    OBVIOUS
  <1>0. StreamTypeOK /\ WaitersOK
    BY DEF StreamInv
  <1>1. ASSUME start_event' = start_event, NoNewStart, SameWaiters PROVE WaitersOK'
    BY <1>0, <1>1 DEF WaitersOK, Waits, NoNewStart, SameWaiters
  <1>2. "rtp" \in Threads /\ "gui" \in Threads /\ "zrtp" \in Threads
    BY DEF Threads
  <1>3. CASE UNCHANGED svars
    BY <1>1, <1>3, NoStartComes, WaitersAsBefore DEF svars, mqs, events
  <1>4. ASSUME NEW t \in {"rtp", "gui"}, QueueStart(t) PROVE WaitersOK'
    <2>1. Moves(t, "wait", pc[t].then) /\ pc[t].at = "queue"
      BY <1>0, <1>2, <1>4, ThreadMoves DEF QueueStart, Places
    <2>2. ZrtpGrows("start") /\ start_event' = FALSE
      BY <1>0, <1>4, QueuesMove DEF QueueStart, ToZrtpMessages
    <2>3. PICK u \in {"rtp", "gui"} : u # t
      OBVIOUS
    <2>4. pc'[t].at = "wait" /\ pc'[u].at = pc[u].at /\ pc[t].at # "wait"
      BY <2>1, <2>3, <1>2 DEF Moves
    <2>5. ~Three(zrtp_mq', "start") /\ ~Before(zrtp_mq, "start", "start")
      BY <2>2, <2>4, <2>3, <1>0 DEF WaitersOK, Waits, ZrtpGrows
    <2>6. pc[u].at # "wait" => ~Has(zrtp_mq, "start")
      BY <2>3, <2>4, <1>0 DEF WaitersOK, Waits
    <2>7. pc[u].at # "wait" => ~Before(zrtp_mq', "start", "start")
      BY <2>2, <2>5, <2>6 DEF ZrtpGrows
    <2>8. {t, u} = {"rtp", "gui"}
      BY <2>3
    <2> QED BY <2>2, <2>3, <2>4, <2>5, <2>7, <2>8 DEF WaitersOK, Waits
  <1>5. ASSUME NEW t \in {"rtp", "gui"}, Started(t) PROVE WaitersOK'
    <2>1. Moves(t, "idle", "") /\ pc[t].at = "wait" /\ start_event /\ start_event' = FALSE
      BY <1>0, <1>2, <1>5, ThreadMoves DEF Started
    <2>2. ToZrtp("packet") \/ zrtp_mq' = zrtp_mq
      BY <1>5 DEF Started, ToZrtp
    <2>3. NoNewStart
      BY <1>0, <2>2, QueuesMove, NoStartComes DEF ToZrtpMessages
    <2>4. PICK u \in {"rtp", "gui"} : u # t
      OBVIOUS
    <2>5. pc'[t].at # "wait" /\ pc'[u].at = pc[u].at
      BY <2>1, <2>4, <1>2 DEF Moves
    <2>6. ~Before(zrtp_mq, "start", "start") /\ ~Three(zrtp_mq, "start")
      BY <2>1, <1>0 DEF WaitersOK
    <2>7. pc[u].at # "wait" => ~Has(zrtp_mq, "start")
      BY <2>1, <2>4, <1>0 DEF WaitersOK, Waits
    <2> QED BY <2>1, <2>3, <2>4, <2>5, <2>6, <2>7 DEF WaitersOK, Waits, NoNewStart
  <1>6. CASE StartEngine
    <2>1. ZrtpShrinks("start") /\ start_event' = TRUE /\ pc' = pc
      BY <1>0, <1>6, QueuesMove DEF StartEngine
    <2> QED BY <1>0, <2>1 DEF WaitersOK, Waits, ZrtpShrinks
  <1>7. CASE DoStartIce \/ DoClose
    <2>1. start_event' = start_event
      BY <1>7 DEF DoStartIce, DoClose
    <2>2. ToZrtp("stop") \/ zrtp_mq' = zrtp_mq
      BY <1>7 DEF DoStartIce, DoClose, StopZrtp
    <2>3. NoNewStart
      BY <1>0, <2>2, QueuesMove, NoStartComes DEF ToZrtpMessages
    <2>4. IsIdle("rtp")
      BY <1>7 DEF DoStartIce, DoClose, Take
    <2>5. \/ Goto("rtp", "ice", "") \/ Goto("rtp", "free", "") \/ Goto("rtp", "wait stop", "")
          \/ pc' = pc
      BY <1>7 DEF DoStartIce, DoClose
    <2>6. SameWaiters
      <3>1. pc["rtp"].at = "idle"
        BY <1>0, <1>2, <2>4, ThreadMoves
      <3>2. /\ "ice" \in Places /\ "free" \in Places /\ "wait stop" \in Places /\ "" \in Afters
        BY DEF Places, Afters
      <3>3. \/ Moves("rtp", "ice", "") \/ Moves("rtp", "free", "") \/ Moves("rtp", "wait stop", "")
            \/ pc' = pc
        BY <1>0, <1>2, <2>5, <3>2, ThreadMoves
      <3> QED BY <3>1, <3>3, WaitersAsBefore
    <2> QED BY <1>1, <2>1, <2>3, <2>6
  <1>8. CASE StartIce \/ FreeStream \/ TryFailed
    <2>1. start_event' = start_event /\ zrtp_mq' = zrtp_mq
      BY <1>8 DEF StartIce, FreeStream, TryFailed, events, mqs
    <2>2. \/ pc["rtp"].at # "wait" /\ Done("rtp")
          \/ pc["zrtp"].at # "wait" /\ Done("zrtp")
      BY <1>8 DEF StartIce, FreeStream, TryFailed
    <2>3. SameWaiters
      BY <1>0, <1>2, <2>2, ThreadMoves, WaitersAsBefore
    <2> QED BY <1>1, <2>1, <2>3, NoStartComes
  <1>9. CASE StopHandshake \/ IceReady \/ DtmfDone \/ DtmfFails \/ IceFailed \/ DtmfStart \/ Close
    <2>1. start_event' = start_event /\ zrtp_mq' = zrtp_mq /\ pc' = pc
      BY <1>9 DEF StopHandshake, IceReady, DtmfDone, DtmfFails, IceFailed, DtmfStart, Close, events, mqs
    <2> QED BY <1>1, <2>1, NoStartComes, WaitersAsBefore
  <1>10. CASE HandleInput \/ SecretsReady \/ Negotiated \/ Conf2AckSecure
    <2>1. start_event' = start_event /\ pc' = pc /\ (zrtp_mq' = zrtp_mq \/ TakeZ("packet"))
      BY <1>10 DEF HandleInput, SecretsReady, Negotiated, Conf2AckSecure, SecretsOn, events
    <2>2. NoNewStart
      BY <1>0, <2>1, QueuesMove, NoStartComes
    <2> QED BY <1>1, <2>1, <2>2, WaitersAsBefore
  <1>11. CASE StopEngine \/ NegotiationFailed \/ NotSuppOther
    <2>1. start_event' = start_event /\ (zrtp_mq' = zrtp_mq \/ TakeZ("packet") \/ TakeZ("stop"))
      BY <1>11 DEF StopEngine, NegotiationFailed, NotSuppOther, events, mqs
    <2>2. NoNewStart
      BY <1>0, <2>1, QueuesMove, NoStartComes
    <2>3. SameWaiters
      BY <1>0, <1>11, Ends, WaitersAsBefore
    <2> QED BY <1>1, <2>1, <2>2, <2>3
  <1>12. CASE IceConnected \/ GoSecure \/ ZrtpPacket
    <2>1. start_event' = start_event /\ (ToZrtp("packet") \/ zrtp_mq' = zrtp_mq)
      BY <1>12 DEF IceConnected, GoSecure, ZrtpPacket, events, mqs
    <2>2. NoNewStart
      BY <1>0, <2>1, QueuesMove, NoStartComes DEF ToZrtpMessages
    <2>3. SameWaiters
      BY <1>0, <1>12, Beginning, WaitersAsBefore
    <2> QED BY <1>1, <2>1, <2>2, <2>3
  <1>13. ASSUME NEW t \in {"rtp", "gui"}, FindEngine(t) \/ CreateEngine(t) PROVE WaitersOK'
    <2>1. start_event' = start_event /\ zrtp_mq' = zrtp_mq
      BY <1>13 DEF FindEngine, CreateEngine, events, mqs
    <2>2. SameWaiters
      BY <1>0, <1>13, Starting, WaitersAsBefore
    <2> QED BY <1>1, <2>1, <2>2, NoStartComes
  <1>14. CASE (\E d \in Directions : SecretsOff(d)) \/ SecureOff \/ EngineStopped \/ EngineFailed
    <2>1. start_event' = start_event /\ zrtp_mq' = zrtp_mq
      BY <1>14 DEF SecretsOff, SecureOff, EngineStopped, EngineFailed, events, mqs
    <2>2. SameWaiters
      BY <1>0, <1>14, Ends, WaitersAsBefore
    <2> QED BY <1>1, <2>1, <2>2, NoStartComes
  <1> QED
    BY <1>3, <1>4, <1>5, <1>6, <1>7, <1>8, <1>9, <1>10, <1>11, <1>12, <1>13, <1>14
    DEF Next, RtpStep, ZrtpStep, IceStep, GuiStep, Starts

----------------------------------------------------------------------------
(* Where the threads are, and the end of the stream.                       *)

LEMMA ThreadsKept == StreamInv /\ [Next]_svars => ThreadsOK'
  <1> SUFFICES ASSUME StreamInv, [Next]_svars PROVE ThreadsOK'
    OBVIOUS
  <1>0. StreamTypeOK /\ ThreadsOK
    BY DEF StreamInv
  <1>1. /\ "rtp" \in Threads /\ "gui" \in Threads /\ "zrtp" \in Threads
        /\ \A t \in Threads : t \in {"rtp", "gui", "zrtp"}
    BY DEF Threads
  <1> DEFINE
        NoClose == /\ Has(rtp_mq', "close") => Has(rtp_mq, "close")
                   /\ Before(rtp_mq', "close", "close") => Before(rtp_mq, "close", "close")
  <1>2. /\ rtp_mq' = rtp_mq => NoClose
        /\ \A e : e # "close" /\ RtpGrows(e) => NoClose
        /\ \A e : RtpShrinks(e) => NoClose
    BY DEF RtpGrows, RtpShrinks
  <1> HIDE DEF NoClose
  <1>3. ASSUME NoClose, stream' = stream, pc' = pc PROVE ThreadsOK'
    BY <1>0, <1>3 DEF ThreadsOK, Shut, Ending, NoClose
  \* A thread moves where do_close is not.
  <1>4. ASSUME NEW t \in Threads, NEW where, NEW what, Moves(t, where, what), NoClose, stream' = stream,
               where \in {"idle", "failed"} => what = "",
               t = "gui" => where \in {"idle", "begin", "create", "queue", "wait"} /\ what = "",
               t = "zrtp" => where \in {"idle", "off", "flag", "failed"},
               t = "rtp" => /\ pc["rtp"].at \notin {"free", "wait stop"}
                            /\ where \notin {"free", "wait stop"}
                            /\ stream = "closed" => what # "packet"
        PROVE  ThreadsOK'
    <2>1. CASE t = "rtp"
      BY <1>0, <1>1, <1>4, <2>1 DEF ThreadsOK, Shut, Ending, NoClose, Moves
    <2>2. CASE t = "gui"
      BY <1>0, <1>1, <1>4, <2>2 DEF ThreadsOK, Shut, Ending, NoClose, Moves
    <2>3. CASE t = "zrtp"
      BY <1>0, <1>1, <1>4, <2>3 DEF ThreadsOK, Shut, Ending, NoClose, Moves
    <2> QED BY <1>1, <2>1, <2>2, <2>3
  <1>5. CASE UNCHANGED svars
    BY <1>2, <1>3, <1>5 DEF svars, mqs, rest
  <1>6. ASSUME NEW t \in {"rtp", "gui"}, FindEngine(t) \/ CreateEngine(t) \/ QueueStart(t) \/ Started(t)
        PROVE  ThreadsOK'
    <2>1. NoClose /\ stream' = stream
      BY <1>2, <1>6 DEF FindEngine, CreateEngine, QueueStart, Started, mqs, rest
    <2>2. PICK where \in {"create", "queue", "wait", "idle"} :
            \E what :
              /\ Moves(t, where, what)
              /\ IF where = "idle" THEN what = "" ELSE what = pc[t].then
              /\ pc[t].at \in {"begin", "create", "queue", "wait"}
      BY <1>0, <1>6, Starting
    <2>3. CASE t = "rtp"
      BY <1>0, <1>1, <1>4, <2>1, <2>2, <2>3 DEF ThreadsOK, Shut
    <2>4. CASE t = "gui"
      BY <1>0, <1>1, <1>4, <2>1, <2>2, <2>4 DEF ThreadsOK
    <2> QED BY <2>3, <2>4
  <1>7. CASE StartIce
    <2>1. Moves("rtp", "idle", "") /\ pc["rtp"].at = "ice"
      BY <1>0, <1>1, <1>7, ThreadMoves DEF StartIce
    <2>2. NoClose /\ stream' = stream
      BY <1>2, <1>7 DEF StartIce, mqs, rest
    <2> QED BY <1>1, <1>4, <2>1, <2>2
  <1>8. CASE DoStartIce
    <2>1. IsIdle("rtp") /\ Take("start ice") /\ stream' = stream
          /\ (Goto("rtp", "ice", "") \/ pc' = pc)
      BY <1>8 DEF DoStartIce, Take, rest
    <2>2. NoClose
      BY <1>0, <1>2, <2>1, QueuesMove
    <2>3. pc["rtp"].at = "idle" /\ (Moves("rtp", "ice", "") \/ pc' = pc)
      BY <1>0, <1>1, <2>1, ThreadMoves DEF Places, Afters
    <2> QED BY <1>1, <1>3, <1>4, <2>1, <2>2, <2>3
  <1>9. CASE DoClose
    <2>1. IsIdle("rtp") /\ Take("close") /\ stream' = stream
          /\ (Goto("rtp", "free", "") \/ Goto("rtp", "wait stop", ""))
      BY <1>9 DEF DoClose, Take, rest
    <2>2. RtpShrinks("close")
      BY <1>0, <2>1, QueuesMove
    <2>3. Moves("rtp", "free", "") \/ Moves("rtp", "wait stop", "")
      BY <1>0, <1>1, <2>1, ThreadMoves DEF Places, Afters
    <2>4. stream = "closing" /\ ~Has(rtp_mq', "close") /\ ~Before(rtp_mq', "close", "close")
      BY <1>0, <2>2 DEF RtpShrinks, ThreadsOK, StreamTypeOK, Shut
    <2> QED BY <1>0, <1>1, <2>1, <2>3, <2>4 DEF ThreadsOK, Shut, Ending, Moves
  <1>10. CASE FreeStream
    <2>1. Ending /\ Moves("rtp", "idle", "") /\ stream' = "closed" /\ rtp_mq' = rtp_mq
      BY <1>0, <1>1, <1>10, ThreadMoves DEF FreeStream, Ending, mqs
    <2> QED BY <1>0, <1>1, <2>1 DEF ThreadsOK, Shut, Ending, Moves
  <1>11. CASE Close
    <2>1. stream = "open" /\ stream' = "closing" /\ pc' = pc /\ ToRtp("close")
      BY <1>11 DEF Close
    <2>2. RtpGrows("close")
      BY <1>0, <2>1, QueuesMove DEF ToRtpMessages
    <2> QED BY <1>0, <2>1, <2>2 DEF ThreadsOK, Shut, Ending, RtpGrows
  <1>12. CASE StopHandshake
    BY <1>0, <1>2, <1>3, <1>12, QueuesMove DEF StopHandshake, rest
  <1>13. CASE IceReady \/ DtmfDone \/ DtmfFails \/ IceFailed
    BY <1>2, <1>3, <1>13 DEF IceReady, DtmfDone, DtmfFails, IceFailed, mqs, rest
  <1>14. CASE StartEngine \/ HandleInput \/ SecretsReady
    BY <1>2, <1>3, <1>14 DEF StartEngine, HandleInput, SecretsReady, rest
  <1>15. CASE Negotiated \/ Conf2AckSecure \/ DtmfStart
    <2>1. pc' = pc /\ stream' = stream
      BY <1>15 DEF Negotiated, Conf2AckSecure, SecretsOn, DtmfStart, rest
    <2>2. rtp_mq' = rtp_mq \/ ToRtp("stop handshake") \/ ToRtp("start ice")
      BY <1>15 DEF Negotiated, Conf2AckSecure, SecretsOn, DtmfStart
    <2>3. NoClose
      BY <1>0, <1>2, <2>2, QueuesMove DEF ToRtpMessages
    <2> QED BY <1>3, <2>1, <2>3
  <1>16. CASE StopEngine \/ NegotiationFailed \/ NotSuppOther
    <2>1. NoClose /\ stream' = stream
      BY <1>2, <1>16 DEF StopEngine, NegotiationFailed, NotSuppOther, mqs, rest
    <2>2. PICK where \in {"off", "failed"} :
            \E what :
              /\ Moves("zrtp", where, what)
              /\ where = "failed" => what = ""
      BY <1>0, <1>16, Ends
    <2> QED BY <1>1, <1>4, <2>1, <2>2
  <1>17. CASE (\E d \in Directions : SecretsOff(d)) \/ SecureOff \/ EngineStopped \/ EngineFailed
    <2>1. NoClose /\ stream' = stream
      BY <1>2, <1>17 DEF SecretsOff, SecureOff, EngineStopped, EngineFailed, mqs, rest
    <2>2. PICK where \in {"flag", "off", "idle", "failed"} :
            \E what :
              /\ Moves("zrtp", where, what)
              /\ where \in {"idle", "failed"} => what = ""
      BY <1>0, <1>17, Ends
    <2> QED BY <1>1, <1>4, <2>1, <2>2
  <1>18. CASE TryFailed
    <2>1. stream' = stream /\ (ToRtp("start ice") \/ ToRtp("stop handshake"))
      BY <1>18 DEF TryFailed, rest
    <2>2. NoClose
      BY <1>0, <1>2, <2>1, QueuesMove DEF ToRtpMessages
    <2>3. Moves("zrtp", "idle", "")
      BY <1>0, <1>18, Ends
    <2> QED BY <1>1, <1>4, <2>1, <2>2, <2>3
  <1>19. CASE IceConnected \/ ZrtpPacket \/ GoSecure
    <2>1. stream' = stream /\ (ZrtpPacket => stream # "closed")
          /\ (rtp_mq' = rtp_mq \/ ToRtp("start ice"))
      BY <1>19 DEF IceConnected, ZrtpPacket, GoSecure, Hears, mqs, rest
    <2>2. NoClose
      BY <1>0, <1>2, <2>1, QueuesMove DEF ToRtpMessages
    <2> QED BY <1>0, <1>1, <1>3, <1>4, <1>19, <2>1, <2>2, Beginning
  <1> QED
    BY <1>5, <1>6, <1>7, <1>8, <1>9, <1>10, <1>11, <1>12, <1>13, <1>14, <1>15, <1>16, <1>17, <1>18, <1>19
    DEF Next, RtpStep, ZrtpStep, IceStep, GuiStep, Starts

LEMMA HasBoth == \A q, m, n : Before(q, m, n) => Has(q, m) /\ Has(q, n)
  BY DEF Has, Before

\* A thread that is on its way to start an engine has one.
LEMMA EnginesKept == StreamInv /\ [Next]_svars => EnginesOK'
  <1> SUFFICES ASSUME StreamInv, [Next]_svars PROVE EnginesOK'
    OBVIOUS
  <1>0. StreamTypeOK /\ ThreadsOK /\ EnginesOK
    BY DEF StreamInv
  <1>1. /\ "rtp" \in Threads /\ "gui" \in Threads /\ "zrtp" \in Threads
        /\ \A t \in Threads : t \in {"rtp", "gui", "zrtp"}
    BY DEF Threads
  <1> DEFINE
        NoWork == /\ Has(zrtp_mq', "stop") => Has(zrtp_mq, "stop")
                  /\ Has(zrtp_mq', "packet") => Has(zrtp_mq, "packet")
        SamePlaces == /\ \A t \in Threads : pc'[t].at \in {"queue", "wait"} => pc[t].at \in {"queue", "wait"}
                      /\ Ending' <=> Ending
                      /\ pc["rtp"].at = "ice" => pc'["rtp"].at = "ice"
                      /\ StopUnderWay' => StopUnderWay
                      /\ pc'["zrtp"].then = "fail" => pc["zrtp"].then = "fail"
        SameEnding == /\ Ending' <=> Ending
                      /\ pc["rtp"].at = "ice" => pc'["rtp"].at = "ice"
                      /\ StopUnderWay' => StopUnderWay
        SameStream == stream' = "closed" <=> stream = "closed"
  <1>2. /\ zrtp_mq' = zrtp_mq => NoWork
        /\ ZrtpGrows("start") => NoWork
        /\ \A e : ZrtpShrinks(e) => NoWork
    BY DEF ZrtpGrows, ZrtpShrinks
  <1>3. /\ pc' = pc => SamePlaces
        /\ \A t \in {"rtp", "gui"} : \A where, what :
             Moves(t, where, what) /\ pc[t].at \notin {"free", "wait stop", "ice"}
               /\ where \in {"idle", "ice", "begin", "create"} => SamePlaces
        /\ \A where, what :
             Moves("zrtp", where, what) /\ where \in {"idle", "off", "flag", "failed"}
               /\ what \in {"", pc["zrtp"].then} => SamePlaces
    <2>1. pc' = pc => SamePlaces
      BY DEF Ending, StopUnderWay
    <2>2. ASSUME NEW t \in {"rtp", "gui"}, NEW where, NEW what, Moves(t, where, what),
                 pc[t].at \notin {"free", "wait stop", "ice"}, where \in {"idle", "ice", "begin", "create"}
          PROVE  SamePlaces
      BY <1>1, <2>2 DEF Moves, Ending, StopUnderWay
    <2>3. ASSUME NEW where, NEW what, Moves("zrtp", where, what),
                 where \in {"idle", "off", "flag", "failed"}, what \in {"", pc["zrtp"].then}
          PROVE  SamePlaces
      BY <1>1, <2>3 DEF Moves, Ending, StopUnderWay
    <2> QED BY <2>1, <2>2, <2>3
  <1>4. ASSUME NEW t \in {"rtp", "gui"}, NEW where, NEW what, Moves(t, where, what),
               pc[t].at \in {"begin", "create", "queue", "wait"}, where \in {"queue", "wait", "idle"}
        PROVE  SameEnding
    BY <1>1, <1>4 DEF Moves, Ending, StopUnderWay
  <1> HIDE DEF NoWork, SamePlaces, SameEnding
  \* Nothing of an engine begins.
  <1>5. ASSUME NoWork, SamePlaces, SameStream, engine' = engine, zcontext' = "null" <=> zcontext = "null",
               zrtp_state' \in {zrtp_state, "none"} \/ engine # 0,
               ice_state' = "none" => ice_state = "none"
        PROVE  EnginesOK'
    BY <1>0, <1>5 DEF EnginesOK, Shut, NoWork, SamePlaces
  \* There is one.
  <1>6. ASSUME engine' # 0, zcontext' # "null" \/ (zcontext' = zcontext /\ engine # 0), SameStream, SameEnding,
               Has(zrtp_mq', "stop") => Has(zrtp_mq, "stop"), ice_state' = "none" => ice_state = "none"
        PROVE  EnginesOK'
    BY <1>0, <1>6 DEF EnginesOK, Shut, SameEnding
  <1>7. CASE UNCHANGED svars
    BY <1>2, <1>3, <1>5, <1>7 DEF svars, states, eng, mqs, rest
  <1>8. ASSUME NEW t \in {"rtp", "gui"}, FindEngine(t) PROVE EnginesOK'
    <2>1. UNCHANGED <<zcontext, engine, zrtp_state, ice_state, zrtp_mq, stream>>
      BY <1>8 DEF FindEngine, states, eng, mqs, rest
    <2>2. CASE zcontext = "null"
      <3>1. pc[t].at = "begin" /\ Moves(t, "create", pc[t].then)
        BY <1>0, <1>8, <2>2, Starting
      <3>2. SamePlaces
        BY <1>1, <1>3, <3>1
      <3> QED BY <1>2, <1>5, <2>1, <3>2
    <2>3. CASE zcontext # "null"
      <3>1. pc[t].at = "begin" /\ Moves(t, "queue", pc[t].then)
        BY <1>0, <1>8, <2>3, Starting
      <3>2. engine # 0
        BY <1>0, <2>3 DEF EnginesOK
      <3>3. SameEnding
        BY <1>4, <3>1
      <3> QED BY <1>6, <2>1, <2>3, <3>2, <3>3
    <2> QED BY <2>2, <2>3
  <1>9. ASSUME NEW t \in {"rtp", "gui"}, CreateEngine(t) PROVE EnginesOK'
    <2>1. UNCHANGED <<ice_state, zrtp_mq, stream>> /\ zcontext' = "created" /\ engine' = engine + 1
      BY <1>9 DEF CreateEngine, states, mqs, rest
    <2>2. pc[t].at = "create" /\ Moves(t, "queue", pc[t].then)
      BY <1>0, <1>9, Starting
    <2>3. engine' # 0
      BY <1>0, <2>1 DEF StreamTypeOK
    <2>4. SameEnding
      BY <1>4, <2>2
    <2> QED BY <1>6, <2>1, <2>3, <2>4
  <1>10. ASSUME NEW t \in {"rtp", "gui"}, QueueStart(t) \/ Started(t) PROVE EnginesOK'
    <2>1. pc[t].at \in {"queue", "wait"} /\ (Moves(t, "wait", pc[t].then) \/ Moves(t, "idle", ""))
      BY <1>0, <1>10, Starting
    <2>2. UNCHANGED <<zcontext, engine, ice_state, stream>>
      BY <1>10 DEF QueueStart, Started, states, eng, rest
    <2>3. engine # 0
      BY <1>0, <1>1, <2>1 DEF EnginesOK
    <2>4. ToZrtp("start") \/ ToZrtp("packet") \/ zrtp_mq' = zrtp_mq
      BY <1>10 DEF QueueStart, Started, ToZrtp
    <2>5. Has(zrtp_mq', "stop") => Has(zrtp_mq, "stop")
      BY <1>0, <2>4, QueuesMove DEF ToZrtpMessages, ZrtpGrows
    <2>6. SameEnding
      BY <1>4, <2>1
    <2> QED BY <1>6, <2>2, <2>3, <2>5, <2>6
  <1>11. CASE DoStartIce
    <2>1. pc["rtp"].at = "idle" /\ (Goto("rtp", "ice", "") \/ pc' = pc)
      BY <1>0, <1>1, <1>11, ThreadMoves DEF DoStartIce, Take
    <2>2. Moves("rtp", "ice", "") \/ pc' = pc
      BY <1>0, <1>1, <2>1, ThreadMoves DEF Places, Afters
    <2>3. SamePlaces
      BY <1>1, <1>3, <2>1, <2>2
    <2>4. UNCHANGED <<zcontext, engine, ice_state, stream>>
      BY <1>11 DEF DoStartIce, eng, rest
    <2>5. zrtp_state' \in {zrtp_state, "none"}
      BY <1>11 DEF DoStartIce, StopZrtp
    <2>6. ToZrtp("stop") \/ zrtp_mq' = zrtp_mq
      BY <1>11 DEF DoStartIce, StopZrtp
    <2>7. Has(zrtp_mq', "packet") => Has(zrtp_mq, "packet")
      BY <1>0, <2>6, QueuesMove DEF ToZrtpMessages, ZrtpGrows
    <2>8. ice_state' = "none" => pc'["rtp"].at = "ice"
      <3>1. ice_state = "none" => Goto("rtp", "ice", "")
        BY <1>11 DEF DoStartIce
      <3> QED BY <1>0, <1>1, <2>4, <3>1, ThreadMoves DEF Places, Afters, Moves
    <2> QED BY <1>0, <2>3, <2>4, <2>5, <2>7, <2>8 DEF EnginesOK, SamePlaces
  <1>12. CASE StartIce
    <2>1. Moves("rtp", "idle", "")
      BY <1>0, <1>1, <1>12, ThreadMoves DEF StartIce
    <2>2. UNCHANGED <<zcontext, engine, zrtp_state, zrtp_mq>> /\ ice_state' # "none"
      BY <1>12 DEF StartIce, IceFails, eng, mqs
    <2> QED BY <1>0, <1>1, <2>1, <2>2 DEF EnginesOK, Moves
  <1>13. CASE DoClose
    <2>1. Moves("rtp", "free", "") \/ Moves("rtp", "wait stop", "")
      BY <1>0, <1>1, <1>13, ThreadMoves DEF DoClose, Places, Afters
    <2>2. UNCHANGED <<zcontext, engine>> /\ zrtp_state' \in {zrtp_state, "none"}
      BY <1>13 DEF DoClose, StopZrtp, eng
    <2>3. ToZrtp("stop") \/ zrtp_mq' = zrtp_mq
      BY <1>13 DEF DoClose, StopZrtp
    <2>4. Has(zrtp_mq', "packet") => Has(zrtp_mq, "packet")
      BY <1>0, <2>3, QueuesMove DEF ToZrtpMessages, ZrtpGrows
    <2>5. Shut'
      BY <1>1, <2>1 DEF Shut, Ending, Moves
    <2> QED BY <1>0, <1>1, <2>1, <2>2, <2>4, <2>5 DEF EnginesOK, Moves
  <1>14. CASE FreeStream
    <2>1. Moves("rtp", "idle", "") /\ stream' = "closed"
      BY <1>0, <1>1, <1>14, ThreadMoves DEF FreeStream
    <2>2. UNCHANGED <<zcontext, engine, zrtp_state, zrtp_mq>>
      BY <1>14 DEF FreeStream, eng, states, mqs
    <2> QED BY <1>0, <1>1, <2>1, <2>2 DEF EnginesOK, Shut, Moves
  <1>15. CASE StopHandshake \/ DtmfStart \/ Close
    <2>1. UNCHANGED <<zcontext, engine, zrtp_state, ice_state, zrtp_mq, pc>> /\ SameStream
      BY <1>15 DEF StopHandshake, DtmfStart, Close, states, eng, rest
    <2> QED BY <1>2, <1>3, <1>5, <2>1
  <1>16. CASE IceReady \/ DtmfDone \/ DtmfFails \/ IceFailed
    <2>1. UNCHANGED <<zcontext, engine, zrtp_state, zrtp_mq, pc, stream>>
      BY <1>16 DEF IceReady, DtmfDone, DtmfFails, IceFailed, eng, mqs, rest
    <2>2. ice_state' \in {ice_state, "failed"}
      BY <1>16 DEF IceReady, DtmfDone, DtmfFails, IceFailed, IceFails
    <2> QED BY <1>2, <1>3, <1>5, <2>1, <2>2
  <1>17. CASE StartEngine \/ HandleInput \/ SecretsReady
    <2>1. UNCHANGED <<engine, zrtp_state, ice_state, pc, stream>>
      BY <1>17 DEF StartEngine, HandleInput, SecretsReady, states, rest
    <2>2. zcontext' = "null" <=> zcontext = "null"
      BY <1>17 DEF StartEngine, HandleInput, SecretsReady
    <2>3. TakeZ("start") \/ TakeZ("packet")
      BY <1>17 DEF StartEngine, HandleInput, SecretsReady
    <2>4. NoWork
      BY <1>0, <1>2, <2>3, QueuesMove
    <2> QED BY <1>3, <1>5, <2>1, <2>2, <2>4
  \* Where one is asked to stop, nothing is claimed.
  <1>18. CASE StopEngine
    <2>1. UNCHANGED <<engine, zrtp_state, ice_state, stream>> /\ (zcontext' = "null" <=> zcontext = "null")
      BY <1>18 DEF StopEngine, states, rest
    <2>2. ZrtpShrinks("stop")
      BY <1>0, <1>18, QueuesMove DEF StopEngine
    <2>3. Has(zrtp_mq, "stop")
      BY <2>2 DEF ZrtpShrinks
    <2>4. pc'["rtp"] = pc["rtp"] /\ pc'["zrtp"].then # "fail" /\ \A t \in Threads : pc'[t].at \in {"queue", "wait"} => pc[t].at \in {"queue", "wait"}
      BY <1>0, <1>1, <1>18, Ends DEF Moves
    <2>5. Shut' <=> Shut
      BY <2>1, <2>4 DEF Shut, Ending
    <2> QED BY <1>0, <1>2, <2>1, <2>2, <2>3, <2>4, <2>5 DEF EnginesOK, NoWork
  <1>19. CASE EngineStopped
    <2>1. UNCHANGED <<engine, zrtp_state, ice_state, stream, zrtp_mq>> /\ zcontext' = "null"
      BY <1>19 DEF EngineStopped, states, rest, mqs
    <2>2. StopUnderWay
      BY <1>0, <1>19, Ends DEF StopUnderWay
    <2>3. pc'["rtp"] = pc["rtp"] /\ pc'["zrtp"].then # "fail" /\ \A t \in Threads : pc'[t].at \in {"queue", "wait"} => pc[t].at \in {"queue", "wait"}
      BY <1>0, <1>1, <1>19, Ends DEF Moves
    <2>4. Shut' <=> Shut
      BY <2>1, <2>3 DEF Shut, Ending
    <2> QED BY <1>0, <2>1, <2>2, <2>3, <2>4 DEF EnginesOK
  <1>20. CASE NegotiationFailed
    <2>1. UNCHANGED <<engine, ice_state, stream>> /\ zcontext' # "null" /\ zcontext # "null"
      BY <1>20 DEF NegotiationFailed, states, rest
    <2>2. engine # 0
      BY <1>0, <2>1 DEF EnginesOK
    <2>3. TakeZ("packet") \/ zrtp_mq' = zrtp_mq
      BY <1>20 DEF NegotiationFailed, mqs
    <2>4. NoWork
      BY <1>0, <1>2, <2>3, QueuesMove
    <2>5. Moves("zrtp", "off", "fail")
      BY <1>0, <1>20, Ends
    <2>6. (Ending' <=> Ending) /\ pc'["rtp"] = pc["rtp"] /\ ~StopUnderWay'
      BY <1>1, <2>5 DEF Moves, Ending, StopUnderWay
    <2> QED BY <1>6, <2>1, <2>2, <2>4, <2>6 DEF NoWork, SameEnding
  <1>21. CASE NotSuppOther \/ Negotiated \/ Conf2AckSecure
    <2>1. UNCHANGED <<engine, ice_state, stream>>
      BY <1>21 DEF NotSuppOther, Negotiated, Conf2AckSecure, SecretsOn, states, rest
    <2>2. zcontext' # "null" /\ zcontext # "null"
      BY <1>21 DEF NotSuppOther, Negotiated, Conf2AckSecure, SecretsOn
    <2>3. engine # 0
      BY <1>0, <2>2 DEF EnginesOK
    <2>4. TakeZ("packet") \/ zrtp_mq' = zrtp_mq
      BY <1>21 DEF NotSuppOther, Negotiated, Conf2AckSecure, mqs
    <2>5. NoWork
      BY <1>0, <1>2, <2>4, QueuesMove
    <2>6. pc' = pc \/ Moves("zrtp", "failed", "")
      BY <1>0, <1>21, Ends DEF Negotiated, Conf2AckSecure, SecretsOn
    <2>7. SamePlaces
      BY <1>1, <1>3, <2>6
    <2> QED BY <1>5, <2>1, <2>2, <2>3, <2>5, <2>7
  <1>22. CASE (\E d \in Directions : SecretsOff(d)) \/ SecureOff \/ EngineFailed \/ TryFailed
    <2>1. UNCHANGED <<zcontext, engine, ice_state, zrtp_mq, stream>>
      BY <1>22 DEF SecretsOff, SecureOff, EngineFailed, TryFailed, states, eng, mqs, rest
    <2>2. PICK where \in {"off", "flag", "failed", "idle"} :
            \E what : Moves("zrtp", where, what) /\ what \in {pc["zrtp"].then, ""}
      BY <1>0, <1>22, Ends
    <2>3. SamePlaces
      BY <1>1, <1>3, <2>2 DEF StopUnderWay
    <2>4. zrtp_state' = zrtp_state \/ EngineFailed
      BY <1>22 DEF SecretsOff, SecureOff, TryFailed, states
    <2>5. EngineFailed => engine # 0
      BY <1>0, <1>22, Ends DEF EnginesOK
    <2> QED BY <1>2, <1>5, <2>1, <2>3, <2>4, <2>5
  \* A new engine comes, or there is one.
  <1>23. CASE IceConnected \/ GoSecure \/ ZrtpPacket
    <2>1. /\ UNCHANGED <<zcontext, engine, stream, zrtp_state>> /\ (ice_state' = "none" => ice_state = "none")
      BY <1>23 DEF IceConnected, GoSecure, ZrtpPacket, states, eng, rest
    <2>2. SamePlaces
      BY <1>0, <1>1, <1>3, <1>23, Beginning
    <2>3. zrtp_mq' = zrtp_mq \/ (ToZrtp("packet") /\ zrtp_state # "none")
      BY <1>23 DEF IceConnected, GoSecure, ZrtpPacket, mqs
    <2>4. CASE zrtp_mq' = zrtp_mq
      BY <1>2, <1>5, <2>1, <2>2, <2>4
    <2>5. CASE ToZrtp("packet") /\ zrtp_state # "none"
      <3>1. engine # 0
        BY <1>0, <2>5 DEF EnginesOK
      <3>2. Has(zrtp_mq', "stop") => Has(zrtp_mq, "stop")
        BY <1>0, <2>5, QueuesMove DEF ToZrtpMessages, ZrtpGrows
      <3> QED BY <1>6, <2>1, <2>2, <3>1, <3>2 DEF SamePlaces, SameEnding
    <2> QED BY <2>3, <2>4, <2>5
  <1> QED
    BY <1>7, <1>8, <1>9, <1>10, <1>11, <1>12, <1>13, <1>14, <1>15, <1>16, <1>17, <1>18, <1>19, <1>20, <1>21, <1>22, <1>23
    DEF Next, RtpStep, ZrtpStep, IceStep, GuiStep, Starts

\* No engine of a stream that do_close has left, or is about to, gets a key.
LEMMA ShutKept == StreamInv /\ [Next]_svars => ShutOK'
  <1> SUFFICES ASSUME StreamInv, [Next]_svars PROVE ShutOK'
    OBVIOUS
  <1>0. StreamTypeOK /\ KeysOK /\ WaitersOK /\ ThreadsOK /\ EnginesOK /\ ShutOK
    BY DEF StreamInv
  <1>1. /\ "rtp" \in Threads /\ "gui" \in Threads /\ "zrtp" \in Threads
        /\ \A t \in Threads : t \in {"rtp", "gui", "zrtp"}
    BY DEF Threads
  <1> DEFINE
        NoPacket == /\ Has(zrtp_mq', "packet") => Has(zrtp_mq, "packet")
                    /\ \A m : Before(zrtp_mq', m, "packet") => Before(zrtp_mq, m, "packet")
        StopStays == Has(zrtp_mq, "stop") => Has(zrtp_mq', "stop")
        SameRtp == pc'["rtp"] = pc["rtp"] /\ stop_event' = stop_event
        SameStop == (StopUnderWay' <=> StopUnderWay) /\ (pc'["zrtp"].at = "flag" => pc["zrtp"].at = "flag")
        SameStream == stream' = "closed" <=> stream = "closed"
        Harmless == {"null", "created", "hello", "quiet", "over"}
  <1>2. /\ zrtp_mq' = zrtp_mq => NoPacket /\ StopStays
        /\ ZrtpGrows("start") => NoPacket /\ StopStays
        /\ ZrtpGrows("stop") => NoPacket /\ StopStays
        /\ \A m : ZrtpShrinks(m) => NoPacket
        /\ ZrtpShrinks("start") => StopStays
        /\ ZrtpShrinks("packet") => StopStays
    BY DEF ZrtpGrows, ZrtpShrinks
  <1>3. /\ pc' = pc => pc'["rtp"] = pc["rtp"] /\ SameStop
        /\ \A t \in {"gui", "zrtp"} : \A where, what : Moves(t, where, what) => pc'["rtp"] = pc["rtp"]
        /\ \A t \in {"gui", "rtp"} : \A where, what : Moves(t, where, what) => pc'["zrtp"] = pc["zrtp"] /\ SameStop
    BY <1>1 DEF Moves, StopUnderWay
  <1>4. ASSUME NEW where, NEW what, Moves("zrtp", where, what), where # "flag",
               what = "stop" <=> StopUnderWay
        PROVE  SameStop
    BY <1>1, <1>4 DEF Moves, StopUnderWay
  <1> HIDE DEF NoPacket, StopStays, SameStop
  \* Nothing comes that could be of use to an engine.
  <1>5. ASSUME NoPacket, StopStays, SameRtp, SameStop, SameStream, taking' = taking,
               Shut /\ ~Stopping => \/ zcontext' = zcontext
                                    \/ zcontext = "hello" /\ zcontext' = "quiet",
               ice_state' = "none" => ice_state = "none",
               icestream = "none" => icestream' = "none"
        PROVE  ShutOK'
    <2>1. (Shut' <=> Shut) /\ (Stopping' <=> Stopping)
      BY <1>5 DEF Shut, Ending, Stopping
    <2>2. Shut' /\ ~Stopping' =>
            /\ zcontext' \in Harmless /\ taking' = {} /\ pc'["zrtp"].at # "flag"
            /\ zcontext' \in {"hello", "quiet"} => ~Has(zrtp_mq', "packet")
            /\ zcontext' = "created" => ~Before(zrtp_mq', "start", "packet")
            /\ ice_state' = "none" => ~Has(zrtp_mq', "packet")
      BY <1>0, <1>5, <2>1 DEF ShutOK, NoPacket, SameStop
    <2>3. stream' = "closed" /\ Has(zrtp_mq', "packet") =>
            icestream' = "none" /\ pc'["rtp"].at \notin {"ice", "begin", "create", "queue", "wait"}
      BY <1>0, <1>5 DEF ShutOK, NoPacket
    <2>4. Stopping' => Has(zrtp_mq', "stop") \/ StopUnderWay'
      BY <1>0, <1>5, <2>1 DEF ShutOK, StopStays, SameStop
    <2>5. Stopping' /\ ice_state' = "none" =>
            ~Before(zrtp_mq', "stop", "packet") /\ ~(StopUnderWay' /\ Has(zrtp_mq', "packet"))
      BY <1>0, <1>5, <2>1 DEF ShutOK, NoPacket, SameStop
    <2> QED BY <2>2, <2>3, <2>4, <2>5 DEF ShutOK
  <1>6. ASSUME stream' # "closed", pc'["rtp"].at \notin {"free", "wait stop"} PROVE ShutOK'
    BY <1>6 DEF ShutOK, Shut, Ending, Stopping
  <1>7. ASSUME ~Has(zrtp_mq', "packet"), pc'["rtp"].at # "wait stop",
               zcontext' \in Harmless, taking' = {}, pc'["zrtp"].at # "flag"
        PROVE  ShutOK'
    BY <1>7, HasBoth DEF ShutOK, Stopping
  <1>8. ASSUME stream = "closed"
        PROVE  /\ zcontext \in Harmless /\ taking = {} /\ pc["zrtp"].at # "flag"
               /\ ice_state = "none" => ~Has(zrtp_mq, "packet")
               /\ Has(zrtp_mq, "packet") =>
                    icestream = "none" /\ pc["rtp"].at \notin {"ice", "begin", "create", "queue", "wait"}
    BY <1>0, <1>8 DEF ShutOK, ThreadsOK, Shut, Stopping, Ending
  <1> HIDE DEF Harmless
  \* The RTP thread is in none of these when a packet waits for a closed stream.
  <1>9. ASSUME pc["rtp"].at \in {"ice", "begin", "create", "queue", "wait"} \/ icestream # "none",
               stream' = stream,
               NEW where \in {"idle", "begin", "create", "queue", "wait"}, NEW what,
               Moves("rtp", where, what),
               stream = "closed" => NoPacket /\ zcontext' \in {zcontext, "created"} /\ taking' = taking
        PROVE  ShutOK'
    <2>1. /\ pc'["rtp"].at = where /\ pc'["zrtp"] = pc["zrtp"]
          /\ pc'["rtp"].at \notin {"free", "wait stop"}
      BY <1>1, <1>9 DEF Moves
    <2>2. CASE stream = "closed"
      <3>1. zcontext' \in Harmless /\ ~Has(zrtp_mq', "packet")
        BY <1>8, <1>9, <2>2 DEF Harmless, NoPacket
      <3> QED BY <1>7, <1>8, <1>9, <2>1, <2>2, <3>1
    <2> QED BY <1>6, <1>9, <2>1, <2>2
  <1>10. CASE UNCHANGED svars
    BY <1>2, <1>3, <1>5, <1>10 DEF svars, states, eng, ice, mqs, events, rest
  <1>11. CASE FindEngine("rtp") \/ CreateEngine("rtp") \/ QueueStart("rtp")
    <2>1. PICK where \in {"create", "queue", "wait"} :
            \E what :
              /\ Moves("rtp", where, what)
              /\ pc["rtp"].at \in {"begin", "create", "queue"}
      BY <1>0, <1>11, Starting
    <2>2. zrtp_mq' = zrtp_mq \/ ToZrtp("start")
      BY <1>11 DEF FindEngine, CreateEngine, QueueStart, mqs
    <2>3. NoPacket
      BY <1>0, <1>2, <2>2, QueuesMove DEF ToZrtpMessages
    <2>4. stream' = stream /\ taking' = taking /\ zcontext' \in {zcontext, "created"}
      BY <1>11 DEF FindEngine, CreateEngine, QueueStart, eng, rest
    <2> QED BY <1>9, <2>1, <2>3, <2>4
  <1>12. CASE Started("rtp")
    <2>1. pc["rtp"].at = "wait" /\ Moves("rtp", "idle", "")
      BY <1>0, <1>12, Starting
    <2>2. /\ UNCHANGED <<zcontext, taking, stream>>
          /\ pc["rtp"].then # "packet" => zrtp_mq' = zrtp_mq
      BY <1>12 DEF Started, eng, rest
    <2>3. stream = "closed" => NoPacket
      BY <1>0, <1>2, <2>2 DEF ThreadsOK, Shut
    <2> QED BY <1>9, <2>1, <2>2, <2>3
  <1>13. CASE FindEngine("gui") \/ QueueStart("gui") \/ Started("gui")
    <2>1. pc["gui"].then = ""
      BY <1>0 DEF ThreadsOK
    <2>2. UNCHANGED <<zcontext, taking, stream, ice_state, icestream, stop_event>>
      <3>1. FindEngine("gui") => UNCHANGED <<zcontext, taking, stream, ice_state, icestream, stop_event>>
        BY DEF FindEngine, states, eng, ice, events, rest
      <3>2. QueueStart("gui") => UNCHANGED <<zcontext, taking, stream, ice_state, icestream, stop_event>>
        BY DEF QueueStart, states, eng, ice, rest
      <3>3. Started("gui") => UNCHANGED <<zcontext, taking, stream, ice_state, icestream, stop_event>>
        BY DEF Started, eng, ice, rest
      <3> QED BY <1>13, <3>1, <3>2, <3>3
    <2>3. zrtp_mq' = zrtp_mq \/ ToZrtp("start")
      BY <1>13, <2>1 DEF FindEngine, QueueStart, Started, mqs
    <2>4. NoPacket /\ StopStays
      BY <1>0, <1>2, <2>3, QueuesMove DEF ToZrtpMessages
    <2>5. \E where, what : Moves("gui", where, what)
      BY <1>0, <1>13, Starting
    <2> QED BY <1>3, <1>5, <2>2, <2>4, <2>5
  \* No start is queued that could reach the new engine before a packet.
  <1>14. CASE CreateEngine("gui")
    <2>1. /\ UNCHANGED <<taking, stream, ice_state, icestream, stop_event, zrtp_mq>>
          /\ zcontext' = "created"
      BY <1>14 DEF CreateEngine, states, ice, mqs, events, rest
    <2>2. pc["gui"].at = "create" /\ Moves("gui", "queue", pc["gui"].then)
      BY <1>0, <1>14, Starting
    <2>3. pc'["rtp"] = pc["rtp"] /\ SameStop
      BY <1>3, <2>2
    <2>4. (Shut' <=> Shut) /\ (Stopping' <=> Stopping) /\ (StopUnderWay' <=> StopUnderWay)
          /\ (pc'["zrtp"].at = "flag" => pc["zrtp"].at = "flag")
      BY <2>1, <2>3 DEF Shut, Ending, Stopping, SameStop
    <2>5. Shut => ~Has(zrtp_mq, "start") \/ ~Has(zrtp_mq, "packet")
      BY <1>0, <1>8, <2>2 DEF WaitersOK, Waits, Shut, Ending
    <2>6. Shut => ~Before(zrtp_mq, "start", "packet")
      BY <2>5, HasBoth
    <2> QED BY <1>0, <2>1, <2>3, <2>4, <2>6 DEF ShutOK
  <1>15. CASE DoStartIce
    <2>1. /\ pc["rtp"].at = "idle" /\ UNCHANGED <<zcontext, taking, stream, ice_state, icestream>>
          /\ pc' = pc \/ Moves("rtp", "ice", "")
      <3>1. IsIdle("rtp") /\ (pc' = pc \/ Goto("rtp", "ice", ""))
        BY <1>15 DEF DoStartIce, Take
      <3>2. UNCHANGED <<zcontext, taking, stream, ice_state, icestream>>
        BY <1>15 DEF DoStartIce, eng, ice, rest
      <3> QED BY <1>0, <1>1, <3>1, <3>2, ThreadMoves DEF Places, Afters
    <2>2. pc'["rtp"].at \in {"idle", "ice"} /\ pc'["zrtp"] = pc["zrtp"]
      BY <1>1, <2>1 DEF Moves
    <2>3. ToZrtp("stop") \/ zrtp_mq' = zrtp_mq
      BY <1>15 DEF DoStartIce, StopZrtp
    <2>4. NoPacket
      BY <1>0, <1>2, <2>3, QueuesMove DEF ToZrtpMessages
    <2>5. CASE stream = "closed" /\ ice_state = "none"
      BY <1>7, <1>8, <2>1, <2>2, <2>4, <2>5 DEF NoPacket
    <2>6. CASE stream = "closed" /\ ice_state # "none"
      <3>1. pc' = pc /\ zrtp_mq' = zrtp_mq /\ stop_event' = stop_event
        BY <1>15, <2>6 DEF DoStartIce
      <3> QED BY <1>2, <1>3, <1>5, <2>1, <3>1
    <2> QED BY <1>6, <2>1, <2>2, <2>5, <2>6
  <1>16. CASE StartIce
    <2>1. pc["rtp"].at = "ice" /\ Moves("rtp", "idle", "")
      BY <1>0, <1>1, <1>16, ThreadMoves DEF StartIce
    <2>2. UNCHANGED <<zcontext, taking, stream, zrtp_mq>>
      BY <1>16 DEF StartIce, eng, mqs, rest
    <2> QED BY <1>2, <1>9, <2>1, <2>2
  <1>17. CASE StopHandshake \/ DtmfStart
    <2>1. UNCHANGED <<zcontext, taking, stream, ice_state, icestream, stop_event, zrtp_mq, pc>>
      BY <1>17 DEF StopHandshake, DtmfStart, states, eng, ice, events, rest
    <2> QED BY <1>2, <1>3, <1>5, <2>1
  \* From here on the engine's stop is waited for, or there is none.
  <1>18. CASE DoClose
    <2>1. /\ pc["rtp"].at = "idle" /\ UNCHANGED <<zcontext, taking, stream, ice_state>>
          /\ Take("close")
      BY <1>0, <1>1, <1>18, ThreadMoves DEF DoClose, Take, eng, rest
    <2>2. ~Shut /\ stream # "closed"
      <3>1. Has(rtp_mq, "close")
        BY <1>0, <2>1, QueuesMove DEF RtpShrinks
      <3> QED BY <1>0, <3>1 DEF ThreadsOK, Shut
    <2>3. ice_state = "none" =>
            ~Has(zrtp_mq, "stop") /\ ~StopUnderWay /\ (zcontext = "null" => ~Has(zrtp_mq, "packet"))
      BY <1>0, <2>1, <2>2 DEF EnginesOK
    <2>4. CASE zcontext = "null"
      <3>1. Moves("rtp", "free", "") /\ zrtp_mq' = zrtp_mq
        BY <1>0, <1>1, <1>18, <2>4, ThreadMoves DEF DoClose, Places, Afters
      <3>2. pc'["rtp"].at = "free" /\ pc'["zrtp"] = pc["zrtp"]
        BY <1>1, <3>1 DEF Moves
      <3>3. taking = {} /\ pc["zrtp"].at # "flag"
        BY <1>0, <2>4 DEF KeysOK
      <3>4. ~Stopping' /\ stream' # "closed"
        BY <2>1, <2>2, <3>2 DEF Stopping
      <3> QED BY <2>1, <2>3, <2>4, <3>1, <3>2, <3>3, <3>4 DEF ShutOK
    <2>5. CASE zcontext # "null"
      <3>1. Moves("rtp", "wait stop", "") /\ stop_event' = FALSE /\ ZrtpGrows("stop")
        BY <1>0, <1>1, <1>18, <2>5, ThreadMoves, QueuesMove
           DEF DoClose, StopZrtp, Places, Afters, ToZrtpMessages
      <3>2. Stopping'
        BY <3>1 DEF Stopping, Moves
      <3>3. StopUnderWay' <=> StopUnderWay
        BY <1>3, <3>1 DEF SameStop
      <3>4. ice_state = "none" => ~Before(zrtp_mq', "stop", "packet")
        BY <2>3, <3>1, HasBoth DEF ZrtpGrows
      <3>5. Has(zrtp_mq', "stop")
        BY <3>1 DEF ZrtpGrows
      <3> QED BY <2>1, <2>2, <2>3, <3>2, <3>3, <3>4, <3>5 DEF ShutOK
    <2> QED BY <2>4, <2>5
  <1>19. CASE FreeStream
    <2>1. /\ Shut /\ ~Stopping /\ icestream' = "none"
          /\ UNCHANGED <<zcontext, taking, ice_state, zrtp_mq>>
      BY <1>19 DEF FreeStream, Shut, Ending, Stopping, states, eng, mqs
    <2>2. Moves("rtp", "idle", "")
      BY <1>0, <1>1, <1>19, ThreadMoves DEF FreeStream
    <2>3. pc'["rtp"].at = "idle" /\ pc'["zrtp"] = pc["zrtp"]
      BY <1>1, <2>2 DEF Moves
    <2>4. ~Stopping' /\ pc'["rtp"].at \notin {"ice", "begin", "create", "queue", "wait"}
      BY <2>3 DEF Stopping
    <2> QED BY <1>0, <2>1, <2>3, <2>4 DEF ShutOK
  <1>20. CASE IceReady \/ DtmfDone \/ DtmfFails \/ IceFailed
    <2>1. UNCHANGED <<zcontext, taking, stream, zrtp_mq, pc, stop_event>> /\ icestream # "none"
      BY <1>20 DEF IceReady, DtmfDone, DtmfFails, IceFailed, eng, mqs, events, rest
    <2>2. ice_state' = "none" => ice_state = "none"
      BY <1>20 DEF IceReady, DtmfDone, DtmfFails, IceFailed, IceFails
    <2> QED BY <1>2, <1>3, <1>5, <2>1, <2>2
  <1>21. CASE IceConnected
    <2>1. /\ icestream = "talking" /\ UNCHANGED <<zcontext, taking, stream, zrtp_mq, stop_event>>
          /\ ice_state' # "none"
      BY <1>21 DEF IceConnected, eng, mqs, events, rest
    <2>2. pc' = pc \/ (pc["rtp"].at = "idle" /\ Moves("rtp", "begin", ""))
      <3>1. pc' = pc \/ (IsIdle("rtp") /\ Goto("rtp", "begin", ""))
        BY <1>21 DEF IceConnected, BeginZrtp
      <3> QED BY <1>0, <1>1, <3>1, ThreadMoves DEF Places, Afters
    <2>3. CASE pc' = pc
      BY <1>2, <1>3, <1>5, <2>1, <2>3
    <2>4. CASE pc["rtp"].at = "idle" /\ Moves("rtp", "begin", "")
      BY <1>2, <1>9, <2>1, <2>4
    <2> QED BY <2>2, <2>3, <2>4
  <1>22. CASE ZrtpPacket
    <2>1. pc["rtp"].at = "idle" /\ stream' = stream /\ stream # "closed"
      BY <1>0, <1>1, <1>22, ThreadMoves DEF ZrtpPacket, Hears, rest
    <2>2. pc' = pc \/ Goto("rtp", "begin", "packet")
      BY <1>22 DEF ZrtpPacket, BeginZrtp
    <2>3. pc'["rtp"].at \in {"idle", "begin"}
      BY <1>0, <1>1, <2>1, <2>2, ThreadMoves DEF Moves, Places, Afters
    <2> QED BY <1>6, <2>1, <2>3
  <1>23. CASE GoSecure
    <2>1. UNCHANGED <<zcontext, taking, stream, ice_state, icestream, stop_event, zrtp_mq>>
      BY <1>23 DEF GoSecure, states, eng, ice, events
    <2>2. pc' = pc \/ Goto("gui", "begin", "")
      BY <1>23 DEF GoSecure, BeginZrtp
    <2>3. pc' = pc \/ Moves("gui", "begin", "")
      BY <1>0, <1>1, <2>2, ThreadMoves DEF Places, Afters
    <2> QED BY <1>2, <1>3, <1>5, <2>1, <2>3
  <1>24. CASE TryFailed \/ EngineFailed
    <2>1. UNCHANGED <<zcontext, taking, stream, ice_state, icestream, stop_event, zrtp_mq>>
      BY <1>24 DEF TryFailed, EngineFailed, states, eng, ice, mqs, events, rest
    <2>2. \E where \in {"idle", "failed"} : Moves("zrtp", where, "")
      BY <1>0, <1>24, Ends
    <2>3. ~StopUnderWay
      BY <1>0, <1>1, <1>24, Ends DEF ThreadsOK, StopUnderWay
    <2>4. SameStop /\ pc'["rtp"] = pc["rtp"]
      BY <1>3, <1>4, <2>2, <2>3
    <2> QED BY <1>2, <1>5, <2>1, <2>4
  <1>25. CASE Close
    <2>1. stream' = "closing" /\ pc' = pc /\ ~Ending
      BY <1>0, <1>25 DEF Close, ThreadsOK
    <2> QED BY <1>6, <2>1 DEF Ending
  <1>26. CASE StartEngine
    <2>1. /\ UNCHANGED <<taking, stream, ice_state, icestream, stop_event, pc>> /\ ZrtpShrinks("start")
      BY <1>0, <1>26, QueuesMove DEF StartEngine, states, ice, rest
    <2>2. CASE Shut /\ ~Stopping /\ zcontext = "created"
      <3>1. ~Has(zrtp_mq', "packet") /\ zcontext' = "hello"
        BY <1>0, <1>26, <2>1, <2>2 DEF StartEngine, ShutOK, ZrtpShrinks
      <3>2. ~Stopping'
        BY <2>1, <2>2 DEF Stopping
      <3>3. taking' = {} /\ pc'["zrtp"].at # "flag"
        BY <1>0, <2>1, <2>2 DEF ShutOK
      <3> QED BY <3>1, <3>2, <3>3, HasBoth DEF ShutOK
    <2>3. CASE ~(Shut /\ ~Stopping /\ zcontext = "created")
      <3>1. Shut /\ ~Stopping => zcontext' = zcontext
        BY <1>26, <2>3 DEF StartEngine
      <3> QED BY <1>2, <1>3, <1>5, <2>1, <3>1
    <2> QED BY <2>2, <2>3
  <1>27. CASE StopEngine
    <2>1. UNCHANGED <<stream, ice_state, icestream, stop_event>> /\ taking' = Given
          /\ zcontext' \in {"null", "over"} /\ ZrtpShrinks("stop")
      BY <1>0, <1>27, QueuesMove DEF StopEngine, states, ice, events, rest
    <2>2. Moves("zrtp", "off", "stop")
      BY <1>0, <1>27, Ends
    <2>3. pc'["rtp"] = pc["rtp"] /\ pc'["zrtp"].at # "flag" /\ StopUnderWay'
      BY <1>1, <2>2 DEF Moves, StopUnderWay
    <2>4. (Shut' <=> Shut) /\ (Stopping' <=> Stopping)
      BY <2>1, <2>3 DEF Shut, Ending, Stopping
    <2>5. Shut /\ ~Stopping => Given = {}
      BY <1>0 DEF ShutOK, Given
    <2>6. NoPacket
      BY <1>2, <2>1
    <2>7. Stopping /\ ice_state = "none" => ~Has(zrtp_mq', "packet")
      BY <1>0, <2>1 DEF ShutOK, ZrtpShrinks
    <2>8. Shut' /\ ~Stopping' => /\ zcontext' \in {"null", "over"} /\ taking' = {} /\ pc'["zrtp"].at # "flag"
                                 /\ ice_state' = "none" => ~Has(zrtp_mq', "packet")
      BY <1>0, <2>1, <2>3, <2>4, <2>5, <2>6 DEF ShutOK, NoPacket
    <2>9. stream' = "closed" /\ Has(zrtp_mq', "packet") =>
            icestream' = "none" /\ pc'["rtp"].at \notin {"ice", "begin", "create", "queue", "wait"}
      BY <1>0, <2>1, <2>3, <2>6 DEF ShutOK, NoPacket
    <2>10. Stopping' /\ ice_state' = "none" =>
             ~Before(zrtp_mq', "stop", "packet") /\ ~Has(zrtp_mq', "packet")
      BY <2>1, <2>4, <2>7, HasBoth
    <2> QED BY <2>3, <2>8, <2>9, <2>10 DEF ShutOK
  <1>28. CASE EngineStopped
    <2>1. UNCHANGED <<stream, ice_state, icestream, zrtp_mq, taking>> /\ zcontext' = "null"
          /\ stop_event' = TRUE /\ taking = {}
      BY <1>28 DEF EngineStopped, states, ice, mqs, rest
    <2>2. StopUnderWay /\ Moves("zrtp", "idle", "")
      BY <1>0, <1>28, Ends DEF StopUnderWay
    <2>3. pc'["rtp"] = pc["rtp"] /\ pc'["zrtp"].at # "flag"
      BY <1>1, <2>2 DEF Moves
    <2>4. (Shut' <=> Shut) /\ ~Stopping'
      BY <2>1, <2>3 DEF Shut, Ending, Stopping
    <2>5. Shut /\ ice_state = "none" => ~Has(zrtp_mq, "packet")
      BY <1>0, <2>2 DEF ShutOK
    <2>6. stream' = "closed" /\ Has(zrtp_mq', "packet") =>
            icestream' = "none" /\ pc'["rtp"].at \notin {"ice", "begin", "create", "queue", "wait"}
      BY <1>0, <2>1, <2>3 DEF ShutOK
    <2> QED BY <2>1, <2>3, <2>4, <2>5, <2>6 DEF ShutOK
  <1>29. CASE (\E d \in Directions : SecretsOff(d)) \/ SecureOff
    <2>1. /\ UNCHANGED <<zcontext, stream, ice_state, icestream, stop_event, zrtp_mq>>
          /\ taking # {} \/ pc["zrtp"].at = "flag"
      BY <1>29 DEF SecretsOff, SecureOff, states, eng, ice, mqs, events, rest
    <2>2. Moves("zrtp", "flag", pc["zrtp"].then) \/ Moves("zrtp", "off", pc["zrtp"].then)
      BY <1>0, <1>29, Ends
    <2>3. pc'["rtp"] = pc["rtp"] /\ (StopUnderWay' <=> StopUnderWay)
      BY <1>1, <2>2 DEF Moves, StopUnderWay
    <2>4. (Shut' <=> Shut) /\ (Stopping' <=> Stopping)
      BY <2>1, <2>3 DEF Shut, Ending, Stopping
    <2>5. ~(Shut /\ ~Stopping)
      BY <1>0, <2>1 DEF ShutOK
    <2> QED BY <1>0, <2>1, <2>3, <2>4, <2>5 DEF ShutOK
  <1>30. CASE HandleInput \/ SecretsReady \/ Negotiated \/ Conf2AckSecure
    <2>1. /\ UNCHANGED <<taking, stream, ice_state, icestream, stop_event, pc>>
          /\ TakeZ("packet") \/ (Conf2AckSecure /\ zrtp_mq' = zrtp_mq)
      <3>1. HandleInput \/ SecretsReady =>
              /\ UNCHANGED <<taking, stream, ice_state, icestream, stop_event, pc>>
              /\ TakeZ("packet")
        BY DEF HandleInput, SecretsReady, states, ice, events, rest
      <3>2. SecretsOn => UNCHANGED <<taking, stream, ice_state, icestream, stop_event, pc>>
        BY DEF SecretsOn, ice, events, rest
      <3>3. /\ Negotiated => SecretsOn /\ TakeZ("packet")
            /\ Conf2AckSecure => SecretsOn /\ zrtp_mq' = zrtp_mq
        BY DEF Negotiated, Conf2AckSecure
      <3> QED BY <1>30, <3>1, <3>2, <3>3
    <2>2. ZrtpShrinks("packet") \/ (Conf2AckSecure /\ zrtp_mq' = zrtp_mq)
      BY <1>0, <2>1, QueuesMove
    <2>3. NoPacket /\ StopStays
      BY <1>2, <2>2
    <2>4. Has(zrtp_mq, "packet") \/ Conf2AckSecure
      BY <2>2 DEF ZrtpShrinks
    <2>5. Shut /\ ~Stopping => zcontext' = zcontext
      BY <1>0, <1>30, <2>4 DEF HandleInput, SecretsReady, Negotiated, Conf2AckSecure, ShutOK
    <2> QED BY <1>3, <1>5, <2>1, <2>3, <2>5
  <1>31. CASE NegotiationFailed \/ NotSuppOther
    <2>1. /\ UNCHANGED <<stream, ice_state, icestream, stop_event>>
          /\ TakeZ("packet") \/ zrtp_mq' = zrtp_mq
          /\ NotSuppOther => taking' = taking
      BY <1>31 DEF NegotiationFailed, NotSuppOther, states, ice, mqs, events, rest
    <2>2. /\ pc["zrtp"].at = "idle"
          /\ \E where \in {"off", "failed"}, what \in {"", "fail"} : Moves("zrtp", where, what)
      BY <1>0, <1>31, Ends
    <2>3. NoPacket /\ StopStays
      BY <1>0, <1>2, <2>1, QueuesMove
    <2>4. ~StopUnderWay
      BY <1>0, <1>1, <2>2 DEF ThreadsOK, StopUnderWay
    <2>5. pc'["rtp"] = pc["rtp"] /\ SameStop
      BY <1>3, <1>4, <2>2, <2>4
    <2>6. Shut /\ ~Stopping => NotSuppOther /\ zcontext = "hello" /\ zcontext' = "quiet"
      BY <1>0, <1>31 DEF NegotiationFailed, NotSuppOther, ShutOK
    <2>7. CASE NotSuppOther
      BY <1>5, <2>1, <2>3, <2>5, <2>6, <2>7
    <2>8. CASE ~NotSuppOther
      <3>1. (Shut' <=> Shut) /\ (Stopping' <=> Stopping) /\ (StopUnderWay' <=> StopUnderWay)
        BY <2>1, <2>5 DEF Shut, Ending, Stopping, SameStop
      <3>2. ~(Shut /\ ~Stopping)
        BY <2>6, <2>8
      <3> QED BY <1>0, <2>1, <2>3, <2>5, <3>1, <3>2 DEF ShutOK, NoPacket, StopStays
    <2> QED BY <2>7, <2>8
  <1> QED
    BY <1>10, <1>11, <1>12, <1>13, <1>14, <1>15, <1>16, <1>17, <1>18, <1>19, <1>20,
       <1>21, <1>22, <1>23, <1>24, <1>25, <1>26, <1>27, <1>28, <1>29, <1>30, <1>31
    DEF Next, RtpStep, ZrtpStep, IceStep, GuiStep, Starts

----------------------------------------------------------------------------
LEMMA StreamInvAtInit == Init => StreamInv
  <1> SUFFICES ASSUME Init PROVE StreamInv
    OBVIOUS
  <1>1. StreamTypeOK
    BY TypesAtInit
  <1>2. \A t \in Threads : pc[t].at = "idle" /\ pc[t].then = ""
    BY DEF Init, Idle
  <1>3. \A m, n : ~Has(rtp_mq, m) /\ ~Before(rtp_mq, m, n)
                  /\ ~Has(zrtp_mq, m) /\ ~Before(zrtp_mq, m, n) /\ ~Three(zrtp_mq, m)
    BY NothingQueued DEF Init
  <1>4. KeysOK
    <2>1. zcontext = "null" /\ lost = {} /\ taking = {} /\ ~secure /\ Given = {} /\ ctx = NoKeys
      BY DEF Init, Given
    <2>2. \A d \in Directions : Early(d)
      BY <2>1 DEF Early, NoKeys
    <2>3. pc["zrtp"].at = "idle"
      BY <1>2 DEF Threads
    <2> QED BY <2>1, <2>2, <2>3 DEF KeysOK, AtWork
  <1>5. WaitersOK
    BY <1>3 DEF Init, WaitersOK
  <1>6. ThreadsOK
    BY <1>2, <1>3 DEF ThreadsOK, Init, Ending, Threads
  <1>7. EnginesOK
    BY <1>2, <1>3 DEF EnginesOK, Init, Threads, StopUnderWay
  <1>8. ShutOK
    BY <1>2, <1>3 DEF ShutOK, Init, Shut, Stopping, Ending, Threads
  <1>9. ExchangeIsHeard /\ ClosedHasNoKeys
    BY DEF Init, ExchangeIsHeard, ClosedHasNoKeys
  <1> QED BY <1>1, <1>4, <1>5, <1>6, <1>7, <1>8, <1>9 DEF StreamInv

\* What the threads of the stream rely on between each other's waits: which engine
\* the keys, flags and queued messages belong to, who waits for which event, and
\* what is left once do_close has run.
THEOREM StreamInvHolds == Spec => []StreamInv
  <1>1. StreamInv /\ [Next]_svars => StreamInv'
    BY TypesKept, KeysKept, ExchangeKept, WaitersKept, ThreadsKept, EnginesKept, ShutKept, ClosedKept
    DEF StreamInv
  <1> QED BY StreamInvAtInit, <1>1, PTL DEF Spec

\* Every variable has its type: what the RTP thread, the ZRTP thread and the
\* button do to the fields of CyRTPStream leaves none of them undefined.
THEOREM StreamTypes == Spec => []StreamTypeOK
  <1>1. StreamInv => StreamTypeOK
    BY DEF StreamInv
  <1> QED BY StreamInvHolds, <1>1, PTL

\* As long as no engine was lost to another thread's, a stream that says it
\* encrypts has its engine's keys in both directions, and lacks one only between
\* the two writes of srtpSecretsOff, which takes the key before it resets the flag.
THEOREM KeysAreOfEngine == Spec => []SecureKeys
  <1>1. ASSUME StreamInv PROVE SecureKeys
    <2> SUFFICES ASSUME secure, lost = {}
                 PROVE  /\ zcontext = "secure" \/ pc["zrtp"].at \in {"off", "flag"}
                        /\ \A d \in Directions : \/ ctx[d] = engine /\ ctrl[d] = engine
                                                 \/ ctx[d] = 0 /\ pc["zrtp"].at = "flag"
      BY DEF SecureKeys
    <2>1. zcontext = "secure" \/ pc["zrtp"].at = "flag" \/ (AtWork /\ taking = Directions)
      BY <1>1 DEF StreamInv, KeysOK
    <2>2. \A d \in Directions : IF d \in Given \cup taking THEN Owned(d) ELSE ctx[d] = 0
      BY <1>1 DEF StreamInv, KeysOK, Early
    <2>3. CASE zcontext = "secure"
      BY <2>2, <2>3 DEF Given, Owned
    <2>4. CASE pc["zrtp"].at = "flag"
      BY <2>2, <2>4 DEF Owned
    <2>5. CASE AtWork /\ taking = Directions
      BY <2>2, <2>5 DEF AtWork, Owned
    <2> QED BY <2>1, <2>3, <2>4, <2>5
  <1> QED BY StreamInvHolds, <1>1, PTL

\* srtpSecretsOff takes back what secretsReady gave before the engine that gave
\* it goes, unless another thread has put its own in its place.
THEOREM OldKeysGo == Spec => []NoOldKeys
  <1>1. StreamInv => NoOldKeys
    BY DEF StreamInv, KeysOK, NoOldKeys, Owned, Early
  <1> QED BY StreamInvHolds, <1>1, PTL

\* A stream that do_close has freed has no keys, and what is still queued for
\* the ZRTP thread gives it none.
THEOREM ClosedKeyless == Spec => []ClosedHasNoKeys
  <1>1. StreamInv => ClosedHasNoKeys
    BY DEF StreamInv
  <1> QED BY StreamInvHolds, <1>1, PTL

\* do_close never waits for a stop that the ZRTP thread neither has in its queue
\* nor is about to answer.
THEOREM StopAnswered == Spec => []StopIsAnswered
  <1>1. ASSUME StreamInv PROVE StopIsAnswered
    <2>1. Stopping => Has(zrtp_mq, "stop") \/ pc["zrtp"].then = "stop"
      BY <1>1 DEF StreamInv, ShutOK, StopUnderWay
    <2>2. zrtp_mq \in Seq(ToZrtpMessages)
      BY <1>1 DEF StreamInv, StreamTypeOK, ZrtpQueues
    <2>3. DOMAIN zrtp_mq = 1 .. Len(zrtp_mq)
      BY <2>2
    <2> QED BY <2>1, <2>3 DEF StopIsAnswered, Stopping, Has
  <1> QED BY StreamInvHolds, <1>1, PTL

\* An exchange of session ids that is open is heard: handleDTMF hands it the
\* peer's tones, whoever else ends the handshake.
THEOREM ExchangeHeard == Spec => []ExchangeIsHeard
  <1>1. StreamInv => ExchangeIsHeard
    BY DEF StreamInv
  <1> QED BY StreamInvHolds, <1>1, PTL
=============================================================================
