-------------------------- MODULE GuiEventsProofs --------------------------
(***************************************************************************)
(* The window for every set of calls and every backlog: the calls are      *)
(* counted right, and what is encrypted is shown as such.                  *)
(***************************************************************************)
EXTENDS GuiEvents, FiniteSetTheorems, TLAPS

Phases   == {"new", "live", "closing", "gone"}
Closures == [call : Calls, what : {"created", "terminated", "info", "secure", "failed"},
             info : StateInfos, verified : BOOLEAN]

GuiTypeOK ==
  /\ phase \in [Calls -> Phases] /\ engine \in [Calls -> EngineType]
  /\ awake \in Seq(Closures) /\ ui \in [Calls -> CallUi \cup {None, Raised}]
  /\ \A c \in Calls : ui[c] = Raised => c \in Nameless
  /\ nrcalls \in Int /\ globalMute \in BOOLEAN
  /\ btn_mute \in [active : BOOLEAN, muted : BOOLEAN]

\* The closures of a call that wait, by their places.
Of(q, c)      == {i \in 1 .. Len(q) : q[i].call = c}
Created(q, c) == \E i \in Of(q, c) : q[i].what = "created"
Ended(q, c)   == \E i \in Of(q, c) : q[i].what = "terminated"

\* The closures of a call in phase ph with the window u: its window is created
\* before anything else, and it goes once, when the call is gone.
OrderOK(c, q, ph, u) ==
  /\ ph = "new" => Of(q, c) = {}
  /\ \A i \in Of(q, c) : q[i].what = "created" => \A j \in Of(q, c) \ {i} : i < j
  /\ \A i, j \in Of(q, c) : q[i].what = "terminated" /\ q[j].what = "terminated" => i = j
  /\ Ended(q, c) => ph = "gone"
  /\ ph = "gone" /\ Created(q, c) => Ended(q, c)
  /\ u # None <=> ph # "new" /\ ~Created(q, c) /\ (ph = "gone" => Ended(q, c))

\* The first state with encryption, or a later one; the state without.
High(e) == e.what = "info" /\ e.info >= ZRTP1
Low(e)  == e.what = "info" /\ e.info = NONE
Ready(e) == e.what = "info" /\ e.info = CONNECTED

Begun(u) == u # None /\ u.laststate >= ZRTP1
Shown(u) == u # None /\ u.status \in {"unverified", "verified"}

\* The window says that the call is encrypted, and stays so, or a closure that
\* waits will make it say so for good.
Comes(c, q, u) ==
  \/ Shown(u) /\ Begun(u) /\ \A i \in Of(q, c) : Ready(q[i])
  \/ \E k \in Of(q, c) : /\ q[k].what = "secure" /\ \A i \in Of(q, c) : i > k => Ready(q[i])
                         /\ Begun(u) \/ \E i \in Of(q, c) : i < k /\ High(q[i])

\* For a call that runs, with the engine's state en: the closures bring the
\* window to what the stream has reported.
StatesOK(c, q, en, u) ==
  /\ \A i, j \in Of(q, c) : High(q[i]) /\ i < j => ~Low(q[j])
  /\ en.info <= NONE => ~Begun(u) /\ \A i \in Of(q, c) : ~High(q[i])
  /\ Begun(u) => \A i \in Of(q, c) : ~Low(q[i])
  /\ en.info >= ZRTP1 => Begun(u) \/ \E i \in Of(q, c) : High(q[i])
  /\ en.secure /\ ~en.stops => Comes(c, q, u)

EngineOK(c, ph, en) ==
  /\ en.secure /\ ~en.stops => en.info \in {ZRTP1, ZRTP2, CONNECTED}
  /\ en.stops => en.info >= ZRTP1
  /\ en.late => en.secure
  /\ en.anew => en.info > NONE
  /\ ph = "new" => en.info = -1

CallOK(c, q, ph, en, u) ==
  /\ OrderOK(c, q, ph, u) /\ EngineOK(c, ph, en)
  /\ ph \in {"live", "closing"} /\ ~en.anew /\ c \notin Nameless => StatesOK(c, q, en, u)

Windows(v) == {c \in Calls : v[c] # None}

GuiInv ==
  /\ GuiTypeOK
  /\ \A c \in Calls : CallOK(c, awake, phase[c], engine[c], ui[c])
  /\ IsFiniteSet(Windows(ui))
  /\ MuteEndsWithCalls

----------------------------------------------------------------------------
(* A closure is handed over, and the oldest one is run.                    *)

Grown(r, q, e) ==
  /\ Len(q) \in Nat /\ Len(r) = Len(q) + 1 /\ r[Len(q) + 1] = e
  /\ \A i \in 1 .. Len(q) : r[i] = q[i]

Shrunk(r, q) ==
  /\ Len(r) \in Nat /\ Len(q) = Len(r) + 1
  /\ \A i \in 1 .. Len(r) : r[i] = q[i + 1]

\* Append leaves the closures that wait at their places.
LEMMA AppendGrows ==
  ASSUME NEW q \in Seq(Closures), NEW e \in Closures
  PROVE  Append(q, e) \in Seq(Closures) /\ Grown(Append(q, e), q, e)
BY DEF Grown

\* Tail moves them by one place.
LEMMA TailShrinks ==
  ASSUME NEW q \in Seq(Closures), q # <<>>
  PROVE  /\ Tail(q) \in Seq(Closures) /\ Shrunk(Tail(q), q)
         /\ Head(q) = q[1] /\ Head(q) \in Closures
BY DEF Shrunk

\* The places of a call's closures once one more is handed over.
LEMMA OfGrown ==
  ASSUME NEW q, NEW r, NEW e, NEW c, Grown(r, q, e)
  PROVE  /\ e.call = c => Of(r, c) = Of(q, c) \cup {Len(q) + 1}
         /\ e.call # c => Of(r, c) = Of(q, c)
         /\ \A i \in Of(q, c) : i \in Nat /\ i < Len(q) + 1 /\ r[i] = q[i]
<1>1. ASSUME NEW i PROVE i \in Of(r, c) <=> i \in Of(q, c) \/ (e.call = c /\ i = Len(q) + 1)
  BY <1>1 DEF Of, Grown
<1>2. \A i \in Of(q, c) : i \in Nat /\ i < Len(q) + 1 /\ r[i] = q[i]
  BY DEF Of, Grown
<1> QED BY <1>1, <1>2

\* The places once the oldest closure is run.
LEMMA OfShrunk ==
  ASSUME NEW q, NEW r, NEW c, Shrunk(r, q)
  PROVE  /\ \A i \in Of(r, c) : i \in Nat /\ i > 0 /\ i + 1 \in Of(q, c) /\ r[i] = q[i + 1]
         /\ \A j \in Of(q, c) : /\ j \in Nat /\ j > 0
                                /\ j # 1 => j - 1 \in Of(r, c) /\ r[j - 1] = q[j]
         /\ 1 \in Of(q, c) <=> q[1].call = c
<1>1. \A i \in Of(r, c) : i \in Nat /\ i > 0 /\ i + 1 \in Of(q, c) /\ r[i] = q[i + 1]
  BY DEF Of, Shrunk
<1>2. ASSUME NEW j \in Of(q, c)
      PROVE  /\ j \in Nat /\ j > 0
             /\ j # 1 => j - 1 \in Of(r, c) /\ r[j - 1] = q[j]
  <2>1. j \in Nat /\ j > 0 /\ j <= Len(r) + 1 /\ q[j].call = c
    BY <1>2 DEF Of, Shrunk
  <2>2. CASE j # 1
    <3>1. j - 1 \in 1 .. Len(r) /\ (j - 1) + 1 = j
      BY <2>1, <2>2 DEF Shrunk
    <3>2. r[j - 1] = q[j]
      BY <3>1 DEF Shrunk
    <3> QED BY <2>1, <3>1, <3>2 DEF Of
  <2> QED BY <2>1, <2>2
<1>3. 1 \in Of(q, c) <=> q[1].call = c
  BY DEF Of, Shrunk
<1> QED BY <1>1, <1>2, <1>3

\* A closure of another call changes nothing for this one.
LEMMA OtherAdded ==
  ASSUME NEW c, NEW q, NEW r, NEW e, NEW ph, NEW en, NEW u,
         Grown(r, q, e), e.call # c, CallOK(c, q, ph, en, u)
  PROVE  CallOK(c, r, ph, en, u)
<1>1. Of(r, c) = Of(q, c) /\ \A i \in Of(q, c) : i \in Nat /\ r[i] = q[i]
  <2>1. e.call # c => Of(r, c) = Of(q, c)
    BY OfGrown
  <2>2. \A i \in Of(q, c) : i \in Nat /\ r[i] = q[i]
    BY DEF Of, Grown
  <2> QED BY <2>1, <2>2
<1>2. OrderOK(c, r, ph, u)
  BY <1>1 DEF CallOK, OrderOK, Created, Ended
<1>3. ASSUME StatesOK(c, q, en, u) PROVE StatesOK(c, r, en, u)
  BY <1>1, <1>3 DEF StatesOK, Comes
<1> QED BY <1>2, <1>3 DEF CallOK

\* What the run of the first closure does to the window of a call, u before
\* and v after: a state with encryption is noted, the line about it is drawn
\* for "secure" and stays when the window is told that it is connected.
RunOf(c, q, u, v) ==
  /\ Begun(v) <=> Begun(u) \/ (1 \in Of(q, c) /\ High(q[1]))
  /\ Shown(u) /\ Begun(u) /\ (1 \in Of(q, c) => Ready(q[1])) => Shown(v)
  /\ 1 \in Of(q, c) /\ q[1].what = "secure" => Shown(v)

\* Such a run leads the closures that still wait to the same end.
LEMMA StatesRun ==
  ASSUME NEW c, NEW q, NEW r, NEW en, NEW u, NEW v,
         Shrunk(r, q), StatesOK(c, q, en, u), RunOf(c, q, u, v)
  PROVE  StatesOK(c, r, en, v)
<1>1. /\ \A i \in Of(r, c) : i \in Nat /\ i > 0 /\ i + 1 \in Of(q, c) /\ r[i] = q[i + 1]
      /\ \A j \in Of(q, c) : /\ j \in Nat /\ j > 0
                             /\ j # 1 => j - 1 \in Of(r, c) /\ r[j - 1] = q[j]
  BY OfShrunk
<1>2. ASSUME NEW i \in Of(r, c), NEW j \in Of(r, c), High(r[i]), i < j PROVE ~Low(r[j])
  <2>1. i + 1 \in Of(q, c) /\ j + 1 \in Of(q, c) /\ i + 1 < j + 1 /\ r[i] = q[i + 1] /\ r[j] = q[j + 1]
    BY <1>1, <1>2
  <2> QED BY <1>2, <2>1 DEF StatesOK
<1>3. ASSUME en.info <= NONE PROVE ~Begun(v) /\ \A i \in Of(r, c) : ~High(r[i])
  <2>1. ~Begun(u) /\ \A i \in Of(q, c) : ~High(q[i])
    BY <1>3 DEF StatesOK
  <2> QED BY <1>1, <2>1 DEF RunOf
<1>4. ASSUME Begun(v), NEW i \in Of(r, c) PROVE ~Low(r[i])
  <2>1. i + 1 \in Of(q, c) /\ r[i] = q[i + 1] /\ 1 < i + 1
    BY <1>1
  <2>2. CASE Begun(u)
    BY <2>1, <2>2 DEF StatesOK
  <2>3. CASE 1 \in Of(q, c) /\ High(q[1])
    BY <2>1, <2>3 DEF StatesOK
  <2> QED BY <1>4, <2>2, <2>3 DEF RunOf
<1>5. ASSUME NEW j \in Of(q, c), High(q[j]) PROVE Begun(v) \/ (j # 1 /\ j - 1 \in Of(r, c) /\ High(r[j - 1]))
  BY <1>1, <1>5 DEF RunOf
<1>6. ASSUME en.info >= ZRTP1 PROVE Begun(v) \/ \E i \in Of(r, c) : High(r[i])
  <2>1. Begun(u) \/ \E i \in Of(q, c) : High(q[i])
    BY <1>6 DEF StatesOK
  <2> QED BY <1>5, <2>1 DEF RunOf
<1>7. ASSUME en.secure, ~en.stops PROVE Comes(c, r, v)
  <2>1. CASE Shown(u) /\ Begun(u) /\ \A i \in Of(q, c) : Ready(q[i])
    BY <1>1, <2>1 DEF RunOf, Comes
  <2>2. ASSUME NEW k \in Of(q, c), q[k].what = "secure", \A i \in Of(q, c) : i > k => Ready(q[i]),
               Begun(u) \/ \E i \in Of(q, c) : i < k /\ High(q[i])
        PROVE  Comes(c, r, v)
    <3>1. \A i \in Of(r, c) : i + 1 > k => Ready(r[i])
      BY <1>1, <2>2
    <3>2. CASE k = 1
      <4>1. \A i \in Of(r, c) : i + 1 > k
        BY <1>1, <3>2
      <4>2. Begun(u)
        BY <1>1, <2>2, <3>2
      <4> QED BY <2>2, <3>1, <3>2, <4>1, <4>2 DEF RunOf, Comes
    <3>3. CASE k # 1
      <4>1. k - 1 \in Of(r, c) /\ r[k - 1].what = "secure" /\ k \in Nat
        BY <1>1, <2>2, <3>3
      <4>2. \A i \in Of(r, c) : i > k - 1 => Ready(r[i])
        <5>1. \A i \in Of(r, c) : i > k - 1 => i + 1 > k
          BY <1>1, <4>1
        <5> QED BY <3>1, <5>1
      <4>3. Begun(v) \/ \E i \in Of(r, c) : i < k - 1 /\ High(r[i])
        <5>1. CASE Begun(u)
          BY <5>1 DEF RunOf
        <5>2. ASSUME NEW j \in Of(q, c), j < k, High(q[j]) PROVE <4>3
          <6>1. j \in Nat /\ j - 1 < k - 1
            BY <1>1, <4>1, <5>2
          <6> QED BY <1>5, <5>2, <6>1
        <5> QED BY <2>2, <5>1, <5>2
      <4> QED BY <4>1, <4>2, <4>3 DEF Comes
    <3> QED BY <3>2, <3>3
  <2> QED BY <1>7, <2>1, <2>2 DEF StatesOK, Comes
<1> QED BY <1>2, <1>3, <1>4, <1>6, <1>7 DEF StatesOK

\* Nor does the run of one.
LEMMA OtherRun ==
  ASSUME NEW c, NEW q, NEW r, NEW ph, NEW en, NEW u,
         Shrunk(r, q), q[1].call # c, CallOK(c, q, ph, en, u)
  PROVE  CallOK(c, r, ph, en, u)
<1>1. /\ \A i \in Of(r, c) : i \in Nat /\ i + 1 \in Of(q, c) /\ r[i] = q[i + 1]
      /\ \A j \in Of(q, c) : j \in Nat /\ j - 1 \in Of(r, c) /\ r[j - 1] = q[j]
  <2>1. 1 \notin Of(q, c)
    BY OfShrunk
  <2> QED BY <2>1, OfShrunk
<1>2. OrderOK(c, r, ph, u)
  <2>1. Created(r, c) <=> Created(q, c)
    BY <1>1 DEF Created
  <2>2. Ended(r, c) <=> Ended(q, c)
    BY <1>1 DEF Ended
  <2>3. ph = "new" => Of(r, c) = {}
    BY <1>1 DEF CallOK, OrderOK
  <2>4. ASSUME NEW i \in Of(r, c), r[i].what = "created", NEW j \in Of(r, c) \ {i} PROVE i < j
    <3>1. i + 1 \in Of(q, c) /\ q[i + 1].what = "created" /\ j + 1 \in Of(q, c) \ {i + 1} /\ i \in Nat /\ j \in Nat
      BY <1>1, <2>4
    <3>2. i + 1 < j + 1
      BY <3>1 DEF CallOK, OrderOK
    <3> QED BY <3>1, <3>2
  <2>5. ASSUME NEW i \in Of(r, c), NEW j \in Of(r, c), r[i].what = "terminated", r[j].what = "terminated"
        PROVE  i = j
    <3>1. i + 1 \in Of(q, c) /\ j + 1 \in Of(q, c) /\ q[i + 1] = r[i] /\ q[j + 1] = r[j] /\ i \in Nat /\ j \in Nat
      BY <1>1
    <3>2. i + 1 = j + 1
      BY <2>5, <3>1 DEF CallOK, OrderOK
    <3> QED BY <3>1, <3>2
  <2> QED BY <2>1, <2>2, <2>3, <2>4, <2>5 DEF CallOK, OrderOK
<1>3. ASSUME StatesOK(c, q, en, u) PROVE StatesOK(c, r, en, u)
  <2>1. RunOf(c, q, u, u)
    BY OfShrunk DEF RunOf
  <2> QED BY <1>3, <2>1, StatesRun
<1> QED BY <1>2, <1>3 DEF CallOK

----------------------------------------------------------------------------
(* What the reactor and the streams report.                                *)

\* A closure between the creation and the end keeps their order.
LEMMA OrderAdded ==
  ASSUME NEW c, NEW q, NEW r, NEW e, NEW ph, NEW u,
         Grown(r, q, e), e.call = c, e.what \notin {"created", "terminated"}, ph # "new",
         OrderOK(c, q, ph, u)
  PROVE  OrderOK(c, r, ph, u)
<1>1. Of(r, c) = Of(q, c) \cup {Len(q) + 1}
  BY OfGrown
<1>2. \A i \in Of(q, c) : i \in Nat /\ i < Len(q) + 1 /\ r[i] = q[i]
  BY DEF Of, Grown
<1>3. r[Len(q) + 1] = e
  BY DEF Grown
<1>4. (Created(r, c) <=> Created(q, c)) /\ (Ended(r, c) <=> Ended(q, c))
  BY <1>1, <1>2, <1>3 DEF Created, Ended
<1>5. ASSUME NEW i \in Of(r, c), r[i].what = "created", NEW j \in Of(r, c) \ {i} PROVE i < j
  BY <1>1, <1>2, <1>3, <1>5 DEF OrderOK
<1>6. ASSUME NEW i \in Of(r, c), NEW j \in Of(r, c), r[i].what = "terminated", r[j].what = "terminated"
      PROVE  i = j
  BY <1>1, <1>2, <1>3, <1>6 DEF OrderOK
<1> QED BY <1>4, <1>5, <1>6 DEF OrderOK

\* A report of the stream after which its state is fn, not one to start over.
Reports(e, en, fn) ==
  /\ e.what \notin {"created", "terminated"} /\ ~Low(e)
  /\ en.info \in -1 .. FAILED /\ fn.info \in ZRTP1 .. FAILED
  /\ High(e) \/ en.info >= ZRTP1
  /\ fn.secure /\ ~fn.stops => e.what = "secure" \/ (Ready(e) /\ en.secure /\ ~en.stops)

\* With it the window will still come to what the stream has reported.
LEMMA StatesAdded ==
  ASSUME NEW c, NEW q, NEW r, NEW e, NEW en, NEW fn, NEW u,
         Grown(r, q, e), e.call = c, Reports(e, en, fn), StatesOK(c, q, en, u)
  PROVE  StatesOK(c, r, fn, u)
<1> DEFINE n == Len(q) + 1
<1>1. Of(r, c) = Of(q, c) \cup {n}
  BY OfGrown
<1>2. \A i \in Of(q, c) : i \in Nat /\ i < n /\ r[i] = q[i]
  BY DEF Of, Grown
<1>3. r[n] = e /\ n \in Nat
  BY DEF Grown
<1> HIDE DEF n
<1>4. ASSUME NEW i \in Of(r, c), NEW j \in Of(r, c), High(r[i]), i < j PROVE ~Low(r[j])
  BY <1>1, <1>2, <1>3, <1>4 DEF Reports, StatesOK
<1>5. ~(fn.info <= NONE)
  BY DEF Reports, NONE, ZRTP1, FAILED
<1>6. Begun(u) => \A i \in Of(r, c) : ~Low(r[i])
  BY <1>1, <1>2, <1>3 DEF Reports, StatesOK
<1>7. Begun(u) \/ \E i \in Of(r, c) : High(r[i])
  BY <1>1, <1>2, <1>3 DEF Reports, StatesOK
<1>8. ASSUME fn.secure, ~fn.stops PROVE Comes(c, r, u)
  <2>1. CASE e.what = "secure"
    <3>1. ~High(e)
      BY <2>1 DEF High
    <3>2. Begun(u) \/ \E i \in Of(r, c) : i < n /\ High(r[i])
      BY <1>1, <1>2, <1>3, <1>7, <3>1
    <3>3. \A i \in Of(r, c) : ~(i > n)
      BY <1>1, <1>2, <1>3
    <3> QED BY <1>1, <1>3, <2>1, <3>2, <3>3 DEF Comes
  <2>2. CASE Ready(e) /\ en.secure /\ ~en.stops
    <3>1. Comes(c, q, u)
      BY <2>2 DEF StatesOK
    <3>2. CASE Shown(u) /\ Begun(u) /\ \A i \in Of(q, c) : Ready(q[i])
      BY <1>1, <1>2, <1>3, <2>2, <3>2 DEF Comes
    <3>3. ASSUME NEW k \in Of(q, c), q[k].what = "secure", \A i \in Of(q, c) : i > k => Ready(q[i]),
                 Begun(u) \/ \E i \in Of(q, c) : i < k /\ High(q[i])
          PROVE  Comes(c, r, u)
      <4>1. k \in Of(r, c) /\ r[k].what = "secure"
        BY <1>1, <1>2, <3>3
      <4>2. \A i \in Of(r, c) : i > k => Ready(r[i])
        BY <1>1, <1>2, <1>3, <2>2, <3>3
      <4>3. Begun(u) \/ \E i \in Of(r, c) : i < k /\ High(r[i])
        BY <1>1, <1>2, <3>3
      <4> QED BY <4>1, <4>2, <4>3 DEF Comes
    <3> QED BY <3>1, <3>2, <3>3 DEF Comes
  <2> QED BY <1>8, <2>1, <2>2 DEF Reports
<1> QED BY <1>4, <1>5, <1>6, <1>7, <1>8 DEF StatesOK

\* So nothing is wrong with the call after such a report.
LEMMA ReportAdded ==
  ASSUME NEW c, NEW q, NEW r, NEW e, NEW ph, NEW en, NEW fn, NEW u,
         Grown(r, q, e), e.call = c, Reports(e, en, fn), ph # "new",
         EngineOK(c, ph, fn), fn.anew = en.anew, CallOK(c, q, ph, en, u)
  PROVE  CallOK(c, r, ph, fn, u)
<1>1. OrderOK(c, q, ph, u) /\ e.what \notin {"created", "terminated"}
  BY DEF CallOK, Reports
<1>2. OrderOK(c, r, ph, u)
  BY <1>1, OrderAdded
<1>3. ASSUME StatesOK(c, q, en, u) PROVE StatesOK(c, r, fn, u)
  BY <1>3, StatesAdded
<1> QED BY <1>2, <1>3 DEF CallOK

\* The window of the call is created first.
LEMMA CreatedAdded ==
  ASSUME NEW c, NEW q, NEW r, NEW e, NEW en, NEW u,
         Grown(r, q, e), e.call = c, e.what = "created", CallOK(c, q, "new", en, u)
  PROVE  CallOK(c, r, "live", en, u)
<1>1. Of(q, c) = {} /\ u = None
  BY DEF CallOK, OrderOK
<1>2. Of(r, c) = {Len(q) + 1} /\ r[Len(q) + 1] = e
  <2>1. Of(r, c) = Of(q, c) \cup {Len(q) + 1}
    BY OfGrown
  <2> QED BY <1>1, <2>1 DEF Grown
<1>3. ~High(e) /\ ~Low(e)
  BY DEF High, Low
<1>4. EngineOK(c, "new", en)
  BY DEF CallOK
<1>5. en.info = -1 /\ ~en.secure
  BY <1>4 DEF EngineOK, ZRTP1, ZRTP2, CONNECTED
<1>6. OrderOK(c, r, "live", u)
  BY <1>1, <1>2 DEF OrderOK, Created, Ended
<1>7. StatesOK(c, r, en, u)
  BY <1>1, <1>2, <1>3, <1>5 DEF StatesOK, Begun, NONE, ZRTP1
<1>8. EngineOK(c, "live", en)
  BY <1>4 DEF EngineOK
<1> QED BY <1>6, <1>7, <1>8 DEF CallOK

\* Its end comes last.
LEMMA EndAdded ==
  ASSUME NEW c, NEW q, NEW r, NEW e, NEW en, NEW u,
         Grown(r, q, e), e.call = c, e.what = "terminated", CallOK(c, q, "closing", en, u)
  PROVE  CallOK(c, r, "gone", en, u)
<1>1. Of(r, c) = Of(q, c) \cup {Len(q) + 1}
  BY OfGrown
<1>2. \A i \in Of(q, c) : i \in Nat /\ i < Len(q) + 1 /\ r[i] = q[i]
  BY DEF Of, Grown
<1>3. r[Len(q) + 1] = e
  BY DEF Grown
<1>4. OrderOK(c, q, "closing", u) /\ EngineOK(c, "closing", en)
  BY DEF CallOK
<1>5. \A i \in Of(q, c) : q[i].what # "terminated"
  BY <1>4 DEF OrderOK, Ended
<1>6. Ended(r, c) /\ (Created(r, c) <=> Created(q, c))
  BY <1>1, <1>2, <1>3 DEF Ended, Created
<1>7. ASSUME NEW i \in Of(r, c), r[i].what = "created", NEW j \in Of(r, c) \ {i} PROVE i < j
  BY <1>1, <1>2, <1>3, <1>4, <1>7 DEF OrderOK
<1>8. ASSUME NEW i \in Of(r, c), NEW j \in Of(r, c), r[i].what = "terminated", r[j].what = "terminated"
      PROVE  i = j
  BY <1>1, <1>2, <1>3, <1>5, <1>8
<1>9. OrderOK(c, r, "gone", u)
  BY <1>4, <1>6, <1>7, <1>8 DEF OrderOK
<1>10. EngineOK(c, "gone", en)
  BY <1>4 DEF EngineOK
<1> QED BY <1>9, <1>10 DEF CallOK

\* The addresses are ready: either encryption has not begun, or it is drawn anew.
StartsOver(e, en, fn) ==
  /\ e.what = "info" /\ e.info = NONE
  /\ en.info \in -1 .. FAILED /\ fn.info = (IF en.info = -1 THEN NONE ELSE en.info)
  /\ fn.secure = en.secure /\ fn.stops = en.stops /\ fn.late = en.late /\ (fn.anew <=> en.info > NONE)

LEMMA ReadyAdded ==
  ASSUME NEW c, NEW q, NEW r, NEW e, NEW ph, NEW en, NEW fn, NEW u,
         Grown(r, q, e), e.call = c, ph \in {"live", "closing"}, StartsOver(e, en, fn),
         CallOK(c, q, ph, en, u)
  PROVE  CallOK(c, r, ph, fn, u)
<1> USE DEF StartsOver
<1>1. Of(r, c) = Of(q, c) \cup {Len(q) + 1}
  BY OfGrown
<1>2. \A i \in Of(q, c) : i \in Nat /\ i < Len(q) + 1 /\ r[i] = q[i]
  BY DEF Of, Grown
<1>3. r[Len(q) + 1] = e
  BY DEF Grown
<1>4. OrderOK(c, q, ph, u) /\ EngineOK(c, ph, en)
  BY DEF CallOK
<1>5. OrderOK(c, r, ph, u)
  BY <1>4, OrderAdded
<1>6. EngineOK(c, ph, fn)
  BY <1>4 DEF EngineOK, NONE, ZRTP1, ZRTP2, CONNECTED, FAILED
<1>7. ASSUME ~fn.anew, c \notin Nameless PROVE StatesOK(c, r, fn, u)
  <2>1. en.info <= NONE /\ fn.info = NONE
    BY <1>7 DEF NONE, FAILED
  <2>2. ~en.anew /\ ~fn.secure
    BY <1>4, <2>1 DEF EngineOK, NONE, ZRTP1, ZRTP2, CONNECTED, FAILED
  <2>3. StatesOK(c, q, en, u)
    BY <1>7, <2>2 DEF CallOK
  <2>4. ~Begun(u) /\ \A i \in Of(q, c) : ~High(q[i])
    BY <2>1, <2>3 DEF StatesOK
  <2>5. \A i \in Of(r, c) : ~High(r[i])
    BY <1>1, <1>2, <1>3, <2>4 DEF High, NONE, ZRTP1
  <2>6. ~(fn.info >= ZRTP1)
    BY <2>1 DEF NONE, ZRTP1
  <2> QED BY <2>2, <2>4, <2>5, <2>6 DEF StatesOK
<1> QED BY <1>5, <1>6, <1>7 DEF CallOK

----------------------------------------------------------------------------
(* What the GUI thread runs.                                               *)

\* Each drawing leaves a window, and notes no state itself.
LEMMA Drawn ==
  ASSUME NEW c, NEW u \in CallUi, NEW s \in StateInfos
  PROVE  /\ doUpdateState(c, u, s) \in CallUi /\ doUpdateState(c, u, s).laststate = u.laststate
         /\ drawERROR(c, u) \in CallUi /\ drawERROR(c, u).laststate = u.laststate
         /\ drawSAS(u) \in CallUi /\ drawSAS(u).laststate = u.laststate /\ Shown(drawSAS(u))
<1>1. drawERROR(c, u) \in CallUi /\ drawERROR(c, u).laststate = u.laststate
  BY DEF drawERROR, CallUi
<1>2. drawSAS(u) \in CallUi /\ drawSAS(u).laststate = u.laststate
  BY DEF drawSAS, CallUi
<1>3. drawSAS(u).status \in {"unverified", "verified"}
  BY DEF drawSAS, CallUi
<1>4. Shown(drawSAS(u))
  BY <1>2, <1>3, GuiAssumption DEF Shown
<1>5. doUpdateState(c, u, s) \in CallUi /\ doUpdateState(c, u, s).laststate = u.laststate
  <2>1. [u EXCEPT !.encrypt = TRUE, !.status = "plain"] \in CallUi
    BY DEF CallUi
  <2>2. [u EXCEPT !.encrypt = FALSE, !.status = "encrypting"] \in CallUi
    BY DEF CallUi
  <2>3. CASE s = NONE
    <3>1. doUpdateState(c, u, s) = [u EXCEPT !.encrypt = TRUE, !.status = "plain"]
      BY <2>3 DEF doUpdateState, NONE, ZRTP1, FAILED
    <3> QED BY <2>1, <3>1 DEF CallUi
  <2>4. CASE s = ZRTP1
    <3>1. doUpdateState(c, u, s) = [u EXCEPT !.encrypt = FALSE, !.status = "encrypting"]
      BY <2>4 DEF doUpdateState, NONE, ZRTP1, FAILED
    <3> QED BY <2>2, <3>1 DEF CallUi
  <2>5. CASE s = FAILED
    BY <1>1, <2>5 DEF doUpdateState, NONE, ZRTP1, FAILED
  <2>6. CASE s \notin {NONE, ZRTP1, FAILED}
    BY <2>6 DEF doUpdateState
  <2> QED BY <2>3, <2>4, <2>5, <2>6
<1> QED BY <1>1, <1>2, <1>4, <1>5

\* A new state is noted, except an error of a call that is gone, and a window
\* that has seen encryption begin keeps its line when it is connected.
LEMMA Updated ==
  ASSUME NEW c, NEW u \in CallUi, NEW s \in StateInfos
  PROVE  /\ updateState(c, u, s) \in CallUi
         /\ phase[c] # "gone" => updateState(c, u, s).laststate = s
         /\ u.laststate >= ZRTP1 /\ s = CONNECTED => updateState(c, u, s).status = u.status
<1> DEFINE drawn(v, i) == IF i \in StatesSince(u.laststate, s) THEN doUpdateState(c, v, i) ELSE v
           a == drawn(u, NONE)
           b == drawn(a, ZRTP1)
           d == drawn(b, FAILED)
           last == IF s = FAILED /\ phase[c] = "gone" THEN d.laststate ELSE s
<1>1. \A v \in CallUi, i \in StateInfos : drawn(v, i) \in CallUi /\ drawn(v, i).laststate = v.laststate
  BY Drawn
<1>2. NONE \in StateInfos /\ ZRTP1 \in StateInfos /\ FAILED \in StateInfos /\ s \in -1 .. FAILED
  BY DEF StateInfos, NONE, ZRTP1, FAILED
<1>3. ASSUME u.laststate >= ZRTP1, s = CONNECTED PROVE d = u
  <2>1. NONE \notin StatesSince(u.laststate, s) /\ ZRTP1 \notin StatesSince(u.laststate, s)
    BY <1>3 DEF StatesSince, NONE, ZRTP1, CallUi
  <2>2. FAILED \notin StatesSince(u.laststate, s)
    BY <1>3 DEF StatesSince, CONNECTED, FAILED, CallUi
  <2> QED BY <2>1, <2>2
<1>4. updateState(c, u, s) = [d EXCEPT !.laststate = last]
  BY DEF updateState
<1>5. a \in CallUi /\ a.laststate = u.laststate
  <2> HIDE DEF drawn
  <2> QED BY <1>1, <1>2
<1>6. b \in CallUi /\ b.laststate = u.laststate
  <2> HIDE DEF drawn, a
  <2> QED BY <1>1, <1>2, <1>5
<1>7. d \in CallUi
  <2> HIDE DEF drawn, b
  <2> QED BY <1>1, <1>2, <1>6
<1>8. last \in -1 .. FAILED
  <2> HIDE DEF d
  <2> QED BY <1>2, <1>7 DEF CallUi
<1> HIDE DEF d, last
<1>9. [d EXCEPT !.laststate = last] \in CallUi
  BY <1>7, <1>8 DEF CallUi
<1>10. [d EXCEPT !.laststate = last].laststate = last /\ [d EXCEPT !.laststate = last].status = d.status
  BY <1>7 DEF CallUi
<1>11. phase[c] # "gone" => last = s
  BY DEF last
<1> QED BY <1>3, <1>4, <1>9, <1>10, <1>11

\* A closure that is run neither opens a window nor closes it.
LEMMA DrawsWindow ==
  ASSUME NEW e \in Closures, e.what \notin {"created", "terminated"}, NEW u \in CallUi
  PROVE  Draws(e, u) \in CallUi
<1>1. e.info \in StateInfos /\ e.verified \in BOOLEAN /\ e.what \in {"info", "secure", "failed"}
  BY DEF Closures
<1>2. CASE e.what = "info"
  BY <1>1, <1>2, Updated DEF Draws
<1>3. CASE e.what = "secure"
  <2>1. [u EXCEPT !.verified = e.verified] \in CallUi
    BY <1>1 DEF CallUi
  <2> QED BY <1>1, <1>3, <2>1, Drawn DEF Draws, StateInfos
<1>4. CASE e.what = "failed"
  BY <1>1, <1>4, Drawn DEF Draws
<1> QED BY <1>1, <1>2, <1>3, <1>4

\* Whether there is a window after a closure, v, as there was one before, u.
Opens(what, u, v) ==
  /\ what = "created" => v # None
  /\ what = "terminated" => v = None
  /\ what \notin {"created", "terminated"} => (v = None <=> u = None)

\* What running a closure of the call leaves of their order.
LEMMA OrderRun ==
  ASSUME NEW c, NEW q, NEW r, NEW ph, NEW u, NEW v,
         Shrunk(r, q), q[1].call = c, OrderOK(c, q, ph, u), Opens(q[1].what, u, v)
  PROVE  /\ OrderOK(c, r, ph, v)
         /\ q[1].what = "created" => u = None
         /\ q[1].what = "terminated" => u # None /\ ph = "gone"
         /\ ph \in {"live", "closing"} /\ q[1].what # "created" => u # None
<1>1. /\ \A i \in Of(r, c) : i \in Nat /\ i > 0 /\ i + 1 \in Of(q, c) /\ r[i] = q[i + 1]
      /\ \A j \in Of(q, c) : /\ j \in Nat /\ j > 0
                             /\ j # 1 => j - 1 \in Of(r, c) /\ r[j - 1] = q[j]
  <2>1. Shrunk(r, q)
    OBVIOUS
  <2> QED BY ONLY <2>1, OfShrunk
<1>2. 1 \in Of(q, c)
  BY OfShrunk
<1>3. ph # "new"
  BY <1>2 DEF OrderOK
<1>4. ASSUME NEW j \in Of(q, c), q[j].what = "created" PROVE j = 1
  <2>1. ~(j < 1)
    BY <1>1
  <2> QED BY <1>2, <1>4, <2>1 DEF OrderOK
<1>5. ~Created(r, c)
  <2> SUFFICES ASSUME NEW i \in Of(r, c), r[i].what = "created" PROVE FALSE
    BY DEF Created
  <2>1. i + 1 \in Of(q, c) /\ q[i + 1].what = "created" /\ i \in Nat /\ i > 0
    BY <1>1
  <2>2. i + 1 = 1
    BY <1>4, <2>1
  <2> QED BY <2>1, <2>2
<1>6. Created(q, c) <=> q[1].what = "created"
  BY <1>2, <1>4 DEF Created
<1>7. Ended(r, c) => Ended(q, c)
  BY <1>1 DEF Ended
<1>8. ASSUME q[1].what # "terminated", Ended(q, c) PROVE Ended(r, c)
  <2>1. PICK j \in Of(q, c) : q[j].what = "terminated"
    BY <1>8 DEF Ended
  <2>2. j # 1 /\ j - 1 \in Of(r, c) /\ r[j - 1].what = "terminated"
    BY <1>1, <1>8, <2>1
  <2> QED BY <2>2 DEF Ended
<1>9. ASSUME q[1].what = "terminated" PROVE ~Ended(r, c)
  <2> SUFFICES ASSUME NEW i \in Of(r, c), r[i].what = "terminated" PROVE FALSE
    BY DEF Ended
  <2>1. i + 1 \in Of(q, c) /\ q[i + 1].what = "terminated" /\ i \in Nat /\ i > 0
    BY <1>1
  <2>2. i + 1 = 1
    BY <1>2, <1>9, <2>1 DEF OrderOK
  <2> QED BY <2>1, <2>2
<1>10. q[1].what = "terminated" => Ended(q, c)
  BY <1>2 DEF Ended
<1>11. \A i, j \in Of(r, c) : r[i].what = "terminated" /\ r[j].what = "terminated" => i = j
  <2> SUFFICES ASSUME NEW i \in Of(r, c), NEW j \in Of(r, c),
                      r[i].what = "terminated", r[j].what = "terminated"
               PROVE  i = j
    OBVIOUS
  <2>1. i + 1 \in Of(q, c) /\ j + 1 \in Of(q, c) /\ q[i + 1] = r[i] /\ q[j + 1] = r[j] /\ i \in Nat /\ j \in Nat
    BY <1>1
  <2>2. i + 1 = j + 1
    BY <2>1 DEF OrderOK
  <2> QED BY <2>1, <2>2
<1>12. \A i \in Of(r, c) : r[i].what # "created"
  BY <1>5 DEF Created
<1>13. (Ended(q, c) => ph = "gone") /\ (ph = "gone" /\ Created(q, c) => Ended(q, c))
  BY DEF OrderOK
<1>14. u # None <=> ~Created(q, c) /\ (ph = "gone" => Ended(q, c))
  BY <1>3 DEF OrderOK
<1>15. v # None <=> (ph = "gone" => Ended(r, c))
  <2>1. CASE q[1].what = "created"
    BY <1>6, <1>8, <1>13, <2>1 DEF Opens
  <2>2. CASE q[1].what = "terminated"
    BY <1>9, <1>10, <1>13, <2>2 DEF Opens
  <2>3. CASE q[1].what \notin {"created", "terminated"}
    <3>1. Ended(r, c) <=> Ended(q, c)
      BY <1>7, <1>8, <2>3
    <3>2. v = None <=> u = None
      BY <2>3 DEF Opens
    <3> QED BY <1>6, <1>14, <2>3, <3>1, <3>2
  <2> QED BY <2>1, <2>2, <2>3
<1>16. OrderOK(c, r, ph, v)
  BY <1>3, <1>5, <1>7, <1>11, <1>12, <1>13, <1>15 DEF OrderOK
<1>17. q[1].what = "terminated" => u # None /\ ph = "gone"
  BY <1>6, <1>10, <1>13, <1>14
<1> QED BY <1>6, <1>14, <1>16, <1>17

\* The window draws what the closure of a call that runs says.
LEMMA DrawsRun ==
  ASSUME NEW c, NEW q, NEW en, NEW u \in CallUi,
         q[1] \in Closures, q[1].call = c, q[1].what \notin {"created", "terminated"},
         1 \in Of(q, c), phase[c] # "gone", StatesOK(c, q, en, u)
  PROVE  RunOf(c, q, u, Draws(q[1], u))
<1> DEFINE e == q[1]
           v == Draws(e, u)
<1> SUFFICES RunOf(c, q, u, v)
  OBVIOUS
<1>1. e.info \in 0 .. 5 /\ e.verified \in BOOLEAN /\ e.what \in {"info", "secure", "failed"}
  BY DEF Closures, StateInfos, NONE, FAILED
<1>2. v \in CallUi /\ v # None /\ u # None
  BY DrawsWindow, GuiAssumption
<1>3. u.laststate \in -1 .. 5
  BY DEF CallUi, FAILED
<1>4. CASE e.what = "info"
  <2>1. v = updateState(c, u, e.info)
    BY <1>4 DEF Draws
  <2>2. v.laststate = e.info /\ (u.laststate >= ZRTP1 /\ e.info = CONNECTED => v.status = u.status)
    BY <1>1, <2>1, Updated DEF StateInfos, NONE, FAILED
  <2>3. Begun(v) <=> High(e)
    BY <1>2, <1>4, <2>2 DEF Begun, High
  <2>4. Begun(u) => High(e)
    <3>1. Begun(u) => ~Low(e)
      BY DEF StatesOK
    <3> QED BY <1>1, <1>4, <3>1 DEF Low, High, NONE, ZRTP1
  <2>5. Shown(u) /\ Begun(u) /\ Ready(e) => Shown(v)
    BY <1>2, <2>2 DEF Shown, Begun, Ready
  <2> HIDE DEF v
  <2> QED BY <1>4, <2>3, <2>4, <2>5 DEF RunOf
<1>5. CASE e.what = "secure"
  <2>1. [u EXCEPT !.verified = e.verified] \in CallUi /\ [u EXCEPT !.verified = e.verified].laststate = u.laststate
    BY <1>1 DEF CallUi
  <2>2. v = drawSAS([u EXCEPT !.verified = e.verified])
    BY <1>5 DEF Draws
  <2>3. v.laststate = u.laststate /\ Shown(v)
    BY <1>1, <2>1, <2>2, Drawn DEF StateInfos, NONE, FAILED
  <2>4. Begun(v) <=> Begun(u)
    BY <1>2, <2>3 DEF Begun
  <2> HIDE DEF v
  <2> QED BY <1>5, <2>3, <2>4 DEF RunOf, High
<1>6. CASE e.what = "failed"
  <2>1. v = drawERROR(c, u)
    BY <1>6 DEF Draws
  <2>2. v.laststate = u.laststate
    BY <1>1, <2>1, Drawn DEF StateInfos, NONE, FAILED
  <2>3. Begun(v) <=> Begun(u)
    BY <1>2, <2>2 DEF Begun
  <2> HIDE DEF v
  <2> QED BY <1>6, <2>3 DEF RunOf, High, Ready
<1> QED BY <1>1, <1>4, <1>5, <1>6

----------------------------------------------------------------------------
(* Every step keeps the invariant.                                         *)

LEMMA InitOK == GuiInit => GuiInv
<1> SUFFICES ASSUME GuiInit PROVE GuiInv
  OBVIOUS
<1>1. engine \in [Calls -> EngineType]
  BY GuiAssumption DEF GuiInit, EngineType, FAILED
<1>2. GuiTypeOK
  <2>1. phase \in [Calls -> Phases] /\ ui \in [Calls -> CallUi \cup {None, Raised}]
    BY DEF GuiInit, Phases
  <2>2. awake \in Seq(Closures)
    BY DEF GuiInit
  <2>3. nrcalls \in Int /\ globalMute \in BOOLEAN
    <3>1. nrcalls = 0
      BY DEF GuiInit
    <3>2. globalMute \in BOOLEAN
      BY Zenon DEF GuiInit
    <3> QED BY <3>1, <3>2
  <2>4. btn_mute \in [active : BOOLEAN, muted : BOOLEAN]
    BY DEF GuiInit
  <2>5. \A c \in Calls : ui[c] # Raised
    BY GuiAssumption DEF GuiInit
  <2> QED BY <1>1, <2>1, <2>2, <2>3, <2>4, <2>5 DEF GuiTypeOK
<1>3. ASSUME NEW c \in Calls PROVE CallOK(c, awake, phase[c], engine[c], ui[c])
  <2>1. phase[c] = "new" /\ ui[c] = None /\ Of(awake, c) = {}
    BY DEF GuiInit, Of
  <2>2. /\ engine[c].info = -1 /\ ~engine[c].secure /\ ~engine[c].anew
        /\ ~engine[c].late /\ ~engine[c].stops
    BY DEF GuiInit
  <2>3. OrderOK(c, awake, phase[c], ui[c])
    BY <2>1 DEF OrderOK, Created, Ended
  <2>4. EngineOK(c, phase[c], engine[c])
    BY <2>2 DEF EngineOK
  <2> QED BY <2>1, <2>3, <2>4 DEF CallOK
<1>4. Windows(ui) = {}
  BY DEF GuiInit, Windows
<1>5. IsFiniteSet(Windows(ui)) /\ Cardinality(Windows(ui)) = 0
  BY <1>4, FS_EmptySet
<1>6. MuteEndsWithCalls
  <2>1. nrcalls = 0 /\ globalMute = FALSE /\ btn_mute = [active |-> FALSE, muted |-> FALSE]
    BY DEF GuiInit
  <2>2. (nrcalls > 0) = FALSE
    BY <2>1
  <2> QED BY <1>5, <2>1, <2>2 DEF MuteEndsWithCalls, Windows
<1> QED BY <1>2, <1>3, <1>5, <1>6 DEF GuiInv

\* A step of the call c, or of its stream, that leaves the window alone.
Stands(c) ==
  /\ phase' \in [Calls -> Phases] /\ engine' \in [Calls -> EngineType]
  /\ \A d \in Calls \ {c} : phase'[d] = phase[d] /\ engine'[d] = engine[d]
  /\ UNCHANGED window

LEMMA StandsOK ==
  ASSUME GuiInv, NEW c \in Calls, Stands(c), awake' \in Seq(Closures),
         \A d \in Calls : CallOK(d, awake', phase'[d], engine'[d], ui[d])
  PROVE  GuiInv'
<1>1. UNCHANGED <<ui, nrcalls, globalMute, btn_mute>>
  BY DEF Stands, window
<1>2. GuiTypeOK'
  BY <1>1 DEF GuiInv, GuiTypeOK, Stands
<1>3. (\A d \in Calls : CallOK(d, awake, phase[d], engine[d], ui[d]))'
  BY <1>1
<1>4. IsFiniteSet(Windows(ui))' /\ MuteEndsWithCalls'
  BY <1>1 DEF GuiInv, MuteEndsWithCalls, Windows
<1> QED BY <1>2, <1>3, <1>4 DEF GuiInv

\* Such a step that reports one closure.
LEMMA ReportOK ==
  ASSUME GuiInv, NEW c \in Calls, NEW e \in Closures, e.call = c, Stands(c), awake' = Append(awake, e),
         CallOK(c, Append(awake, e), phase'[c], engine'[c], ui[c])
  PROVE  GuiInv'
<1>1. awake \in Seq(Closures)
  BY DEF GuiInv, GuiTypeOK
<1>2. awake' \in Seq(Closures) /\ Grown(awake', awake, e)
  BY <1>1, AppendGrows
<1>3. ASSUME NEW d \in Calls PROVE CallOK(d, awake', phase'[d], engine'[d], ui[d])
  <2>1. CASE d = c
    BY <2>1
  <2>2. CASE d # c
    <3>1. CallOK(d, awake, phase[d], engine[d], ui[d])
      BY DEF GuiInv
    <3>2. CallOK(d, awake', phase[d], engine[d], ui[d])
      BY <1>2, <2>2, <3>1, OtherAdded
    <3>3. phase'[d] = phase[d] /\ engine'[d] = engine[d]
      BY <2>2 DEF Stands
    <3> QED BY <3>2, <3>3
  <2> QED BY <2>1, <2>2
<1> QED BY <1>2, <1>3, StandsOK

\* The closures that are handed over.
LEMMA ClosureOf ==
  ASSUME NEW c \in Calls
  PROVE  /\ \A w \in {"created", "terminated", "failed"} :
              Closure(c, w) \in Closures /\ Closure(c, w).call = c /\ Closure(c, w).what = w
         /\ \A s \in StateInfos : /\ Info(c, s) \in Closures /\ Info(c, s).call = c
                                  /\ Info(c, s).what = "info" /\ Info(c, s).info = s
         /\ \A v \in BOOLEAN : /\ Secured(c, v) \in Closures /\ Secured(c, v).call = c
                               /\ Secured(c, v).what = "secure"
<1>1. ASSUME NEW w \in {"created", "terminated", "info", "secure", "failed"}
      PROVE  Closure(c, w) \in Closures /\ Closure(c, w).call = c /\ Closure(c, w).what = w
  BY DEF Closure, Closures, StateInfos, NONE, FAILED
<1>2. ASSUME NEW s \in StateInfos
      PROVE  Info(c, s) \in Closures /\ Info(c, s).call = c /\ Info(c, s).what = "info" /\ Info(c, s).info = s
  BY <1>1 DEF Info, Closures
<1>3. ASSUME NEW v \in BOOLEAN
      PROVE  Secured(c, v) \in Closures /\ Secured(c, v).call = c /\ Secured(c, v).what = "secure"
  BY <1>1 DEF Secured, Closures
<1> QED BY <1>1, <1>2, <1>3

\* What the invariant says of one call.
LEMMA OfCall ==
  ASSUME GuiInv, NEW c \in Calls
  PROVE  /\ CallOK(c, awake, phase[c], engine[c], ui[c]) /\ EngineOK(c, phase[c], engine[c])
         /\ phase[c] \in Phases /\ engine[c] \in EngineType /\ ui[c] \in CallUi \cup {None, Raised}
         /\ awake \in Seq(Closures) /\ phase \in [Calls -> Phases] /\ engine \in [Calls -> EngineType]
BY DEF GuiInv, GuiTypeOK, CallOK

LEMMA CreatedOK == ASSUME GuiInv, NEW c \in Calls, onCallCreated(c) PROVE GuiInv'
<1> DEFINE e == Closure(c, "created")
<1>1. e \in Closures /\ e.call = c /\ e.what = "created"
  BY ClosureOf
<1>2. awake' = Append(awake, e) /\ phase[c] = "new"
  BY DEF onCallCreated, callGUI
<1> HIDE DEF e
<1>3. Stands(c) /\ phase'[c] = "live" /\ engine'[c] = engine[c]
  BY OfCall DEF onCallCreated, Stands, Phases
<1>4. CallOK(c, awake, "new", engine[c], ui[c]) /\ Grown(Append(awake, e), awake, e)
  BY <1>1, <1>2, OfCall, AppendGrows
<1>5. CallOK(c, Append(awake, e), "live", engine[c], ui[c])
  BY <1>1, <1>4, CreatedAdded
<1> QED BY <1>1, <1>2, <1>3, <1>5, ReportOK

LEMMA ClosingOK == ASSUME GuiInv, NEW c \in Calls, on_call_terminated(c) PROVE GuiInv'
<1>1. Stands(c) /\ phase[c] = "live" /\ phase'[c] = "closing" /\ engine' = engine /\ awake' = awake
  BY OfCall DEF on_call_terminated, Stands, Phases
<1>2. CallOK(c, awake, "live", engine[c], ui[c])
  BY <1>1, OfCall
<1>3. CallOK(c, awake, "closing", engine[c], ui[c])
  BY <1>2 DEF CallOK, OrderOK, EngineOK
<1>4. ASSUME NEW d \in Calls PROVE CallOK(d, awake', phase'[d], engine'[d], ui[d])
  <2>1. CASE d = c
    BY <1>1, <1>3, <2>1
  <2>2. CASE d # c
    <3>1. phase'[d] = phase[d]
      BY <1>1, <2>2 DEF Stands
    <3> QED BY <1>1, <3>1, OfCall
  <2> QED BY <2>1, <2>2
<1>5. awake' \in Seq(Closures)
  BY <1>1, OfCall
<1> QED BY <1>1, <1>4, <1>5, StandsOK

LEMMA TerminatedOK == ASSUME GuiInv, NEW c \in Calls, onCallTerminated(c) PROVE GuiInv'
<1> DEFINE e == Closure(c, "terminated")
<1>1. e \in Closures /\ e.call = c /\ e.what = "terminated"
  BY ClosureOf
<1>2. awake' = Append(awake, e) /\ phase[c] = "closing"
  BY DEF onCallTerminated, callGUI
<1> HIDE DEF e
<1>3. Stands(c) /\ phase'[c] = "gone" /\ engine'[c] = engine[c]
  BY OfCall DEF onCallTerminated, Stands, Phases
<1>4. CallOK(c, awake, "closing", engine[c], ui[c]) /\ Grown(Append(awake, e), awake, e)
  BY <1>1, <1>2, OfCall, AppendGrows
<1>5. CallOK(c, Append(awake, e), "gone", engine[c], ui[c])
  BY <1>1, <1>4, EndAdded
<1> QED BY <1>1, <1>2, <1>3, <1>5, ReportOK

\* One closure of a stream that leaves the phase of its call.
LEMMA StreamOK ==
  ASSUME GuiInv, NEW c \in Calls, NEW e \in Closures, e.call = c, phase[c] # "new",
         NEW fn \in EngineType, engine' = [engine EXCEPT ![c] = fn], awake' = Append(awake, e),
         UNCHANGED <<phase, window>>, Reports(e, engine[c], fn),
         EngineOK(c, phase[c], fn), fn.anew = engine[c].anew
  PROVE  GuiInv'
<1>1. Stands(c) /\ phase'[c] = phase[c] /\ engine'[c] = fn
  BY OfCall DEF Stands
<1>2. CallOK(c, awake, phase[c], engine[c], ui[c]) /\ Grown(Append(awake, e), awake, e)
  BY OfCall, AppendGrows
<1>3. CallOK(c, Append(awake, e), phase[c], fn, ui[c])
  BY <1>2, ReportAdded
<1> QED BY <1>1, <1>3, ReportOK

LEMMA ReadyOK == ASSUME GuiInv, NEW c \in Calls, addressesReady(c) PROVE GuiInv'
<1> DEFINE e == Info(c, NONE)
           en == engine[c]
           fn == [en EXCEPT !.answers = @ + 1, !.anew = en.info > NONE,
                            !.info = IF @ = -1 THEN NONE ELSE @]
<1>1. e \in Closures /\ e.call = c /\ e.what = "info" /\ e.info = NONE
  BY ClosureOf DEF StateInfos, NONE, FAILED
<1>2. awake' = Append(awake, e) /\ phase[c] \in {"live", "closing"}
  BY DEF addressesReady, callGUI, Running
<1>3. engine' = [engine EXCEPT ![c] = fn]
  BY OfCall DEF addressesReady, EngineType
<1>4. en.answers < MaxAnswers /\ UNCHANGED <<phase, window>>
  BY DEF addressesReady
<1>5. en \in EngineType /\ en.info \in -1 .. FAILED
  BY OfCall DEF EngineType
<1>6. /\ fn.info = (IF en.info = -1 THEN NONE ELSE en.info)
      /\ fn.secure = en.secure /\ fn.stops = en.stops /\ fn.late = en.late /\ (fn.anew <=> en.info > NONE)
      /\ fn.answers = en.answers + 1 /\ fn.ice = en.ice
  BY <1>5 DEF EngineType
<1>7. fn \in EngineType
  <2>1. en.answers + 1 \in 0 .. MaxAnswers
    BY <1>4, <1>5, GuiAssumption DEF EngineType
  <2>2. (IF en.info = -1 THEN NONE ELSE en.info) \in -1 .. FAILED
    BY <1>5 DEF NONE, FAILED
  <2>3. (en.info > NONE) \in BOOLEAN
    OBVIOUS
  <2> QED BY <1>5, <2>1, <2>2, <2>3 DEF EngineType
<1> HIDE DEF fn, e
<1>8. Stands(c) /\ phase'[c] = phase[c] /\ engine'[c] = fn
  BY <1>3, <1>4, <1>7, OfCall DEF Stands
<1>9. CallOK(c, awake, phase[c], en, ui[c]) /\ Grown(Append(awake, e), awake, e)
  BY <1>1, OfCall, AppendGrows
<1>10. StartsOver(e, en, fn)
  BY <1>1, <1>5, <1>6 DEF StartsOver
<1>11. CallOK(c, Append(awake, e), phase[c], fn, ui[c])
  BY <1>1, <1>2, <1>9, <1>10, ReadyAdded
<1> QED BY <1>1, <1>2, <1>8, <1>11, ReportOK

LEMMA ZrtpOK == ASSUME GuiInv, NEW c \in Calls, startZrtp(c) PROVE GuiInv'
<1> DEFINE e == Info(c, ZRTP1)
           en == engine[c]
           fn == [en EXCEPT !.info = ZRTP1]
<1>1. e \in Closures /\ e.call = c /\ e.what = "info" /\ e.info = ZRTP1
  BY ClosureOf DEF StateInfos, NONE, FAILED, ZRTP1
<1>2. /\ awake' = Append(awake, e) /\ phase[c] # "new" /\ en.info \in {-1, NONE}
      /\ UNCHANGED <<phase, window>>
  BY DEF startZrtp, callGUI, Running
<1>3. engine' = [engine EXCEPT ![c] = fn]
  BY OfCall DEF startZrtp, EngineType
<1>4. en \in EngineType /\ EngineOK(c, phase[c], en)
  BY OfCall
<1>5. fn \in EngineType /\ fn.info = ZRTP1 /\ fn.secure = en.secure /\ fn.late = en.late /\ fn.stops = en.stops /\ fn.anew = en.anew
  BY <1>4 DEF EngineType, ZRTP1, FAILED
<1> HIDE DEF fn, e
<1>6. ~en.secure /\ ~en.anew
  BY <1>2, <1>4 DEF EngineOK, NONE, ZRTP1, ZRTP2, CONNECTED
<1>7. EngineOK(c, phase[c], fn)
  BY <1>2, <1>4, <1>5, <1>6 DEF EngineOK, ZRTP1
<1>8. Reports(e, en, fn)
  BY <1>1, <1>4, <1>5, <1>6 DEF Reports, High, Low, EngineType, NONE, ZRTP1, FAILED
<1> QED BY <1>1, <1>2, <1>3, <1>5, <1>7, <1>8, StreamOK

LEMMA IceOK == ASSUME GuiInv, NEW c \in Calls, do_start_ice(c) PROVE GuiInv'
<1> DEFINE en == engine[c]
           began == en.info \notin {-1, NONE}
           fn(s) == [en EXCEPT !.ice = TRUE, !.info = s, !.stops = began]
<1>1. PICK s \in {OFFER, FAILED} :
        awake' = Append(awake, Info(c, s)) /\ engine' = [engine EXCEPT ![c] = fn(s)]
  BY OfCall DEF do_start_ice, callGUI, EngineType
<1> DEFINE e == Info(c, s)
           gn == fn(s)
<1>2. phase[c] # "new" /\ UNCHANGED <<phase, window>> /\ awake' = Append(awake, e)
      /\ engine' = [engine EXCEPT ![c] = gn]
  BY <1>1 DEF do_start_ice
<1>3. s \in 2 .. 5 /\ s \in StateInfos
  BY DEF OFFER, FAILED, StateInfos, NONE
<1>4. e \in Closures /\ e.call = c /\ e.what = "info" /\ e.info = s
  BY <1>3, ClosureOf
<1>5. en \in EngineType /\ EngineOK(c, phase[c], en)
  BY OfCall
<1>6. /\ gn.info = s /\ gn.secure = en.secure /\ (gn.stops <=> began) /\ gn.late = en.late
      /\ gn.anew = en.anew
  BY <1>5 DEF EngineType
<1>7. gn \in EngineType
  <2>1. began \in BOOLEAN
    OBVIOUS
  <2>2. \A b \in BOOLEAN, i \in -1 .. FAILED :
          [en EXCEPT !.ice = TRUE, !.info = i, !.stops = b] \in EngineType
    BY <1>5 DEF EngineType
  <2>3. s \in -1 .. FAILED
    BY <1>3 DEF FAILED
  <2> QED BY <2>1, <2>2, <2>3
<1> HIDE DEF gn, e
<1>8. ~began => ~en.secure
  BY <1>5 DEF EngineOK, NONE, ZRTP1, ZRTP2, CONNECTED
<1>9. EngineOK(c, phase[c], gn)
  <2>1. gn.info >= ZRTP1 /\ gn.info > NONE
    BY <1>3, <1>6 DEF NONE, ZRTP1
  <2>2. ~(gn.secure /\ ~gn.stops) /\ (gn.late => gn.secure)
    BY <1>5, <1>6, <1>8 DEF EngineOK
  <2> QED BY <1>2, <2>1, <2>2 DEF EngineOK
<1>10. Reports(e, en, gn)
  BY <1>3, <1>4, <1>5, <1>6, <1>8 DEF Reports, High, Low, EngineType, NONE, ZRTP1, FAILED
<1> QED BY <1>2, <1>4, <1>6, <1>7, <1>9, <1>10, StreamOK

\* What is to stop stops, and its keys go: nothing is reported.
LEMMA StopOK == ASSUME GuiInv, NEW c \in Calls, stopZrtpEngine(c) PROVE GuiInv'
<1> DEFINE en == engine[c]
           fn == [en EXCEPT !.stops = FALSE, !.secure = FALSE]
<1>1. awake' = awake /\ UNCHANGED <<phase, window>> /\ ~en.late /\ en.stops
  BY DEF stopZrtpEngine
<1>2. engine' = [engine EXCEPT ![c] = fn]
  BY OfCall DEF stopZrtpEngine, EngineType
<1>3. en \in EngineType /\ CallOK(c, awake, phase[c], en, ui[c]) /\ awake \in Seq(Closures)
  BY OfCall
<1>4. /\ fn \in EngineType /\ fn.info = en.info /\ fn.late = en.late /\ fn.anew = en.anew
      /\ fn.secure = FALSE /\ fn.stops = FALSE
  BY <1>3 DEF EngineType
<1> HIDE DEF fn
<1>5. EngineOK(c, phase[c], fn)
  BY <1>1, <1>3, <1>4 DEF CallOK, EngineOK
<1>6. ASSUME StatesOK(c, awake, en, ui[c]) PROVE StatesOK(c, awake, fn, ui[c])
  BY <1>4, <1>6 DEF StatesOK
<1>7. CallOK(c, awake, phase[c], fn, ui[c])
  BY <1>3, <1>4, <1>5, <1>6 DEF CallOK
<1>8. Stands(c) /\ phase' = phase /\ engine'[c] = fn
  BY <1>1, <1>2, <1>4, OfCall DEF Stands
<1>9. ASSUME NEW d \in Calls PROVE CallOK(d, awake', phase'[d], engine'[d], ui[d])
  <2>1. CASE d = c
    BY <1>1, <1>7, <1>8, <2>1
  <2>2. CASE d # c
    <3>1. engine'[d] = engine[d]
      BY <1>8, <2>2 DEF Stands
    <3> QED BY <1>1, <1>8, <3>1, OfCall
  <2> QED BY <2>1, <2>2
<1> QED BY <1>1, <1>3, <1>8, <1>9, StandsOK

LEMMA IceConnectedOK == ASSUME GuiInv, NEW c \in Calls, onICEConnected(c) PROVE GuiInv'
<1> DEFINE e == Info(c, ZRTP2)
           en == engine[c]
           fn == [en EXCEPT !.info = ZRTP2]
<1>1. e \in Closures /\ e.call = c /\ e.what = "info" /\ e.info = ZRTP2
  BY ClosureOf DEF StateInfos, NONE, FAILED, ZRTP2
<1>2. awake' = Append(awake, e) /\ phase[c] # "new" /\ en.info = OFFER /\ ~en.stops /\ UNCHANGED <<phase, window>>
  BY DEF onICEConnected, callGUI, Running
<1>3. engine' = [engine EXCEPT ![c] = fn]
  BY OfCall DEF onICEConnected, EngineType
<1>4. en \in EngineType /\ EngineOK(c, phase[c], en)
  BY OfCall
<1>5. fn \in EngineType /\ fn.info = ZRTP2 /\ fn.secure = en.secure /\ fn.late = en.late /\ fn.stops = en.stops /\ fn.anew = en.anew
  BY <1>4 DEF EngineType, ZRTP2, FAILED
<1> HIDE DEF fn, e
<1>6. ~en.secure
  BY <1>2, <1>4 DEF EngineOK, OFFER, ZRTP1, ZRTP2, CONNECTED
<1>7. EngineOK(c, phase[c], fn)
  BY <1>2, <1>4, <1>5, <1>6 DEF EngineOK, ZRTP2, NONE
<1>8. Reports(e, en, fn)
  BY <1>1, <1>4, <1>5, <1>6 DEF Reports, High, Low, EngineType, NONE, ZRTP1, ZRTP2, FAILED
<1> QED BY <1>1, <1>2, <1>3, <1>5, <1>7, <1>8, StreamOK

LEMMA SecureOK == ASSUME GuiInv, NEW c \in Calls, secureOn(c) PROVE GuiInv'
<1>1. PICK v \in BOOLEAN : awake' = Append(awake, Secured(c, v))
  BY DEF secureOn, callGUI
<1> DEFINE e == Secured(c, v)
           en == engine[c]
           fn == [en EXCEPT !.secure = TRUE, !.late = TRUE]
<1>2. e \in Closures /\ e.call = c /\ e.what = "secure"
  BY ClosureOf
<1>3. phase[c] # "new" /\ (en.info \in {ZRTP1, ZRTP2} \/ en.stops) /\ UNCHANGED <<phase, window>>
  BY DEF secureOn, Running
<1>4. engine' = [engine EXCEPT ![c] = fn]
  BY OfCall DEF secureOn, EngineType
<1>5. en \in EngineType /\ EngineOK(c, phase[c], en)
  BY OfCall
<1>6. fn \in EngineType /\ fn.info = en.info /\ fn.secure /\ fn.late /\ fn.stops = en.stops /\ fn.anew = en.anew
  BY <1>5 DEF EngineType
<1> HIDE DEF fn, e
<1>7. EngineOK(c, phase[c], fn)
  BY <1>3, <1>5, <1>6 DEF EngineOK
<1>8. Reports(e, en, fn)
  BY <1>2, <1>3, <1>5, <1>6 DEF Reports, Low, EngineOK, EngineType, ZRTP1, ZRTP2, FAILED
<1>9. awake' = Append(awake, e)
  BY <1>1 DEF e
<1> QED BY <1>2, <1>3, <1>4, <1>6, <1>7, <1>8, <1>9, StreamOK

LEMMA ConnectedOK == ASSUME GuiInv, NEW c \in Calls, connected(c) PROVE GuiInv'
<1> DEFINE e == Info(c, CONNECTED)
           en == engine[c]
           i == IF en.stops THEN en.info ELSE CONNECTED
           fn == [en EXCEPT !.info = i, !.late = FALSE]
<1>1. e \in Closures /\ e.call = c /\ e.what = "info" /\ e.info = CONNECTED
  BY ClosureOf DEF StateInfos, NONE, FAILED, CONNECTED
<1>2. awake' = Append(awake, e) /\ phase[c] # "new" /\ en.late /\ UNCHANGED <<phase, window>>
  BY DEF connected, callGUI, Running
<1>3. engine' = [engine EXCEPT ![c] = fn]
  BY OfCall DEF connected, EngineType
<1>4. en \in EngineType /\ EngineOK(c, phase[c], en)
  BY OfCall
<1>5. i \in -1 .. FAILED /\ i >= ZRTP1 /\ (~en.stops => i = CONNECTED)
  BY <1>4 DEF EngineOK, EngineType, CONNECTED, FAILED, ZRTP1
<1> HIDE DEF i
<1>6. /\ fn \in EngineType /\ fn.info = i /\ fn.secure = en.secure /\ ~fn.late
      /\ fn.stops = en.stops /\ fn.anew = en.anew
  BY <1>4, <1>5 DEF EngineType
<1> HIDE DEF fn, e
<1>7. EngineOK(c, phase[c], fn)
  BY <1>2, <1>4, <1>5, <1>6 DEF EngineOK, CONNECTED, NONE, ZRTP1
<1>8. en.secure
  BY <1>2, <1>4 DEF EngineOK
<1>9. Reports(e, en, fn)
  BY <1>1, <1>4, <1>5, <1>6, <1>8 DEF Reports, High, Low, Ready, EngineType, NONE, ZRTP1, CONNECTED, FAILED
<1> QED BY <1>1, <1>2, <1>3, <1>6, <1>7, <1>9, StreamOK

\* A failure may hand over two closures.
LEMMA FailedOK == ASSUME GuiInv, NEW c \in Calls, failed(c) PROVE GuiInv'
<1> DEFINE e == Info(c, FAILED)
           z == Closure(c, "failed")
           en == engine[c]
           fn == [en EXCEPT !.info = FAILED]
<1>1. e \in Closures /\ e.call = c /\ e.what = "info" /\ e.info = FAILED
  BY ClosureOf DEF StateInfos, NONE, FAILED
<1>2. z \in Closures /\ z.call = c /\ z.what = "failed"
  BY ClosureOf
<1>3. phase[c] # "new" /\ en.info \in {OFFER, ZRTP2} /\ (en.secure => en.stops) /\ UNCHANGED <<phase, window>>
  BY DEF failed, Running
<1>4. engine' = [engine EXCEPT ![c] = fn]
  BY OfCall DEF failed, EngineType
<1>5. en \in EngineType /\ EngineOK(c, phase[c], en) /\ awake \in Seq(Closures)
  BY OfCall
<1>6. fn \in EngineType /\ fn.info = FAILED /\ fn.secure = en.secure /\ fn.stops = en.stops /\ fn.late = en.late /\ fn.anew = en.anew
  BY <1>5 DEF EngineType, FAILED
<1>7. awake' = awake \o (IF en.info = ZRTP2 THEN <<z>> ELSE <<>>) \o <<e>>
  BY DEF failed
<1> HIDE DEF fn, e, z
<1>8. awake' = Append(awake, e) \/ awake' = Append(Append(awake, z), e)
  <2>1. CASE en.info = ZRTP2
    <3>1. awake' = awake \o <<z>> \o <<e>>
      BY <1>7, <2>1
    <3>2. awake \o <<z>> = Append(awake, z) /\ Append(awake, z) \in Seq(Closures)
      BY <1>2, <1>5
    <3>3. Append(awake, z) \o <<e>> = Append(Append(awake, z), e)
      BY <1>1, <3>2
    <3> QED BY <3>1, <3>2, <3>3
  <2>2. CASE en.info # ZRTP2
    <3>1. awake' = awake \o <<>> \o <<e>>
      BY <1>7, <2>2
    <3> QED BY <1>1, <1>5, <3>1
  <2> QED BY <2>1, <2>2
<1>9. EngineOK(c, phase[c], fn)
  BY <1>3, <1>5, <1>6 DEF EngineOK, NONE, FAILED, ZRTP1
<1>10. Reports(e, en, fn)
  BY <1>1, <1>3, <1>5, <1>6 DEF Reports, High, Low, EngineType, NONE, ZRTP1, FAILED
<1>11. CASE awake' = Append(awake, e)
  BY <1>1, <1>3, <1>4, <1>6, <1>9, <1>10, <1>11, StreamOK
<1>12. CASE awake' = Append(Append(awake, z), e)
  <2> DEFINE q == Append(awake, z)
  <2>1. q \in Seq(Closures) /\ Grown(q, awake, z)
    BY <1>2, <1>5, AppendGrows
  <2>2. awake' \in Seq(Closures) /\ Grown(awake', q, e)
    BY <1>1, <1>12, <2>1, AppendGrows
  <2> HIDE DEF q
  <2>3. Reports(z, en, en)
    BY <1>2, <1>3, <1>5 DEF Reports, Low, EngineType, OFFER, ZRTP1, ZRTP2, FAILED
  <2>4. CallOK(c, awake, phase[c], en, ui[c])
    BY OfCall
  <2>5. CallOK(c, q, phase[c], en, ui[c])
    BY <1>2, <1>3, <1>5, <2>1, <2>3, <2>4, ReportAdded
  <2>6. CallOK(c, awake', phase[c], fn, ui[c])
    BY <1>1, <1>3, <1>6, <1>9, <1>10, <2>2, <2>5, ReportAdded
  <2>7. Stands(c) /\ phase'[c] = phase[c] /\ engine'[c] = fn
    BY <1>3, <1>4, <1>6, OfCall DEF Stands
  <2>8. ASSUME NEW d \in Calls PROVE CallOK(d, awake', phase'[d], engine'[d], ui[d])
    <3>1. CASE d = c
      BY <2>6, <2>7, <3>1
    <3>2. CASE d # c
      <4>1. CallOK(d, awake, phase[d], engine[d], ui[d])
        BY OfCall
      <4>2. CallOK(d, q, phase[d], engine[d], ui[d])
        BY <1>2, <2>1, <3>2, <4>1, OtherAdded
      <4>3. CallOK(d, awake', phase[d], engine[d], ui[d])
        BY <1>1, <2>2, <3>2, <4>2, OtherAdded
      <4>4. phase'[d] = phase[d] /\ engine'[d] = engine[d]
        BY <2>7, <3>2 DEF Stands
      <4> QED BY <4>3, <4>4
    <3> QED BY <3>1, <3>2
  <2> QED BY <2>2, <2>7, <2>8, StandsOK
<1> QED BY <1>8, <1>11, <1>12

\* A step of the GUI thread on the window of the call c, after which the
\* closures q wait.
Redraws(c, q) ==
  /\ UNCHANGED <<phase, engine>> /\ awake' = q /\ q \in Seq(Closures)
  /\ ui' = [ui EXCEPT ![c] = ui'[c]] /\ ui'[c] \in CallUi \cup {None, Raised}
  /\ ui'[c] = Raised => c \in Nameless
  /\ nrcalls' \in Int /\ globalMute' \in BOOLEAN /\ btn_mute' \in [active : BOOLEAN, muted : BOOLEAN]

LEMMA RedrawOK ==
  ASSUME GuiInv, NEW c \in Calls, NEW q, Redraws(c, q),
         \A d \in Calls : CallOK(d, q, phase[d], engine[d], ui'[d]),
         IsFiniteSet(Windows(ui)'), MuteEndsWithCalls'
  PROVE  GuiInv'
<1>1. ui \in [Calls -> CallUi \cup {None, Raised}] /\ \A d \in Calls : ui[d] = Raised => d \in Nameless
  BY DEF GuiInv, GuiTypeOK
<1>2. ui' \in [Calls -> CallUi \cup {None, Raised}] /\ \A d \in Calls : ui'[d] = Raised => d \in Nameless
  BY <1>1 DEF Redraws
<1>3. GuiTypeOK'
  BY <1>2 DEF Redraws, GuiInv, GuiTypeOK
<1>4. (\A d \in Calls : CallOK(d, awake, phase[d], engine[d], ui[d]))'
  BY DEF Redraws
<1> QED BY <1>3, <1>4 DEF GuiInv

\* With no window opened or closed the calls are counted as before.
LEMMA SameWindows ==
  ASSUME GuiInv, NEW c \in Calls, ui' = [ui EXCEPT ![c] = ui'[c]], ui'[c] = None <=> ui[c] = None,
         UNCHANGED <<nrcalls, globalMute, btn_mute>>
  PROVE  IsFiniteSet(Windows(ui)') /\ MuteEndsWithCalls'
<1>1. ui \in [Calls -> CallUi \cup {None, Raised}]
  BY DEF GuiInv, GuiTypeOK
<1>2. \A d \in Calls : ui'[d] = None <=> ui[d] = None
  BY <1>1
<1>3. Windows(ui)' = Windows(ui)
  BY <1>2 DEF Windows
<1>4. Windows(ui) = {d \in Calls : ui[d] # None} /\ Windows(ui)' = {d \in Calls : ui'[d] # None}
  BY DEF Windows
<1>5. {d \in Calls : ui'[d] # None} = {d \in Calls : ui[d] # None}
  BY <1>3, <1>4
<1>6. MuteEndsWithCalls'
  BY <1>5 DEF GuiInv, MuteEndsWithCalls
<1> QED BY <1>3, <1>6 DEF GuiInv

\* The first closure has been run for its call; the others' are as they were.
LEMMA RunOK ==
  ASSUME GuiInv, NEW c \in Calls, awake # <<>>, Head(awake).call = c, Redraws(c, Tail(awake)),
         Opens(Head(awake).what, ui[c], ui'[c]),
         phase[c] \in {"live", "closing"} /\ ~engine[c].anew /\ c \notin Nameless =>
           RunOf(c, awake, ui[c], ui'[c]),
         IsFiniteSet(Windows(ui)'), MuteEndsWithCalls'
  PROVE  GuiInv'
<1> DEFINE q == Tail(awake)
<1>1. q \in Seq(Closures) /\ Shrunk(q, awake) /\ Head(awake) = awake[1]
  BY OfCall, TailShrinks
<1> HIDE DEF q
<1>2. ASSUME NEW d \in Calls PROVE CallOK(d, q, phase[d], engine[d], ui'[d])
  <2>1. CallOK(d, awake, phase[d], engine[d], ui[d])
    BY OfCall
  <2>2. CASE d # c
    <3>1. CallOK(d, q, phase[d], engine[d], ui[d])
      BY <1>1, <2>1, <2>2, OtherRun
    <3>2. ui'[d] = ui[d]
      <4>1. ui \in [Calls -> CallUi \cup {None, Raised}] /\ ui' = [ui EXCEPT ![c] = ui'[c]]
        BY DEF GuiInv, GuiTypeOK, Redraws
      <4> QED BY <2>2, <4>1
    <3> QED BY <3>1, <3>2
  <2>3. CASE d = c
    <3>1. OrderOK(c, awake, phase[c], ui[c]) /\ EngineOK(c, phase[c], engine[c])
      BY <2>1, <2>3 DEF CallOK
    <3>2. OrderOK(c, q, phase[c], ui'[c])
      BY <1>1, <3>1, OrderRun
    <3>3. ASSUME phase[c] \in {"live", "closing"}, ~engine[c].anew, c \notin Nameless
          PROVE  StatesOK(c, q, engine[c], ui'[c])
      <4>1. StatesOK(c, awake, engine[c], ui[c])
        BY <2>1, <2>3, <3>3 DEF CallOK
      <4> QED BY <1>1, <3>3, <4>1, StatesRun
    <3> QED BY <2>3, <3>1, <3>2, <3>3 DEF CallOK
  <2> QED BY <2>2, <2>3
<1>3. Redraws(c, q)
  BY DEF q
<1> QED BY <1>2, <1>3, RedrawOK

LEMMA NewWindow == NewCall \in CallUi /\ NewCall \notin {None, Raised} /\ NewCall.laststate = -1
<1>1. NewCall \in CallUi
  BY DEF NewCall, CallUi, FAILED
<1>2. NewCall.laststate = -1
  BY DEF NewCall
<1> QED BY <1>1, <1>2, GuiAssumption

\* A window opens: one more call.
LEMMA OpenOK ==
  ASSUME GuiInv, NEW c \in Calls, ui[c] = None, callCreated(c)
  PROVE  /\ ui' = [ui EXCEPT ![c] = ui'[c]]
         /\ ui'[c] = (IF c \in Nameless THEN Raised ELSE NewCall) /\ ui'[c] # None
         /\ nrcalls' \in Int /\ globalMute' \in BOOLEAN /\ btn_mute' \in [active : BOOLEAN, muted : BOOLEAN]
         /\ IsFiniteSet(Windows(ui)') /\ MuteEndsWithCalls'
<1> DEFINE new == IF c \in Nameless THEN Raised ELSE NewCall
<1>1. ui \in [Calls -> CallUi \cup {None, Raised}] /\ ui' = [ui EXCEPT ![c] = new] /\ nrcalls' = nrcalls + 1
  BY DEF GuiInv, GuiTypeOK, callCreated
<1>2. new # None
  BY NewWindow, GuiAssumption
<1> HIDE DEF new
<1>3. Windows(ui)' = Windows(ui) \cup {c} /\ c \notin Windows(ui)
  BY <1>1, <1>2 DEF Windows
<1>4. IsFiniteSet(Windows(ui)) /\ nrcalls = Cardinality(Windows(ui))
  BY DEF GuiInv, MuteEndsWithCalls, Windows
<1>5. nrcalls \in Nat
  BY <1>4, FS_CardinalityType
<1>6. IsFiniteSet(Windows(ui)') /\ nrcalls' = Cardinality(Windows(ui)')
  <2>1. /\ IsFiniteSet(Windows(ui) \cup {c})
        /\ Cardinality(Windows(ui) \cup {c}) = Cardinality(Windows(ui)) + 1
    BY <1>3, <1>4, FS_AddElement
  <2> QED BY <1>1, <1>3, <1>4, <2>1
<1>7. btn_mute = [active |-> nrcalls > 0, muted |-> globalMute] /\ globalMute \in BOOLEAN
  BY DEF GuiInv, GuiTypeOK, MuteEndsWithCalls
<1>8. btn_mute' = [btn_mute EXCEPT !.active = @ \/ nrcalls' = 1] /\ globalMute' = globalMute
  BY DEF callCreated
<1>9. ((nrcalls > 0) \/ nrcalls' = 1) = TRUE /\ (nrcalls' > 0) = TRUE /\ nrcalls' # 0 /\ nrcalls' \in Int
  BY <1>1, <1>5
<1>10. btn_mute' = [active |-> TRUE, muted |-> globalMute]
  BY <1>7, <1>8, <1>9
<1>11. btn_mute' = [active |-> nrcalls' > 0, muted |-> globalMute']
  BY <1>8, <1>9, <1>10
<1>12. btn_mute' \in [active : BOOLEAN, muted : BOOLEAN]
  BY <1>7, <1>10
<1>13. Windows(ui)' = {d \in Calls : ui'[d] # None}
  BY DEF Windows
<1>14. MuteEndsWithCalls'
  BY <1>6, <1>9, <1>11, <1>13 DEF MuteEndsWithCalls
<1>15. ui' = [ui EXCEPT ![c] = ui'[c]] /\ ui'[c] = new
  BY <1>1
<1> QED BY <1>2, <1>6, <1>7, <1>8, <1>9, <1>12, <1>14, <1>15 DEF new

\* A window closes: with the last one the sound is on again.
LEMMA CloseOK ==
  ASSUME GuiInv, NEW c \in Calls, ui[c] # None, callTerminated(c)
  PROVE  /\ ui' = [ui EXCEPT ![c] = None] /\ ui'[c] = None
         /\ nrcalls' \in Int /\ globalMute' \in BOOLEAN /\ btn_mute' \in [active : BOOLEAN, muted : BOOLEAN]
         /\ IsFiniteSet(Windows(ui)') /\ MuteEndsWithCalls'
<1>1. ui \in [Calls -> CallUi \cup {None, Raised}] /\ ui' = [ui EXCEPT ![c] = None] /\ nrcalls' = nrcalls - 1
  BY DEF GuiInv, GuiTypeOK, callTerminated
<1>2. Windows(ui)' = Windows(ui) \ {c} /\ c \in Windows(ui)
  BY <1>1 DEF Windows
<1>3. IsFiniteSet(Windows(ui)) /\ nrcalls = Cardinality(Windows(ui))
  BY DEF GuiInv, MuteEndsWithCalls, Windows
<1>4. nrcalls \in Nat
  BY <1>3, FS_CardinalityType
<1>5. IsFiniteSet(Windows(ui)') /\ nrcalls' = Cardinality(Windows(ui)')
  BY <1>1, <1>2, <1>3, FS_RemoveElement
<1>6. nrcalls' \in Nat
  BY <1>5, FS_CardinalityType
<1>7. btn_mute = [active |-> nrcalls > 0, muted |-> globalMute] /\ globalMute \in BOOLEAN
  BY DEF GuiInv, GuiTypeOK, MuteEndsWithCalls
<1>8. Windows(ui)' = {d \in Calls : ui'[d] # None}
  BY DEF Windows
<1>9. CASE nrcalls' = 0
  <2>1. globalMute' = FALSE /\ btn_mute' = [active |-> FALSE, muted |-> globalMute']
    BY <1>9 DEF callTerminated, MuteAfter
  <2>2. (nrcalls' > 0) = FALSE
    BY <1>9
  <2>3. MuteEndsWithCalls'
    BY <1>5, <1>8, <2>1, <2>2 DEF MuteEndsWithCalls
  <2>4. btn_mute' \in [active : BOOLEAN, muted : BOOLEAN]
    BY <2>1
  <2> QED BY <1>1, <1>5, <1>6, <2>1, <2>3, <2>4
<1>10. CASE nrcalls' # 0
  <2>1. globalMute' = globalMute /\ btn_mute' = btn_mute
    BY <1>10 DEF callTerminated, MuteAfter
  <2>2. (nrcalls' > 0) = TRUE /\ (nrcalls > 0) = TRUE
    BY <1>1, <1>4, <1>6, <1>10
  <2>3. MuteEndsWithCalls'
    BY <1>5, <1>7, <1>8, <1>10, <2>1, <2>2 DEF MuteEndsWithCalls
  <2>4. btn_mute' = [active |-> TRUE, muted |-> globalMute]
    BY <1>7, <2>1, <2>2
  <2> QED BY <1>1, <1>5, <1>6, <1>7, <2>1, <2>3, <2>4
<1> QED BY <1>9, <1>10

\* The window a closure finds.
LEMMA HeadFinds ==
  ASSUME NEW c, NEW q, NEW r, NEW ph, NEW u, Shrunk(r, q), q[1].call = c, OrderOK(c, q, ph, u)
  PROVE  /\ q[1].what = "created" => u = None
         /\ q[1].what = "terminated" => u # None /\ ph = "gone"
         /\ ph \in {"live", "closing"} /\ q[1].what # "created" => u # None
<1>1. CASE q[1].what = "created"
  <2>1. 1 \in Of(q, c)
    BY OfShrunk
  <2>2. u = None
    BY <1>1, <2>1 DEF OrderOK, Created
  <2> QED BY <1>1, <2>2
<1>2. CASE q[1].what = "terminated"
  <2>1. Opens(q[1].what, u, None)
    BY <1>2 DEF Opens
  <2>2. u # None /\ ph = "gone"
    BY <1>2, <2>1, OrderRun
  <2> QED BY <1>2, <2>2
<1>3. CASE q[1].what \notin {"created", "terminated"}
  <2>1. Opens(q[1].what, u, u)
    BY <1>3 DEF Opens
  <2>2. ph \in {"live", "closing"} => u # None
    BY <1>3, <2>1, OrderRun
  <2> QED BY <1>3, <2>2
<1> QED BY <1>1, <1>2, <1>3

LEMMA AwakeOK == ASSUME GuiInv, awake_callback PROVE GuiInv'
<1>1. awake # <<>> /\ awake' = Tail(awake) /\ UNCHANGED <<phase, engine>> /\ awake \in Seq(Closures)
  BY DEF awake_callback, GuiInv, GuiTypeOK
<1>2. PICK e \in Closures : e = Head(awake) /\ e = awake[1]
  BY <1>1, TailShrinks
<1>3. PICK c \in Calls : e.call = c
  BY DEF Closures
<1>4. e.what \in {"created", "terminated", "info", "secure", "failed"}
  BY DEF Closures
<1>5. Tail(awake) \in Seq(Closures) /\ Shrunk(Tail(awake), awake)
  BY <1>1, TailShrinks
<1>6. /\ CallOK(c, awake, phase[c], engine[c], ui[c]) /\ OrderOK(c, awake, phase[c], ui[c])
      /\ ui[c] \in CallUi \cup {None, Raised} /\ ui \in [Calls -> CallUi \cup {None, Raised}]
  BY OfCall DEF CallOK, GuiInv, GuiTypeOK
<1>7. 1 \in Of(awake, c)
  BY <1>2, <1>3, <1>5, OfShrunk
<1>8. /\ e.what = "created" => ui[c] = None
      /\ e.what = "terminated" => ui[c] # None /\ phase[c] = "gone"
      /\ phase[c] \in {"live", "closing"} /\ e.what # "created" => ui[c] # None
  BY <1>2, <1>3, <1>5, <1>6, HeadFinds
<1>9. CASE e.what = "created"
  <2>1. Head(awake).what = "created" /\ Head(awake).call = c
    BY <1>2, <1>3, <1>9
  <2>2. callCreated(Head(awake).call)
    BY <2>1 DEF awake_callback
  <2>3. callCreated(c)
    BY <2>1, <2>2
  <2>4. /\ ui' = [ui EXCEPT ![c] = ui'[c]]
        /\ ui'[c] = (IF c \in Nameless THEN Raised ELSE NewCall) /\ ui'[c] # None
        /\ nrcalls' \in Int /\ globalMute' \in BOOLEAN /\ btn_mute' \in [active : BOOLEAN, muted : BOOLEAN]
        /\ IsFiniteSet(Windows(ui)') /\ MuteEndsWithCalls'
    BY <1>8, <1>9, <2>3, OpenOK
  <2>5. NewCall \in CallUi /\ NewCall \notin {None, Raised} /\ NewCall.laststate = -1
    BY NewWindow
  <2>6. Redraws(c, Tail(awake))
    BY <1>1, <1>5, <2>4, <2>5 DEF Redraws
  <2>7. Opens(e.what, ui[c], ui'[c])
    BY <1>9, <2>4, <2>5 DEF Opens
  <2>8. RunOf(c, awake, ui[c], NewCall)
    <3>1. ~Begun(NewCall) /\ ~Begun(ui[c])
      BY <1>8, <1>9, <2>5 DEF Begun, ZRTP1
    <3>2. ~High(awake[1]) /\ awake[1].what # "secure"
      BY <1>2, <1>9 DEF High
    <3> QED BY <3>1, <3>2 DEF RunOf
  <2>9. c \notin Nameless => RunOf(c, awake, ui[c], ui'[c])
    BY <2>4, <2>8
  <2> QED BY <1>1, <1>2, <1>3, <2>4, <2>6, <2>7, <2>9, RunOK
<1>10. CASE e.what = "terminated"
  <2>1. callTerminated(c)
    BY <1>2, <1>3, <1>10 DEF awake_callback
  <2>2. /\ ui' = [ui EXCEPT ![c] = None] /\ ui'[c] = None
        /\ nrcalls' \in Int /\ globalMute' \in BOOLEAN /\ btn_mute' \in [active : BOOLEAN, muted : BOOLEAN]
        /\ IsFiniteSet(Windows(ui)') /\ MuteEndsWithCalls'
    BY <1>8, <1>10, <2>1, CloseOK
  <2>3. Redraws(c, Tail(awake))
    BY <1>1, <1>5, <2>2, GuiAssumption DEF Redraws
  <2>4. Opens(e.what, ui[c], ui'[c])
    BY <1>10, <2>2 DEF Opens
  <2> QED BY <1>1, <1>2, <1>3, <1>8, <1>10, <2>2, <2>3, <2>4, RunOK
<1>11. CASE e.what \notin {"created", "terminated"}
  <2> DEFINE v == IF HasWindow(c) THEN Draws(e, ui[c]) ELSE ui[c]
  <2>1. ui' = [ui EXCEPT ![c] = v] /\ UNCHANGED <<nrcalls, globalMute, btn_mute>>
    BY <1>2, <1>3, <1>6, <1>11 DEF awake_callback
  <2>2. HasWindow(c) => ui[c] \in CallUi /\ Draws(e, ui[c]) \in CallUi
    BY <1>6, <1>11, DrawsWindow DEF HasWindow
  <2>3. /\ v \in CallUi \cup {None, Raised} /\ (v = None <=> ui[c] = None)
        /\ v = Raised => ui[c] = Raised
    BY <1>6, <2>2, GuiAssumption DEF HasWindow
  <2>4. ASSUME phase[c] \in {"live", "closing"}, ~engine[c].anew, c \notin Nameless
        PROVE  RunOf(c, awake, ui[c], v)
    <3>1. HasWindow(c) /\ ui[c] \in CallUi
      BY <1>6, <1>8, <1>11, <2>2, <2>4 DEF HasWindow, GuiInv, GuiTypeOK
    <3>2. StatesOK(c, awake, engine[c], ui[c])
      BY <1>6, <2>4 DEF CallOK
    <3>3. awake[1] \in Closures /\ awake[1].call = c /\ awake[1].what \notin {"created", "terminated"}
      BY <1>2, <1>3, <1>11
    <3>4. RunOf(c, awake, ui[c], Draws(awake[1], ui[c]))
      BY <1>7, <2>4, <3>1, <3>2, <3>3, DrawsRun
    <3> QED BY <1>2, <3>1, <3>4
  <2> HIDE DEF v
  <2>5. ui' = [ui EXCEPT ![c] = ui'[c]] /\ ui'[c] = v
    BY <1>6, <2>1
  <2>6. Redraws(c, Tail(awake))
    <3>1. nrcalls' \in Int /\ globalMute' \in BOOLEAN /\ btn_mute' \in [active : BOOLEAN, muted : BOOLEAN]
      BY <2>1 DEF GuiInv, GuiTypeOK
    <3>2. ui'[c] = Raised => c \in Nameless
      BY <2>3, <2>5 DEF GuiInv, GuiTypeOK
    <3> QED BY <1>1, <1>5, <2>3, <2>5, <3>1, <3>2 DEF Redraws
  <2>7. Opens(e.what, ui[c], ui'[c])
    BY <1>11, <2>3, <2>5 DEF Opens
  <2>8. IsFiniteSet(Windows(ui)') /\ MuteEndsWithCalls'
    BY <2>1, <2>3, <2>5, SameWindows
  <2>9. phase[c] \in {"live", "closing"} /\ ~engine[c].anew /\ c \notin Nameless =>
          RunOf(c, awake, ui[c], ui'[c])
    BY <2>4, <2>5
  <2> QED BY <1>1, <1>2, <1>3, <2>6, <2>7, <2>8, <2>9, RunOK
<1> QED BY <1>9, <1>10, <1>11

LEMMA MuteOK == ASSUME GuiInv, on_btn_mute PROVE GuiInv'
<1>1. UNCHANGED <<phase, engine, awake, ui, nrcalls>> /\ btn_mute.active
  BY DEF on_btn_mute
<1>2. globalMute' = ~globalMute /\ btn_mute' = [btn_mute EXCEPT !.muted = ~globalMute]
  BY DEF on_btn_mute
<1>3. btn_mute = [active |-> nrcalls > 0, muted |-> globalMute] /\ globalMute \in BOOLEAN /\ nrcalls \in Int
  BY DEF GuiInv, GuiTypeOK, MuteEndsWithCalls
<1>4. nrcalls # 0
  <2> SUFFICES ASSUME nrcalls = 0 PROVE FALSE
    OBVIOUS
  <2>1. (nrcalls > 0) = FALSE
    OBVIOUS
  <2>2. btn_mute.active = FALSE
    BY <1>3, <2>1
  <2> QED BY <1>1, <2>2
<1>5. btn_mute' = [active |-> nrcalls > 0, muted |-> ~globalMute]
  BY <1>2, <1>3
<1>6. globalMute' \in BOOLEAN /\ (nrcalls > 0) \in BOOLEAN
  BY <1>2, <1>3
<1>7. btn_mute' \in [active : BOOLEAN, muted : BOOLEAN]
  <2>1. \A a \in BOOLEAN, b \in BOOLEAN : [active |-> a, muted |-> b] \in [active : BOOLEAN, muted : BOOLEAN]
    OBVIOUS
  <2>2. (~globalMute) \in BOOLEAN
    OBVIOUS
  <2> QED BY <1>5, <1>6, <2>1, <2>2
<1>8. GuiTypeOK'
  BY <1>1, <1>6, <1>7 DEF GuiInv, GuiTypeOK
<1>9. (\A d \in Calls : CallOK(d, awake, phase[d], engine[d], ui[d]))'
  BY <1>1 DEF GuiInv
<1>10. IsFiniteSet(Windows(ui))'
  BY <1>1 DEF GuiInv, Windows
<1>11. MuteEndsWithCalls'
  <2>1. nrcalls' = Cardinality({d \in Calls : ui'[d] # None})
    BY <1>1 DEF GuiInv, MuteEndsWithCalls
  <2>2. btn_mute' = [active |-> nrcalls' > 0, muted |-> globalMute']
    BY <1>1, <1>2, <1>5
  <2>3. nrcalls' # 0
    BY <1>1, <1>4
  <2> QED BY <2>1, <2>2, <2>3 DEF MuteEndsWithCalls
<1> QED BY <1>8, <1>9, <1>10, <1>11 DEF GuiInv

LEMMA VerifyOK == ASSUME GuiInv, NEW c \in Calls, on_btn_verify(c) PROVE GuiInv'
<1> DEFINE u == [ui[c] EXCEPT !.verified = ~@]
           v == IF phase[c] = "gone" THEN u ELSE drawSAS(u)
<1>1. /\ UNCHANGED <<phase, engine, awake, nrcalls, globalMute, btn_mute>> /\ HasWindow(c)
      /\ ui' = [ui EXCEPT ![c] = v]
  BY DEF on_btn_verify
<1>2. /\ ui \in [Calls -> CallUi \cup {None, Raised}] /\ awake \in Seq(Closures)
      /\ CallOK(c, awake, phase[c], engine[c], ui[c])
      /\ nrcalls \in Int /\ globalMute \in BOOLEAN /\ btn_mute \in [active : BOOLEAN, muted : BOOLEAN]
  BY DEF GuiInv, GuiTypeOK
<1>3. ui[c] \in CallUi /\ ui[c] # None
  BY <1>1, <1>2 DEF HasWindow
<1>4. u \in CallUi /\ u.laststate = ui[c].laststate
  BY <1>3 DEF CallUi
<1> HIDE DEF u
<1>5. /\ v \in CallUi /\ v \notin {None, Raised} /\ v.laststate = ui[c].laststate
      /\ phase[c] # "gone" => Shown(v)
  BY <1>4, Drawn, GuiAssumption DEF StateInfos, NONE, FAILED
<1> HIDE DEF v
<1>6. ui' = [ui EXCEPT ![c] = ui'[c]] /\ ui'[c] = v
  BY <1>1, <1>2
<1>7. Begun(v) <=> Begun(ui[c])
  BY <1>3, <1>5 DEF Begun
<1>8. CallOK(c, awake, phase[c], engine[c], v)
  <2>1. OrderOK(c, awake, phase[c], v)
    BY <1>2, <1>3, <1>5 DEF CallOK, OrderOK
  <2>2. ASSUME phase[c] # "gone", StatesOK(c, awake, engine[c], ui[c])
        PROVE  StatesOK(c, awake, engine[c], v)
    BY <1>5, <1>7, <2>2 DEF StatesOK, Comes
  <2> QED BY <1>2, <2>1, <2>2 DEF CallOK
<1>9. ASSUME NEW d \in Calls PROVE CallOK(d, awake, phase[d], engine[d], ui'[d])
  <2>1. CASE d = c
    BY <1>6, <1>8, <2>1
  <2>2. CASE d # c
    <3>1. ui'[d] = ui[d]
      BY <1>1, <1>2, <2>2
    <3> QED BY <3>1, OfCall
  <2> QED BY <2>1, <2>2
<1>10. Redraws(c, awake)
  BY <1>1, <1>2, <1>5, <1>6 DEF Redraws
<1>11. IsFiniteSet(Windows(ui)') /\ MuteEndsWithCalls'
  BY <1>1, <1>3, <1>5, <1>6, SameWindows
<1> QED BY <1>9, <1>10, <1>11, RedrawOK

----------------------------------------------------------------------------
(* The theorems.                                                           *)

LEMMA NextOK == GuiInv /\ [GuiNext]_gvars => GuiInv'
<1> SUFFICES ASSUME GuiInv, [GuiNext]_gvars PROVE GuiInv'
  OBVIOUS
<1>1. CASE awake_callback
  BY <1>1, AwakeOK
<1>2. CASE on_btn_mute
  BY <1>2, MuteOK
<1>3. ASSUME NEW c \in Calls, Reactor(c) PROVE GuiInv'
  BY <1>3, CreatedOK, ClosingOK, TerminatedOK DEF Reactor
<1>4. ASSUME NEW c \in Calls, Streams(c) PROVE GuiInv'
  BY <1>4, ReadyOK, ZrtpOK, IceOK, StopOK, IceConnectedOK, SecureOK, ConnectedOK, FailedOK DEF Streams
<1>5. ASSUME NEW c \in Calls, User(c) PROVE GuiInv'
  BY <1>5, ZrtpOK, IceOK, VerifyOK DEF User, on_btn_encrypt
<1>6. CASE UNCHANGED gvars
  <2>1. UNCHANGED <<phase, engine, awake, ui, nrcalls, globalMute, btn_mute>>
    BY <1>6 DEF gvars
  <2> QED BY <2>1 DEF GuiInv, GuiTypeOK, MuteEndsWithCalls, Windows
<1> QED BY <1>1, <1>2, <1>3, <1>4, <1>5, <1>6 DEF GuiNext

LEMMA InvHolds == GuiSpec => []GuiInv
BY InitOK, NextOK, PTL DEF GuiSpec

\* The state of the window and of the closures is always of its type.
THEOREM GuiTypes == GuiSpec => []GuiTypeOK
<1>1. GuiInv => GuiTypeOK
  BY DEF GuiInv
<1> QED BY <1>1, InvHolds, PTL

\* However the reports of any number of calls and the clicks interleave, the
\* calls are counted right: the sound is never off without a call.
THEOREM MuteEnds == GuiSpec => []MuteEndsWithCalls
<1>1. GuiInv => MuteEndsWithCalls
  BY DEF GuiInv
<1> QED BY <1>1, InvHolds, PTL

\* Once nothing waits for a call whose stream is encrypted, its window says so.
THEOREM SecureShown == GuiSpec => []SecureIsShown
<1>1. ASSUME GuiInv PROVE SecureIsShown
  <2> SUFFICES ASSUME NEW c \in Calls \ Nameless, Running(c), engine[c].secure, ~engine[c].stops, ~engine[c].anew,
                      \A i \in 1 .. Len(awake) : awake[i].call # c
               PROVE  ui[c].status \in {"unverified", "verified"}
    BY DEF SecureIsShown
  <2>1. StatesOK(c, awake, engine[c], ui[c])
    BY <1>1, OfCall DEF CallOK, Running
  <2>2. Of(awake, c) = {}
    BY DEF Of
  <2>3. Comes(c, awake, ui[c])
    BY <2>1 DEF StatesOK
  <2> QED BY <2>2, <2>3 DEF Comes, Shown
<1> QED BY <1>1, InvHolds, PTL
=============================================================================
