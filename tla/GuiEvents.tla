----------------------------- MODULE GuiEvents -----------------------------
(***************************************************************************)
(* The window of the GUI (gui.pyx).  The reactor and the threads of the    *)
(* engine report what happens to a call by closures that the GUI thread    *)
(* runs one after the other, in the order they were handed to Fl.awake,     *)
(* between the clicks of the user.  So a closure finds the call as it is   *)
(* later than when it was reported; one that raises has no further effect. *)
(***************************************************************************)
EXTENDS Integers, Sequences, FiniteSets

CONSTANTS
  Calls,       \* call controllers, each is created once
  Encrypting,  \* those that anyone tries to encrypt
  Nameless,    \* those whose address names no user: Call.__init__ raises
  MaxAnswers,  \* how often a call's addresses are negotiated
  MaxBacklog,  \* bounds the closures that wait, as long as one is reported at a time
  None,        \* no Call object
  Raised       \* nor one, for its constructor raised, though the call is counted

\* CRYPTO_STATEINFO_*; the three steps between the attempts are one here.
NONE == 0
ZRTP1 == 1
OFFER == 2
ZRTP2 == 3
CONNECTED == 4
FAILED == 5
StateInfos == NONE .. FAILED

VARIABLES
  phase,    \* call -> "new", "live", "closing" (in cc.close()) or "gone"
  engine,   \* call -> what its stream has reported last of its attempt, see EngineType
  awake,    \* the closures handed to Fl.awake and not yet run
  ui,       \* call -> the Call object with its window, None or Raised
  nrcalls, globalMute, btn_mute   \* btn_mute: [active, muted (its image)]

gvars == <<phase, engine, awake, ui, nrcalls, globalMute, btn_mute>>
window == <<ui, nrcalls, globalMute, btn_mute>>

EngineType == [info : -1 .. FAILED, ice : BOOLEAN, secure : BOOLEAN,
               late : BOOLEAN,   \* the keys are reported, CONNECTED is not yet
               stops : BOOLEAN,  \* the first attempt's end waits for the thread of ZRTP
               answers : 0 .. MaxAnswers,
               anew : BOOLEAN]  \* addresses were ready again after the first attempt began

CallUi == [laststate : -1 .. FAILED, verified : BOOLEAN, encrypt : BOOLEAN, verify : BOOLEAN,
           status : {"waiting", "plain", "encrypting", "unverified", "verified", "failed"}]

ASSUME GuiAssumption ==
  /\ Encrypting \subseteq Calls /\ Nameless \subseteq Calls
  /\ MaxAnswers \in Nat /\ MaxBacklog \in Nat
  /\ None \notin CallUi /\ Raised \notin CallUi /\ Raised # None

Closure(c, what) == [call |-> c, what |-> what, info |-> NONE, verified |-> FALSE]
Info(c, s)       == [Closure(c, "info") EXCEPT !.info = s]
Secured(c, v)    == [Closure(c, "secure") EXCEPT !.verified = v]

\* callGUI
callGUI(e) == Len(awake) < MaxBacklog /\ awake' = Append(awake, e)

----------------------------------------------------------------------------
(* The reactor.                                                            *)

onCallCreated(c) ==
  /\ phase[c] = "new"
  /\ phase' = [phase EXCEPT ![c] = "live"] /\ callGUI(Closure(c, "created"))
  /\ UNCHANGED <<engine, window>>

on_call_terminated(c) ==
  /\ phase[c] = "live" /\ phase' = [phase EXCEPT ![c] = "closing"]
  /\ UNCHANGED <<engine, awake, window>>

onCallTerminated(c) ==
  /\ phase[c] = "closing"
  /\ phase' = [phase EXCEPT ![c] = "gone"] /\ callGUI(Closure(c, "terminated"))
  /\ UNCHANGED <<engine, window>>

----------------------------------------------------------------------------
(* The threads of the engine.                                              *)

Running(c) == phase[c] \in {"live", "closing"}

addressesReady(c) ==
  /\ Running(c) /\ engine[c].answers < MaxAnswers
  /\ engine' = [engine EXCEPT ![c].answers = @ + 1, ![c].anew = engine[c].info > NONE,
                              ![c].info = IF @ = -1 THEN NONE ELSE @]
  /\ callGUI(Info(c, NONE)) /\ UNCHANGED <<phase, window>>

\* The user, or a packet of the other end.
startZrtp(c) ==
  /\ Running(c) /\ c \in Encrypting /\ engine[c].info \in {-1, NONE}
  /\ engine' = [engine EXCEPT ![c].info = ZRTP1]
  /\ callGUI(Info(c, ZRTP1)) /\ UNCHANGED <<phase, window>>

\* It may be queued behind the end of the stream.  Without a storage server (or
\* where the stream of ICE cannot be made, then after OFFER) it fails at once.
do_start_ice(c) ==
  /\ phase[c] # "new" /\ c \in Encrypting /\ ~engine[c].ice
  /\ \E s \in {OFFER, FAILED} :
       /\ engine' = [engine EXCEPT ![c].ice = TRUE, ![c].info = s,
                                   ![c].stops = (engine[c].info \notin {-1, NONE})]
       /\ callGUI(Info(c, s))
  /\ UNCHANGED <<phase, window>>

\* Its keys go.
stopZrtpEngine(c) ==
  /\ engine[c].stops /\ ~engine[c].late
  /\ engine' = [engine EXCEPT ![c].stops = FALSE, ![c].secure = FALSE]
  /\ UNCHANGED <<phase, awake, window>>

onICEConnected(c) ==
  /\ Running(c) /\ engine[c].info = OFFER /\ ~engine[c].stops
  /\ engine' = [engine EXCEPT ![c].info = ZRTP2]
  /\ callGUI(Info(c, ZRTP2)) /\ UNCHANGED <<phase, window>>

\* zrtp_rtpSecretsOn, in two steps.  An engine that is to stop still runs.
secureOn(c) ==
  /\ Running(c) /\ (engine[c].info \in {ZRTP1, ZRTP2} \/ engine[c].stops)
  /\ ~engine[c].secure
  /\ engine' = [engine EXCEPT ![c].secure = TRUE, ![c].late = TRUE]
  /\ \E v \in BOOLEAN : callGUI(Secured(c, v))
  /\ UNCHANGED <<phase, window>>

connected(c) ==
  /\ Running(c) /\ engine[c].late
  /\ engine' = [engine EXCEPT ![c].info = IF engine[c].stops THEN @ ELSE CONNECTED, ![c].late = FALSE]
  /\ callGUI(Info(c, CONNECTED)) /\ UNCHANGED <<phase, window>>

\* onICEFailed or, with a closure of its own in front, zrtp_zrtpNegotiationFailed.
failed(c) ==
  /\ Running(c) /\ engine[c].info \in {OFFER, ZRTP2} /\ (engine[c].secure => engine[c].stops)
  /\ engine' = [engine EXCEPT ![c].info = FAILED]
  /\ Len(awake) < MaxBacklog
  /\ awake' = awake \o (IF engine[c].info = ZRTP2 THEN <<Closure(c, "failed")>> ELSE <<>>)
                    \o <<Info(c, FAILED)>>
  /\ UNCHANGED <<phase, window>>

----------------------------------------------------------------------------
(* What the GUI thread draws.                                              *)

\* getStatus raises once the call has no zsession any more.
drawERROR(c, u) == IF phase[c] = "gone" THEN u ELSE [u EXCEPT !.status = "failed"]

drawSAS(u) == [u EXCEPT !.status = IF u.verified THEN "verified" ELSE "unverified", !.verify = TRUE]

doUpdateState(c, u, s) ==
  CASE s = NONE   -> [u EXCEPT !.encrypt = TRUE, !.status = "plain"]
    [] s = ZRTP1  -> [u EXCEPT !.encrypt = FALSE, !.status = "encrypting"]
    [] s = FAILED -> drawERROR(c, u)
    [] OTHER      -> u

\* Mutant: every state is drawn again.
AllStates(last, s) == NONE .. s

\* A state that is skipped is drawn as well.
StatesSince(last, s) == last + 1 .. s

\* Only NONE, ZRTP1 and FAILED change what is modelled of the window; where drawERROR
\* raises the new state is not noted.
updateState(c, u, s) ==
  LET drawn(v, i) == IF i \in StatesSince(u.laststate, s) THEN doUpdateState(c, v, i) ELSE v
  IN [drawn(drawn(drawn(u, NONE), ZRTP1), FAILED)
        EXCEPT !.laststate = IF s = FAILED /\ phase[c] = "gone" THEN @ ELSE s]

NewCall == [laststate |-> -1, verified |-> FALSE, encrypt |-> FALSE, verify |-> FALSE,
            status |-> "waiting"]

HasWindow(c) == ui[c] \notin {None, Raised}

\* Without a user in the address the constructor raises after the call was counted.
callCreated(c) ==
  /\ nrcalls' = nrcalls + 1
  /\ btn_mute' = [btn_mute EXCEPT !.active = @ \/ nrcalls' = 1]
  /\ ui' = [ui EXCEPT ![c] = IF c \in Nameless THEN Raised ELSE NewCall]
  /\ UNCHANGED globalMute

\* Mutant: the sound stays off.
MuteLasts == globalMute

MuteAfter == IF nrcalls' = 0 THEN FALSE ELSE globalMute

\* Where there is no Call object delattr raises, after everything else.
callTerminated(c) ==
  /\ nrcalls' = nrcalls - 1
  /\ globalMute' = MuteAfter
  /\ btn_mute' = IF nrcalls' = 0 THEN [active |-> FALSE, muted |-> globalMute'] ELSE btn_mute
  /\ ui' = [ui EXCEPT ![c] = None]

Draws(e, u) ==
  CASE e.what = "info"   -> updateState(e.call, u, e.info)
    [] e.what = "secure" -> drawSAS([u EXCEPT !.verified = e.verified])
    [] e.what = "failed" -> drawERROR(e.call, u)

\* Fl.awake: the oldest closure is run.
awake_callback ==
  /\ awake # <<>> /\ awake' = Tail(awake)
  /\ LET e == Head(awake) IN
       CASE e.what = "created"    -> callCreated(e.call)
         [] e.what = "terminated" -> callTerminated(e.call)
         [] e.what \notin {"created", "terminated"} ->
              /\ ui' = [ui EXCEPT ![e.call] = IF HasWindow(e.call) THEN Draws(e, @) ELSE @]
              /\ UNCHANGED <<nrcalls, globalMute, btn_mute>>
  /\ UNCHANGED <<phase, engine>>

on_btn_mute ==
  /\ btn_mute.active
  /\ globalMute' = ~globalMute /\ btn_mute' = [btn_mute EXCEPT !.muted = ~globalMute]
  /\ UNCHANGED <<phase, engine, awake, ui, nrcalls>>

\* With SKIPZRTP1 ICE is started at once.
on_btn_encrypt(c) == HasWindow(c) /\ ui[c].encrypt /\ (startZrtp(c) \/ (Running(c) /\ do_start_ice(c)))

\* setSASVerified raises once the call has no zsession any more.
on_btn_verify(c) ==
  /\ HasWindow(c) /\ ui[c].verify
  /\ LET u == [ui[c] EXCEPT !.verified = ~@] IN
       ui' = [ui EXCEPT ![c] = IF phase[c] = "gone" THEN u ELSE drawSAS(u)]
  /\ UNCHANGED <<phase, engine, awake, nrcalls, globalMute, btn_mute>>

----------------------------------------------------------------------------

GuiInit ==
  /\ phase = [c \in Calls |-> "new"]
  /\ engine = [c \in Calls |-> [info |-> -1, ice |-> FALSE, secure |-> FALSE, late |-> FALSE,
                                stops |-> FALSE, answers |-> 0, anew |-> FALSE]]
  /\ awake = <<>> /\ ui = [c \in Calls |-> None] /\ nrcalls = 0
  /\ globalMute = FALSE /\ btn_mute = [active |-> FALSE, muted |-> FALSE]

Reactor(c) == onCallCreated(c) \/ on_call_terminated(c) \/ onCallTerminated(c)
Streams(c) == \/ addressesReady(c) \/ startZrtp(c) \/ do_start_ice(c) \/ stopZrtpEngine(c) \/ onICEConnected(c)
              \/ secureOn(c) \/ connected(c) \/ failed(c)
User(c)    == on_btn_encrypt(c) \/ on_btn_verify(c)

GuiNext == awake_callback \/ on_btn_mute \/ \E c \in Calls : Reactor(c) \/ Streams(c) \/ User(c)

GuiSpec == GuiInit /\ [][GuiNext]_gvars

----------------------------------------------------------------------------
(* Properties.                                                             *)

\* The calls are counted right through any backlog of closures, with a window or
\* without, so the sound is never off, nor the button that turns it on dead,
\* without a call to blame.
MuteEndsWithCalls ==
  /\ nrcalls = Cardinality({c \in Calls : ui[c] # None})
  /\ btn_mute = [active |-> nrcalls > 0, muted |-> globalMute]
  /\ nrcalls = 0 => ~globalMute

\* A call whose stream is encrypted is shown as such once all its closures have
\* run and as long as its keys are not about to go.  (Not when its addresses are
\* ready again after an attempt has begun: the states are then drawn from the first
\* one, over the line about the encryption.  Nor a call without a window.)
SecureIsShown ==
  \A c \in Calls \ Nameless :
    /\ Running(c) /\ engine[c].secure /\ ~engine[c].stops /\ ~engine[c].anew
    /\ \A i \in 1 .. Len(awake) : awake[i].call # c
    => ui[c].status \in {"unverified", "verified"}
=============================================================================
