--------------------------- MODULE CallLifecycle ---------------------------
(***************************************************************************)
(* What GMITM promises its event sink (GMITMEventListener in GMITM.py) and  *)
(* the port pool about each call: it is created once, may be connected,     *)
(* and is terminated once; it holds one pair of RTP ports exactly while it  *)
(* exists, and no call exists without ports.                                *)
(***************************************************************************)
EXTENDS Naturals

CONSTANTS Cids, MaxSessions

VARIABLES phase,  \* call-id -> "idle", "early" or "connected"
          held    \* RTP port pairs in use

Init == phase = [c \in Cids |-> "idle"] /\ held = 0

Open(c) ==
  /\ phase[c] = "idle" /\ held < MaxSessions
  /\ phase' = [phase EXCEPT ![c] = "early"]
  /\ held' = held + 1

Connect(c) ==
  /\ phase[c] = "early"
  /\ phase' = [phase EXCEPT ![c] = "connected"]
  /\ UNCHANGED held

Close(c) ==
  /\ phase[c] # "idle"
  /\ phase' = [phase EXCEPT ![c] = "idle"]
  /\ held' = held - 1

Next == \E c \in Cids : Open(c) \/ Connect(c) \/ Close(c)

Spec == Init /\ [][Next]_<<phase, held>>
=============================================================================
