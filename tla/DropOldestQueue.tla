--------------------------- MODULE DropOldestQueue ---------------------------
(***************************************************************************)
(* What the receive ring of the ethernet driver promises the stack: the    *)
(* frames come in the order of their arrival, and when Capacity of them    *)
(* wait, a new one costs the oldest.  Frames are numbered 1, 2, ... as     *)
(* they are put, so that those that wait are lo + 1 .. hi.                 *)
(***************************************************************************)
EXTENDS Naturals

CONSTANT Capacity

VARIABLES
  lo,   \* the last frame that is no longer in the queue
  hi,   \* the last frame that was put
  got   \* the last frame that was handed out, 0 before the first

Init == lo = 0 /\ hi = 0 /\ got = 0

Put ==
  /\ hi' = hi + 1
  /\ lo' = IF hi - lo = Capacity THEN lo + 1 ELSE lo
  /\ UNCHANGED got

Get ==
  /\ lo < hi
  /\ got' = lo + 1 /\ lo' = lo + 1
  /\ UNCHANGED hi

Next == Put \/ Get

Spec == Init /\ [][Next]_<<lo, hi, got>>
=============================================================================
