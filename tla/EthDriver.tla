----------------------------- MODULE EthDriver -----------------------------
(***************************************************************************)
(* The ethernet driver of the seL4 network server (pico_dev_litex.c):      *)
(*                                                                         *)
(*   "irq"    the interrupt's thread: completions, and received frames     *)
(*            from the slots of the hardware to the ring                   *)
(*   "stack"  whoever holds the lock of the network stack: it polls the    *)
(*            ring and sends                                               *)
(*                                                                         *)
(* The hardware (LiteEth's SRAM reader and writer, outside src/) keeps     *)
(* received frames in RX_SLOTS slots, in order, until the driver           *)
(* acknowledges the oldest; it sends from TX_SLOTS slots in the order they *)
(* were started and has one bit that says that something was sent.         *)
(* Frames are numbered as they come, in each direction.                    *)
(***************************************************************************)
EXTENDS Integers, Sequences, Functions

CONSTANTS
  RINGBUFFERS, TX_SLOTS, RX_SLOTS,  \* the defines of the source
  LITEX_COUNTER_READER_READY,       \* how often a send looks before it gives up
  MaxFrames, MaxSends               \* bounds on the traffic

ASSUME EthAssumption ==
  /\ RINGBUFFERS \in Nat \ {0, 1} /\ TX_SLOTS \in Nat \ {0} /\ RX_SLOTS \in Nat \ {0}
  /\ LITEX_COUNTER_READER_READY \in Nat \ {0}
  /\ MaxFrames \in Nat /\ MaxSends \in Nat

VARIABLES
  ring, wrpos, rdpos,  \* the ring: frames, 0 for none, and its positions
  ringlock,            \* who holds ringbuf_lock, or "free"
  irq, rx_slot,        \* where the interrupt's thread is, and the slot it copies
  stack, r, sends,     \* where the stack is, its looks, the sends so far
  got,                 \* the last frame the stack was given
  tx_slot, pendingout, \* of the sender
  rx, rxmem, arrived,  \* hardware: the slots to acknowledge, their frames, how many came
  txq, txmem, done,    \* hardware: the slots to send, their frames, the completion bit
  given, sent          \* frames the driver copied for sending, the last one sent

recvVars == <<ring, wrpos, rdpos, ringlock, rx_slot, got>>
sendVars == <<tx_slot, pendingout, r, sends, given>>
rxHw     == <<rx, rxmem, arrived>>
txHw     == <<txq, txmem, done, sent>>
evars    == <<recvVars, sendVars, irq, stack, rxHw, txHw>>

Positions == 0 .. RINGBUFFERS - 1
TxSlots   == 0 .. TX_SLOTS - 1
RxSlots   == 0 .. RX_SLOTS - 1

inc_pos(pos) == IF pos + 1 = RINGBUFFERS THEN 0 ELSE pos + 1

\* How many frames wait in the ring.
Waiting == IF wrpos >= rdpos THEN wrpos - rdpos ELSE wrpos + RINGBUFFERS - rdpos

----------------------------------------------------------------------------
(* The hardware.                                                           *)

\* A frame that finds no slot free is lost and has no number.
Arrive ==
  /\ arrived < MaxFrames
  /\ \E s \in RxSlots \ Range(rx) :
       rx' = Append(rx, s) /\ rxmem' = [rxmem EXCEPT ![s] = arrived + 1]
  /\ arrived' = arrived + 1
  /\ UNCHANGED <<recvVars, sendVars, irq, stack, txHw>>

Transmit ==
  /\ txq # <<>>
  /\ sent' = txmem[Head(txq)] /\ txq' = Tail(txq) /\ done' = 1
  /\ UNCHANGED <<recvVars, sendVars, irq, stack, rxHw, txmem>>

----------------------------------------------------------------------------
(* pico_litex_handle_irq, and pico_litex_recv in it.                       *)

Interrupt ==
  /\ irq = "idle" /\ (done = 1 \/ rx # <<>>)
  /\ done' = 0
  /\ irq' = IF done = 1 THEN "transmitted" ELSE "received"
  /\ UNCHANGED <<recvVars, sendVars, stack, rxHw, txq, txmem, sent>>

Transmitted ==
  /\ irq = "transmitted"
  /\ pendingout' = pendingout - 1
  /\ irq' = "received"
  /\ UNCHANGED <<recvVars, tx_slot, r, sends, given, stack, rxHw, txHw>>

Received ==
  /\ irq = "received"
  /\ \/ rx = <<>> /\ irq' = "idle" /\ UNCHANGED rx_slot
     \/ rx # <<>> /\ irq' = "lock" /\ rx_slot' = Head(rx)
  /\ UNCHANGED <<ring, wrpos, rdpos, ringlock, got, sendVars, stack, rxHw, txHw>>

LockToCopy ==
  /\ irq = "lock" /\ ringlock = "free"
  /\ ringlock' = "irq" /\ irq' = "copy"
  /\ UNCHANGED <<ring, wrpos, rdpos, rx_slot, got, sendVars, stack, rxHw, txHw>>

Copy ==
  /\ irq = "copy"
  /\ ring' = [ring EXCEPT ![wrpos] = rxmem[rx_slot]]
  /\ irq' = "advance"
  /\ UNCHANGED <<wrpos, rdpos, ringlock, rx_slot, got, sendVars, stack, rxHw, txHw>>

\* Mutant: a full ring looks empty.
DropAll == UNCHANGED rdpos

DropOldest == rdpos' = IF inc_pos(wrpos) = rdpos THEN inc_pos(rdpos) ELSE rdpos

Advance ==
  /\ irq = "advance"
  /\ wrpos' = inc_pos(wrpos)
  /\ DropOldest
  /\ ringlock' = "free" /\ irq' = "acknowledge"
  /\ UNCHANGED <<ring, rx_slot, got, sendVars, stack, rxHw, txHw>>

\* Mutant: the frame stays in the hardware and comes again.
AcknowledgeNothing == UNCHANGED rx

Release == rx' = Tail(rx)

Acknowledge ==
  /\ irq = "acknowledge"
  /\ Release
  /\ irq' = "idle"
  /\ UNCHANGED <<recvVars, sendVars, stack, rxmem, arrived, txHw>>

----------------------------------------------------------------------------
(* pico_litex_poll.  A poll without a frame leaves nothing behind.         *)

PollBegin ==
  /\ stack = "idle" /\ ringlock = "free" /\ rdpos # wrpos
  /\ ringlock' = "stack" /\ stack' = "deliver"
  /\ UNCHANGED <<ring, wrpos, rdpos, rx_slot, got, sendVars, irq, rxHw, txHw>>

Deliver ==
  /\ stack = "deliver"
  /\ \/ /\ rdpos # wrpos
        /\ got' = ring[rdpos] /\ stack' = "next"
        /\ UNCHANGED ringlock
     \/ /\ rdpos = wrpos
        /\ ringlock' = "free" /\ stack' = "idle"
        /\ UNCHANGED got
  /\ UNCHANGED <<ring, wrpos, rdpos, rx_slot, sendVars, irq, rxHw, txHw>>

\* "Give interrupt a chance."
DeliverNext ==
  /\ stack = "next"
  /\ rdpos' = inc_pos(rdpos)
  /\ ringlock' = "free" /\ stack' = "relock"
  /\ UNCHANGED <<ring, wrpos, rx_slot, got, sendVars, irq, rxHw, txHw>>

LockAgain ==
  /\ stack = "relock" /\ ringlock = "free"
  /\ ringlock' = "stack" /\ stack' = "deliver"
  /\ UNCHANGED <<ring, wrpos, rdpos, rx_slot, got, sendVars, irq, rxHw, txHw>>

----------------------------------------------------------------------------
(* pico_litex_send.                                                        *)

\* A frame that is too long is dropped at once.
SendBegin ==
  /\ stack = "idle" /\ sends < MaxSends
  /\ sends' = sends + 1 /\ r' = 0
  /\ stack' \in {"idle", "pending"}
  /\ UNCHANGED <<recvVars, tx_slot, pendingout, given, irq, rxHw, txHw>>

\* Looks again and again for a condition, and gives the frame up.
LookFor(here, condition, there) ==
  /\ stack = here
  /\ \/ r < LITEX_COUNTER_READER_READY /\ condition /\ r' = 0 /\ stack' = there
     \/ r < LITEX_COUNTER_READER_READY /\ ~condition /\ r' = r + 1 /\ stack' = here
     \/ r = LITEX_COUNTER_READER_READY /\ r' = 0 /\ stack' = "idle"
  /\ UNCHANGED <<recvVars, tx_slot, pendingout, sends, given, irq, rxHw, txHw>>

WaitPending == LookFor("pending", pendingout # TX_SLOTS, "ready")
WaitReady   == LookFor("ready", Len(txq) < TX_SLOTS, "fill")

Fill ==
  /\ stack = "fill"
  /\ given' = given + 1
  /\ txmem' = [txmem EXCEPT ![tx_slot] = given + 1]
  /\ stack' = "count"
  /\ UNCHANGED <<recvVars, tx_slot, pendingout, r, sends, irq, rxHw, txq, done, sent>>

\* Mutant: the frame is not counted.
CountNothing == UNCHANGED pendingout

CountUp == pendingout' = pendingout + 1

Count ==
  /\ stack = "count"
  /\ CountUp
  /\ stack' = "start"
  /\ UNCHANGED <<recvVars, tx_slot, r, sends, given, irq, rxHw, txHw>>

\* Mutant: the same slot for every frame.
SameSlot == UNCHANGED tx_slot

NextSlot == tx_slot' = (tx_slot + 1) % TX_SLOTS

Start ==
  /\ stack = "start"
  /\ txq' = Append(txq, tx_slot)
  /\ NextSlot
  /\ stack' = "idle"
  /\ UNCHANGED <<recvVars, pendingout, r, sends, given, irq, rxHw, txmem, done, sent>>

----------------------------------------------------------------------------
EthInit ==
  /\ ring = [p \in Positions |-> 0] /\ wrpos = 0 /\ rdpos = 0 /\ ringlock = "free"
  /\ irq = "idle" /\ rx_slot = 0
  /\ stack = "idle" /\ r = 0 /\ sends = 0 /\ got = 0
  /\ tx_slot = 0 /\ pendingout = 0
  /\ rx = <<>> /\ rxmem = [s \in RxSlots |-> 0] /\ arrived = 0
  /\ txq = <<>> /\ txmem = [s \in TxSlots |-> 0] /\ done = 0
  /\ given = 0 /\ sent = 0

Hardware == Arrive \/ Transmit
Irq      == Interrupt \/ Transmitted \/ Received \/ LockToCopy \/ Copy \/ Advance \/ Acknowledge
Poll     == PollBegin \/ Deliver \/ DeliverNext \/ LockAgain
Send     == SendBegin \/ WaitPending \/ WaitReady \/ Fill \/ Count \/ Start

EthNext == Hardware \/ Irq \/ Poll \/ Send
EthSpec == EthInit /\ [][EthNext]_evars

(***************************************************************************)
(* The threads run; the stack ticks for ever, and so polls; and the lock,  *)
(* a semaphore with a queue, comes to everybody who waits for it again and *)
(* again.  The peers owe no frames.                                        *)
(***************************************************************************)
EthFairSpec ==
  /\ EthSpec
  /\ WF_evars(Irq) /\ SF_evars(LockToCopy)
  /\ WF_evars(Poll \/ WaitPending \/ WaitReady \/ Fill \/ Count \/ Start)
  /\ SF_evars(PollBegin) /\ SF_evars(LockAgain)

----------------------------------------------------------------------------
\* The variables have their types.
EthTypeOK ==
  /\ ring \in [Positions -> Nat] /\ wrpos \in Positions /\ rdpos \in Positions
  /\ ringlock \in {"free", "irq", "stack"}
  /\ irq \in {"idle", "transmitted", "received", "lock", "copy", "advance", "acknowledge"}
  /\ rx_slot \in RxSlots
  /\ stack \in {"idle", "deliver", "next", "relock", "pending", "ready", "fill", "count", "start"}
  /\ r \in Nat /\ sends \in Nat /\ got \in Nat
  /\ tx_slot \in TxSlots /\ pendingout \in Int
  /\ rx \in Seq(RxSlots) /\ rxmem \in [RxSlots -> Nat] /\ arrived \in Nat
  /\ txq \in Seq(TxSlots) /\ txmem \in [TxSlots -> Nat] /\ done \in {0, 1}
  /\ given \in Nat /\ sent \in Nat

(***************************************************************************)
(* Through slots that the hardware fills again, a ring that overruns and a *)
(* reader that lets go of the lock after every frame, the stack sees the   *)
(* frames whole, once each and in order, and loses only the oldest.        *)
(***************************************************************************)
\* Frames that are in the ring or were: all but those that wait in the hardware.
PutSoFar == arrived - Len(rx) + IF irq = "acknowledge" THEN 1 ELSE 0

Ring == INSTANCE DropOldestQueue WITH
  Capacity <- RINGBUFFERS - 1,
  hi <- PutSoFar,
  lo <- PutSoFar - Waiting + IF stack = "next" THEN 1 ELSE 0,
  got <- got

RingSpec == Ring!Spec

Starting  == IF stack = "start" THEN 1 ELSE 0
Reporting == IF irq = "transmitted" THEN 1 ELSE 0

\* Every frame that was started and not reported is counted, and so the
\* count, which the interrupt takes from, never drops below zero.
SendsAreCounted == pendingout >= Len(txq) + done + Starting + Reporting

\* What the hardware has still to send is what the stack gave, in order: the
\* driver copies into no slot that the hardware may still read.
SlotsHoldTheirFrames ==
  \A i \in 1 .. Len(txq) :
    txmem[txq[i]] = given - Len(txq) + i - (IF stack \in {"count", "start"} THEN 1 ELSE 0)

\* Every frame of the hardware gets to the stack or gives way to a newer one,
\* however long the stack polls and sends: when the traffic stops, the stack
\* has caught up.
FramesArePut == got < arrived ~> got = arrived
=============================================================================
