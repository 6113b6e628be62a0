--------------------------- MODULE EthDriverProofs ---------------------------
(***************************************************************************)
(* The ethernet driver for rings, slots and traffic of every size: types,  *)
(* the count of frames to send, and the receive ring as a queue that drops *)
(* its oldest frame.                                                       *)
(***************************************************************************)
EXTENDS EthDriver, TLAPS

\* Who holds the lock, and what the interrupt's thread works on.
LocksOK ==
  /\ ringlock = "irq" <=> irq \in {"copy", "advance"}
  /\ ringlock = "stack" <=> stack \in {"deliver", "next"}
  /\ irq \in {"lock", "copy", "advance", "acknowledge"} => rx # <<>> /\ rx_slot = Head(rx)
  /\ stack = "next" => rdpos # wrpos

\* The slots of the hardware hold the last frames that arrived.
SlotsOK == \A i \in 1 .. Len(rx) : rxmem[rx[i]] = arrived - Len(rx) + i

\* How far behind the writer a position is.
Behind(p) == IF wrpos > p THEN wrpos - p ELSE wrpos - p + RINGBUFFERS

\* The ring holds the last frames that were put, and one more in a copy.
RingOK ==
  /\ \A p \in Positions : Behind(p) <= Waiting => ring[p] = PutSoFar + 1 - Behind(p)
  /\ irq = "advance" => ring[wrpos] = PutSoFar + 1

\* The slot that is filled d frames before this one.
SlotBefore(slot, d) == IF slot >= d THEN slot - d ELSE slot + TX_SLOTS - d

\* The hardware has the slots behind the next one, and one is left for a frame that
\* is being copied.
SendSlotsOK ==
  /\ Len(txq) <= TX_SLOTS
  /\ stack \in {"fill", "count", "start"} => Len(txq) < TX_SLOTS
  /\ \A i \in 1 .. Len(txq) : txq[i] = SlotBefore(tx_slot, Len(txq) + 1 - i)
  /\ stack \in {"count", "start"} => txmem[tx_slot] = given

EthInv ==
  /\ EthTypeOK /\ LocksOK /\ SlotsOK /\ RingOK /\ SendsAreCounted
  /\ SendSlotsOK /\ SlotsHoldTheirFrames

----------------------------------------------------------------------------
LEMMA IncInRange == ASSUME NEW p \in Positions PROVE inc_pos(p) \in Positions
  BY EthAssumption DEF Positions, inc_pos

LEMMA InitOK == EthInit => EthInv
  BY EthAssumption DEF EthInit, EthInv, EthTypeOK, LocksOK, SlotsOK, RingOK, SendsAreCounted, Starting, Reporting,
     Positions, RxSlots, TxSlots, Behind, Waiting, PutSoFar, SendSlotsOK, SlotsHoldTheirFrames

LEMMA TypeStays == EthTypeOK /\ LocksOK /\ [EthNext]_evars => EthTypeOK'
  <1> SUFFICES ASSUME EthTypeOK, LocksOK, [EthNext]_evars PROVE EthTypeOK'
    OBVIOUS
  <1> USE EthAssumption DEF EthTypeOK, recvVars, sendVars, rxHw, txHw
  <1>1. CASE Arrive
    BY <1>1 DEF Arrive
  <1>2. CASE Transmit
    <2>1. /\ txq # <<>> /\ sent' = txmem[Head(txq)] /\ txq' = Tail(txq) /\ done' = 1
          /\ UNCHANGED <<recvVars, sendVars, irq, stack, rxHw, txmem>>
      BY <1>2 DEF Transmit
    <2>2. Head(txq) \in TxSlots /\ Tail(txq) \in Seq(TxSlots)
      BY <2>1
    <2>3. sent' \in Nat /\ txq' \in Seq(TxSlots) /\ done' \in {0, 1}
      BY <2>1, <2>2
    <2> QED BY <2>1, <2>3
  <1>3. CASE Interrupt
    BY <1>3 DEF Interrupt
  <1>16. CASE Transmitted
    BY <1>16 DEF Transmitted
  <1>18. CASE LockToCopy
    BY <1>18 DEF LockToCopy
  <1>15. CASE Received
    <2>1. rx # <<>> => Head(rx) \in RxSlots
      OBVIOUS
    <2> QED BY <1>15, <2>1 DEF Received
  <1>4. CASE Copy
    <2>1. rxmem[rx_slot] \in Nat
      OBVIOUS
    <2>2. ring' \in [Positions -> Nat]
      BY <1>4, <2>1 DEF Copy
    <2> QED BY <1>4, <2>2 DEF Copy
  <1>5. CASE Advance
    BY <1>5, IncInRange DEF Advance, DropOldest
  <1>6. CASE Acknowledge
    BY <1>6 DEF Acknowledge, LocksOK, Release
  <1>7. CASE PollBegin \/ Deliver \/ LockAgain
    BY <1>7 DEF PollBegin, Deliver, LockAgain
  <1>8. CASE DeliverNext
    BY <1>8, IncInRange DEF DeliverNext
  <1>9. CASE SendBegin
    BY <1>9 DEF SendBegin
  <1>10. CASE WaitPending
    BY <1>10 DEF WaitPending, LookFor
  <1>17. CASE WaitReady
    BY <1>17 DEF WaitReady, LookFor
  <1>11. CASE Fill
    BY <1>11 DEF Fill
  <1>12. CASE Count
    BY <1>12 DEF Count, CountUp
  <1>13. CASE Start
    <2>1. (tx_slot + 1) % TX_SLOTS \in TxSlots
      BY DEF TxSlots
    <2> QED BY <1>13, <2>1 DEF Start, NextSlot
  <1>14. CASE UNCHANGED evars
    BY <1>14 DEF evars
  <1> QED
    BY <1>1, <1>2, <1>3, <1>4, <1>5, <1>6, <1>7, <1>8, <1>9, <1>10, <1>11, <1>12, <1>13, <1>14, <1>15, <1>16,
       <1>17, <1>18
    DEF EthNext, Hardware, Irq, Poll, Send

LEMMA LocksStay == EthTypeOK /\ LocksOK /\ [EthNext]_evars => LocksOK'
  <1> SUFFICES ASSUME EthTypeOK, LocksOK, [EthNext]_evars PROVE LocksOK'
    OBVIOUS
  <1> USE DEF EthTypeOK, LocksOK, recvVars, sendVars, rxHw, txHw
  <1>1. CASE Arrive
    BY <1>1 DEF Arrive
  <1>2. CASE Transmit \/ Interrupt \/ Transmitted \/ Received \/ LockToCopy \/ Copy
    BY <1>2 DEF Transmit, Interrupt, Transmitted, Received, LockToCopy, Copy
  <1>3. CASE Advance
    BY <1>3 DEF Advance, DropOldest
  <1>4. CASE Acknowledge
    BY <1>4 DEF Acknowledge
  <1>5. CASE Poll
    BY <1>5 DEF Poll, PollBegin, Deliver, DeliverNext, LockAgain
  <1>6. CASE SendBegin \/ WaitPending \/ WaitReady
    BY <1>6 DEF SendBegin, WaitPending, WaitReady, LookFor
  <1>7. CASE Fill \/ Count \/ Start
    BY <1>7 DEF Fill, Count, Start
  <1>8. CASE UNCHANGED evars
    BY <1>8 DEF evars
  <1> QED
    BY <1>1, <1>2, <1>3, <1>4, <1>5, <1>6, <1>7, <1>8 DEF EthNext, Hardware, Irq, Send

LEMMA CountStays == EthTypeOK /\ SendsAreCounted /\ [EthNext]_evars => SendsAreCounted'
  <1> SUFFICES ASSUME EthTypeOK, SendsAreCounted, [EthNext]_evars PROVE SendsAreCounted'
    OBVIOUS
  <1> USE DEF EthTypeOK, SendsAreCounted, recvVars, sendVars, rxHw, txHw
  <1>1. CASE Arrive
    BY <1>1 DEF Arrive, Starting, Reporting
  <1>2. CASE Transmit
    <2>1. /\ txq # <<>> /\ txq' = Tail(txq) /\ done' = 1
          /\ UNCHANGED <<pendingout, irq, stack>>
      BY <1>2 DEF Transmit
    <2>2. Len(txq') = Len(txq) - 1 /\ Len(txq) \in Nat
      BY <2>1
    <2>3. /\ Starting' = Starting /\ Reporting' = Reporting
          /\ Starting \in {0, 1} /\ Reporting \in {0, 1}
      BY <2>1 DEF Starting, Reporting
    <2> QED BY <2>1, <2>2, <2>3
  <1>9. CASE Interrupt
    <2>1. /\ UNCHANGED <<pendingout, txq, stack>> /\ irq = "idle" /\ done' = 0
          /\ irq' = IF done = 1 THEN "transmitted" ELSE "received"
      BY <1>9 DEF Interrupt
    <2>2. /\ Starting' = Starting /\ Reporting = 0 /\ Reporting' = done
          /\ Starting \in {0, 1}
      BY <2>1 DEF Starting, Reporting
    <2> QED BY <2>1, <2>2
  <1>10. CASE Transmitted
    BY <1>10 DEF Transmitted, Starting, Reporting
  <1>3. CASE Received \/ LockToCopy \/ Copy \/ Advance \/ Acknowledge
    BY <1>3 DEF Received, LockToCopy, Copy, Advance, Acknowledge, Starting, Reporting
  <1>4. CASE Poll
    BY <1>4 DEF Poll, PollBegin, Deliver, DeliverNext, LockAgain, Starting, Reporting
  <1>5. CASE SendBegin \/ WaitPending \/ WaitReady
    BY <1>5 DEF SendBegin, WaitPending, WaitReady, LookFor, Starting, Reporting
  <1>6. CASE Fill
    BY <1>6 DEF Fill, Starting, Reporting
  <1>11. CASE Count
    BY <1>11 DEF Count, CountUp, Starting, Reporting
  <1>7. CASE Start
    <2>1. Len(Append(txq, tx_slot)) = Len(txq) + 1
      OBVIOUS
    <2> QED BY <1>7, <2>1 DEF Start, Starting, Reporting
  <1>8. CASE UNCHANGED evars
    BY <1>8 DEF evars, Starting, Reporting
  <1> QED
    BY <1>1, <1>2, <1>3, <1>4, <1>5, <1>6, <1>7, <1>8, <1>9, <1>10, <1>11
    DEF EthNext, Hardware, Irq, Send

LEMMA SlotsStay == EthTypeOK /\ LocksOK /\ SlotsOK /\ [EthNext]_evars => SlotsOK'
  <1> SUFFICES ASSUME EthTypeOK, LocksOK, SlotsOK, [EthNext]_evars PROVE SlotsOK'
    OBVIOUS
  <1> USE DEF EthTypeOK, LocksOK, SlotsOK, recvVars, sendVars, rxHw, txHw
  <1>1. CASE Arrive
    <2>1. PICK s \in RxSlots \ Range(rx) :
            rx' = Append(rx, s) /\ rxmem' = [rxmem EXCEPT ![s] = arrived + 1]
      BY <1>1 DEF Arrive
    <2>2. arrived' = arrived + 1 /\ Len(rx') = Len(rx) + 1
      BY <1>1, <2>1 DEF Arrive
    <2> SUFFICES ASSUME NEW i \in 1 .. Len(rx) + 1
                 PROVE  rxmem'[rx'[i]] = arrived + 1 - (Len(rx) + 1) + i
      BY <2>2
    <2>3. CASE i = Len(rx) + 1
      BY <2>1, <2>3
    <2>4. CASE i \in 1 .. Len(rx)
      <3>1. rx'[i] = rx[i] /\ rx[i] \in Range(rx) /\ rx[i] \in RxSlots
        BY <2>1, <2>4 DEF Range
      <3>2. rxmem'[rx[i]] = rxmem[rx[i]]
        BY <2>1, <3>1
      <3> QED BY <2>4, <3>1, <3>2
    <2> QED BY <2>3, <2>4
  <1>2. CASE Acknowledge
    <2>1. rx # <<>> /\ rx' = Tail(rx) /\ rxmem' = rxmem /\ arrived' = arrived
      BY <1>2 DEF Acknowledge, Release
    <2>2. Len(rx') = Len(rx) - 1 /\ \A i \in 1 .. Len(rx) - 1 : rx'[i] = rx[i + 1]
      BY <2>1
    <2> QED BY <2>1, <2>2
  <1>3. CASE Transmit \/ Interrupt \/ Transmitted \/ Received \/ LockToCopy \/ Copy \/ Advance
    BY <1>3 DEF Transmit, Interrupt, Transmitted, Received, LockToCopy, Copy, Advance
  <1>4. CASE Poll
    BY <1>4 DEF Poll, PollBegin, Deliver, DeliverNext, LockAgain
  <1>5. CASE Send
    BY <1>5 DEF Send, SendBegin, WaitPending, WaitReady, LookFor, Fill, Count, Start
  <1>6. CASE UNCHANGED evars
    BY <1>6 DEF evars
  <1> QED
    BY <1>1, <1>2, <1>3, <1>4, <1>5, <1>6 DEF EthNext, Hardware, Irq

----------------------------------------------------------------------------
(* Sending.                                                                *)

\* A step that is not of the sender's copy and of its queue leaves both alone.
LEMMA NotSending ==
  ASSUME Arrive \/ Irq \/ Poll \/ SendBegin \/ WaitPending \/ WaitReady \/ UNCHANGED evars, EthTypeOK
  PROVE  /\ UNCHANGED <<tx_slot, txq, txmem, given>>
         /\ stack' \in {"fill", "count", "start"} => stack' = stack \/ WaitReady
         /\ stack' \in {"count", "start"} <=> stack \in {"count", "start"}
  <1> USE DEF recvVars, sendVars, rxHw, txHw, EthTypeOK
  <1>1. CASE Arrive \/ UNCHANGED evars
    BY <1>1 DEF Arrive, evars
  <1>2. CASE Irq
    BY <1>2 DEF Irq, Interrupt, Transmitted, Received, LockToCopy, Copy, Advance, Acknowledge
  <1>3. CASE Poll
    BY <1>3 DEF Poll, PollBegin, Deliver, DeliverNext, LockAgain
  <1>4. CASE SendBegin \/ WaitPending \/ WaitReady
    BY <1>4 DEF SendBegin, WaitPending, WaitReady, LookFor
  <1> QED BY <1>1, <1>2, <1>3, <1>4

\* The hardware sends the first frame of its queue.
LEMMA TransmitStep ==
  ASSUME EthTypeOK, Transmit
  PROVE  /\ UNCHANGED <<tx_slot, txmem, given, stack>>
         /\ Len(txq) \in Nat \ {0} /\ Len(txq') = Len(txq) - 1
         /\ \A i \in 1 .. Len(txq) - 1 : txq'[i] = txq[i + 1]
  <1>1. /\ UNCHANGED <<tx_slot, txmem, given, stack>> /\ txq # <<>> /\ txq' = Tail(txq)
        /\ txq \in Seq(TxSlots)
    BY DEF Transmit, sendVars, EthTypeOK
  <1> QED BY <1>1

\* The next slot is the one behind the one that was filled first.
LEMMA NextSlotValue ==
  ASSUME NEW s \in TxSlots
  PROVE  (s + 1) % TX_SLOTS = IF s + 1 = TX_SLOTS THEN 0 ELSE s + 1
  BY EthAssumption DEF TxSlots

\* The sender starts a frame.
LEMMA StartStep ==
  ASSUME EthTypeOK, SendSlotsOK, Start
  PROVE  /\ stack = "start" /\ stack' = "idle" /\ UNCHANGED <<txmem, given>>
         /\ Len(txq) \in Nat /\ Len(txq) < TX_SLOTS /\ Len(txq') = Len(txq) + 1
         /\ \A i \in 1 .. Len(txq) : txq'[i] = txq[i]
         /\ txq'[Len(txq) + 1] = tx_slot
         /\ tx_slot' = IF tx_slot + 1 = TX_SLOTS THEN 0 ELSE tx_slot + 1
  <1>1. /\ stack = "start" /\ stack' = "idle" /\ txq' = Append(txq, tx_slot)
        /\ tx_slot' = (tx_slot + 1) % TX_SLOTS /\ UNCHANGED <<txmem, given>>
    BY DEF Start, NextSlot
  <1>2. txq \in Seq(TxSlots) /\ tx_slot \in TxSlots
    BY DEF EthTypeOK
  <1>3. Len(txq) < TX_SLOTS
    BY <1>1 DEF SendSlotsOK
  <1> QED BY <1>1, <1>2, <1>3, NextSlotValue

LEMMA SendSlotsStay == EthTypeOK /\ SendSlotsOK /\ [EthNext]_evars => SendSlotsOK'
  <1> SUFFICES ASSUME EthTypeOK, SendSlotsOK, [EthNext]_evars PROVE SendSlotsOK'
    OBVIOUS
  <1>1. CASE Arrive \/ Irq \/ Poll \/ SendBegin \/ WaitPending \/ WaitReady \/ UNCHANGED evars
    <2>1. WaitReady /\ stack' = "fill" => Len(txq) < TX_SLOTS
      BY DEF WaitReady, LookFor
    <2>2. ~WaitReady \/ stack' \notin {"count", "start"} \/ stack' = stack
      BY <1>1, NotSending DEF WaitReady, LookFor
    <2>3. WaitReady => stack' \in {"ready", "fill", "idle"}
      BY DEF WaitReady, LookFor
    <2> QED BY <1>1, <2>1, <2>2, <2>3, NotSending DEF SendSlotsOK, SlotBefore
  <1>2. CASE Transmit
    <2>1. \A i \in 1 .. Len(txq') : txq'[i] = SlotBefore(tx_slot', Len(txq') + 1 - i)
      <3> SUFFICES ASSUME NEW i \in 1 .. Len(txq') PROVE txq'[i] = SlotBefore(tx_slot', Len(txq') + 1 - i)
        OBVIOUS
      <3>1. i \in 1 .. Len(txq) - 1 /\ i + 1 \in 1 .. Len(txq) /\ txq'[i] = txq[i + 1]
        BY <1>2, TransmitStep
      <3>2. txq[i + 1] = SlotBefore(tx_slot, Len(txq) + 1 - (i + 1))
        BY <3>1 DEF SendSlotsOK
      <3>3. Len(txq') = Len(txq) - 1 /\ Len(txq) \in Nat /\ i \in Nat
        BY <1>2, TransmitStep
      <3>4. Len(txq) + 1 - (i + 1) = Len(txq') + 1 - i
        BY <3>3
      <3> QED BY <1>2, <3>1, <3>2, <3>4, TransmitStep DEF SlotBefore
    <2>2. /\ Len(txq') = Len(txq) - 1 /\ Len(txq) \in Nat
          /\ UNCHANGED <<tx_slot, txmem, given, stack>>
      BY <1>2, TransmitStep
    <2>3. Len(txq) <= TX_SLOTS /\ TX_SLOTS \in Nat
      BY EthAssumption DEF SendSlotsOK
    <2>4. Len(txq') < TX_SLOTS
      BY <2>2, <2>3
    <2>5. Len(txq') <= TX_SLOTS
      BY <2>2, <2>3
    <2>6. stack' \in {"count", "start"} => txmem'[tx_slot'] = given'
      BY <2>2 DEF SendSlotsOK
    <2> QED BY <2>1, <2>4, <2>5, <2>6 DEF SendSlotsOK
  <1>3. CASE Fill \/ Count
    <2>1. /\ UNCHANGED <<txq, tx_slot>> /\ stack \in {"fill", "count"}
          /\ stack' \in {"count", "start"} /\ txmem'[tx_slot] = given'
      BY <1>3 DEF Fill, Count, EthTypeOK, SendSlotsOK, txHw
    <2> QED BY <2>1 DEF SendSlotsOK, SlotBefore
  <1>4. CASE Start
    <2>1. \A i \in 1 .. Len(txq') : txq'[i] = SlotBefore(tx_slot', Len(txq') + 1 - i)
      <3> SUFFICES ASSUME NEW i \in 1 .. Len(txq') PROVE txq'[i] = SlotBefore(tx_slot', Len(txq') + 1 - i)
        OBVIOUS
      <3>1. /\ Len(txq) \in Nat /\ Len(txq) < TX_SLOTS /\ Len(txq') = Len(txq) + 1
            /\ tx_slot' = IF tx_slot + 1 = TX_SLOTS THEN 0 ELSE tx_slot + 1
        BY <1>4, StartStep
      <3>2. tx_slot \in 0 .. TX_SLOTS - 1 /\ TX_SLOTS \in Nat /\ i \in 1 .. Len(txq) + 1
        BY <3>1, EthAssumption DEF EthTypeOK, TxSlots
      <3>3. CASE i = Len(txq) + 1
        <4>1. txq'[i] = tx_slot
          BY <1>4, <3>3, StartStep
        <4> QED BY <3>1, <3>2, <3>3, <4>1 DEF SlotBefore
      <3>4. CASE i \in 1 .. Len(txq)
        <4>1. txq'[i] = SlotBefore(tx_slot, Len(txq) + 1 - i)
          BY <1>4, <3>4, StartStep DEF SendSlotsOK
        <4> QED BY <3>1, <3>2, <3>4, <4>1 DEF SlotBefore
      <3> QED BY <3>1, <3>2, <3>3, <3>4
    <2>2. Len(txq') <= TX_SLOTS
      <3>1. Len(txq) \in Nat /\ Len(txq) < TX_SLOTS /\ Len(txq') = Len(txq) + 1
        BY <1>4, StartStep
      <3> QED BY <3>1, EthAssumption
    <2>3. stack' = "idle"
      BY <1>4, StartStep
    <2> QED BY <2>1, <2>2, <2>3 DEF SendSlotsOK
  <1> QED BY <1>1, <1>2, <1>3, <1>4 DEF EthNext, Hardware, Send

LEMMA FramesStay ==
  EthTypeOK /\ SendSlotsOK /\ SlotsHoldTheirFrames /\ [EthNext]_evars => SlotsHoldTheirFrames'
  <1> SUFFICES ASSUME EthTypeOK, SendSlotsOK, SlotsHoldTheirFrames, [EthNext]_evars
               PROVE  SlotsHoldTheirFrames'
    OBVIOUS
  <1>1. CASE Arrive \/ Irq \/ Poll \/ SendBegin \/ WaitPending \/ WaitReady \/ UNCHANGED evars
    BY <1>1, NotSending DEF SlotsHoldTheirFrames
  <1>2. CASE Transmit
    <2> SUFFICES ASSUME NEW i \in 1 .. Len(txq')
                 PROVE  txmem'[txq'[i]] = given' - Len(txq') + i
                                            - (IF stack' \in {"count", "start"} THEN 1 ELSE 0)
      BY DEF SlotsHoldTheirFrames
    <2>1. i + 1 \in 1 .. Len(txq) /\ txq'[i] = txq[i + 1]
      BY <1>2, TransmitStep
    <2>2. txmem[txq[i + 1]] = given - Len(txq) + (i + 1)
                                - (IF stack \in {"count", "start"} THEN 1 ELSE 0)
      BY <2>1 DEF SlotsHoldTheirFrames
    <2>3. /\ Len(txq') = Len(txq) - 1 /\ Len(txq) \in Nat /\ i \in Nat /\ given \in Nat
          /\ UNCHANGED <<txmem, given, stack>>
      BY <1>2, TransmitStep DEF EthTypeOK
    <2> QED BY <2>1, <2>2, <2>3
  <1>3. CASE Fill
    <2>1. /\ txq' = txq /\ given' = given + 1 /\ txmem' = [txmem EXCEPT ![tx_slot] = given + 1]
          /\ stack = "fill" /\ stack' = "count"
      BY <1>3 DEF Fill
    <2> SUFFICES ASSUME NEW i \in 1 .. Len(txq')
                 PROVE  txmem'[txq'[i]] = given' - Len(txq') + i - 1
      BY <2>1 DEF SlotsHoldTheirFrames
    <2>2. /\ Len(txq) \in Nat /\ i \in 1 .. Len(txq) /\ given \in Nat /\ txq[i] \in TxSlots
          /\ tx_slot \in 0 .. TX_SLOTS - 1 /\ TX_SLOTS \in Nat
      BY <2>1, EthAssumption DEF EthTypeOK, TxSlots
    <2>3. txmem[txq[i]] = given - Len(txq) + i - 0
      BY <2>1, <2>2 DEF SlotsHoldTheirFrames
    <2>4. txq[i] # tx_slot
      <3>1. txq[i] = SlotBefore(tx_slot, Len(txq) + 1 - i) /\ Len(txq) < TX_SLOTS
        BY <2>1 DEF SendSlotsOK
      <3> QED BY <2>2, <3>1 DEF SlotBefore
    <2>5. txmem'[txq[i]] = txmem[txq[i]]
      BY <2>1, <2>2, <2>4 DEF EthTypeOK
    <2> QED BY <2>1, <2>2, <2>3, <2>5
  <1>4. CASE Count
    BY <1>4 DEF Count, SlotsHoldTheirFrames, txHw
  <1>5. CASE Start
    <2>1. /\ stack = "start" /\ stack' = "idle" /\ UNCHANGED <<txmem, given>>
          /\ Len(txq) \in Nat /\ Len(txq') = Len(txq) + 1 /\ given \in Nat
      BY <1>5, StartStep DEF EthTypeOK
    <2> SUFFICES ASSUME NEW i \in 1 .. Len(txq')
                 PROVE  txmem'[txq'[i]] = given' - Len(txq') + i - 0
      BY <2>1 DEF SlotsHoldTheirFrames
    <2>2. i \in 1 .. Len(txq) + 1
      BY <2>1
    <2>3. CASE i = Len(txq) + 1
      <3>1. txq'[i] = tx_slot /\ txmem[tx_slot] = given
        BY <1>5, <2>1, <2>3, StartStep DEF SendSlotsOK
      <3> QED BY <2>1, <2>3, <3>1
    <2>4. CASE i \in 1 .. Len(txq)
      <3>1. txmem[txq[i]] = given - Len(txq) + i - 1
        BY <2>1, <2>4 DEF SlotsHoldTheirFrames
      <3>2. txq'[i] = txq[i]
        BY <1>5, <2>4, StartStep
      <3> QED BY <2>1, <2>2, <3>1, <3>2
    <2> QED BY <2>1, <2>2, <2>3, <2>4
  <1> QED BY <1>1, <1>2, <1>3, <1>4, <1>5 DEF EthNext, Hardware, Send

----------------------------------------------------------------------------
(* The ring.                                                               *)

\* A step of the hardware, of a sender, or of the interrupt's thread outside
\* its lock leaves the ring and the frames put so far alone.
LEMMA Outside ==
  ASSUME EthTypeOK, LocksOK,
         Hardware \/ Interrupt \/ Transmitted \/ Received \/ LockToCopy \/ Acknowledge
           \/ PollBegin \/ LockAgain \/ Send \/ UNCHANGED evars
  PROVE  /\ UNCHANGED <<ring, wrpos, rdpos, got>> /\ PutSoFar' = PutSoFar
         /\ irq' # "advance" \/ irq = "advance"
         /\ stack' = "next" <=> stack = "next"
  <1> USE DEF EthTypeOK, LocksOK, recvVars, sendVars, rxHw, txHw, PutSoFar
  <1>1. CASE Arrive
    <2>1. PICK s : rx' = Append(rx, s)
      BY <1>1 DEF Arrive
    <2>2. Len(rx') = Len(rx) + 1 /\ arrived' = arrived + 1
      BY <1>1, <2>1 DEF Arrive
    <2> QED BY <1>1, <2>2 DEF Arrive
  <1>2. CASE Transmit \/ Interrupt \/ Transmitted \/ Received \/ LockToCopy
    BY <1>2 DEF Transmit, Interrupt, Transmitted, Received, LockToCopy
  <1>3. CASE Acknowledge
    BY <1>3 DEF Acknowledge, Release
  <1>4. CASE PollBegin \/ LockAgain
    BY <1>4 DEF PollBegin, LockAgain
  <1>5. CASE Send
    BY <1>5 DEF Send, SendBegin, WaitPending, WaitReady, LookFor, Fill, Count, Start
  <1>6. CASE UNCHANGED evars
    BY <1>6 DEF evars
  <1> QED BY <1>1, <1>2, <1>3, <1>4, <1>5, <1>6 DEF Hardware

\* Copying changes the position that no reader may look at.
LEMMA CopyStep ==
  ASSUME EthTypeOK, LocksOK, SlotsOK, RingOK, Copy
  PROVE  /\ RingOK' /\ Waiting' = Waiting /\ PutSoFar' = PutSoFar
  <1>1. /\ UNCHANGED <<wrpos, rdpos, rx, arrived>> /\ irq' = "advance" /\ irq = "copy"
        /\ ring' = [ring EXCEPT ![wrpos] = rxmem[rx_slot]]
    BY DEF Copy, rxHw
  <1>2. PutSoFar' = PutSoFar /\ Waiting' = Waiting /\ PutSoFar = arrived - Len(rx)
    BY <1>1 DEF PutSoFar, Waiting, EthTypeOK
  <1>3. rxmem[rx_slot] = PutSoFar + 1
    <2>1. rx # <<>> /\ rx_slot = Head(rx) /\ rx \in Seq(RxSlots)
      BY <1>1 DEF LocksOK, EthTypeOK
    <2>2. 1 \in 1 .. Len(rx) /\ rx[1] = rx_slot
      BY <2>1
    <2>3. rxmem[rx[1]] = arrived - Len(rx) + 1
      BY <2>2 DEF SlotsOK
    <2> QED BY <1>2, <2>2, <2>3
  <1>4. Waiting < RINGBUFFERS /\ Behind(wrpos) = RINGBUFFERS /\ Waiting \in Nat
    BY EthAssumption DEF Waiting, Behind, EthTypeOK, Positions
  <1>5. ASSUME NEW p \in Positions, Behind(p) <= Waiting
        PROVE  ring'[p] = PutSoFar + 1 - Behind(p)
    <2>1. p # wrpos
      <3>1. Behind(wrpos) > Waiting
        BY <1>4, EthAssumption
      <3>2. Behind(wrpos) \in Int
        BY <1>4, EthAssumption
      <3> QED BY <1>4, <1>5, <3>1, <3>2
    <2>2. ring'[p] = ring[p]
      BY <1>1, <2>1 DEF EthTypeOK
    <2> QED BY <1>5, <2>2 DEF RingOK
  <1>6. \A p \in Positions : Behind(p)' = Behind(p)
    BY <1>1 DEF Behind
  <1>7. ring'[wrpos] = PutSoFar + 1
    BY <1>1, <1>3 DEF EthTypeOK
  <1> QED BY <1>1, <1>2, <1>5, <1>6, <1>7 DEF RingOK

\* Advancing puts the frame, and drops the oldest when the ring is full.
LEMMA AdvanceStep ==
  ASSUME EthTypeOK, LocksOK, RingOK, Advance
  PROVE  /\ RingOK' /\ PutSoFar' = PutSoFar + 1 /\ PutSoFar \in Int
         /\ Waiting' = IF Waiting = RINGBUFFERS - 1 THEN Waiting ELSE Waiting + 1
  <1>1. /\ UNCHANGED <<ring, rx, arrived>> /\ irq' = "acknowledge" /\ irq = "advance"
        /\ wrpos' = inc_pos(wrpos)
        /\ rdpos' = IF inc_pos(wrpos) = rdpos THEN inc_pos(rdpos) ELSE rdpos
    BY DEF Advance, DropOldest, rxHw
  <1>2. PutSoFar' = PutSoFar + 1 /\ PutSoFar \in Int
    BY <1>1 DEF PutSoFar, EthTypeOK
  <1>3. wrpos \in Positions /\ rdpos \in Positions /\ wrpos' \in Positions /\ rdpos' \in Positions
    BY <1>1, IncInRange DEF EthTypeOK
  <1>4. Waiting' = IF Waiting = RINGBUFFERS - 1 THEN Waiting ELSE Waiting + 1
    BY <1>1, <1>3, EthAssumption DEF Waiting, inc_pos, Positions
  <1>5. ASSUME NEW p \in Positions, Behind(p)' <= Waiting'
        PROVE  ring[p] = PutSoFar + 2 - Behind(p)'
    <2>1. CASE p = wrpos
      <3>1. Behind(p)' = 1
        BY <1>1, <1>3, <2>1, EthAssumption DEF Behind, inc_pos, Positions
      <3>2. ring[p] = PutSoFar + 1
        BY <1>1, <2>1 DEF RingOK
      <3> QED BY <1>2, <3>1, <3>2
    <2>2. CASE p # wrpos
      <3>1. Behind(p)' = Behind(p) + 1 /\ Behind(p) \in Int
        BY <1>1, <1>3, <2>2, EthAssumption DEF Behind, inc_pos, Positions
      <3>2. Waiting \in Int
        BY <1>3, EthAssumption DEF Waiting, Positions
      <3>4. Behind(p) < RINGBUFFERS
        BY <1>3, <2>2, EthAssumption DEF Behind, Positions
      <3>5. Behind(p) <= Waiting
        BY <1>4, <1>5, <3>1, <3>2, <3>4, EthAssumption
      <3>3. ring[p] = PutSoFar + 1 - Behind(p)
        BY <3>5 DEF RingOK
      <3> QED BY <1>2, <3>1, <3>3
    <2> QED BY <2>1, <2>2
  <1>6. \A p \in Positions : Behind(p)' <= Waiting' => ring'[p] = PutSoFar' + 1 - Behind(p)'
    <2> SUFFICES ASSUME NEW p \in Positions, Behind(p)' <= Waiting'
                 PROVE  ring'[p] = PutSoFar' + 1 - Behind(p)'
      OBVIOUS
    <2>1. Behind(p)' \in Int
      BY <1>3, EthAssumption DEF Behind, Positions
    <2> QED BY <1>1, <1>2, <1>5, <2>1
  <1> QED BY <1>1, <1>2, <1>4, <1>6 DEF RingOK

\* What is delivered is the oldest frame.
LEMMA DeliverStep ==
  ASSUME EthTypeOK, LocksOK, RingOK, Deliver
  PROVE  /\ RingOK' /\ PutSoFar' = PutSoFar /\ Waiting' = Waiting
         /\ PutSoFar \in Int /\ Waiting \in Nat
         /\ stack' = "next" => Waiting > 0 /\ got' = PutSoFar - Waiting + 1
         /\ stack' # "next" => got' = got
  <1>1. UNCHANGED <<ring, wrpos, rdpos, rx, arrived, irq>> /\ stack = "deliver"
    BY DEF Deliver, rxHw
  <1>2. PutSoFar' = PutSoFar /\ Waiting' = Waiting /\ PutSoFar \in Int
    BY <1>1 DEF PutSoFar, Waiting, EthTypeOK
  <1>3. \A p \in Positions : Behind(p)' = Behind(p)
    BY <1>1 DEF Behind
  <1>4. RingOK'
    BY <1>1, <1>2, <1>3 DEF RingOK
  <1>5. Waiting \in Nat
    BY EthAssumption DEF Waiting, EthTypeOK, Positions
  <1>6. ASSUME stack' = "next" PROVE Waiting > 0 /\ got' = PutSoFar - Waiting + 1
    <2>1. rdpos # wrpos /\ got' = ring[rdpos]
      BY <1>6 DEF Deliver
    <2>2. Waiting > 0 /\ Behind(rdpos) = Waiting
      BY <2>1, EthAssumption DEF Waiting, Behind, EthTypeOK, Positions
    <2>3. rdpos \in Positions /\ Behind(rdpos) <= Waiting
      BY <2>2, <1>5 DEF EthTypeOK
    <2>4. ring[rdpos] = PutSoFar + 1 - Waiting
      BY <2>2, <2>3 DEF RingOK
    <2> QED BY <1>2, <1>5, <2>1, <2>2, <2>4
  <1>7. stack' # "next" => got' = got
    BY DEF Deliver
  <1> QED BY <1>2, <1>4, <1>5, <1>6, <1>7

\* The reader moves on to the next frame.
LEMMA DeliverNextStep ==
  ASSUME EthTypeOK, LocksOK, RingOK, DeliverNext
  PROVE  /\ RingOK' /\ PutSoFar' = PutSoFar /\ Waiting' = Waiting - 1
         /\ got' = got /\ stack' # "next" /\ stack = "next"
         /\ PutSoFar \in Int /\ Waiting \in Nat
  <1>1. UNCHANGED <<ring, wrpos, rx, arrived, irq, got>> /\ stack = "next" /\ stack' = "relock"
    BY DEF DeliverNext, rxHw
  <1>2. PutSoFar' = PutSoFar /\ PutSoFar \in Int
    BY <1>1 DEF PutSoFar, EthTypeOK
  <1>3. Waiting' = Waiting - 1 /\ Waiting \in Nat
    BY <1>1, EthAssumption DEF DeliverNext, Waiting, inc_pos, EthTypeOK, Positions, LocksOK
  <1>4. \A p \in Positions : Behind(p)' = Behind(p) /\ Behind(p) \in Int
    BY <1>1, EthAssumption DEF Behind, EthTypeOK, Positions
  <1>5. RingOK'
    BY <1>1, <1>2, <1>3, <1>4 DEF RingOK
  <1> QED BY <1>1, <1>2, <1>3, <1>5

LEMMA RingStays == EthInv /\ [EthNext]_evars => RingOK'
  <1> SUFFICES ASSUME EthInv, [EthNext]_evars PROVE RingOK'
    OBVIOUS
  <1> USE DEF EthInv
  <1>1. CASE Copy
    BY <1>1, CopyStep
  <1>2. CASE Advance
    BY <1>2, AdvanceStep
  <1>3. CASE Deliver
    BY <1>3, DeliverStep
  <1>4. CASE DeliverNext
    BY <1>4, DeliverNextStep
  <1>5. CASE Hardware \/ Interrupt \/ Transmitted \/ Received \/ LockToCopy \/ Acknowledge
               \/ PollBegin \/ LockAgain \/ Send \/ UNCHANGED evars
    <2>1. /\ UNCHANGED <<ring, wrpos, rdpos>> /\ PutSoFar' = PutSoFar
          /\ irq' # "advance" \/ irq = "advance"
      BY <1>5, Outside
    <2>2. Waiting' = Waiting /\ \A p \in Positions : Behind(p)' = Behind(p)
      BY <2>1 DEF Waiting, Behind
    <2> QED BY <2>1, <2>2 DEF RingOK
  <1> QED
    BY <1>1, <1>2, <1>3, <1>4, <1>5 DEF EthNext, Irq, Poll

----------------------------------------------------------------------------
LEMMA InvStays == EthInv /\ [EthNext]_evars => EthInv'
  BY TypeStays, LocksStay, CountStays, SlotsStay, RingStays, SendSlotsStay, FramesStay DEF EthInv

LEMMA InvHolds == EthSpec => []EthInv
  BY InitOK, InvStays, PTL DEF EthSpec

\* The variables of the driver and of the hardware keep their types; no position
\* leaves the ring and no slot its range.
THEOREM EthTypeCorrect == EthSpec => []EthTypeOK
  <1>1. EthInv => EthTypeOK
    BY DEF EthInv
  <1> QED BY <1>1, InvHolds, PTL

\* pendingout counts every frame that was started and whose end the interrupt
\* has not yet seen: a completion never takes it below the truth.
THEOREM EthSendsCounted == EthSpec => []SendsAreCounted
  <1>1. EthInv => SendsAreCounted
    BY DEF EthInv
  <1> QED BY <1>1, InvHolds, PTL

\* The hardware sends what the stack gave, in order: however far the sender is
\* ahead of it, it copies into no slot whose frame is not out.
THEOREM EthSlotsHold == EthSpec => []SlotsHoldTheirFrames
  <1>1. EthInv => SlotsHoldTheirFrames
    BY DEF EthInv
  <1> QED BY <1>1, InvHolds, PTL

\* A step of the driver is a step of the queue or leaves it alone.
LEMMA RingStep == EthInv /\ [EthNext]_evars =>
  [Ring!Next]_<<PutSoFar - Waiting + (IF stack = "next" THEN 1 ELSE 0), PutSoFar, got>>
  <1> SUFFICES ASSUME EthInv, [EthNext]_evars
               PROVE  [Ring!Next]_<<PutSoFar - Waiting + (IF stack = "next" THEN 1 ELSE 0),
                                    PutSoFar, got>>
    OBVIOUS
  <1> USE DEF EthInv
  <1>1. PutSoFar \in Int /\ Waiting \in Int
    BY EthAssumption DEF PutSoFar, Waiting, EthTypeOK, Positions
  <1>2. CASE Copy
    <2>1. UNCHANGED <<stack, got>>
      BY <1>2 DEF Copy
    <2> QED BY <1>2, <2>1, CopyStep
  <1>3. CASE Advance
    <2>1. stack' = stack /\ stack # "next" /\ got' = got
      BY <1>3 DEF Advance, LocksOK
    <2>2. /\ PutSoFar' = PutSoFar + 1
          /\ Waiting' = IF Waiting = RINGBUFFERS - 1 THEN Waiting ELSE Waiting + 1
      BY <1>3, AdvanceStep
    <2>3. Ring!Put
      BY <1>1, <2>1, <2>2, EthAssumption DEF Ring!Put
    <2> QED BY <2>3 DEF Ring!Next
  <1>4. CASE Deliver
    <2>1. stack # "next"
      BY <1>4 DEF Deliver
    <2>2. CASE stack' = "next"
      <3>1. Ring!Get
        BY <1>1, <1>4, <2>1, <2>2, DeliverStep DEF Ring!Get
      <3> QED BY <3>1 DEF Ring!Next
    <2>3. CASE stack' # "next"
      BY <1>4, <2>1, <2>3, DeliverStep
    <2> QED BY <2>2, <2>3
  <1>5. CASE DeliverNext
    BY <1>1, <1>5, DeliverNextStep
  <1>6. CASE Hardware \/ Interrupt \/ Transmitted \/ Received \/ LockToCopy \/ Acknowledge
               \/ PollBegin \/ LockAgain \/ Send \/ UNCHANGED evars
    <2>1. /\ UNCHANGED <<wrpos, rdpos, got>> /\ PutSoFar' = PutSoFar
          /\ stack' = "next" <=> stack = "next"
      BY <1>6, Outside
    <2>2. Waiting' = Waiting
      BY <2>1 DEF Waiting
    <2> QED BY <2>1, <2>2
  <1> QED
    BY <1>2, <1>3, <1>4, <1>5, <1>6 DEF EthNext, Irq, Poll

\* Whatever the interrupt and the polling stack do between each other's locks,
\* the stack sees the frames once each, whole and in order, and loses the oldest
\* of a full ring.
THEOREM RingImplements == EthSpec => RingSpec
  <1>1. EthInit => Ring!Init
    <2> SUFFICES ASSUME EthInit PROVE Ring!Init
      OBVIOUS
    <2>1. wrpos = 0 /\ rdpos = 0 /\ rx = <<>> /\ arrived = 0
          /\ irq = "idle" /\ stack = "idle" /\ got = 0
      BY DEF EthInit
    <2>2. Len(rx) = 0
      BY <2>1
    <2>3. PutSoFar = 0
      <3>1. arrived = 0 /\ irq # "acknowledge"
        BY <2>1
      <3>2. PutSoFar = arrived - Len(rx) + 0
        BY <3>1 DEF PutSoFar
      <3>3. arrived - Len(rx) + 0 = 0
        BY <3>1, <2>2
      <3> QED BY <3>2, <3>3
    <2>4. Waiting = 0
      BY <2>1 DEF Waiting
    <2>5. (IF stack = "next" THEN 1 ELSE 0) = 0
      BY <2>1
    <2>6. PutSoFar - Waiting + (IF stack = "next" THEN 1 ELSE 0) = 0
      BY <2>3, <2>4, <2>5
    <2> QED BY <2>1, <2>3, <2>6 DEF Ring!Init
  <1> QED BY <1>1, RingStep, InvHolds, PTL DEF EthSpec, RingSpec, Ring!Spec
=============================================================================
