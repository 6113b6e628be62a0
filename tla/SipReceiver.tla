---------------------------- MODULE SipReceiver ----------------------------
(***************************************************************************)
(* How datagrams reach Gmitm: SipProtocol.datagramReceived, one instance   *)
(* per side.  The parser puts the messages it completes into the list      *)
(* self.messages; the loop that follows hands each of them to GMITM, and   *)
(* the list is emptied after the loop.  twisted logs an exception that     *)
(* leaves datagramReceived and goes on with the next datagram: then what   *)
(* the parser holds and what the list holds are still there.               *)
(*                                                                         *)
(* The reactor has one thread: while one side's datagram is worked on no   *)
(* other is read and no timer fires, although it is several steps here.    *)
(***************************************************************************)
EXTENDS SipParser

CONSTANTS
  Datagrams,   \* what may arrive: [from, data, msgs], msgs being the messages it is
               \* made of, or <<>> when they are not whole or not of plain characters
  MaxPending,  \* no datagram is taken when a list has this length,
  MaxKept      \* or the parser keeps so much of a body

ASSUME ReceiverAssumption ==
  /\ \A m \in Messages : Garbled(m) \in Messages
  /\ \A d \in Datagrams :
       d.from \in Sides /\ d.data \in Seq(Tokens) /\ d.msgs \in Seq(Messages)
  /\ MaxPending \in Nat /\ MaxKept \in Nat
  /\ None \notin Sides

VARIABLES
  parser,    \* side -> its MessagesParser
  pending,   \* side -> self.messages
  busy,      \* the side whose datagram is worked on, or None
  at,        \* 0 while it is parsed, then the message the loop has come to
  done,      \* side -> how much of the list the calls have handled since a timer fired last
  datagram   \* the datagram worked on: [msgs, clean, before]; done and datagram
             \* are no part of the program, the properties need them

loop  == <<parser, pending, busy, at, done, datagram>>
rvars == <<vars, loop>>

----------------------------------------------------------------------------
(* Which handlers raise, and so leave the loop.                            *)

RequestRaises(m) ==
  /\ ~Answered(m) /\ ~Forwarded(m) /\ Known(m)
  /\ IF OpensCall(m) /\ ports >= MaxSessions THEN TRUE
     ELSE /\ callmap[m.cid] # None \/ OpensCall(m)
          /\ ~CallRequest(CallForRequest(m), m).ok

\* With a Branch and the phone unknown, the result None is unpacked.
ResponseRaises(m) ==
  /\ ~Repeated(m)
  /\ IF ~phoneInfoValid THEN branchmap[m.via] # None
     ELSE callmap[m.cid] # None /\ ~CallResponse(callmap[m.cid], m).ok

Raises(m) ==
  \/ m.kind = "malformed"
  \/ m.kind = "request" /\ RequestRaises(m)
  \/ m.kind = "response" /\ ResponseRaises(m)

Handle(m) ==
  \/ m.kind = "malformed" /\ UNCHANGED vars
  \/ m.kind = "request" /\ Request(m)
  \/ m.kind = "response" /\ Response(m)

----------------------------------------------------------------------------

Nothing == [msgs |-> <<>>, clean |-> FALSE, before |-> <<>>]

Arrive(d) ==
  /\ busy = None
  /\ Len(pending[d.from]) < MaxPending /\ Len(parser[d.from].body) < MaxKept
  /\ parser' = [parser EXCEPT ![d.from].buffer = @ \o d.data]
  /\ busy' = d.from /\ at' = 0
  /\ datagram' = [msgs |-> d.msgs, clean |-> parser[d.from] = Fresh(<<>>),
                  before |-> pending[d.from]]
  /\ UNCHANGED <<vars, pending, done>>

Leave == busy' = None /\ at' = 0 /\ datagram' = Nothing

\* A step of the parser that does not raise; what it completes goes to the list.
Parsed(r) ==
  /\ ~r.raised
  /\ parser' = [parser EXCEPT ![busy] = r.p]
  /\ pending' = [pending EXCEPT ![busy] = @ \o r.got]

Parsing == busy # None /\ at = 0
Parser  == parser[busy]

ParseLine ==
  /\ Parsing /\ HasLine(Parser) /\ Parsed(ReadLine(Parser))
  /\ UNCHANGED <<vars, busy, at, done, datagram>>

ParseRaw ==
  /\ Parsing /\ HasRaw(Parser) /\ Parsed(rawDataReceived(Parser))
  /\ UNCHANGED <<vars, busy, at, done, datagram>>

\* The datagram is parsed; the loop over the messages starts unless there are none.
DataDone ==
  /\ Parsing /\ ~HasLine(Parser) /\ ~HasRaw(Parser) /\ Parsed(dataDone(Parser))
  /\ IF pending'[busy] = <<>> THEN Leave ELSE at' = 1 /\ UNCHANGED <<busy, datagram>>
  /\ UNCHANGED <<vars, done>>

\* What the parser raises leaves datagramReceived before the loop.
ParserStep ==
  CASE HasLine(Parser) -> ReadLine(Parser)
    [] HasRaw(Parser)  -> rawDataReceived(Parser)
    [] OTHER           -> dataDone(Parser)
ParserRaises ==
  /\ Parsing /\ ParserStep.raised
  /\ parser' = [parser EXCEPT ![busy] = ParserStep.p]
  /\ Leave /\ UNCHANGED <<vars, pending, done>>

\* Mutant: the loop stays at the message it has handled.
HandleNextStays ==
  /\ busy # None /\ at > 0 /\ ~Raises(pending[busy][at])
  /\ Handle(pending[busy][at])
  /\ UNCHANGED loop

Head1 == pending[busy][at]
\* One more of the list's head is handled, and not ignored for want of a phone
\* or passed on without a Branch to remember it.
Counted ==
  /\ phoneInfoValid /\ at = done[busy] + 1
  /\ Head1.kind = "response" => branchmap[Head1.via] # None

\* The next message of the list; after the last one the list is emptied.
HandleNext ==
  /\ busy # None /\ at > 0 /\ ~Raises(Head1)
  /\ Handle(Head1)
  /\ IF at < Len(pending[busy])
       THEN /\ at' = at + 1
            /\ done' = [done EXCEPT ![busy] = IF Counted THEN at ELSE @]
            /\ UNCHANGED <<parser, pending, busy, datagram>>
       ELSE /\ pending' = [pending EXCEPT ![busy] = <<>>]
            /\ done' = [done EXCEPT ![busy] = 0]
            /\ Leave /\ UNCHANGED parser

\* The handler raises: the list stays as it is.
Escape ==
  /\ busy # None /\ at > 0 /\ Raises(Head1)
  /\ Handle(Head1)
  /\ Leave /\ UNCHANGED <<parser, pending, done>>

Fire ==
  /\ busy = None /\ Timeout
  /\ done' = [s \in Sides |-> 0] /\ UNCHANGED <<parser, pending, busy, at, datagram>>

ReceiverInit ==
  /\ Init
  /\ parser = [s \in Sides |-> Fresh(<<>>)] /\ pending = [s \in Sides |-> <<>>]
  /\ busy = None /\ at = 0 /\ done = [s \in Sides |-> 0] /\ datagram = Nothing

Work == ParseLine \/ ParseRaw \/ DataDone \/ ParserRaises \/ HandleNext \/ Escape
ReceiverNext == (\E d \in Datagrams : Arrive(d)) \/ Work \/ Fire

ReceiverSpec == ReceiverInit /\ [][ReceiverNext]_rvars
FairReceiverSpec == ReceiverSpec /\ WF_rvars(Work)

----------------------------------------------------------------------------
(* Properties.                                                             *)

\* A datagram of whole messages that meets a clean parser gives these messages
\* and no others, however many it holds; what the list held stays before them.
DatagramYields ==
  [][datagram.clean /\ datagram.msgs # <<>> =>
       ~ParserRaises /\ (DataDone => pending'[busy] = datagram.before \o datagram.msgs)]_rvars

\* Nothing of a datagram is left in a parser that has come to the datagram's
\* end without raising: the next one is parsed as if it were the first.
ParserFresh == [][DataDone => parser'[busy] = Fresh(<<>>)]_rvars

\* The Branch remembers one response; another one of the same transaction that
\* was handled after it, and before the one that raised, has taken its place.
Superseded ==
  \E i \in at + 1 .. done[busy] :
    LET m == pending[busy][i] IN
    m.kind = "response" /\ m.via = Head1.via /\ m.method = Head1.method

\* A message that is handled again, because a later one of the list raised,
\* does not disturb the calls: the Branch absorbs it, and what raised has not
\* taken its place there.  This is so with one call: the Branch of an ACK is
\* found by its CSeq number, which an INVITE of another call may have too.
ReplayAbsorbed ==
  [][busy # None /\ at \in 1 .. done[busy] =>
       UNCHANGED cc \/ (Head1.kind = "response" /\ Superseded)]_rvars

\* The work on a datagram ends, so that the reactor comes back to its other work.
LoopEnds == busy # None ~> busy = None
=============================================================================
