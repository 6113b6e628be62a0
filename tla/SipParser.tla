----------------------------- MODULE SipParser -----------------------------
(***************************************************************************)
(* The parser of SipProtocol.py: MessagesParser on twisted's LineReceiver, *)
(* as operators on a parser record, one per method.  A datagram is a       *)
(* sequence of tokens: lines that end with CRLF, characters of a body, and *)
(* a last line that is cut short.  A token counts as one character, so a   *)
(* cut falls between two of them; only a wide character has two bytes.     *)
(*                                                                         *)
(* An exception is not what dataReceived's handler takes it for:           *)
(* log.err is twisted's name, log here is a logging.Logger, and so the     *)
(* handler raises itself and invalidMessage is not called.                 *)
(***************************************************************************)
EXTENDS Gmitm, Sequences

CONSTANTS
  Malformed,   \* messages that parse, but lack Via, CSeq or Call-ID
  MaxLength    \* bound on Content-Length

\* What a first line may announce.
Messages == Requests \cup Responses \cup Malformed

ASSUME ParserAssumption ==
  /\ \A m \in Malformed : m.kind = "malformed" /\ m.from \in Sides
  /\ None \notin Messages /\ MaxLength \in Nat

NoLength == MaxLength + 1   \* None

LineKinds == {"header", "more", "junk", "blank", "odd", "part"}
Tokens ==
  [k : {"first", "data", "wide"}, m : Messages]         \* wide: one character, two bytes
    \cup [k : {"length", "compact"}, n : 0 .. MaxLength]    \* Content-Length: n, and l: n
    \cup [k : LineKinds]   \* more: a continuation; odd: not UTF-8; part: no CRLF

Line(kind) == [k |-> kind]
Bytes(t) == IF t.k = "wide" THEN 2 ELSE 1

ParserType ==
  [state : {"firstline", "headers", "body", "invalid"},
   raw : BOOLEAN,                           \* LineReceiver: not in line mode
   length : 0 .. NoLength,
   mlength : 0 .. NoLength,                 \* message.length
   bodyReceived : 0 .. NoLength,
   message : Messages \cup {None},
   body : Seq(Tokens),                      \* message.body
   header : BOOLEAN,                        \* a header waits for its continuation
   buffer : Seq(Tokens)]

----------------------------------------------------------------------------
(* A method yields the parser after it, the messages it has passed to the  *)
(* callback, and whether it raised.                                        *)

Did(p)        == [p |-> p, got |-> <<>>, raised |-> FALSE]
DidRaise(p)   == [p |-> p, got |-> <<>>, raised |-> TRUE]

Fresh(remaining) ==
  [state |-> "firstline", raw |-> FALSE, length |-> NoLength, mlength |-> NoLength,
   bodyReceived |-> 0, message |-> None, body |-> <<>>, header |-> FALSE,
   buffer |-> remaining]

invalidMessage(p) == [p EXCEPT !.state = "invalid", !.raw = TRUE]

\* A body is two characters.  This is the one the sender gave the message, whatever its length in bytes.
BodyLength(m) == IF m.kind # "malformed" /\ m.sdp # "none" THEN 2 ELSE 0
Whole(p) ==
  /\ Len(p.body) = BodyLength(p.message)
  /\ \A i \in DOMAIN p.body : p.body[i].k \in {"data", "wide"} /\ p.body[i].m = p.message
\* A body that others' characters have got into, or that lacks some, is no SDP.
Garbled(m) == IF m.kind = "malformed" THEN m ELSE [m EXCEPT !.sdp = "bad"]

\* Mutant: what follows the message in the buffer is lost.
messageDoneAll(p, remaining) ==
  IF p.mlength \notin {NoLength, Len(p.body)} THEN DidRaise(p)
  ELSE [p |-> Fresh(<<>>), got |-> <<IF Whole(p) THEN p.message ELSE Garbled(p.message)>>,
        raised |-> FALSE]

\* creationFinished compares with the Content-Length of either form.
messageDone(p, remaining) ==
  IF p.mlength \notin {NoLength, Len(p.body)} THEN DidRaise(p)
  ELSE [p |-> Fresh(remaining),
        got |-> <<IF Whole(p) THEN p.message ELSE Garbled(p.message)>>,
        raised |-> FALSE]

----------------------------------------------------------------------------

FirstLine(p, t) ==
  CASE t.k = "blank" -> p
    [] t.k = "first" -> [p EXCEPT !.state = "headers", !.message = t.m]
    [] OTHER         -> invalidMessage(p)

\* A request line has a colon in it and passes for a header.
NamesHeader(t) == t.k = "header" \/ (t.k = "first" /\ t.m.kind # "response")

HeaderLine(p, t) ==
  CASE t.k = "length"  -> [p EXCEPT !.header = TRUE, !.length = t.n, !.mlength = t.n]
    [] t.k = "compact" -> [p EXCEPT !.header = TRUE, !.mlength = t.n]
    [] NamesHeader(t)  -> [p EXCEPT !.header = TRUE]
    [] t.k = "more"    -> p
    [] OTHER           -> invalidMessage([p EXCEPT !.header = FALSE])

\* The line has been taken from p's buffer.
lineReceived(p, t) ==
  CASE t.k = "odd" \/ p.state \notin {"firstline", "headers"}    -> DidRaise(p)
    [] t.k # "odd" /\ p.state = "firstline"                      -> Did(FirstLine(p, t))
    [] p.state = "headers" /\ t.k = "more" /\ ~p.header          -> DidRaise(p)
    [] p.state = "headers" /\ t.k = "blank" ->
         LET q == [p EXCEPT !.state = "body", !.header = FALSE] IN
         IF p.length = 0 THEN messageDone(q, p.buffer) ELSE Did([q EXCEPT !.raw = TRUE])
    [] OTHER                                                     -> Did(HeaderLine(p, t))

\* A line cut short is one with the line behind it.
HasLine(p) ==
  /\ ~p.raw /\ p.buffer # <<>>
  /\ p.buffer[1].k = "part" => Len(p.buffer) > 1
ReadLine(p) ==
  IF p.buffer[1].k = "part"
    THEN lineReceived([p EXCEPT !.buffer = Tail(Tail(@))], Line("junk"))
    ELSE lineReceived([p EXCEPT !.buffer = Tail(@)], Head(p.buffer))

\* Raw data is all of the buffer.
HasRaw(p) == p.raw /\ p.buffer # <<>>
rawDataReceived(p) ==
  LET data     == p.buffer
      expected == p.length - p.bodyReceived
      taken    == [p EXCEPT !.buffer = <<>>, !.body = @ \o data,
                            !.bodyReceived = IF p.length = NoLength THEN @ ELSE @ + Len(data)] IN
  IF \E i \in DOMAIN data : data[i].k = "odd" THEN DidRaise([p EXCEPT !.buffer = <<>>]) ELSE
  CASE p.state = "invalid" -> Did([p EXCEPT !.buffer = <<>>])
    [] p.state = "body" /\ p.length # NoLength /\ Len(data) > expected ->
         messageDone([p EXCEPT !.buffer = <<>>, !.body = @ \o SubSeq(data, 1, expected)],
                     SubSeq(data, expected + 1, Len(data)))
    [] p.state = "body" /\ p.length # NoLength /\ Len(data) = expected -> messageDone(taken, <<>>)
    [] OTHER -> Did(taken)

\* Mutant: only the reset clears the buffer.
dataDoneKeepsLine(p) ==
  CASE p.state = "firstline" -> Did(p)
    [] p.state \in {"headers", "invalid"} -> Did(Fresh(p.buffer))
    [] p.state = "body" /\ p.length = NoLength -> messageDone(p, <<>>)
    [] p.state = "body" /\ p.length < p.bodyReceived -> Did(Fresh(<<>>))
    [] OTHER -> DidRaise(p)

\* The end of a datagram; it clears the buffer first.
dataDone(p) ==
  LET q == [p EXCEPT !.buffer = <<>>] IN
  CASE p.state = "firstline" -> Did(q)
    [] p.state \in {"headers", "invalid"} -> Did(Fresh(<<>>))
    [] p.state = "body" /\ p.length = NoLength -> messageDone(q, <<>>)
    [] p.state = "body" /\ p.length # NoLength /\ p.length < p.bodyReceived -> Did(Fresh(<<>>))
    [] OTHER -> DidRaise(q)   \* "this should never happen"
=============================================================================
