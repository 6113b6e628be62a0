-------------------------- MODULE SipReceiverProofs --------------------------
(***************************************************************************)
(* The receiver in front of Gmitm adds no behaviour to it: lists that stay, *)
(* handlers that raise and messages that are handled again are all among   *)
(* what Gmitm is open to, so its theorems hold of the program with it.     *)
(***************************************************************************)
EXTENDS SipReceiver, GmitmProofs, SequenceTheorems

\* What a parser holds: it has received no more of a body than is announced,
\* has a message once it has read its first line, and nothing before.
ParserOK(p) ==
  /\ p \in ParserType
  /\ p.bodyReceived <= p.length
  /\ p.raw => p.state \in {"body", "invalid"}
  /\ p.state \in {"firstline", "headers"} => p.bodyReceived = 0
  /\ p.state = "firstline" => p = Fresh(p.buffer)
  /\ p.state \in {"headers", "body"} => p.message \in Messages
ResultOK(r) == ParserOK(r.p) /\ r.got \in Seq(Messages)

\* The loop stands at a message of its list.
LoopOK ==
  /\ parser \in [Sides -> ParserType]
  /\ \A s \in Sides : ParserOK(parser[s])
  /\ pending \in [Sides -> Seq(Messages)]
  /\ busy \in Sides \cup {None}
  /\ busy # None => at \in 0 .. Len(pending[busy])

----------------------------------------------------------------------------
(* The parser.                                                             *)

LEMMA Lengths == MaxLength \in Nat /\ NoLength \in Nat /\ NoLength > MaxLength
  BY ParserAssumption DEF NoLength

LEMMA FreshOK ==
  ASSUME NEW rest \in Seq(Tokens)
  PROVE  ParserOK(Fresh(rest))
  <1>1. Fresh(rest) \in ParserType
    BY Lengths DEF Fresh, ParserType
  <1> QED BY <1>1, Lengths DEF Fresh, ParserOK

LEMMA DidOK ==
  ASSUME NEW p, ParserOK(p)
  PROVE  ResultOK(Did(p)) /\ ResultOK(DidRaise(p))
  BY DEF Did, DidRaise, ResultOK

LEMMA FreshBuffer == \A a, b : [Fresh(a) EXCEPT !.buffer = b] = Fresh(b)
  <1> TAKE a, b
  <1> DEFINE r == [Fresh(a) EXCEPT !.buffer = b]
  <1>a. DOMAIN r = DOMAIN Fresh(b)
    BY DEF Fresh
  <1>b. r = [i \in DOMAIN r |-> r[i]]
    OBVIOUS
  <1>c. Fresh(b) = [i \in DOMAIN Fresh(b) |-> Fresh(b)[i]]
    BY Zenon DEF Fresh
  <1>d. DOMAIN r = {"state", "raw", "length", "mlength", "bodyReceived", "message", "body",
                    "header", "buffer"}
    BY DEF Fresh
  <1>e. /\ r.state = Fresh(b).state /\ r.raw = Fresh(b).raw /\ r.length = Fresh(b).length
        /\ r.mlength = Fresh(b).mlength /\ r.bodyReceived = Fresh(b).bodyReceived
        /\ r.message = Fresh(b).message /\ r.body = Fresh(b).body
        /\ r.header = Fresh(b).header /\ r.buffer = Fresh(b).buffer
    BY DEF Fresh
  <1>2. \A i \in DOMAIN r : r[i] = Fresh(b)[i]
    BY <1>d, <1>e
  <1> HIDE DEF r
  <1>3. r = Fresh(b)
    BY <1>a, <1>b, <1>c, <1>2
  <1> QED BY <1>3 DEF r

LEMMA BufferOK ==
  ASSUME NEW p, ParserOK(p), NEW rest \in Seq(Tokens)
  PROVE  ParserOK([p EXCEPT !.buffer = rest])
  <1> DEFINE q == [p EXCEPT !.buffer = rest]
  <1>1. /\ q \in ParserType /\ q.bodyReceived = p.bodyReceived /\ q.length = p.length
        /\ q.state = p.state /\ q.raw = p.raw /\ q.message = p.message /\ q.buffer = rest
    BY DEF ParserOK, ParserType
  <1>2. p.state = "firstline" => q = Fresh(rest)
    BY FreshBuffer DEF ParserOK
  <1> HIDE DEF q
  <1>3. ParserOK(q)
    BY <1>1, <1>2 DEF ParserOK
  <1> QED BY <1>3 DEF q

LEMMA NoTokens == <<>> \in Seq(Tokens)
  OBVIOUS

LEMMA MessageDoneOK ==
  ASSUME NEW p, ParserOK(p), p.state = "body", NEW rest \in Seq(Tokens)
  PROVE  ResultOK(messageDone(p, rest))
  <1>1. p.message \in Messages
    BY DEF ParserOK
  <1>2. Garbled(p.message) \in Messages
    BY <1>1, ReceiverAssumption
  <1>3. <<IF Whole(p) THEN p.message ELSE Garbled(p.message)>> \in Seq(Messages)
    BY <1>1, <1>2
  <1>4. CASE p.mlength \notin {NoLength, Len(p.body)}
    BY <1>4, DidOK DEF messageDone
  <1>5. CASE p.mlength \in {NoLength, Len(p.body)}
    BY <1>3, <1>5, FreshOK DEF messageDone, ResultOK
  <1> QED BY <1>4, <1>5

LEMMA InvalidOK ==
  ASSUME NEW p, ParserOK(p)
  PROVE  ParserOK(invalidMessage(p))
  BY DEF ParserOK, ParserType, invalidMessage

LEMMA FirstLineOK ==
  ASSUME NEW p, ParserOK(p), p.state = "firstline", NEW t \in Tokens
  PROVE  ParserOK(FirstLine(p, t))
  <1>1. CASE t.k = "blank"
    BY <1>1 DEF FirstLine
  <1>2. CASE t.k = "first"
    <2>1. t.m \in Messages
      BY <1>2 DEF Tokens, LineKinds
    <2>2. FirstLine(p, t) = [p EXCEPT !.state = "headers", !.message = t.m]
      BY <1>2 DEF FirstLine
    <2> QED BY <2>1, <2>2 DEF ParserOK, ParserType
  <1>3. CASE t.k \notin {"blank", "first"}
    BY <1>3, InvalidOK DEF FirstLine
  <1> QED BY <1>1, <1>2, <1>3

LEMMA HeaderLineOK ==
  ASSUME NEW p, ParserOK(p), p.state = "headers", NEW t \in Tokens
  PROVE  ParserOK(HeaderLine(p, t))
  <1>1. CASE t.k \in {"length", "compact"}
    <2>1. t.n \in 0 .. NoLength
      BY <1>1, Lengths DEF Tokens, LineKinds
    <2>2. p.bodyReceived = 0 /\ p.length \in 0 .. NoLength /\ 0 <= t.n
      BY <2>1, Lengths DEF ParserOK, ParserType
    <2>3. CASE t.k = "length"
      <3> DEFINE q == [p EXCEPT !.header = TRUE, !.length = t.n, !.mlength = t.n]
      <3>1. q \in ParserType
        BY <2>1 DEF ParserOK, ParserType
      <3>2. q.bodyReceived = 0 /\ q.length = t.n /\ q.state = p.state /\ q.raw = p.raw
              /\ q.message = p.message
        BY DEF ParserOK, ParserType
      <3>3. HeaderLine(p, t) = q
        BY <2>3 DEF HeaderLine, NamesHeader
      <3> HIDE DEF q
      <3> QED BY <2>2, <3>1, <3>2, <3>3 DEF ParserOK
    <2>4. CASE t.k = "compact"
      <3>1. ParserOK([p EXCEPT !.header = TRUE, !.mlength = t.n])
        BY <2>1 DEF ParserOK, ParserType
      <3> QED BY <2>4, <3>1 DEF HeaderLine, NamesHeader
    <2> QED BY <1>1, <2>3, <2>4
  <1>2. CASE t.k \notin {"length", "compact"}
    <2>1. ParserOK([p EXCEPT !.header = TRUE]) /\ ParserOK([p EXCEPT !.header = FALSE])
      BY DEF ParserOK, ParserType
    <2>2. ParserOK(invalidMessage([p EXCEPT !.header = FALSE]))
      BY <2>1, InvalidOK
    <2> QED BY <1>2, <2>1, <2>2 DEF HeaderLine
  <1> QED BY <1>1, <1>2

LEMMA LineOK ==
  ASSUME NEW p, ParserOK(p), NEW t \in Tokens
  PROVE  ResultOK(lineReceived(p, t))
  <1>1. CASE t.k = "odd" \/ p.state \notin {"firstline", "headers"}
    BY <1>1, DidOK DEF lineReceived
  <1>2. CASE t.k # "odd" /\ p.state = "firstline"
    BY <1>2, FirstLineOK, DidOK DEF lineReceived
  <1>3. CASE t.k = "more" /\ p.state = "headers" /\ ~p.header
    BY <1>3, DidOK DEF lineReceived
  <1>4. CASE t.k = "blank" /\ p.state = "headers"
    <2> DEFINE q == [p EXCEPT !.state = "body", !.header = FALSE]
    <2>1. ParserOK(q) /\ ParserOK([q EXCEPT !.raw = TRUE]) /\ q.state = "body"
      BY <1>4 DEF ParserOK, ParserType
    <2>2. p.buffer \in Seq(Tokens)
      BY DEF ParserOK, ParserType
    <2>3. lineReceived(p, t) = IF p.length = 0 THEN messageDone(q, p.buffer)
                               ELSE Did([q EXCEPT !.raw = TRUE])
      BY <1>4 DEF lineReceived
    <2> HIDE DEF q
    <2> QED BY <2>1, <2>2, <2>3, MessageDoneOK, DidOK
  <1>5. CASE /\ t.k \notin {"odd", "blank"} /\ p.state = "headers"
             /\ ~(t.k = "more" /\ ~p.header)
    BY <1>5, HeaderLineOK, DidOK DEF lineReceived
  <1> QED BY <1>1, <1>2, <1>3, <1>4, <1>5

LEMMA ReadLineOK ==
  ASSUME NEW p, ParserOK(p), HasLine(p)
  PROVE  ResultOK(ReadLine(p))
  <1>1. p.buffer \in Seq(Tokens) /\ p.buffer # <<>>
    BY DEF ParserOK, ParserType, HasLine
  <1>2. Head(p.buffer) \in Tokens /\ Tail(p.buffer) \in Seq(Tokens)
    BY <1>1
  <1>3. Line("junk") \in Tokens
    BY DEF Line, Tokens, LineKinds
  <1>4. \A rest \in Seq(Tokens) : ParserOK([p EXCEPT !.buffer = rest])
    BY BufferOK
  <1>5. CASE p.buffer[1].k = "part"
    <2>1. Len(p.buffer) > 1
      BY <1>5 DEF HasLine
    <2>2. Len(Tail(p.buffer)) = Len(p.buffer) - 1 /\ Len(p.buffer) \in Nat
      BY <1>1
    <2>3. \A m, n \in Nat : n > 1 /\ m = n - 1 => m # 0
      OBVIOUS
    <2>4. Tail(p.buffer) # <<>>
      <3> DEFINE rest == Tail(p.buffer)
      <3>1. Len(rest) \in Nat /\ Len(rest) = Len(p.buffer) - 1 /\ Len(p.buffer) \in Nat
        BY <1>2, <2>2
      <3> HIDE DEF rest
      <3>2. Len(rest) # 0
        BY <2>1, <2>3, <3>1
      <3>3. rest # <<>>
        BY <3>2
      <3> QED BY <3>3 DEF rest
    <2>5. Tail(Tail(p.buffer)) \in Seq(Tokens)
      BY <1>2, <2>4
    <2> QED BY <1>3, <1>4, <1>5, <2>5, LineOK DEF ReadLine
  <1>6. CASE p.buffer[1].k # "part"
    BY <1>2, <1>4, <1>6, LineOK DEF ReadLine
  <1> QED BY <1>5, <1>6

LEMMA RawOK ==
  ASSUME NEW p, ParserOK(p), HasRaw(p)
  PROVE  ResultOK(rawDataReceived(p))
  <1> DEFINE data     == p.buffer
             expected == p.length - p.bodyReceived
             taken    == [p EXCEPT !.buffer = <<>>, !.body = @ \o data,
                                   !.bodyReceived = IF p.length = NoLength THEN @ ELSE @ + Len(data)]
             rest     == SubSeq(data, expected + 1, Len(data))
             cut      == [p EXCEPT !.buffer = <<>>, !.body = @ \o SubSeq(data, 1, expected)]
             none     == [p EXCEPT !.buffer = <<>>]
  <1>1. data \in Seq(Tokens) /\ p.body \in Seq(Tokens) /\ p.body \o data \in Seq(Tokens)
    BY DEF ParserOK, ParserType
  <1>2. expected \in Nat /\ Len(data) \in Nat /\ p.bodyReceived \in Nat /\ p.length \in Nat
    BY <1>1, Lengths DEF ParserOK, ParserType
  <1>3. ParserOK(none) /\ p.state \in {"body", "invalid"}
    BY BufferOK, NoTokens DEF ParserOK, HasRaw
  <1>4. CASE \E i \in DOMAIN data : data[i].k = "odd"
    <2>1. rawDataReceived(p) = DidRaise(none)
      BY <1>4 DEF rawDataReceived
    <2> HIDE DEF none
    <2> QED BY <1>3, <2>1, DidOK
  <1>5. CASE p.state = "invalid" /\ ~\E i \in DOMAIN data : data[i].k = "odd"
    <2>1. rawDataReceived(p) = Did(none)
      BY <1>5 DEF rawDataReceived
    <2> HIDE DEF none
    <2> QED BY <1>3, <2>1, DidOK
  <1> DEFINE body == p.state # "invalid" /\ ~\E i \in DOMAIN data : data[i].k = "odd"
  <1>6. CASE body /\ p.state = "body" /\ p.length # NoLength /\ Len(data) > expected
    <2>1. SubSeq(data, 1, expected) \in Seq(Tokens) /\ rest \in Seq(Tokens)
      BY <1>1, <1>2, <1>6
    <2>2. p.body \o SubSeq(data, 1, expected) \in Seq(Tokens)
      BY <1>1, <2>1
    <2>3. ParserOK(cut) /\ cut.state = "body"
      BY <1>6, <2>2, NoTokens DEF ParserOK, ParserType
    <2>4. rawDataReceived(p) = messageDone(cut, rest)
      BY <1>6 DEF rawDataReceived
    <2> HIDE DEF cut, rest
    <2> QED BY <2>1, <2>3, <2>4, MessageDoneOK
  <1>7. CASE body /\ p.state = "body" /\ p.length # NoLength /\ Len(data) = expected
    <2>1. p.bodyReceived + Len(data) = p.length /\ p.length \in 0 .. NoLength
      BY <1>2, <1>7 DEF ParserOK, ParserType
    <2>2. taken = [p EXCEPT !.buffer = <<>>, !.body = @ \o data, !.bodyReceived = p.length]
      BY <1>7, <2>1
    <2>3. ParserOK(taken) /\ taken.state = "body"
      <3> HIDE DEF data, taken
      <3>1. p.length \in 0 .. NoLength /\ p.length <= p.length
        BY <2>1, <1>2
      <3> QED BY <1>1, <1>3, <1>7, <2>2, <3>1, NoTokens DEF ParserOK, ParserType
    <2>4. rawDataReceived(p) = messageDone(taken, <<>>)
      BY <1>7 DEF rawDataReceived
    <2> HIDE DEF taken
    <2> QED BY <2>3, <2>4, NoTokens, MessageDoneOK
  <1>8. CASE body /\ ~(p.state = "body" /\ p.length # NoLength /\ Len(data) >= expected)
    <2>1. rawDataReceived(p) = Did(taken)
      BY <1>2, <1>8 DEF rawDataReceived
    <2>2. ParserOK(taken)
      <3> HIDE DEF data
      <3>1. CASE p.length = NoLength
        BY <1>1, <1>3, <1>8, <3>1, NoTokens DEF ParserOK, ParserType
      <3>2. CASE p.length # NoLength
        <4>1. p.bodyReceived + Len(data) \in 0 .. p.length /\ p.length \in 0 .. NoLength
          BY <1>2, <1>3, <1>8, <3>2 DEF ParserOK, ParserType
        <4>2. p.bodyReceived + Len(data) \in 0 .. NoLength /\ p.bodyReceived + Len(data) <= p.length
          BY <4>1, Lengths
        <4>3. taken = [p EXCEPT !.buffer = <<>>, !.body = @ \o data,
                                !.bodyReceived = p.bodyReceived + Len(data)]
          BY <3>2
        <4> QED BY <1>1, <1>3, <1>8, <4>2, <4>3, NoTokens DEF ParserOK, ParserType
      <3> QED BY <3>1, <3>2
    <2> HIDE DEF taken
    <2> QED BY <2>1, <2>2, DidOK
  <1> QED BY <1>2, <1>3, <1>4, <1>5, <1>6, <1>7, <1>8

LEMMA DataDoneOK ==
  ASSUME NEW p, ParserOK(p)
  PROVE  ResultOK(dataDone(p))
  <1> DEFINE q == [p EXCEPT !.buffer = <<>>]
  <1>1. ParserOK(q) /\ <<>> \in Seq(Tokens)
    BY BufferOK, NoTokens
  <1>0. q.state = p.state
    BY DEF ParserOK, ParserType
  <1>2. CASE p.state = "body" /\ p.length = NoLength
    BY <1>0, <1>1, <1>2, MessageDoneOK DEF dataDone
  <1>3. CASE ~(p.state = "body" /\ p.length = NoLength)
    BY <1>1, <1>3, FreshOK, DidOK DEF dataDone
  <1> QED BY <1>2, <1>3

----------------------------------------------------------------------------
(* The receiver.                                                           *)

LEMMA ParserStepOK ==
  ASSUME LoopOK, Parsing
  PROVE  ResultOK(ParserStep)
  <1>1. ParserOK(Parser)
    BY DEF LoopOK, Parsing, Parser
  <1>2. CASE HasLine(Parser)
    BY <1>1, <1>2, ReadLineOK DEF ParserStep, HasLine, HasRaw
  <1>3. CASE ~HasLine(Parser) /\ HasRaw(Parser)
    BY <1>1, <1>3, RawOK DEF ParserStep
  <1>4. CASE ~HasLine(Parser) /\ ~HasRaw(Parser)
    BY <1>1, <1>4, DataDoneOK DEF ParserStep
  <1> QED BY <1>2, <1>3, <1>4

\* A message that is handled is one that may arrive, and of its kind.
LEMMA HeadKind ==
  ASSUME LoopOK, busy # None, at > 0
  PROVE  /\ Head1.kind = "request" => Head1 \in Requests
         /\ Head1.kind = "response" => Head1 \in Responses
  <1>1. Head1 \in Messages
    <2>1. pending[busy] \in Seq(Messages) /\ at \in 0 .. Len(pending[busy])
      BY DEF LoopOK
    <2> QED BY <2>1 DEF Head1
  <1>2. /\ \A m \in Requests : m.kind = "request"
        /\ \A m \in Responses : m.kind = "response"
        /\ \A m \in Malformed : m.kind = "malformed"
    BY MessagesAssumption, ParserAssumption DEF RequestType, ResponseType
  <1> QED BY <1>1, <1>2 DEF Messages

\* What a loop does to Gmitm is a step of Gmitm.
LEMMA LoopStep ==
  ASSUME LoopOK, busy # None, at > 0, Handle(Head1)
  PROVE  [Next]_vars
  BY HeadKind DEF Handle, Next

LEMMA ReceiverStep == LoopOK /\ [ReceiverNext]_rvars => [Next]_vars
  <1> SUFFICES ASSUME LoopOK, [ReceiverNext]_rvars PROVE [Next]_vars
    OBVIOUS
  <1>1. ASSUME NEW d \in Datagrams, Arrive(d) PROVE [Next]_vars
    BY <1>1 DEF Arrive, vars
  <1>2. CASE ParseLine \/ ParseRaw \/ DataDone \/ ParserRaises
    BY <1>2 DEF ParseLine, ParseRaw, DataDone, ParserRaises, vars
  <1>3. CASE HandleNext \/ Escape
    BY <1>3, LoopStep DEF HandleNext, Escape
  <1>4. CASE Fire
    BY <1>4 DEF Fire, Next
  <1>5. CASE UNCHANGED rvars
    BY <1>5 DEF rvars
  <1> QED BY <1>1, <1>2, <1>3, <1>4, <1>5 DEF ReceiverNext, Work

\* What the parser has completed is appended, and the loop is not yet entered
\* or at its first message.
LEMMA ParsedStays ==
  ASSUME LoopOK, Parsing, Parsed(ParserStep),
         \/ UNCHANGED <<busy, at>>
         \/ busy' = None
         \/ UNCHANGED busy /\ at' = 1 /\ pending'[busy] # <<>>
  PROVE  LoopOK'
  <1>1. busy \in Sides /\ at = 0
    BY DEF LoopOK, Parsing
  <1> DEFINE r == ParserStep
  <1>2. ParserOK(r.p) /\ r.got \in Seq(Messages)
    BY ParserStepOK DEF ResultOK
  <1>3. /\ parser' = [parser EXCEPT ![busy] = r.p]
        /\ pending' = [pending EXCEPT ![busy] = @ \o r.got]
    BY DEF Parsed
  <1> HIDE DEF r
  <1>4. r.p \in ParserType
    BY <1>2 DEF ParserOK
  <1>5. /\ parser' \in [Sides -> ParserType]
        /\ \A s \in Sides : parser'[s] = IF s = busy THEN r.p ELSE parser[s]
    BY <1>1, <1>3, <1>4 DEF LoopOK
  <1>6. \A s \in Sides : ParserOK(parser'[s])
    BY <1>2, <1>5 DEF LoopOK
  <1>7. pending[busy] \o r.got \in Seq(Messages)
    BY <1>1, <1>2 DEF LoopOK
  <1>8. pending' \in [Sides -> Seq(Messages)]
    BY <1>1, <1>3, <1>7 DEF LoopOK
  <1>9. busy' \in Sides \cup {None}
    BY <1>1
  <1>10. busy' # None => at' \in 0 .. Len(pending'[busy'])
    <2> SUFFICES ASSUME busy' # None PROVE at' \in 0 .. Len(pending'[busy'])
      OBVIOUS
    <2>1. busy' = busy
      OBVIOUS
    <2> DEFINE list == pending'[busy]
    <2>2. list \in Seq(Messages)
      BY <1>1, <1>8
    <2>3. Len(list) \in Nat /\ (list # <<>> => Len(list) \in Nat \ {0})
      <3>1. \A seq \in Seq(Messages) : Len(seq) \in Nat
        OBVIOUS
      <3>2. \A seq \in Seq(Messages) : seq # <<>> => Len(seq) \in Nat \ {0}
        BY EmptySeq, Zenon
      <3> QED BY <2>2, <3>1, <3>2
    <2>4. at' = 0 \/ (at' = 1 /\ list # <<>>)
      BY <1>1
    <2> HIDE DEF list
    <2>5. at' \in 0 .. Len(list)
      BY <2>3, <2>4
    <2> QED BY <2>1, <2>5 DEF list
  <1> QED BY <1>5, <1>6, <1>8, <1>9, <1>10 DEF LoopOK

LEMMA LoopStays == LoopOK /\ [ReceiverNext]_rvars => LoopOK'
  <1> SUFFICES ASSUME LoopOK, [ReceiverNext]_rvars PROVE LoopOK'
    OBVIOUS
  <1>1. ASSUME NEW d \in Datagrams, Arrive(d) PROVE LoopOK'
    <2>1. d.from \in Sides /\ d.data \in Seq(Tokens)
      BY ReceiverAssumption
    <2> DEFINE side == d.from
    <2> DEFINE rest == parser[side].buffer \o d.data
    <2> DEFINE p == [parser[side] EXCEPT !.buffer = rest]
    <2>2. /\ parser' = [parser EXCEPT ![side] = p]
          /\ busy' = side /\ at' = 0 /\ pending' = pending
      BY <1>1 DEF Arrive
    <2>3. rest \in Seq(Tokens)
      BY <2>1 DEF LoopOK, ParserType
    <2>4. ParserOK(p)
      BY <2>1, <2>3, BufferOK DEF LoopOK
    <2>5. p \in ParserType
      BY <2>4 DEF ParserOK
    <2> HIDE DEF p, rest
    <2>6. /\ parser' \in [Sides -> ParserType]
          /\ \A s \in Sides : ParserOK(parser'[s])
      BY <2>1, <2>2, <2>4, <2>5 DEF LoopOK
    <2>7. Len(pending[side]) \in Nat
      <3>1. pending[side] \in Seq(Messages)
        BY <2>1 DEF LoopOK
      <3> QED BY <3>1
    <2>8. 0 \in 0 .. Len(pending[side])
      BY <2>7
    <2> QED BY <2>1, <2>2, <2>6, <2>8 DEF LoopOK
  <1>2. CASE ParseLine
    <2>1. Parsed(ParserStep)
      BY <1>2 DEF ParseLine, ParserStep, HasLine, HasRaw
    <2> QED BY <1>2, <2>1, ParsedStays DEF ParseLine
  <1>3. CASE ParseRaw
    <2>1. ~HasLine(Parser)
      BY <1>3 DEF ParseRaw, HasRaw, HasLine
    <2>2. Parsed(ParserStep)
      BY <1>3, <2>1 DEF ParseRaw, ParserStep
    <2> QED BY <1>3, <2>2, ParsedStays DEF ParseRaw
  <1>4. CASE DataDone
    <2>1. Parsed(ParserStep)
      BY <1>4 DEF DataDone, ParserStep
    <2> QED BY <1>4, <2>1, ParsedStays DEF DataDone, Leave
  <1>5. CASE ParserRaises
    <2>1. /\ parser' = [parser EXCEPT ![busy] = ParserStep.p]
          /\ pending' = pending /\ busy' = None
      BY <1>5 DEF ParserRaises, Leave
    <2>2. ParserOK(ParserStep.p)
      BY <1>5, ParserStepOK DEF ParserRaises, ResultOK
    <2>3. ParserStep.p \in ParserType
      BY <2>2 DEF ParserOK
    <2> QED BY <2>1, <2>2, <2>3 DEF LoopOK
  <1>6. CASE HandleNext
    <2>1. CASE at < Len(pending[busy])
      <3>1. at' = at + 1 /\ UNCHANGED <<parser, pending, busy>> /\ busy # None
        BY <1>6, <2>1 DEF HandleNext
      <3>2. busy \in Sides /\ at \in 0 .. Len(pending[busy]) /\ Len(pending[busy]) \in Nat
        BY <3>1 DEF LoopOK
      <3> QED BY <2>1, <3>1, <3>2 DEF LoopOK
    <2>2. CASE ~(at < Len(pending[busy]))
      <3>1. pending' = [pending EXCEPT ![busy] = <<>>] /\ busy' = None /\ parser' = parser
        BY <1>6, <2>2 DEF HandleNext, Leave
      <3>2. <<>> \in Seq(Messages)
        OBVIOUS
      <3> QED BY <3>1, <3>2 DEF LoopOK
    <2> QED BY <2>1, <2>2
  <1>7. CASE Escape
    BY <1>7 DEF Escape, Leave, LoopOK
  <1>8. CASE Fire
    BY <1>8 DEF Fire, LoopOK
  <1>9. CASE UNCHANGED rvars
    BY <1>9 DEF rvars, loop, LoopOK
  <1> QED BY <1>1, <1>2, <1>3, <1>4, <1>5, <1>6, <1>7, <1>8, <1>9 DEF ReceiverNext, Work

LEMMA LoopInit == ReceiverInit => LoopOK
  <1> SUFFICES ASSUME ReceiverInit PROVE LoopOK
    OBVIOUS
  <1>1. ParserOK(Fresh(<<>>)) /\ Fresh(<<>>) \in ParserType
    BY FreshOK, NoTokens DEF ParserOK
  <1>2. <<>> \in Seq(Messages)
    OBVIOUS
  <1> QED BY <1>1, <1>2 DEF ReceiverInit, LoopOK

LEMMA LoopInvariant == ReceiverSpec => []LoopOK
  BY LoopInit, LoopStays, PTL DEF ReceiverSpec

\* Gmitm behind its receivers behaves as Gmitm does.
THEOREM ReceiverImplements == ReceiverSpec => Spec
  <1>1. ReceiverInit => Init
    BY DEF ReceiverInit
  <1> QED BY <1>1, LoopInvariant, ReceiverStep, PTL DEF ReceiverSpec, Spec

\* So ports, events and calls stay in step even when a handler raises and
\* the messages before it are handled again with every later datagram.
THEOREM ReceiverKeeps == ReceiverSpec => [](PortsMatchCalls /\ SinkKnowsCalls) /\ KeepsLifecycle
  BY ReceiverImplements, PortsMatch, SinkKnows, ImplementsLifecycle, PTL

\* A parser that has come to the end of a datagram without raising is the one
\* it was at the start of the program, whatever the datagrams were.
THEOREM ParserIsFresh == ReceiverSpec => ParserFresh
  <1>1. ASSUME LoopOK, DataDone PROVE parser'[busy] = Fresh(<<>>)
    <2> DEFINE q == [Parser EXCEPT !.buffer = <<>>]
    <2>1. busy \in Sides /\ ParserOK(Parser) /\ Parser \in ParserType
      BY <1>1 DEF LoopOK, DataDone, Parsing, Parser, ParserOK
    <2>2. parser'[busy] = dataDone(Parser).p /\ ~dataDone(Parser).raised
      BY <1>1, <2>1 DEF DataDone, Parsed, LoopOK
    <2>3. CASE Parser.state = "firstline"
      <3>1. Parser = Fresh(Parser.buffer)
        BY <2>1, <2>3 DEF ParserOK
      <3>2. q = Fresh(<<>>)
        BY <3>1, FreshBuffer
      <3>3. dataDone(Parser) = Did(q)
        BY <2>3 DEF dataDone
      <3> QED BY <2>2, <3>2, <3>3 DEF Did
    <2>4. CASE Parser.state \in {"headers", "invalid"}
      <3>1. dataDone(Parser) = Did(Fresh(<<>>))
        BY <2>4 DEF dataDone
      <3> QED BY <2>2, <3>1 DEF Did
    <2>5. CASE Parser.state = "body"
      <3>1. CASE Parser.length = NoLength
        <4>1. dataDone(Parser) = messageDone(q, <<>>)
          BY <2>5, <3>1 DEF dataDone
        <4> QED BY <2>2, <4>1 DEF messageDone, DidRaise
      <3>2. CASE Parser.length # NoLength
        <4>1. dataDone(Parser) = IF Parser.length < Parser.bodyReceived
                THEN Did(Fresh(<<>>)) ELSE DidRaise(q)
          BY <2>5, <3>2 DEF dataDone
        <4> QED BY <2>2, <4>1 DEF Did, DidRaise
      <3> QED BY <3>1, <3>2
    <2> QED BY <2>1, <2>3, <2>4, <2>5 DEF ParserType
  <1> QED BY <1>1, LoopInvariant, PTL DEF ReceiverSpec, ParserFresh

\* When the loop starts again at the head of a list that an exception has left
\* there, each request but an ACK that was forwarded leaves the calls as they
\* are, whatever the other side's datagrams have done meanwhile, and remains
\* forwarded until a timer deletes its Branch.
THEOREM ForwardedOnce ==
  ReceiverSpec =>
    [][busy # None /\ at > 0 /\ Head1.kind = "request" /\ Head1.method # "ACK" /\ Forwarded(Head1)
         => UNCHANGED cc]_rvars
    /\ [][\A m \in Requests : m.method # "ACK" /\ Forwarded(m) => Forwarded(m)' \/ Fire]_rvars
  <1>1. ASSUME LoopOK, [ReceiverNext]_rvars, busy # None, at > 0,
               Head1.kind = "request", Head1.method # "ACK", Forwarded(Head1)
        PROVE  UNCHANGED cc
    <2>1. CASE HandleNext \/ Escape
      <3>1. Request(Head1)
        BY <1>1, <2>1 DEF HandleNext, Escape, Handle
      <3> QED BY <1>1, <3>1 DEF Request, ReplayAnswer, ResendRequest, NewRequest, IgnoreRequest,
                                RefuseCall, PassRequest, HandleRequest
    <2>2. CASE ParseLine \/ ParseRaw \/ DataDone \/ ParserRaises
      BY <2>2 DEF ParseLine, ParseRaw, DataDone, ParserRaises, vars, cc
    <2>3. CASE UNCHANGED rvars
      BY <2>3 DEF rvars, vars, cc
    <2> QED BY <1>1, <2>1, <2>2, <2>3 DEF ReceiverNext, Work, Arrive, Fire
  <1>2. ASSUME LoopOK, IInv, [ReceiverNext]_rvars
        PROVE  \A m \in Requests : m.method # "ACK" /\ Forwarded(m) => Forwarded(m)' \/ Fire
    <2> SUFFICES ASSUME NEW m \in Requests, m.method # "ACK", Forwarded(m), ~Fire
                 PROVE  Forwarded(m)'
      OBVIOUS
    <2>1. m \in RequestType /\ m.via \in Vias /\ m.method \in Methods
      BY MessagesAssumption DEF RequestType
    <2>2. Cached(m.via, m.method)
      BY <2>1, ForwardedIsCached
    <2>3. CASE UNCHANGED vars
      BY <2>3 DEF vars, Forwarded, BranchFor, BranchOf
    <2>4. CASE HandleNext \/ Escape
      <3>1. \/ \E n \in Requests : Request(n)
            \/ \E n \in Responses : Response(n)
            \/ UNCHANGED vars
        BY <1>2, <2>4, HeadKind DEF HandleNext, Escape, Handle
      <3>2. SipOK /\ CallsOK
        BY <1>2 DEF IInv
      <3> QED BY <2>1, <2>2, <2>3, <3>1, <3>2, MessageKeepsCached, CachedIsForwarded
    <2> QED BY <1>2, <2>3, <2>4
            DEF ReceiverNext, Work, Arrive, ParseLine, ParseRaw, DataDone, ParserRaises, rvars
  <1> QED BY <1>1, <1>2, LoopInvariant, ReceiverImplements, Inductive, PTL DEF ReceiverSpec
=============================================================================
