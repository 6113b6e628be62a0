------------------------------- MODULE SdpFix -------------------------------
(***************************************************************************)
(* How a call rewrites a session description (CallController.py,           *)
(* reduce2audio and newFixConnection, with SDP.py): one audio stream stays,*)
(* sent to a media address of zsipos, with the formats that it can handle. *)
(*                                                                         *)
(* A description is [c, o, m]: the host of the session's c= line or None,  *)
(* that of o=, and the media, each [kind, c, fmts, a] with its own c= or   *)
(* None, its payload types in order, and its attributes.  An attribute is  *)
(* [a, pt, codec]: an rtpmap of pt to codec, an fmtp of pt, or another one.*)
(* The port of a stream always goes with the host and is left out.         *)
(***************************************************************************)
EXTENDS Naturals, Sequences, SequencesExt

CONSTANT None

TelephoneEvent == "telephone-event"
Supported == {TelephoneEvent, "PCMU", "PCMA"}
DefaultPt == 101

Description(c, o, m) == [c |-> c, o |-> o, m |-> m]
Medium(kind, c, fmts, a) == [kind |-> kind, c |-> c, fmts |-> fmts, a |-> a]

Rtpmap(pt, codec) == [a |-> "rtpmap", pt |-> pt, codec |-> codec]
Fmtp(pt) == [a |-> "fmtp", pt |-> pt, codec |-> None]
Attribute(name) == [a |-> name, pt |-> DefaultPt, codec |-> None]

\* m.remove(i) while m is iterated: what follows a removed medium is not looked at.
reduce2audio(sdp) ==
  LET look(seen, medium) ==
        IF seen.skip \/ medium.kind = "audio"
          THEN [skip |-> FALSE, kept |-> Append(seen.kept, medium)]
          ELSE [seen EXCEPT !.skip = TRUE]
      kept == FoldLeft(look, [skip |-> FALSE, kept |-> <<>>], sdp.m).kept
  IN [sdp EXCEPT !.m = IF kept = <<>> THEN kept ELSE <<Head(kept)>>]

Connection(sdp) == IF sdp.c # None THEN sdp.c ELSE sdp.m[1].c

\* Without a medium or an a= line newFixConnection raises (KeyError); without
\* a c= it returns None and rewrites nothing.
Improper(sdp) == sdp.m = <<>> \/ (Connection(sdp) # None /\ sdp.m[1].a = <<>>)
Unconnected(sdp) == sdp.m # <<>> /\ Connection(sdp) = None

ById(a) == {x \in Range(a) : x.a = "rtpmap" /\ x.codec \in Supported}
Ids(a) == {x.pt : x \in ById(a)}
FmtpOf(a) == {x.pt : x \in {y \in Range(a) : y.a = "fmtp"}}


\* rtp_map_by_name: the last rtpmap of a name counts, 101 where there is none.
TelephonePt(a) ==
  LET events == SelectSeq(a, LAMBDA x : x.a = "rtpmap" /\ x.codec = TelephoneEvent)
  IN IF events = <<>> THEN DefaultPt ELSE Last(events).pt

\* The r that the first loop leaves behind; the second one's test of an fmtp
\* reads it, and only an rtpmap sets it anew.
LastParted(a) ==
  LET parted == SelectSeq(a, LAMBDA x : x.a \in {"rtpmap", "fmtp"})
  IN IF parted = <<>> THEN DefaultPt ELSE Last(parted).pt

\* The second loop, attribute by attribute.
Rebuilt(m) ==
  LET known == {pt \in Ids(m.a) : pt \in Range(m.fmts)}
      keep(acc, x) ==
        CASE x.a = "rtpmap" ->
               IF x.pt \in known
                 THEN [r |-> x.pt, a |-> Append(acc.a, x), fmts |-> Append(acc.fmts, x.pt)]
                 ELSE [acc EXCEPT !.r = x.pt]
          [] x.a = "fmtp" /\ acc.r \notin known -> acc
          [] x.a = "crypto" -> acc
          [] OTHER -> [acc EXCEPT !.a = Append(@, x)]
  IN FoldLeft(keep, [r |-> LastParted(m.a), a |-> <<>>, fmts |-> <<>>], m.a)

\* Mutant: the stream keeps its own c=.
FixKeepsStream(sdp, raddr) ==
  LET m == sdp.m[1] IN
  Description(raddr, raddr, <<[m EXCEPT !.a = Rebuilt(m).a]>>)

newFixConnection(sdp, raddr) ==
  LET m      == sdp.m[1]
      new    == Rebuilt(m)
      pt     == TelephonePt(m.a)
      event  == IF \E x \in ById(m.a) : x.codec = TelephoneEvent
                  THEN <<>> ELSE <<Rtpmap(pt, TelephoneEvent)>>
      digits == IF pt \in FmtpOf(m.a) THEN <<>> ELSE <<Fmtp(pt)>>
      listed == IF pt \in Range(m.fmts) THEN <<>> ELSE <<pt>>
  IN Description(raddr, raddr,
       <<Medium(m.kind, IF sdp.c = None THEN None ELSE m.c,
                new.fmts \o listed, new.a \o event \o digits)>>)

\* What setAudioInfo is told of the side that wrote the SDP: whether it gets
\* PCMU (else PCMA), and the payload type of its telephone events.
AudioInfo(sdp) ==
  LET a == sdp.m[1].a
      first == Rebuilt(sdp.m[1]).fmts
  IN [pcmu |-> first # <<>> /\ Rtpmap(first[1], "PCMU") \in ById(a),
      pt   |-> TelephonePt(a)]
=============================================================================
