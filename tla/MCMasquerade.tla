---------------------------- MODULE MCMasquerade ----------------------------
(***************************************************************************)
(* Two hops that record themselves; a Contact without a port, with the     *)
(* default one and with another; descriptions with their c= in every place *)
(* or with streams besides audio, and all short lists of attributes of one *)
(* audio stream.                                                           *)
(***************************************************************************)
EXTENDS Masquerade

MCPorts == {NoPort, DEFAULTPORT, 5070}

Attributes == {Rtpmap(0, "PCMU"), Rtpmap(8, "PCMA"), Rtpmap(96, TelephoneEvent),
               Rtpmap(101, "opus"), Fmtp(96), Attribute("crypto")}
AttributeLists == {a \in UNION {[1..n -> Attributes] : n \in 0..3} :
                     \A i, j \in DOMAIN a : i # j => a[i] # a[j]}
Formats(a) == LET maps == SelectSeq(a, LAMBDA x : x.a = "rtpmap")
              IN [i \in DOMAIN maps |-> maps[i].pt]
Stream(kind, c, a) == Medium(kind, c, Formats(a), a)
Plain == <<Rtpmap(0, "PCMU"), Rtpmap(96, TelephoneEvent), Fmtp(96)>>
SDP(c, media) == Description(c, Far, media)

MCDescriptions ==
  {SDP(c, <<Stream("audio", d, Plain)>>) : c \in {None, Far}, d \in {None, Far}}
  \cup {SDP(Far, <<Stream("audio", None, a)>>) : a \in AttributeLists}
  \cup {SDP(None, <<Stream("video", Far, Plain), Stream("audio", Far, Plain)>>),
        SDP(Far, <<Stream("video", None, Plain), Stream("video", None, Plain),
                   Stream("audio", None, Plain)>>),
        SDP(Far, <<Stream("video", None, Plain)>>)}
=============================================================================
