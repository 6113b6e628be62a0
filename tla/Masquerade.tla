----------------------------- MODULE Masquerade -----------------------------
(***************************************************************************)
(* What zsipos writes into the messages it forwards (GMITM.py, with the    *)
(* headers of SipProtocol.py): towards the provider it takes the phone's   *)
(* address, towards the phone the provider's, and it enters itself in the  *)
(* routes of the phone's dialogs.  Gmitm.tla says which messages pass;     *)
(* here one request after the other passes and is answered, and its        *)
(* addresses are followed to the far end and back.                         *)
(*                                                                         *)
(* The phone names the address that it sends from in its Via, and writes   *)
(* one route per header line, as it was given it.  Transports other than   *)
(* UDP, display names and users are left out.                              *)
(***************************************************************************)
EXTENDS SdpFix, FiniteSets

CONSTANTS
  Phone,      \* host of the phone in the local net
  LocProxy,   \* localProxyAddress: zsipos in the local net
  ExtPhone,   \* externalPhoneAddress: zsipos in the LAN
  Provider,   \* host of the provider's proxy
  Far,        \* any other host: the domain, the far phone
  Hops,       \* hosts that may enter themselves as routes
  Ports,      \* ports a header may name
  Descriptions  \* the session descriptions that user agents send

ASSUME HostsAssumption ==
  /\ Cardinality({Phone, LocProxy, ExtPhone, Provider, Far}) = 5
  /\ {Phone, LocProxy, ExtPhone, Provider, Far} \cap Hops = {}

VARIABLES
  contact,    \* what the phone writes into Contact
  phoneInfo,  \* what initializePhoneInfo has learned, or None
  dialog,     \* the dialog of the phone, or None
  asked,      \* the request that waits for its answer, or None
  sent        \* what zsipos has sent last, or None

vars == <<contact, phoneInfo, dialog, asked, sent>>

LOC == "loc"
EXT == "ext"
Opposite(side) == IF side = LOC THEN EXT ELSE LOC

----------------------------------------------------------------------------
(* Addresses.  An address of From, To or Contact is a URL with a tag, in   *)
(* angle brackets or (plain) without: then a parameter belongs to the      *)
(* header all the same, but parseURL reads it as one of the URL.           *)

DEFAULTPORT == 5060
NoPort == 0

URL(host, port) == [host |-> host, port |-> port, tag |-> None]
Address(plain, url, tag) == [plain |-> plain, url |-> url, tag |-> tag]

PhoneURL == URL(Phone, DEFAULTPORT)
LocProxyURL == URL(LocProxy, DEFAULTPORT)
ExtPhoneURL == URL(ExtPhone, DEFAULTPORT)
ExtProxyURL == URL(Provider, DEFAULTPORT)
locRoute == LocProxyURL

equalPORT(a, b) ==
  (IF a = NoPort THEN DEFAULTPORT ELSE a) = (IF b = NoPort THEN DEFAULTPORT ELSE b)
equalURL(a, b) == a.host = b.host /\ equalPORT(a.port, b.port)

\* A port that is given overrides the one that is written.
parseURL(url, port) == [url EXCEPT !.port = IF port = NoPort THEN @ ELSE port]

parseAddress(a) ==
  IF a.plain THEN [uri |-> [parseURL(a.url, NoPort) EXCEPT !.tag = a.tag], tag |-> None]
             ELSE [uri |-> parseURL(a.url, NoPort), tag |-> a.tag]
stringifyAddress(uri, tag) == Address(FALSE, uri, tag)

\* A Via's rport is a port, or the flag that asks for one, or not there.
Asks == 65536
NoRport == 65537
Via(host, port, rport) == [host |-> host, port |-> port, received |-> None, rport |-> rport]

parseViaHeader(h) ==
  [host |-> h.host, port |-> IF h.port = NoPort THEN DEFAULTPORT ELSE h.port,
   received |-> h.received, rportRequested |-> h.rport = Asks,
   rportValue |-> IF h.rport \in {Asks, NoRport} THEN None ELSE h.rport]
ViaToString(via) ==
  [host |-> via.host, port |-> via.port, received |-> via.received,
   rport |-> CASE via.rportRequested -> Asks
               [] ~via.rportRequested /\ via.rportValue # None -> via.rportValue
               [] OTHER -> NoRport]

----------------------------------------------------------------------------
(* The transformations of GMITM.  A pair is <<the URL in the local net,    *)
(* the URL in the LAN>>.                                                    *)

initializePhoneInfo(info, m, addr) ==
  IF info # None THEN info
  ELSE [phone   |-> addr,
        contact |-> IF m.contact = None THEN addr ELSE parseAddress(m.contact).uri]

\* Mutant: Contact is searched for the address that the phone sends from.
PairsOfSource(field, info) ==
  IF field \in {"from", "to"} THEN <<<<info.phone, ExtPhoneURL>>>>
  ELSE <<<<info.phone, ExtPhoneURL>>, <<LocProxyURL, ExtProxyURL>>>>

Pairs(field, info) ==
  CASE field = "contact" ->
         <<<<info.contact, ExtPhoneURL>>, <<LocProxyURL, ExtProxyURL>>>>
    [] field \in {"from", "to"} -> <<<<info.phone, ExtPhoneURL>>>>
    [] OTHER -> <<<<info.phone, ExtPhoneURL>>, <<LocProxyURL, ExtProxyURL>>>>

Search(pair, destination) == IF destination = LOC THEN pair[2] ELSE pair[1]
Replace(pair, destination) == IF destination = LOC THEN pair[1] ELSE pair[2]
Match(url, pairs, destination) ==
  SelectSeq(pairs, LAMBDA pair : equalURL(url, Search(pair, destination)))

fixAddress(a, pairs, destination) ==
  LET parsed == parseAddress(a)
      match  == Match(parsed.uri, pairs, destination)
      by     == Replace(match[1], destination)
  IN IF match = <<>> THEN a
     ELSE stringifyAddress([parsed.uri EXCEPT !.host = by.host, !.port = by.port],
                           parsed.tag)

fixAddresses(m, info, destination) ==
  LET fix(field, a) ==
        IF a = None THEN a ELSE fixAddress(a, Pairs(field, info), destination)
  IN [m EXCEPT !.from = fix("from", @), !.to = fix("to", @), !.contact = fix("contact", @)]

fixVia0(m, info, destination) ==
  LET via   == parseViaHeader(m.via0)
      match == Match(via, Pairs("via", info), destination)
      old   == Search(match[1], destination)
      by    == Replace(match[1], destination)
  IN IF match = <<>> THEN m
     ELSE [m EXCEPT !.via0 = ViaToString(
            [via EXCEPT !.host = by.host, !.port = by.port,
                        !.received = IF @ = old.host THEN by.host ELSE @,
                        !.rportValue = IF @ = None THEN @
                                       ELSE IF equalPORT(@, old.port) THEN by.port ELSE @])]

\* No break: what one pair has replaced, the next one may find.
fixURI(m, info, destination) ==
  LET fix(uri, pair) ==
        IF equalURL(uri, Search(pair, destination))
          THEN [uri EXCEPT !.host = Replace(pair, destination).host,
                           !.port = Replace(pair, destination).port]
          ELSE uri
  IN IF m.uri = None THEN m
     ELSE [m EXCEPT !.uri = FoldLeft(fix, @, Pairs("uri", info))]

\* Mutant: zsipos is the first in every list.
AddedFirst(m) ==
  IF m.recordRoute = <<>> THEN m ELSE [m EXCEPT !.recordRoute = <<locRoute>> \o @]

addZSIPOStoRoute(m) ==
  CASE m.recordRoute = <<>> -> m
    [] m.uri # None -> [m EXCEPT !.recordRoute = <<locRoute>> \o @]
    [] OTHER        -> [m EXCEPT !.recordRoute = Append(@, locRoute)]

WithoutMe(routes) ==
  IF routes # <<>> /\ Head(routes) = locRoute THEN Tail(routes) ELSE routes

delZSIPOSfromRoute1(m) == [m EXCEPT !.recordRoute = WithoutMe(@)]
\* As a mutant for the whole: Record-Route is forgotten.
delZSIPOSfromRoute2(m) == [m EXCEPT !.route = WithoutMe(@)]
delZSIPOSfromRoute(m) == delZSIPOSfromRoute2(delZSIPOSfromRoute1(m))

\* The port of the route is replaced by the default one.
fixRoute(m, addr) ==
  IF m.route = <<>> THEN addr ELSE parseURL(Head(m.route), DEFAULTPORT)

extSendMessage(m, info) ==
  LET masked == fixURI(fixVia0(fixAddresses(m, info, EXT), info, EXT), info, EXT)
      out    == delZSIPOSfromRoute(masked)
  IN [side |-> EXT, addr |-> fixRoute(out, ExtProxyURL), msg |-> out]

locSendMessage(m, info) ==
  LET unmasked == fixURI(fixVia0(fixAddresses(m, info, LOC), info, LOC), info, LOC)
  IN [side |-> LOC, addr |-> info.phone, msg |-> addZSIPOStoRoute(unmasked)]

forwardMessage(m, info, side) ==
  IF side = EXT THEN locSendMessage(m, info) ELSE extSendMessage(m, info)

\* CallController.fixSDP, as far as it concerns the message.
Raises(m) ==
  m.sdp # None /\ LET sdp == reduce2audio(m.sdp)
                  IN Improper(sdp) \/ (m.uri = None /\ Unconnected(sdp))

Our(side) == IF side = EXT THEN ExtPhone ELSE LocProxy

fixSDP(m, side) ==
  IF m.sdp = None THEN m
  ELSE LET sdp == reduce2audio(m.sdp)
       IN [m EXCEPT !.sdp = IF Unconnected(sdp) THEN sdp
                            ELSE newFixConnection(sdp, Our(Opposite(side)))]

Forward(m, info, side) ==
  sent' = [wrote |-> m] @@ forwardMessage(fixSDP(m, side), info, side)

----------------------------------------------------------------------------
(* The user agents, as RFC 3261 has them: a dialog's routes are those of   *)
(* Record-Route, for the caller in reverse.                                *)

Tag == "tag"
RouteLists == {<<>>} \cup {<<URL(h, NoPort)>> : h \in Hops}
              \cup UNION {{<<URL(g, NoPort), URL(h, NoPort)>> : h \in Hops \ {g}} : g \in Hops}

Request(method, uri, from, to, ctct, via, rr, route, sdp) ==
  [method |-> method, uri |-> uri, from |-> from, to |-> to, contact |-> ctct,
   via0 |-> via, recordRoute |-> rr, route |-> route, sdp |-> sdp]

Identity(plain, host) == Address(plain, URL(host, NoPort), Tag)
Callee(host) == Address(FALSE, URL(host, NoPort), None)
Contact(url) == Address(FALSE, url, None)

PhoneVias == {Via(Phone, p, r) : p \in {NoPort, DEFAULTPORT}, r \in {Asks, NoRport}}
ProviderVias == {Via(h, DEFAULTPORT, Asks) : h \in {Provider} \cup Hops}

\* Headers and description are rewritten without regard to each other: a message
\* with a description has the headers that most messages have.
Usual(m) ==
  /\ m.via0 \in {Via(h, DEFAULTPORT, Asks) : h \in {Phone, Provider}}
  /\ m.from = Identity(FALSE, Far) /\ m.to = Callee(Far)
  /\ m.recordRoute = <<>> /\ m.route = <<>>
  /\ m.uri \in {URL(h, NoPort) : h \in {Far, ExtPhone}} /\ m.contact.url.host # Provider

Ask(side, m) ==
  /\ asked = None
  /\ m.sdp # None => Usual(m)
  /\ phoneInfo' = IF side = LOC /\ m.method \in {"REGISTER", "INVITE"}
                    THEN initializePhoneInfo(phoneInfo, m, PhoneURL) ELSE phoneInfo
  /\ IF phoneInfo' = None \/ Raises(m)
       THEN UNCHANGED <<asked, sent>>
       ELSE /\ Forward(m, phoneInfo', side)
            /\ asked' = [side |-> side, wrote |-> m, done |-> FALSE]
  /\ UNCHANGED <<contact, dialog>>

\* The phone registers, or asks without a Contact where it is registered.
Register ==
  \E via \in PhoneVias, c \in {None, Contact(contact)} :
    Ask(LOC, Request("REGISTER", URL(Far, NoPort), Identity(FALSE, Far), Callee(Far),
                     c, via, <<>>, <<>>, None))

PhoneInvites ==
  /\ dialog = None
  /\ \E via \in PhoneVias, from \in {Identity(FALSE, Far)} \cup {Identity(p, Phone) : p \in BOOLEAN},
        to \in {Far, Provider}, uri \in {Far, LocProxy}, route \in {<<>>, <<locRoute>>},
        sdp \in Descriptions \cup {None} :
       Ask(LOC, Request("INVITE", URL(uri, NoPort), from, Callee(to),
                        Contact(URL(Phone, contact.port)), via, <<>>, route, sdp))

ProviderInvites ==
  /\ dialog = None
  /\ \E via \in ProviderVias, from \in {Far, Provider}, to \in {Far, ExtPhone},
        c \in {Far, Provider}, rr \in RouteLists, port \in {NoPort, DEFAULTPORT},
        sdp \in Descriptions \cup {None} :
       Ask(EXT, Request("INVITE", URL(ExtPhone, port), Identity(FALSE, from), Callee(to),
                        Contact(URL(c, NoPort)), via, rr, <<>>, sdp))

\* A request in the dialog: a BYE, an ACK of the answer, or another INVITE.
PhoneGoesOn ==
  /\ dialog # None
  /\ \E via \in PhoneVias :
       Ask(LOC, Request("OTHER", dialog.target, dialog.near, dialog.far,
                        Contact(contact), via, <<>>, dialog.routes, None))

ProviderGoesOn ==
  /\ dialog # None
  /\ \E via \in ProviderVias, rr \in RouteLists :
       Ask(EXT, Request("OTHER", dialog.seen.url, dialog.itself, dialog.other,
                        Contact(URL(Far, NoPort)), via, rr, <<>>, None))

\* The answer copies what it is asked with; who answers adds where the request
\* came from, and to an INVITE the provider's proxies the routes.
Reply(q, side, c, rr, sdp) ==
  LET came == IF side = EXT THEN ExtPhoneURL ELSE LocProxyURL
  IN [q EXCEPT !.uri = None, !.to.tag = Tag, !.contact = c, !.route = <<>>,
               !.via0.received = came.host,
               !.via0.rport = IF @ = Asks THEN came.port ELSE @,
               !.recordRoute = IF side = EXT THEN rr ELSE @, !.sdp = sdp]

Answer ==
  /\ asked # None /\ ~asked.done
  /\ LET side == Opposite(asked.side)
         q    == sent.msg
         invite == q.method = "INVITE"
     IN \E c \in IF side = LOC THEN {Contact(contact)}
                 ELSE {Contact(URL(h, NoPort)) : h \in {Far, Provider}},
           rr \in IF side = EXT /\ invite THEN RouteLists ELSE {<<>>},
           sdp \in IF invite /\ Usual(asked.wrote) THEN Descriptions \cup {None}
                   ELSE {None} :
          LET r == Reply(q, side, c, rr, sdp) IN
          /\ sdp # None => rr = <<>> /\ c.url.host # Provider
          /\ ~Raises(r)
          /\ Forward(r, phoneInfo, side)
          /\ dialog' =
               IF ~invite THEN dialog
               ELSE IF side = EXT
               THEN [routes |-> Reverse(sent'.msg.recordRoute), recorded |-> Reverse(rr),
                     target |-> sent'.msg.contact.url, near |-> asked.wrote.from,
                     far |-> sent'.msg.to, seen |-> q.contact, itself |-> r.to,
                     other |-> r.from]
               ELSE [routes |-> q.recordRoute, recorded |-> asked.wrote.recordRoute,
                     target |-> q.contact.url, near |-> r.to, far |-> r.from,
                     seen |-> sent'.msg.contact, itself |-> asked.wrote.from,
                     other |-> sent'.msg.to]
          /\ asked' = [asked EXCEPT !.done = TRUE]
          /\ UNCHANGED <<contact, phoneInfo>>

\* The exchange is over.
Rest ==
  /\ asked # None /\ asked.done
  /\ asked' = None /\ sent' = None
  /\ UNCHANGED <<contact, phoneInfo, dialog>>

Init ==
  /\ contact \in {URL(Phone, p) : p \in Ports}
  /\ phoneInfo = None /\ dialog = None /\ asked = None /\ sent = None

Next == \/ Register \/ PhoneInvites \/ ProviderInvites
        \/ PhoneGoesOn \/ ProviderGoesOn \/ Answer \/ Rest

MaskSpec == Init /\ [][Next]_vars

----------------------------------------------------------------------------
SameAddress(a, b) == equalURL(a.url, b.url) /\ (a.tag = b.tag \/ a.plain)

\* Nothing that is sent to the provider names the phone's own host: neither
\* Via, nor the request's URI, nor From, To or Contact.  Excepted is the Contact
\* of a phone that was learned by a request without one, or by another port.
PhoneStaysHidden ==
  sent # None /\ sent.side = EXT =>
    LET m == sent.msg IN
    /\ Phone \notin {m.via0.host, m.via0.received, m.from.url.host, m.to.url.host}
    /\ m.uri # None => m.uri.host # Phone
    /\ m.contact # None /\ equalURL(phoneInfo.contact, contact) =>
         m.contact.url.host # Phone

\* An answer reaches who asked with the Via, From, To and Record-Route that it
\* asked with, whatever was made of them on the way there.  An address without
\* brackets may have lost its tag: parseAddress takes it for one of the URL.
AnswersComeBack ==
  asked # None /\ asked.done =>
    LET q == asked.wrote
        r == sent.msg
    IN /\ r.via0.host = q.via0.host /\ equalPORT(r.via0.port, q.via0.port)
       /\ q.via0.host \in {Phone, Provider} => r.via0.received = q.via0.host
       /\ SameAddress(q.from, r.from)
       /\ equalURL(q.to.url, r.to.url)
       /\ asked.side = EXT => r.recordRoute = q.recordRoute

\* The phone's dialogs pass through zsipos, whoever has called, and beyond it
\* their requests take the routes that the provider has recorded, in order.
RoutesAreRecorded ==
  /\ dialog # None /\ dialog.recorded # <<>> =>
       dialog.routes = <<locRoute>> \o dialog.recorded
  /\ asked # None /\ ~asked.done /\ asked.side = LOC /\ asked.wrote.method = "OTHER" =>
       /\ sent.msg.route = dialog.recorded
       /\ sent.addr.host = IF dialog.recorded = <<>> THEN Provider
                           ELSE dialog.recorded[1].host

\* What was written, when it has one stream and one c=, as SDP has it.
Described == sent # None /\ sent.wrote.sdp # None
Written == reduce2audio(sent.wrote.sdp)

\* A description that is passed on directs its stream to zsipos.  Excepted is
\* one without any c=, and one with a c= of its stream besides the session's.
MediaIsOurs ==
  Described /\ (Written.c = None) # (Written.m[1].c = None) =>
    LET sdp == sent.msg.sdp IN
    /\ Len(sdp.m) = 1 /\ sdp.m[1].c = None
    /\ {sdp.c, sdp.o} = {Our(sent.side)}

=============================================================================
