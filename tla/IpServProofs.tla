---------------------------- MODULE IpServProofs ----------------------------
(***************************************************************************)
(* The network server for every set of clients, devices and bounds: types, *)
(* who is in the stack, whose event goes to which object, what an answer   *)
(* holds.                                                                  *)
(***************************************************************************)
EXTENDS IpServ, TLAPS

Threads   == {"tick", "slave"}
Ops       == ServerOps \cup SlockOps \cup BareOps \cup {"shutdown", "timer", "lock", "unlock"}
SocketOps == SlockOps \cup {"accept", "poll", "shutdown", "set_priv", "close"}
UpcallOps == {"shutdown", "connect", "send", "sendto"}

Events    == [s : Sockets \cup {0}, ev : {"none", "read", "write", "close"}]
Requested == [op : Ops \cup {"none"}, s : Sockets \cup {0}, name : {"lo", "eth0", "none"}, n : Nat]
Results   == [ok : BOOLEAN, n : Nat, more : BOOLEAN]
Nets      == [eth : BOOLEAN, link : BOOLEAN, routes : Nat]
OneSocket == [st : {"free", "open", "listen", "closing"}, priv : BOOLEAN, q : Nat]

Working == {"call", "leave"} \cup Upcalls                 \* in the stack
Serving == Working \cup {"request", "confirm", "dhcp", "answer", "servers", "ping"}
Done    == {"leave", "confirm"}                           \* the handler's work

IpTypeOK ==
  /\ client \in Clients
  /\ stackLock \in {"free", "tick", "slave", "linux"} /\ masterLock \in {"free", "tick", "slave"}
  /\ pc \in [Threads -> {"idle", "lock", "stack", "callback"} \cup Serving]
  /\ event \in [Threads -> Events] /\ mreq \in Events
  /\ mconf \in BOOLEAN /\ confirmed \in BOOLEAN
  /\ sreq \in Requested /\ sres \in Results
  /\ net \in Nets /\ sock \in [Sockets -> OneSocket]
  /\ dhcp_finished \in BOOLEAN /\ dhcp_code \in {"success", "error"}
  /\ codeOf \in {"own", "old", "timeout"} /\ clients \in SUBSET {"own", "old"}
  /\ ping_replies \in Nat /\ pings \in Nat /\ ticked \in BOOLEAN
  /\ call \in BOOLEAN
  /\ object \in [Sockets -> {"none", "known", "live"}] /\ readable \in [Sockets -> BOOLEAN]

\* Where the threads are, with which locks, and what Linux asks for.
LocksOK ==
  /\ pc["tick"] \in {"idle", "lock", "stack", "callback"} \cup Upcalls
  /\ pc["slave"] \in {"idle"} \cup Serving
  /\ stackLock = "tick" <=> pc["tick"] \in {"stack", "callback"} \cup Upcalls
  /\ stackLock = "slave" <=> pc["slave"] \in Working /\ Locks(sreq)
  /\ call /\ ~Locks(sreq) /\ sreq.op \notin {"lock", "timer"} => stackLock = "linux" \/ sreq.op = "unlock"
  /\ pc["slave"] = "request" /\ sreq.op = "unlock" => stackLock = "linux"
  /\ pc["slave"] \in Working => sreq.op \notin {"lock", "unlock"}
  /\ pc["slave"] \in Upcalls => sreq.op \in UpcallOps
  /\ pc["slave"] \in {"dhcp", "answer", "servers"} => sreq.op = "dhcp"
  /\ pc["slave"] = "ping" => sreq.op = "ping"
  /\ pc["slave"] # "idle" <=> call
  /\ call => sreq.op # "none"
  /\ call /\ sreq.op \in SocketOps => sreq.s \in Sockets

\* The answer is empty before the work, and what is owed fits.
AnswersOK ==
  /\ pc["slave"] \in {"idle", "request", "call", "dhcp", "answer", "servers", "ping"} => sres = Okay
  /\ ping_replies <= SEL4IP_MAX_PING
  /\ call /\ sreq.op = "ping" => sreq.n <= SEL4IP_MAX_PING

\* What the call for an address waits for can only come from its own negotiation.
DhcpOK ==
  /\ pc["slave"] \in {"dhcp", "answer"} => clients \subseteq {"own"}
  /\ pc["slave"] = "dhcp" /\ (dhcp_finished \/ pc["tick"] = "callback") => codeOf = "own"

\* An event is that of the thread that waits until Linux has seen it.
UpcallOK ==
  /\ \A t \in Threads : pc[t] \in Upcalls => event[t].s \in Sockets
  /\ mreq # None => \E t \in Threads : pc[t] = "wait" /\ mreq = event[t]
  /\ mconf \/ confirmed => mreq = None /\ \E t \in Threads : pc[t] = "wait"
  /\ ~(mconf /\ confirmed)

\* A pointer is of an object that lives, until the call that takes it back returns.
OwnersOK ==
  /\ \A s \in Sockets : sock[s].priv => object[s] = "live"
  /\ call /\ sreq.op = "set_priv" /\ sreq.n = 1 => object[sreq.s] = "live"
  /\ pc["slave"] \in Done /\ sreq.op = "set_priv" /\ sreq.n = 0 => ~sock[sreq.s].priv
  /\ call /\ sreq.op = "close" => object[sreq.s] = "known"
  /\ pc["slave"] \in Done /\ sreq.op \in {"open", "accept"} /\ sres.ok =>
       sres.n \in Sockets /\ ~sock[sres.n].priv

\* Data that wait for an object are on their way to Linux, or it knows of them.
KnownOK ==
  /\ \A s \in Sockets : sock[s].priv /\ sock[s].q > 0 =>
       \/ readable[s] \/ mreq = [s |-> s, ev |-> "read"]
       \/ pc["tick"] \in {"event", "begun"} /\ event["tick"] = [s |-> s, ev |-> "read"]
       \/ call /\ sreq.op = "set_priv" /\ sreq.n = 1 /\ sreq.s = s
  /\ call /\ sreq.op = "set_priv" => sreq.n \in {0, 1}
  /\ pc["slave"] \in Done /\ sreq.op \in {"recvfrom", "poll"} => sres.more = (sock[sreq.s].q > 0)
  /\ pc["slave"] \in Done /\ sreq.op = "accept" /\ sres = Failed => sock[sreq.s].q = 0

IpInv ==
  /\ IpTypeOK /\ LocksOK /\ AnswersOK /\ DhcpOK /\ UpcallOK /\ OwnersOK
  /\ DhcpAnswerIsOwn /\ PingStatsInCall /\ AnswersFit /\ EventGoesToOwner

----------------------------------------------------------------------------
(* The handlers.                                                           *)

\* What a handler may answer and leave behind for a call a.
HandlerOK(a, o) ==
  /\ o.net \in Nets /\ o.sock \in [Sockets -> OneSocket] /\ o.ret \in Results
  /\ o.ev \in {"none", "write", "close"}
  /\ o.ev # "none" => a.op \in UpcallOps
  /\ a.op = "get_devices" => o.ret.n <= MAX_DEVICES
  /\ a.op = "get_routes" => o.ret.n <= MAX_ROUTES
  /\ \A s \in Sockets : o.sock[s].priv => sock[s].priv \/ (a.op = "set_priv" /\ a.n = 1 /\ s = a.s)
  /\ a.op = "set_priv" /\ a.n = 0 => ~o.sock[a.s].priv
  /\ a.op \in {"open", "accept"} /\ o.ret.ok => o.ret.n \in Sockets /\ ~o.sock[o.ret.n].priv
  /\ \A s \in Sockets : o.sock[s].priv /\ o.sock[s].q > 0 =>
       sock[s].q > 0 \/ (a.op = "set_priv" /\ a.n = 1 /\ s = a.s)
  /\ a.op \in {"recvfrom", "poll"} => o.ret.more = (o.sock[a.s].q > 0)
  /\ a.op = "accept" /\ o.ret = Failed => o.sock[a.s].q = 0

Served(a) == \A o \in handle_remcall(a) : HandlerOK(a, o)

LEMMA Clean == ASSUME IpTypeOK PROVE Sockets \subseteq Nat \ {0}
  BY IpServAssumption DEF IpTypeOK, Sockets

LEMMA Answers == Okay \in Results /\ Failed \in Results
                 /\ Okay.ok = TRUE /\ Okay.n = 0 /\ Failed.ok = FALSE /\ Failed.n = 0
  <1>1. Failed.ok = FALSE /\ Failed.n = 0 /\ Failed.more = FALSE
    BY DEF Failed, Okay
  <1>2. Failed \in Results
    BY DEF Failed, Okay, Results
  <1> QED BY <1>1, <1>2 DEF Okay, Results

\* A handler that leaves sockets and devices alone.
LEMMA SameServed ==
  ASSUME IpTypeOK, NEW a, NEW o, o.net \in Nets, o.sock = sock, o.ret \in Results,
         o.ev \in {"none", "write", "close"}, o.ev # "none" => a.op \in UpcallOps,
         a.op \notin {"get_devices", "get_routes", "set_priv", "recvfrom", "poll"},
         a.op \in {"open", "accept"} => ~o.ret.ok,
         a.op = "accept" /\ o.ret = Failed => sock[a.s].q = 0
  PROVE  HandlerOK(a, o)
  BY DEF HandlerOK, IpTypeOK

LEMMA RetFields ==
  ASSUME NEW ret
  PROVE  /\ Answer(ret).net = net /\ Answer(ret).sock = sock /\ Answer(ret).ret = ret
         /\ Answer(ret).ev = "none"
  BY DEF Answer, Same

LEMMA SameFields == Same.net = net /\ Same.sock = sock /\ Same.ret = Okay /\ Same.ev = "none"
  BY DEF Same

LEMMA RaiseFields ==
  ASSUME NEW ev
  PROVE  /\ Raise(ev).net = net /\ Raise(ev).sock = sock /\ Raise(ev).ret = Okay /\ Raise(ev).ev = ev
  BY DEF Raise, Same

LEMMA BecomeFields ==
  ASSUME NEW s, NEW x
  PROVE  /\ Become(s, x).net = net /\ Become(s, x).sock = [sock EXCEPT ![s] = x]
         /\ Become(s, x).ret = Okay /\ Become(s, x).ev = "none"
  BY DEF Become, Same

\* The calls that set up devices.
LEMMA ServerServed ==
  ASSUME IpTypeOK, NEW a \in Requested,
         a.op \in {"init_eth", "get_devices", "get_device_config", "set_device_address",
                   "device_down", "device_addroute", "get_routes", "timer"}
  PROVE  Served(a)
  <1> SUFFICES ASSUME NEW o \in handle_remcall(a) PROVE HandlerOK(a, o)
    BY DEF Served
  <1>1. net \in Nets /\ NoLink \in Nets /\ Link \in Nets
    BY DEF IpTypeOK, Nets, NoLink, Link
  <1>2. HandlerOK(a, Same) \/ a.op \in {"get_devices", "get_routes"}
    BY <1>1, SameFields, Answers, SameServed DEF UpcallOps
  <1>3. HandlerOK(a, Answer(Failed)) \/ a.op \in {"get_devices", "get_routes"}
    BY <1>1, RetFields, Answers, SameServed DEF UpcallOps
  <1>4. ASSUME NEW n \in Nets, NEW ret \in Results, NEW p, p.net = n, p.sock = sock, p.ret = ret, p.ev = "none",
               a.op \notin {"get_devices", "get_routes"}
        PROVE  HandlerOK(a, p)
    BY <1>4, SameServed
  <1>5. CASE a.op = "init_eth"
    <2>1. o \in {[Same EXCEPT !.net.eth = TRUE]} \cup Fails
      BY <1>5 DEF handle_remcall, handle_rem_init_eth
    <2>2. CASE o = [Same EXCEPT !.net.eth = TRUE]
      <3>1. o.net = [net EXCEPT !.eth = TRUE] /\ o.sock = sock /\ o.ret = Okay /\ o.ev = "none"
        BY <2>2 DEF Same
      <3>2. o.net \in Nets
        BY <1>1, <3>1 DEF Nets
      <3> QED BY <1>4, <1>5, <3>1, <3>2, Answers
    <2> QED BY <1>3, <1>5, <2>1, <2>2 DEF Fails
  <1>6. CASE a.op = "get_devices"
    <2> DEFINE ret == [Okay EXCEPT !.n = AtMost(Devices, MAX_DEVICES)]
    <2>1. o = Answer(ret)
      BY <1>6 DEF handle_remcall, handle_rem_get_devices
    <2>2. Devices \in Nat /\ MAX_DEVICES \in Nat
      BY IpServAssumption DEF Devices
    <2>3. AtMost(Devices, MAX_DEVICES) \in Nat /\ AtMost(Devices, MAX_DEVICES) <= MAX_DEVICES
      BY <2>2 DEF AtMost
    <2>4. ret \in Results /\ ret.n <= MAX_DEVICES
      BY <2>3, Answers DEF Results
    <2> HIDE DEF ret
    <2> QED BY <1>1, <1>6, <2>1, <2>4, RetFields DEF HandlerOK, IpTypeOK
  <1>7. CASE a.op = "get_device_config"
    <2> DEFINE ret == [Okay EXCEPT !.more = (a.name = "eth0" /\ net.link)]
    <2>1. o = Answer(ret) \/ o \in Fails
      BY <1>7 DEF handle_remcall, handle_rem_get_device_config
    <2>2. ret \in Results
      <3>1. (a.name = "eth0" /\ net.link) \in BOOLEAN
        OBVIOUS
      <3> QED BY <3>1, Answers DEF Results
    <2> HIDE DEF ret
    <2>3. HandlerOK(a, Answer(ret))
      BY <1>1, <1>7, <2>2, RetFields, SameServed
    <2> QED BY <1>3, <1>7, <2>1, <2>3 DEF Fails
  <1>8. CASE a.op = "set_device_address"
    <2>1. o \in {Same, [Same EXCEPT !.net = Link], [Same EXCEPT !.net = NoLink, !.ret = Failed]} \cup Fails
      BY <1>8 DEF handle_remcall, handle_rem_set_device_address
    <2>2. CASE o = [Same EXCEPT !.net = Link]
      <3>1. o.net = Link /\ o.sock = sock /\ o.ret = Okay /\ o.ev = "none"
        BY <2>2 DEF Same
      <3> QED BY <1>1, <1>4, <1>8, <3>1, Answers
    <2>3. CASE o = [Same EXCEPT !.net = NoLink, !.ret = Failed]
      <3>1. o.net = NoLink /\ o.sock = sock /\ o.ret = Failed /\ o.ev = "none"
        BY <2>3 DEF Same
      <3> QED BY <1>1, <1>4, <1>8, <3>1, Answers
    <2> QED BY <1>2, <1>3, <1>8, <2>1, <2>2, <2>3 DEF Fails
  <1>9. CASE a.op = "device_down"
    <2>1. o \in {[Same EXCEPT !.net = NoLink]} \cup Fails
      BY <1>9 DEF handle_remcall, handle_rem_device_down
    <2>2. CASE o = [Same EXCEPT !.net = NoLink]
      <3>1. o.net = NoLink /\ o.sock = sock /\ o.ret = Okay /\ o.ev = "none"
        BY <2>2 DEF Same
      <3> QED BY <1>1, <1>4, <1>9, <3>1, Answers
    <2> QED BY <1>3, <1>9, <2>1, <2>2 DEF Fails
  <1>10. CASE a.op = "device_addroute"
    <2>1. o \in Fails \/ \E r \in Nat : o = [Same EXCEPT !.net.routes = r]
      BY <1>10, IpServAssumption DEF handle_remcall, handle_rem_device_addroute
    <2>2. ASSUME NEW r \in Nat, o = [Same EXCEPT !.net.routes = r]
          PROVE  HandlerOK(a, o)
      <3>1. o.net = [net EXCEPT !.routes = r] /\ o.sock = sock /\ o.ret = Okay /\ o.ev = "none"
        BY <2>2 DEF Same
      <3>2. o.net \in Nets
        BY <1>1, <3>1 DEF Nets
      <3> QED BY <1>4, <1>10, <3>1, <3>2, Answers
    <2> QED BY <1>3, <1>10, <2>1, <2>2 DEF Fails
  <1>11. CASE a.op = "get_routes"
    <2> DEFINE ret == [Okay EXCEPT !.n = AtMost(net.routes, MAX_ROUTES)]
    <2>1. o = Answer(ret)
      BY <1>11 DEF handle_remcall, handle_rem_get_routes
    <2>2. net.routes \in Nat /\ MAX_ROUTES \in Nat
      BY <1>1, IpServAssumption DEF Nets
    <2>3. AtMost(net.routes, MAX_ROUTES) \in Nat /\ AtMost(net.routes, MAX_ROUTES) <= MAX_ROUTES
      BY <2>2 DEF AtMost
    <2>4. ret \in Results /\ ret.n <= MAX_ROUTES
      BY <2>3, Answers DEF Results
    <2> HIDE DEF ret
    <2> QED BY <1>1, <1>11, <2>1, <2>4, RetFields DEF HandlerOK, IpTypeOK
  <1>12. CASE a.op = "timer"
    BY <1>2, <1>12 DEF handle_remcall, handle_rem_timer
  <1> QED BY <1>5, <1>6, <1>7, <1>8, <1>9, <1>10, <1>11, <1>12

\* The calls that leave the sockets alone, in some of which the stack raises an event.
LEMMA PlainServed ==
  ASSUME IpTypeOK, NEW a \in Requested,
         a.op \in UpcallOps \cup {"bind", "getname", "option", "poll"}
  PROVE  Served(a)
  <1> SUFFICES ASSUME NEW o \in handle_remcall(a) PROVE HandlerOK(a, o)
    BY DEF Served
  <1>1. net \in Nets
    BY DEF IpTypeOK
  <1>2. a.op # "poll" => HandlerOK(a, Same) /\ HandlerOK(a, Answer(Failed))
    <2> SUFFICES ASSUME a.op # "poll" PROVE HandlerOK(a, Same) /\ HandlerOK(a, Answer(Failed))
      OBVIOUS
    <2>1. HandlerOK(a, Same)
      BY <1>1, SameFields, Answers, SameServed DEF UpcallOps
    <2>2. HandlerOK(a, Answer(Failed))
      BY <1>1, RetFields, Answers, SameServed DEF UpcallOps
    <2> QED BY <2>1, <2>2
  <1>3. CASE a.op \in UpcallOps
    <2>1. o \in {Same, Raise("write"), Raise("close"), Answer(Failed)}
      BY <1>3 DEF UpcallOps, handle_remcall, handle_rem_pico_socket_shutdown,
                  handle_rem_pico_socket_connect, handle_rem_pico_socket_sendto, handle_rem_pico_socket_send
    <2>2. HandlerOK(a, Raise("write")) /\ HandlerOK(a, Raise("close"))
      BY <1>1, <1>3, RaiseFields, Answers, SameServed DEF UpcallOps
    <2> QED BY <1>2, <1>3, <2>1, <2>2 DEF UpcallOps
  <1>4. CASE a.op \in {"bind", "getname", "option"}
    BY <1>2, <1>4 DEF handle_remcall, handle_rem_pico_socket_bind, handle_rem_pico_socket_getname,
                      handle_rem_pico_socket_option
  <1>5. CASE a.op = "poll"
    <2> DEFINE ret == [Okay EXCEPT !.more = (sock[a.s].q > 0)]
    <2>1. o = Answer(ret)
      BY <1>5 DEF handle_remcall, handle_rem_pico_socket_poll
    <2>2. ret \in Results
      <3>1. (sock[a.s].q > 0) \in BOOLEAN
        OBVIOUS
      <3> QED BY <3>1, Answers DEF Results
    <2>3. ret.more = (sock[a.s].q > 0)
      BY DEF Okay
    <2> HIDE DEF ret
    <2>4. o.net = net /\ o.sock = sock /\ o.ret = ret /\ o.ev = "none"
      BY <2>1, RetFields
    <2> QED BY <1>1, <1>5, <2>2, <2>3, <2>4 DEF HandlerOK, IpTypeOK
  <1> QED BY <1>3, <1>4, <1>5

\* A handler for a that changes only the socket s, and its pointer only to take it back.
OnlySocket(a, o, s) ==
  /\ a.op \notin {"get_devices", "get_routes", "set_priv", "accept"}
  /\ o.net = net /\ o.sock \in [Sockets -> OneSocket] /\ o.ret \in Results /\ o.ev = "none"
  /\ \A t \in Sockets \ {s} : o.sock[t] = sock[t]
  /\ o.sock[s].priv => sock[s].priv
  /\ o.sock[s].priv /\ o.sock[s].q > 0 => sock[s].q > 0
  /\ a.op = "recvfrom" => s = a.s /\ o.ret.more = (o.sock[s].q > 0)
  /\ a.op # "poll"
  /\ a.op = "open" => o.ret.n = s /\ ~o.sock[s].priv

LEMMA OneSocketServed ==
  ASSUME IpTypeOK, NEW a, NEW o, NEW s \in Sockets, OnlySocket(a, o, s)
  PROVE  HandlerOK(a, o)
  <1>1. \A t \in Sockets : /\ o.sock[t].priv => sock[t].priv
                           /\ o.sock[t].priv /\ o.sock[t].q > 0 => sock[t].q > 0
    BY DEF OnlySocket
  <1>2. net \in Nets
    BY DEF IpTypeOK
  <1> QED BY <1>1, <1>2 DEF HandlerOK, OnlySocket

LEMMA NewSockets ==
  /\ FreeSocket \in OneSocket /\ ~FreeSocket.priv /\ FreeSocket.st = "free" /\ FreeSocket.q = 0
  /\ \A q \in Nat : NewSocket(q) \in OneSocket /\ ~NewSocket(q).priv /\ NewSocket(q).q = q
                    /\ NewSocket(q).st = "open"
  BY DEF FreeSocket, NewSocket, OneSocket

LEMMA SocketServed ==
  ASSUME IpTypeOK, NEW a \in Requested, a.s \in Sockets,
         a.op \in {"set_priv", "close", "listen", "recvfrom"}
  PROVE  Served(a)
  <1> SUFFICES ASSUME NEW o \in handle_remcall(a) PROVE HandlerOK(a, o)
    BY DEF Served
  <1> DEFINE s == a.s
  <1>1. net \in Nets /\ s \in Sockets /\ sock[s] \in OneSocket /\ sock \in [Sockets -> OneSocket]
    BY DEF IpTypeOK
  <1>2. CASE a.op = "set_priv"
    <2> DEFINE x == [sock[s] EXCEPT !.priv = (a.n = 1)]
    <2>1. o = [Same EXCEPT !.sock[s].priv = (a.n = 1)]
      BY <1>2 DEF handle_remcall, handle_rem_set_priv
    <2>2. o.net = net /\ o.sock = [sock EXCEPT ![s] = x] /\ o.ret = Okay /\ o.ev = "none"
      BY <1>1, <2>1 DEF Same
    <2>3. x \in OneSocket /\ x.priv = (a.n = 1)
      <3>1. (a.n = 1) \in BOOLEAN
        OBVIOUS
      <3> QED BY <1>1, <3>1 DEF OneSocket
    <2> HIDE DEF x
    <2>4. /\ o.sock \in [Sockets -> OneSocket] /\ o.sock[s] = x
          /\ \A t \in Sockets \ {s} : o.sock[t] = sock[t]
      BY <1>1, <2>2, <2>3
    <2>5. \A t \in Sockets : /\ o.sock[t].priv => sock[t].priv \/ (a.n = 1 /\ t = s)
                             /\ o.sock[t].priv /\ o.sock[t].q > 0 => sock[t].q > 0 \/ (a.n = 1 /\ t = s)
      BY <2>3, <2>4
    <2>6. a.n = 0 => ~o.sock[a.s].priv
      <3>1. o.sock[a.s].priv = (a.n = 1)
        BY <2>3, <2>4
      <3>2. a.n = 0 => (a.n = 1) = FALSE
        OBVIOUS
      <3>3. a.n = 0 => o.sock[a.s].priv = FALSE
        BY <3>1, <3>2, Zenon
      <3> QED BY <3>3
    <2>7. o.net \in Nets /\ o.sock \in [Sockets -> OneSocket] /\ o.ret \in Results
      BY <1>1, <2>2, <2>4, Answers
    <2> QED BY <1>2, <2>2, <2>5, <2>6, <2>7 DEF HandlerOK
  <1>3. CASE a.op = "close"
    <2>1. o = Become(s, FreeSocket) \/ o = [Same EXCEPT !.sock[s].st = "closing"]
      BY <1>3 DEF handle_remcall, handle_rem_pico_socket_close
    <2>2. CASE o = Become(s, FreeSocket)
      <3>1. o.net = net /\ o.sock = [sock EXCEPT ![s] = FreeSocket] /\ o.ret = Okay /\ o.ev = "none"
        BY <2>2, BecomeFields
      <3>2. /\ o.sock \in [Sockets -> OneSocket] /\ o.sock[s] = FreeSocket
            /\ \A t \in Sockets \ {s} : o.sock[t] = sock[t]
        BY <1>1, <3>1, NewSockets
      <3>3. ~o.sock[s].priv /\ o.ret \in Results
        BY <3>1, <3>2, NewSockets, Answers
      <3>4. OnlySocket(a, o, s)
        BY <1>3, <3>1, <3>2, <3>3 DEF OnlySocket
      <3> QED BY <1>1, <3>4, OneSocketServed
    <2>3. CASE o = [Same EXCEPT !.sock[s].st = "closing"]
      <3> DEFINE x == [sock[s] EXCEPT !.st = "closing"]
      <3>1. o.net = net /\ o.sock = [sock EXCEPT ![s] = x] /\ o.ret = Okay /\ o.ev = "none"
        BY <1>1, <2>3 DEF Same
      <3>2. x \in OneSocket /\ x.priv = sock[s].priv /\ x.q = sock[s].q
        BY <1>1 DEF OneSocket
      <3> HIDE DEF x
      <3>3. /\ o.sock \in [Sockets -> OneSocket] /\ o.sock[s] = x
            /\ \A t \in Sockets \ {s} : o.sock[t] = sock[t]
        BY <1>1, <3>1, <3>2
      <3>4. (o.sock[s].priv => sock[s].priv) /\ o.ret \in Results
            /\ (o.sock[s].priv /\ o.sock[s].q > 0 => sock[s].q > 0)
        BY <3>1, <3>2, <3>3, Answers
      <3>5. OnlySocket(a, o, s)
        BY <1>3, <3>1, <3>3, <3>4 DEF OnlySocket
      <3> QED BY <1>1, <3>5, OneSocketServed
    <2> QED BY <2>1, <2>2, <2>3
  <1>4. CASE a.op = "listen"
    <2>1. o = [Same EXCEPT !.sock[s].st = "listen", !.sock[s].q = 0] \/ o = Answer(Failed)
      BY <1>4 DEF handle_remcall, handle_rem_pico_socket_listen
    <2>2. CASE o = Answer(Failed)
      BY <1>1, <1>4, <2>2, RetFields, Answers, SameServed
    <2>3. CASE o = [Same EXCEPT !.sock[s].st = "listen", !.sock[s].q = 0]
      <3> DEFINE x == [sock[s] EXCEPT !.st = "listen"]
                 y == [x EXCEPT !.q = 0]
      <3>1. o.net = net /\ o.ret = Okay /\ o.ev = "none"
        BY <1>1, <2>3 DEF Same
      <3>2. o.sock = [sock EXCEPT ![s] = y]
        BY <1>1, <2>3 DEF Same
      <3>3. x \in OneSocket /\ x.priv = sock[s].priv
        BY <1>1 DEF OneSocket
      <3> HIDE DEF x
      <3>4. y \in OneSocket /\ y.priv = sock[s].priv /\ y.q = 0
        <4>1. 0 \in Nat
          OBVIOUS
        <4> QED BY <3>3, <4>1 DEF OneSocket
      <3> HIDE DEF y
      <3>5. /\ o.sock \in [Sockets -> OneSocket] /\ o.sock[s] = y
            /\ \A t \in Sockets \ {s} : o.sock[t] = sock[t]
        BY <1>1, <3>2, <3>4
      <3>6. (o.sock[s].priv => sock[s].priv) /\ o.ret \in Results
            /\ (o.sock[s].priv /\ o.sock[s].q > 0 => sock[s].q > 0)
        BY <3>1, <3>4, <3>5, Answers
      <3>7. OnlySocket(a, o, s)
        BY <1>4, <3>1, <3>5, <3>6 DEF OnlySocket
      <3> QED BY <1>1, <3>7, OneSocketServed
    <2> QED BY <2>1, <2>2, <2>3
  <1>5. CASE a.op = "recvfrom"
    <2> DEFINE left == IF sock[s].q = 0 THEN 0 ELSE sock[s].q - 1
               x == [sock[s] EXCEPT !.q = left]
    <2>1. o = [Same EXCEPT !.sock[s].q = left, !.ret.more = (left > 0)]
      BY <1>5 DEF handle_remcall, handle_rem_pico_socket_recvfrom
    <2>2. left \in Nat
      BY <1>1 DEF OneSocket
    <2> HIDE DEF left
    <2>3. o.net = net /\ o.sock = [sock EXCEPT ![s] = x] /\ o.ret = [Okay EXCEPT !.more = (left > 0)]
          /\ o.ev = "none"
      BY <1>1, <2>1 DEF Same
    <2>4. x \in OneSocket /\ x.priv = sock[s].priv /\ x.q = left
      BY <1>1, <2>2 DEF OneSocket
    <2>5. o.ret \in Results
      <3>1. (left > 0) \in BOOLEAN
        OBVIOUS
      <3> QED BY <2>3, <3>1, Answers DEF Results
    <2> HIDE DEF x
    <2>6. /\ o.sock \in [Sockets -> OneSocket] /\ o.sock[s] = x
          /\ \A t \in Sockets \ {s} : o.sock[t] = sock[t]
      BY <1>1, <2>3, <2>4
    <2>7. (o.sock[s].priv => sock[s].priv) /\ o.sock[s].q = left
      BY <2>4, <2>6
    <2>8. (o.sock[s].q > 0 => sock[s].q > 0) /\ o.ret.more = (o.sock[s].q > 0)
      <3>1. left > 0 => sock[s].q > 0
        BY <1>1 DEF left, OneSocket
      <3>2. o.ret.more = (left > 0)
        BY <2>3 DEF Okay
      <3> QED BY <2>7, <3>1, <3>2
    <2>9. OnlySocket(a, o, s)
      BY <1>5, <2>3, <2>5, <2>6, <2>7, <2>8 DEF OnlySocket
    <2> QED BY <1>1, <2>9, OneSocketServed
  <1> QED BY <1>2, <1>3, <1>4, <1>5

LEMMA OpenServed ==
  ASSUME IpTypeOK, NEW a \in Requested, a.op = "open"
  PROVE  Served(a)
  <1> SUFFICES ASSUME NEW o \in handle_remcall(a) PROVE HandlerOK(a, o)
    BY DEF Served
  <1>1. net \in Nets /\ sock \in [Sockets -> OneSocket]
    BY DEF IpTypeOK
  <1>2. o \in Fails \/ \E t \in Sockets : o = [Same EXCEPT !.sock[t] = NewSocket(0), !.ret.n = t]
    BY DEF handle_remcall, handle_rem_pico_socket_open
  <1>3. CASE o \in Fails
    BY <1>1, <1>3, RetFields, Answers, SameServed DEF Fails
  <1>4. ASSUME NEW t \in Sockets, o = [Same EXCEPT !.sock[t] = NewSocket(0), !.ret.n = t]
        PROVE  HandlerOK(a, o)
    <2>1. /\ o.net = net /\ o.sock = [sock EXCEPT ![t] = NewSocket(0)] /\ o.ret = [Okay EXCEPT !.n = t]
          /\ o.ev = "none"
      BY <1>4 DEF Same
    <2>2. o.ret \in Results /\ o.ret.n = t
      BY <2>1, Answers, Clean DEF Results
    <2>3. NewSocket(0) \in OneSocket /\ ~NewSocket(0).priv
      BY NewSockets
    <2>4. /\ o.sock \in [Sockets -> OneSocket] /\ o.sock[t] = NewSocket(0)
          /\ \A u \in Sockets \ {t} : o.sock[u] = sock[u]
      BY <1>1, <2>1, <2>3
    <2>5. ~o.sock[t].priv
      BY <2>3, <2>4
    <2>6. OnlySocket(a, o, t)
      BY <2>1, <2>2, <2>4, <2>5 DEF OnlySocket
    <2> QED BY <2>6, OneSocketServed
  <1> QED BY <1>2, <1>3, <1>4

LEMMA AcceptServed ==
  ASSUME IpTypeOK, NEW a \in Requested, a.op = "accept", a.s \in Sockets
  PROVE  Served(a)
  <1> SUFFICES ASSUME NEW o \in handle_remcall(a) PROVE HandlerOK(a, o)
    BY DEF Served
  <1> DEFINE l == a.s
             no == [Failed EXCEPT !.n = 1]
  <1>1. net \in Nets /\ sock \in [Sockets -> OneSocket] /\ l \in Sockets /\ sock[l] \in OneSocket
    BY DEF IpTypeOK
  <1>2. no \in Results /\ ~no.ok
    BY Answers DEF Results
  <1>3. \/ (o \in Fails /\ sock[l].q = 0) \/ o = Answer(no)
        \/ /\ sock[l].st = "listen" /\ sock[l].q # 0
           /\ \E t \in Sockets, q \in 0 .. client.queue :
                sock[t].st = "free" /\ o = [Same EXCEPT !.sock[l].q = @ - 1, !.sock[t] = NewSocket(q), !.ret.n = t]
    <2> DEFINE free == {s \in Sockets : sock[s].st = "free"}
    <2>1. o \in handle_rem_pico_socket_accept(a)
      BY DEF handle_remcall
    <2>2. o \in IF sock[l].st = "listen" /\ sock[l].q = 0 THEN Fails
                ELSE IF sock[l].st # "listen" \/ free = {} THEN {Answer(no)}
                ELSE {Accepted(l, t, q) : t \in free, q \in 0 .. client.queue}
      BY <2>1 DEF handle_rem_pico_socket_accept
    <2> HIDE DEF no
    <2>3. \/ (o \in Fails /\ sock[l].q = 0) \/ o = Answer(no)
          \/ /\ sock[l].st = "listen" /\ sock[l].q # 0
             /\ \E t \in free, q \in 0 .. client.queue : o = Accepted(l, t, q)
      BY <2>2
    <2> QED BY <2>3 DEF Accepted
  <1> HIDE DEF no
  <1>4. CASE (o \in Fails /\ sock[l].q = 0) \/ o = Answer(no)
    <2>1. CASE o \in Fails /\ sock[l].q = 0
      <3>1. o = Answer(Failed) /\ sock[l].q = 0
        BY <2>1 DEF Fails
      <3> QED BY <1>1, <3>1, RetFields, Answers, SameServed
    <2>2. CASE o = Answer(no)
      <3>1. no # Failed
        <4>1. no.n = 1
          BY DEF no, Failed, Okay
        <4> QED BY <4>1, Answers
      <3> QED BY <1>1, <1>2, <2>2, <3>1, RetFields, SameServed
    <2> QED BY <1>4, <2>1, <2>2
  <1>5. ASSUME sock[l].st = "listen", sock[l].q # 0, NEW t \in Sockets, NEW q \in Nat, sock[t].st = "free",
               o = [Same EXCEPT !.sock[l].q = @ - 1, !.sock[t] = NewSocket(q), !.ret.n = t]
        PROVE  HandlerOK(a, o)
    <2> DEFINE x == [sock[l] EXCEPT !.q = sock[l].q - 1]
    <2>1. /\ o.net = net /\ o.ret = [Okay EXCEPT !.n = t] /\ o.ev = "none"
      BY <1>5 DEF Same
    <2>2. o.sock = [sock EXCEPT ![l] = x, ![t] = NewSocket(q)]
      BY <1>1, <1>5 DEF Same
    <2>3. o.ret \in Results /\ o.ret.n = t
      BY <2>1, Answers, Clean DEF Results
    <2>4. NewSocket(q) \in OneSocket /\ ~NewSocket(q).priv
      BY NewSockets
    <2>5. x \in OneSocket /\ x.priv = sock[l].priv
      <3>1. sock[l].q - 1 \in Nat
        BY <1>1, <1>5 DEF OneSocket
      <3> QED BY <1>1, <3>1 DEF OneSocket
    <2> HIDE DEF x
    <2>6. /\ o.sock \in [Sockets -> OneSocket] /\ o.sock[t] = NewSocket(q)
          /\ \A u \in Sockets \ {t} : o.sock[u] = IF u = l THEN x ELSE sock[u]
      BY <1>1, <2>2, <2>4, <2>5
    <2>7. \A u \in Sockets : /\ o.sock[u].priv => sock[u].priv
                             /\ o.sock[u].priv /\ o.sock[u].q > 0 => sock[u].q > 0
      BY <1>1, <1>5, <2>4, <2>5, <2>6 DEF OneSocket
    <2>8. o.ret.ok
      BY <2>1, Answers DEF Okay
    <2>9. o.ret # Failed
      BY <2>8, Answers
    <2> QED BY <1>1, <2>1, <2>3, <2>4, <2>6, <2>7, <2>9 DEF HandlerOK
  <1>6. 0 .. client.queue \subseteq Nat
    OBVIOUS
  <1> QED BY <1>3, <1>4, <1>5, <1>6

LEMMA AllServed ==
  ASSUME IpTypeOK, NEW a \in Requested, a.op \in Ops \ {"dhcp", "ping", "lock", "unlock"},
         a.op \in SocketOps => a.s \in Sockets
  PROVE  Served(a)
  BY ServerServed, PlainServed, SocketServed, OpenServed, AcceptServed
  DEF Ops, SocketOps, UpcallOps, ServerOps, SlockOps, BareOps
----------------------------------------------------------------------------
(* What a step changes.                                                    *)

LEMMA PcStep ==
  ASSUME IpTypeOK, NEW t \in Threads, NEW w, Goto(t, w)
  PROVE  pc'[t] = w /\ \A u \in Threads \ {t} : pc'[u] = pc[u]
  BY DEF Goto, IpTypeOK

LEMMA ClientStays ==
  ASSUME [IpNext]_ivars
  PROVE  client' = client /\ Sockets' = Sockets /\ Events' = Events /\ Requested' = Requested
         /\ client'.queue = client.queue
  <1>1. client' = client
    BY DEF IpNext, Slave, Event, Control, Stack, Linux, s_request_irq_handle, Handle, Leave, handle_rem_dhcp,
           DhcpOver, DhcpAnswer, DhcpServers, handle_rem_ping, PingOver, begin_master_request, handle_socket_event,
           do_master_request, end_master_request, m_confirm_irq_handle, irq_handle, TickWait, TickLock,
           TickUnlock, SocketEvent, dhcp_callback, DhcpFinished, ping4_callback, LinuxCall, LinuxReturn,
           LinuxEvent, ivars
  <1> QED BY <1>1 DEF Sockets, Events, Requested

\* The cases of a step.
LEMMA StepCases ==
  ASSUME [IpNext]_ivars
  PROVE  \/ s_request_irq_handle \/ Handle \/ Leave \/ handle_rem_dhcp \/ DhcpOver \/ DhcpAnswer
         \/ DhcpServers \/ handle_rem_ping \/ PingOver
         \/ \E t \in Threads : \/ begin_master_request(t) \/ handle_socket_event(t)
                               \/ do_master_request(t) \/ end_master_request(t)
         \/ m_confirm_irq_handle \/ irq_handle \/ TickWait \/ TickLock \/ TickUnlock
         \/ (\E s \in Sockets : SocketEvent(s)) \/ (\E c \in clients : dhcp_callback(c))
         \/ DhcpFinished \/ ping4_callback \/ LinuxCall \/ LinuxReturn \/ LinuxEvent \/ UNCHANGED ivars
  BY DEF IpNext, Slave, Event, Control, Stack, Linux, Threads

\* An answer with a number.
LEMMA SetNumber ==
  ASSUME NEW n \in Nat
  PROVE  [Okay EXCEPT !.n = n] \in Results /\ [Okay EXCEPT !.n = n].n = n /\ [Okay EXCEPT !.n = n].ok
  BY Answers DEF Okay, Results

LEMMA FitsIn ==
  ASSUME NEW n \in Nat, NEW max \in Nat
  PROVE  AtMost(n, max) \in Nat /\ AtMost(n, max) <= max
  BY DEF AtMost

LEMMA IdleRequested == Idle \in Requested /\ Idle.op = "none" /\ Idle.s = 0 /\ Idle.n = 0 /\ Idle.name = "none"
  BY DEF Idle, Asks, Requested

\* The kinds of request.
PlainRequests ==
  {Asks(o, 0, "none", 0) :
     o \in client.ops \cap (IF HasLock THEN {"unlock", "open"}
                                ELSE {"lock", "timer"} \cup (ServerOps \ ({"ping"} \cup NamedOps)))}
NamedRequests ==
  {Asks(o, 0, name, 0) :
     o \in {x \in client.ops \cap NamedOps : ~HasLock}, name \in {"lo", "eth0", "none"}}
PingRequests ==
  {Asks(o, 0, "none", n) :
     o \in {x \in client.ops \cap {"ping"} : ~HasLock}, n \in {m \in PingCounts : CountFits(m)}}
SocketRequests ==
  {Asks(o, s, "none", 0) :
     o \in {x \in client.ops \cap (SlockOps \cup {"accept", "poll", "shutdown"}) :
              HasLock <=> ~Locks([op |-> x])},
     s \in {t \in Sockets : object[t] = "live"}}
PrivRequests ==
  {Asks("set_priv", s, "none", IF object[s] = "known" THEN 1 ELSE 0) :
     s \in {t \in Sockets : HasLock /\ object[t] # "none" /\ "set_priv" \in client.ops}}
CloseRequests ==
  {Asks("close", s, "none", 0) :
     s \in {t \in Sockets : HasLock /\ object[t] = "known" /\ "close" \in client.ops}}

LEMMA RequestKinds ==
  Requests = PlainRequests \cup NamedRequests \cup PingRequests \cup SocketRequests \cup PrivRequests
             \cup CloseRequests
  BY DEF Requests, PlainRequests, NamedRequests, PingRequests, SocketRequests, PrivRequests, CloseRequests

\* What Linux may ask for.
LEMMA RequestsOK ==
  ASSUME IpTypeOK, NEW a \in Requests
  PROVE  /\ a \in Requested /\ a.op \in Ops
         /\ ~HasLock => a.op \notin BareOps /\ (a.op \in SlockOps => MinLock) /\ a.op # "unlock"
         /\ HasLock => ~Locks(a) /\ a.op # "lock"
         /\ a.op \in SocketOps => a.s \in Sockets
         /\ a.op = "ping" => a.n <= SEL4IP_MAX_PING
         /\ a.op = "set_priv" => a.n = IF object[a.s] = "known" THEN 1 ELSE 0
         /\ a.op = "set_priv" => object[a.s] # "none"
         /\ a.op = "close" => object[a.s] = "known"
         /\ a.op \in SlockOps \cup {"accept", "poll", "shutdown"} => object[a.s] = "live"
  <1> DEFINE Plain == IF HasLock THEN {"unlock", "open"}
                      ELSE {"lock", "timer"} \cup (ServerOps \ ({"ping"} \cup NamedOps))
             Busy == SlockOps \cup {"accept", "poll", "shutdown"}
             live == {t \in Sockets : object[t] = "live"}
  <1>2. CASE \E o \in Plain : a = Asks(o, 0, "none", 0)
    <2>1. PICK o \in Plain : a = Asks(o, 0, "none", 0)
      BY <1>2
    <2>2. o \in Ops /\ o \in {"unlock", "open", "lock", "timer", "init_eth", "get_devices", "get_routes", "dhcp"}
          /\ (~HasLock => o \notin {"unlock", "open"}) /\ (HasLock => o \in {"unlock", "open"})
      BY DEF Ops, ServerOps, NamedOps, BareOps
    <2> HIDE DEF Plain
    <2>3. a \in Requested /\ a.op = o
      BY <2>1, <2>2 DEF Asks, Requested
    <2> QED BY <2>2, <2>3 DEF SlockOps, BareOps, SocketOps, Locks, ServerOps
  <1>3. CASE \E o \in NamedOps, name \in {"lo", "eth0", "none"} :
               ~HasLock /\ a = Asks(o, 0, name, 0)
    <2>1. PICK o \in NamedOps, name \in {"lo", "eth0", "none"} : a = Asks(o, 0, name, 0)
      BY <1>3
    <2>2. a \in Requested /\ a.op = o
      BY <2>1 DEF Asks, Requested, Ops, ServerOps, NamedOps
    <2> QED BY <1>3, <2>2 DEF SlockOps, BareOps, SocketOps, NamedOps, Ops, ServerOps
  <1>4. CASE \E n \in PingCounts : ~HasLock /\ CountFits(n) /\ a = Asks("ping", 0, "none", n)
    <2>1. PICK n \in PingCounts : CountFits(n) /\ a = Asks("ping", 0, "none", n)
      BY <1>4
    <2>2. a \in Requested /\ a.op = "ping" /\ a.n = n
      BY <2>1, IpServAssumption DEF Asks, Requested, Ops, ServerOps
    <2>3. a.n <= SEL4IP_MAX_PING
      BY <2>1, <2>2 DEF CountFits
    <2> QED BY <1>4, <2>2, <2>3 DEF SlockOps, BareOps, SocketOps, Ops, ServerOps
  <1>5. CASE \E o \in Busy, s \in live :
               (HasLock <=> ~Locks([op |-> o])) /\ a = Asks(o, s, "none", 0)
    <2>1. PICK o \in Busy, s \in live : (HasLock <=> ~Locks([op |-> o])) /\ a = Asks(o, s, "none", 0)
      BY <1>5
    <2>2. a \in Requested /\ a.op = o /\ a.s = s
      BY <2>1 DEF Asks, Requested, Ops, BareOps
    <2>3. Locks(a) = Locks([op |-> o])
      BY <2>2 DEF Locks
    <2>4. HasLock <=> ~Locks(a)
      <3>1. HasLock \in BOOLEAN /\ Locks(a) \in BOOLEAN
        BY DEF HasLock, Locks
      <3> QED BY <2>1, <2>3, <3>1
    <2>5. o \in SlockOps \cup {"accept", "poll", "shutdown"} /\ object[s] = "live" /\ s \in Sockets
      OBVIOUS
    <2> HIDE DEF Busy, live
    <2>6. ~HasLock => a.op \notin BareOps /\ (a.op \in SlockOps => MinLock) /\ a.op # "unlock"
      BY <2>2, <2>4, <2>5 DEF SlockOps, BareOps, ServerOps, Locks
    <2> QED BY <2>2, <2>4, <2>5, <2>6 DEF SlockOps, BareOps, SocketOps, Ops
  <1>6. CASE \E s \in Sockets : HasLock /\ object[s] # "none"
               /\ a = Asks("set_priv", s, "none", IF object[s] = "known" THEN 1 ELSE 0)
    <2>1. PICK s \in Sockets : object[s] # "none"
               /\ a = Asks("set_priv", s, "none", IF object[s] = "known" THEN 1 ELSE 0)
      BY <1>6
    <2>2. a \in Requested /\ a.op = "set_priv" /\ a.s = s /\ a.n = IF object[s] = "known" THEN 1 ELSE 0
      BY <2>1 DEF Asks, Requested, Ops, BareOps
    <2> QED BY <1>6, <2>1, <2>2 DEF SlockOps, BareOps, SocketOps, Ops, ServerOps, Locks
  <1>7. CASE \E s \in Sockets : HasLock /\ object[s] = "known" /\ a = Asks("close", s, "none", 0)
    <2>1. PICK s \in Sockets : object[s] = "known" /\ a = Asks("close", s, "none", 0)
      BY <1>7
    <2>2. a \in Requested /\ a.op = "close" /\ a.s = s
      BY <2>1 DEF Asks, Requested, Ops, BareOps
    <2> QED BY <1>7, <2>1, <2>2 DEF SlockOps, BareOps, SocketOps, Ops, ServerOps, Locks
  <1>8. a \in PlainRequests \/ a \in NamedRequests \/ a \in PingRequests \/ a \in SocketRequests
        \/ a \in PrivRequests \/ a \in CloseRequests
    BY RequestKinds
  <1>9. a \in PlainRequests => \E o \in Plain : a = Asks(o, 0, "none", 0)
    BY DEF PlainRequests
  <1>10. a \in NamedRequests => \E o \in NamedOps, name \in {"lo", "eth0", "none"} :
                                  ~HasLock /\ a = Asks(o, 0, name, 0)
    BY DEF NamedRequests
  <1>11. a \in PingRequests => \E n \in PingCounts : ~HasLock /\ CountFits(n) /\ a = Asks("ping", 0, "none", n)
    BY DEF PingRequests
  <1>12. a \in SocketRequests =>
           \E o \in client.ops \cap Busy, s \in live : (HasLock <=> ~Locks([op |-> o])) /\ a = Asks(o, s, "none", 0)
    BY DEF SocketRequests
  <1> QED BY <1>2, <1>3, <1>4, <1>5, <1>6, <1>7, <1>8, <1>9, <1>10, <1>11, <1>12 DEF PrivRequests, CloseRequests

\* The work of a call.
LEMMA Handled ==
  ASSUME IpTypeOK, LocksOK, Handle, NEW o \in handle_remcall(sreq)
  PROVE  HandlerOK(sreq, o)
  <1>1. pc["slave"] = "call" /\ sreq.op \notin {"dhcp", "ping"}
    BY DEF Handle, At
  <1>2. sreq.op \notin {"lock", "unlock", "none"} /\ (sreq.op \in SocketOps => sreq.s \in Sockets)
    BY <1>1 DEF LocksOK, Working
  <1>3. sreq \in Requested /\ sreq.op \in Ops \ {"dhcp", "ping", "lock", "unlock"}
    BY <1>1, <1>2 DEF IpTypeOK, Requested
  <1> QED BY <1>2, <1>3, AllServed DEF Served

LEMMA TypeStays ==
  ASSUME IpInv, [IpNext]_ivars
  PROVE  IpTypeOK'
  <1> USE DEF Threads, Serving, Working, Upcalls
  <1>0. IpTypeOK /\ LocksOK
    BY DEF IpInv
  <1>00. Sockets' = Sockets /\ Events' = Events /\ Requested' = Requested /\ client' = client
    BY ClientStays
  <1>1. CASE s_request_irq_handle
    BY <1>0, <1>00, <1>1, Answers DEF IpTypeOK, s_request_irq_handle, Goto, upcall, dhcp, ping, linux
  <1>2. CASE Handle
    <2>1. PICK o \in handle_remcall(sreq) :
             /\ net' = o.net /\ sock' = o.sock /\ sres' = o.ret
             /\ event' = [event EXCEPT !["slave"] = [s |-> sreq.s, ev |-> o.ev]]
             /\ Goto("slave", IF o.ev = "none" THEN "leave" ELSE "event")
      BY <1>2 DEF Handle
    <2>2. HandlerOK(sreq, o)
      BY <1>0, <1>2, <2>1, Handled
    <2>3. net' \in Nets /\ sock' \in [Sockets -> OneSocket] /\ sres' \in Results
      BY <2>1, <2>2 DEF HandlerOK
    <2>4. event' \in [Threads -> Events]
      <3>1. [s |-> sreq.s, ev |-> o.ev] \in Events
        BY <1>0, <2>2 DEF Events, HandlerOK, IpTypeOK, Requested
      <3> QED BY <1>0, <2>1, <3>1 DEF IpTypeOK
    <2>5. pc' \in [Threads -> {"idle", "lock", "stack", "callback"} \cup Serving]
      BY <1>0, <2>1 DEF IpTypeOK, Goto
    <2> QED BY <1>0, <1>00, <1>2, <2>3, <2>4, <2>5 DEF IpTypeOK, Handle, locks, upcall, dhcp, ping, linux
  <1>3. CASE Leave
    BY <1>0, <1>00, <1>3 DEF IpTypeOK, Leave, Unlocked, Goto, upcall, buffer, dhcp, ping, linux
  <1>4. CASE handle_rem_dhcp
    <2>1. clients' \in SUBSET {"own", "old"} /\ sres' \in Results /\ dhcp_finished' \in BOOLEAN
      BY <1>0, <1>4, Answers DEF IpTypeOK, handle_rem_dhcp, ResetFinished
    <2>2. pc' \in [Threads -> {"idle", "lock", "stack", "callback"} \cup Serving]
      BY <1>0, <1>4 DEF IpTypeOK, handle_rem_dhcp, Goto
    <2> QED BY <1>0, <1>00, <1>4, <2>1, <2>2 DEF IpTypeOK, handle_rem_dhcp, upcall, ping, linux
  <1>5. CASE DhcpOver
    BY <1>0, <1>00, <1>5 DEF IpTypeOK, DhcpOver, Goto, locks, upcall, buffer, ping, linux
  <1>6. CASE DhcpAnswer \/ DhcpServers
    <2>1. ASSUME NEW n \in 0 .. MaxServers
          PROVE  [Okay EXCEPT !.n = AtMost(n, SEL4IP_MAX_NAMESERVERS)] \in Results
      BY SetNumber, FitsIn, IpServAssumption
    <2>2. sres' \in Results
      BY <1>0, <1>6, <2>1, Answers DEF IpTypeOK, DhcpAnswer, DhcpServers
    <2> QED BY <1>0, <1>00, <1>6, <2>2 DEF IpTypeOK, DhcpAnswer, DhcpServers, Goto, locks, upcall, dhcp, ping, linux
  <1>7. CASE handle_rem_ping
    <2>1. sres' \in Results /\ pings' \in Nat
      BY <1>0, <1>7, Answers DEF handle_rem_ping, IpTypeOK, Requested
    <2> QED BY <1>0, <1>00, <1>7, <2>1 DEF IpTypeOK, handle_rem_ping, GiveLock, Goto, upcall, dhcp, linux
  <1>8. CASE PingOver
    <2>1. sres' \in Results
      BY <1>0, <1>8, SetNumber DEF PingOver, IpTypeOK
    <2> QED BY <1>0, <1>00, <1>8, <2>1 DEF IpTypeOK, PingOver, Goto, locks, upcall, dhcp, ping, linux
  <1>9. CASE \E t \in Threads : begin_master_request(t)
    BY <1>0, <1>00, <1>9 DEF IpTypeOK, begin_master_request, Goto, upcall, buffer, dhcp, ping, linux
  <1>10. CASE \E t \in Threads : handle_socket_event(t)
    <2>1. PICK t \in Threads : handle_socket_event(t)
      BY <1>10
    <2>2. mreq' \in Events
      BY <1>0, <2>1 DEF IpTypeOK, handle_socket_event
    <2>3. sock' \in [Sockets -> OneSocket]
      BY <1>0, <2>1, NewSockets DEF IpTypeOK, handle_socket_event
    <2>4. pc' \in [Threads -> {"idle", "lock", "stack", "callback"} \cup Serving]
      BY <1>0, <2>1 DEF IpTypeOK, handle_socket_event, Goto
    <2> QED BY <1>0, <1>00, <2>1, <2>2, <2>3, <2>4
            DEF IpTypeOK, handle_socket_event, locks, buffer, dhcp, ping, linux
  <1>11. CASE \E t \in Threads : do_master_request(t)
    <2>1. PICK t \in Threads : do_master_request(t)
      BY <1>11
    <2>2. pc' \in [Threads -> {"idle", "lock", "stack", "callback"} \cup Serving]
      BY <1>0, <2>1 DEF IpTypeOK, do_master_request, Goto
    <2> QED BY <1>0, <1>00, <2>1, <2>2 DEF IpTypeOK, do_master_request, locks, buffer, dhcp, ping, linux
  <1>12. CASE \E t \in Threads : end_master_request(t)
    <2>1. None \in Events
      BY DEF None, Events
    <2>2. PICK t \in Threads : end_master_request(t)
      BY <1>12
    <2>3. event' \in [Threads -> Events]
      BY <1>0, <2>1, <2>2 DEF IpTypeOK, end_master_request
    <2>4. pc' \in [Threads -> {"idle", "lock", "stack", "callback"} \cup Serving]
      BY <1>0, <2>2 DEF IpTypeOK, end_master_request, Goto
    <2> QED BY <1>0, <1>00, <2>2, <2>3, <2>4
            DEF IpTypeOK, end_master_request, upcall, buffer, dhcp, ping, linux
  <1>13. CASE m_confirm_irq_handle
    BY <1>0, <1>00, <1>13 DEF IpTypeOK, m_confirm_irq_handle, locks, threads, buffer, dhcp, ping, linux
  <1>14. CASE irq_handle
    BY <1>0, <1>00, <1>14 DEF IpTypeOK, irq_handle, locks, threads, upcall, buffer, dhcp, ping, linux
  <1>15. CASE TickWait
    BY <1>0, <1>00, <1>15 DEF IpTypeOK, TickWait, Goto, locks, upcall, buffer, dhcp, ping, linux
  <1>16. CASE TickLock
    BY <1>0, <1>00, <1>16 DEF IpTypeOK, TickLock, TakeLock, Goto, upcall, buffer, dhcp, ping, linux
  <1>17. CASE TickUnlock
    BY <1>0, <1>00, <1>17 DEF IpTypeOK, TickUnlock, Goto, upcall, buffer, dhcp, ping, linux
  <1>18. CASE \E s \in Sockets : SocketEvent(s)
    <2>1. PICK s \in Sockets, ev \in {"read", "write", "close"} :
             /\ sock' = IF ev = "read" THEN [sock EXCEPT ![s].q = @ + 1] ELSE sock
             /\ event' = [event EXCEPT !["tick"] = [s |-> s, ev |-> ev]]
             /\ SocketEvent(s)
      BY <1>18 DEF SocketEvent
    <2>2. sock' \in [Sockets -> OneSocket]
      <3>1. sock[s] \in OneSocket
        BY <1>0 DEF IpTypeOK
      <3>2. sock[s].q + 1 \in Nat
        BY <3>1 DEF OneSocket
      <3>3. [sock[s] EXCEPT !.q = @ + 1] \in OneSocket
        BY <3>1, <3>2 DEF OneSocket
      <3> QED BY <1>0, <2>1, <3>3 DEF IpTypeOK
    <2>3. event' \in [Threads -> Events]
      <3>1. [s |-> s, ev |-> ev] \in Events
        BY DEF Events
      <3> QED BY <1>0, <2>1, <3>1 DEF IpTypeOK
    <2>4. pc' \in [Threads -> {"idle", "lock", "stack", "callback"} \cup Serving]
      BY <1>0, <2>1 DEF IpTypeOK, SocketEvent, Goto
    <2> QED BY <1>0, <1>00, <2>1, <2>2, <2>3, <2>4 DEF IpTypeOK, SocketEvent, locks, upcall, buffer, dhcp, ping, linux
  <1>19. CASE \E c \in clients : dhcp_callback(c)
    <2>1. PICK c \in clients, code \in {"success", "error"} :
             /\ dhcp_code' = code /\ codeOf' = c
             /\ net' = IF code = "success" THEN Link ELSE net
             /\ clients' = IF code = "success" THEN clients ELSE clients \ {c}
             /\ dhcp_callback(c)
      BY <1>19 DEF dhcp_callback
    <2>2. Link \in Nets
      BY <1>0 DEF IpTypeOK, Nets, Link
    <2>3. net' \in Nets
      BY <1>0, <2>1, <2>2 DEF IpTypeOK
    <2>4. dhcp_code' \in {"success", "error"} /\ codeOf' \in {"own", "old", "timeout"}
          /\ clients' \in SUBSET {"own", "old"}
      BY <1>0, <2>1 DEF IpTypeOK
    <2> QED BY <1>0, <1>00, <2>1, <2>3, <2>4 DEF IpTypeOK, dhcp_callback, Goto, locks, upcall, buffer, ping, linux
  <1>20. CASE DhcpFinished
    BY <1>0, <1>00, <1>20 DEF IpTypeOK, DhcpFinished, Goto, locks, upcall, buffer, ping, linux
  <1>21. CASE ping4_callback
    BY <1>0, <1>00, <1>21 DEF IpTypeOK, ping4_callback, locks, threads, upcall, buffer, dhcp, linux
  <1>22. CASE LinuxCall
    <2>1. PICK a \in Requests :
             /\ sreq' = a
             /\ object' = IF a.op = "set_priv" /\ a.n = 1 THEN [object EXCEPT ![a.s] = "live"] ELSE object
      BY <1>22 DEF LinuxCall
    <2>2. a \in Requested
      BY <1>0, <2>1, RequestsOK
    <2>3. object' \in [Sockets -> {"none", "known", "live"}]
      BY <1>0, <2>1, <2>2 DEF IpTypeOK
    <2>4. pc' \in [Threads -> {"idle", "lock", "stack", "callback"} \cup Serving]
      BY <1>0, <1>22 DEF IpTypeOK, LinuxCall, Goto
    <2> QED BY <1>0, <1>00, <1>22, <2>1, <2>2, <2>3, <2>4 DEF IpTypeOK, LinuxCall, locks, upcall, dhcp, ping
  <1>23. CASE LinuxReturn
    <2>1. object' \in [Sockets -> {"none", "known", "live"}]
      BY <1>0, <1>23 DEF IpTypeOK, LinuxReturn
    <2>2. readable' \in [Sockets -> BOOLEAN]
      <3>1. (sreq.n = 1) \in BOOLEAN /\ sres.more \in BOOLEAN /\ FALSE \in BOOLEAN
        BY <1>0 DEF IpTypeOK, Results
      <3> QED BY <1>0, <1>23, <3>1 DEF IpTypeOK, LinuxReturn
    <2>3. sreq' \in Requested /\ sres' \in Results
      BY <1>00, <1>23, Answers, IdleRequested DEF LinuxReturn
    <2>4. pc' \in [Threads -> {"idle", "lock", "stack", "callback"} \cup Serving]
      BY <1>0, <1>23 DEF IpTypeOK, LinuxReturn, Goto
    <2> QED BY <1>0, <1>00, <1>23, <2>1, <2>2, <2>3, <2>4 DEF IpTypeOK, LinuxReturn, locks, upcall, dhcp, ping
  <1>24. CASE LinuxEvent
    <2>1. None \in Events
      BY DEF None, Events
    <2>2. readable' \in [Sockets -> BOOLEAN]
      BY <1>0, <1>24 DEF IpTypeOK, LinuxEvent
    <2> QED BY <1>0, <1>00, <1>24, <2>1, <2>2 DEF IpTypeOK, LinuxEvent, locks, threads, buffer, dhcp, ping
  <1>25. CASE UNCHANGED ivars
    BY <1>0, <1>00, <1>25 DEF IpTypeOK, ivars, locks, threads, upcall, buffer, dhcp, ping, linux
  <1> QED BY <1>1, <1>2, <1>3, <1>4, <1>5, <1>6, <1>7, <1>8, <1>9, <1>10, <1>11, <1>12, <1>13, <1>14, <1>15,
             <1>16, <1>17, <1>18, <1>19, <1>20, <1>21, <1>22, <1>23, <1>24, <1>25, StepCases
LEMMA LocksStay ==
  ASSUME IpInv, [IpNext]_ivars
  PROVE  LocksOK'
  <1> USE DEF Threads, Serving, Working, Upcalls, UpcallOps
  <1>0. IpTypeOK /\ LocksOK /\ pc \in [Threads -> {"idle", "lock", "stack", "callback"} \cup Serving]
    BY DEF IpInv, IpTypeOK
  <1>00. Sockets' = Sockets
    BY ClientStays
  <1>1. CASE s_request_irq_handle
    <2>1. pc["slave"] = "request" /\ pc'["tick"] = pc["tick"] /\ sreq' = sreq /\ call' = call
      BY <1>0, <1>1 DEF s_request_irq_handle, At, Goto, linux
    <2>2. \/ sreq.op = "lock" /\ stackLock = "free" /\ stackLock' = "linux" /\ pc'["slave"] = "confirm"
          \/ sreq.op = "unlock" /\ stackLock' = "free" /\ pc'["slave"] = "confirm"
          \/ Locks(sreq) /\ stackLock = "free" /\ stackLock' = "slave" /\ pc'["slave"] = "call"
          \/ sreq.op \notin {"lock", "unlock"} /\ ~Locks(sreq) /\ stackLock' = stackLock /\ pc'["slave"] = "call"
      BY <1>0, <1>1 DEF s_request_irq_handle, Goto
    <2>3. Locks(sreq) => sreq.op \notin {"lock", "unlock", "timer"}
      BY DEF Locks, ServerOps, SlockOps
    <2> QED BY <1>0, <1>00, <2>1, <2>2, <2>3 DEF LocksOK
  <1>2. CASE Handle
    <2>1. PICK o \in handle_remcall(sreq) : Goto("slave", IF o.ev = "none" THEN "leave" ELSE "event")
      BY <1>2 DEF Handle
    <2>2. o.ev # "none" => sreq.op \in UpcallOps
      BY <1>0, <1>2, Handled DEF HandlerOK
    <2>3. pc["slave"] = "call" /\ sreq' = sreq /\ call' = call /\ stackLock' = stackLock
      BY <1>2 DEF Handle, At, locks, linux
    <2>4. pc'["tick"] = pc["tick"] /\ (pc'["slave"] = "leave" \/ (pc'["slave"] = "event" /\ o.ev # "none"))
      BY <1>0, <2>1 DEF Goto
    <2>5. pc'["slave"] = "leave" \/ (pc'["slave"] = "event" /\ sreq.op \in UpcallOps)
      BY <2>2, <2>4
    <2> QED BY <1>0, <1>00, <2>3, <2>4, <2>5 DEF LocksOK
  <1>3. CASE Leave
    BY <1>0, <1>00, <1>3 DEF Leave, LocksOK, Goto, At, locks, threads, upcall, buffer, dhcp, ping, linux, Unlocked
  <1>4. CASE handle_rem_dhcp
    <2>1. pc["slave"] = "call" /\ sreq.op = "dhcp" /\ pc'["tick"] = pc["tick"] /\ sreq' = sreq /\ call' = call
          /\ stackLock' = "free" /\ pc'["slave"] \in {"dhcp", "confirm"}
      BY <1>0, <1>4 DEF handle_rem_dhcp, At, Goto, linux
    <2>2. Locks(sreq)
      BY <2>1 DEF Locks, ServerOps
    <2> QED BY <1>0, <1>00, <2>1, <2>2 DEF LocksOK
  <1>5. CASE DhcpOver
    BY <1>0, <1>00, <1>5 DEF DhcpOver, LocksOK, Goto, At, locks, threads, upcall, buffer, dhcp, ping, linux
  <1>6. CASE DhcpAnswer \/ DhcpServers
    BY <1>0, <1>00, <1>6 DEF DhcpAnswer, DhcpServers, LocksOK, Goto, At, locks, threads, upcall, buffer, dhcp, ping, linux
  <1>7. CASE handle_rem_ping
    <2>1. pc["slave"] = "call" /\ sreq.op = "ping" /\ pc'["tick"] = pc["tick"] /\ sreq' = sreq /\ call' = call
          /\ stackLock' = "free" /\ pc'["slave"] \in {"ping", "confirm"}
      BY <1>0, <1>7 DEF handle_rem_ping, GiveLock, At, Goto, linux
    <2>2. Locks(sreq)
      BY <2>1 DEF Locks, ServerOps
    <2> QED BY <1>0, <1>00, <2>1, <2>2 DEF LocksOK
  <1>8. CASE PingOver
    BY <1>0, <1>00, <1>8 DEF PingOver, LocksOK, Goto, At, locks, threads, upcall, buffer, dhcp, ping, linux
  <1>9. CASE \E t \in Threads : begin_master_request(t)
    BY <1>0, <1>00, <1>9 DEF begin_master_request, LocksOK, Goto, At, locks, threads, upcall, buffer, dhcp, ping, linux
  <1>10. CASE \E t \in Threads : handle_socket_event(t)
    BY <1>0, <1>00, <1>10 DEF handle_socket_event, LocksOK, Goto, At, locks, threads, upcall, buffer, dhcp, ping, linux
  <1>11. CASE \E t \in Threads : do_master_request(t)
    BY <1>0, <1>00, <1>11 DEF do_master_request, LocksOK, Goto, At, locks, threads, upcall, buffer, dhcp, ping, linux
  <1>12. CASE \E t \in Threads : end_master_request(t)
    BY <1>0, <1>00, <1>12 DEF end_master_request, LocksOK, Goto, At, locks, threads, upcall, buffer, dhcp, ping, linux, None
  <1>13. CASE TickWait
    BY <1>0, <1>00, <1>13 DEF TickWait, LocksOK, Goto, At, locks, threads, upcall, buffer, dhcp, ping, linux
  <1>14. CASE TickLock
    BY <1>0, <1>00, <1>14 DEF TickLock, LocksOK, Goto, At, locks, threads, upcall, buffer, dhcp, ping, linux, TakeLock
  <1>15. CASE TickUnlock
    BY <1>0, <1>00, <1>15 DEF TickUnlock, LocksOK, Goto, At, locks, threads, upcall, buffer, dhcp, ping, linux
  <1>16. CASE \E s \in Sockets : SocketEvent(s)
    BY <1>0, <1>00, <1>16 DEF SocketEvent, LocksOK, Goto, At, locks, threads, upcall, buffer, dhcp, ping, linux
  <1>17. CASE \E c \in clients : dhcp_callback(c)
    BY <1>0, <1>00, <1>17 DEF dhcp_callback, LocksOK, Goto, At, locks, threads, upcall, buffer, dhcp, ping, linux
  <1>18. CASE DhcpFinished
    BY <1>0, <1>00, <1>18 DEF DhcpFinished, LocksOK, Goto, At, locks, threads, upcall, buffer, dhcp, ping, linux
  <1>19. CASE LinuxCall
    <2>1. pc["slave"] = "idle" /\ pc'["tick"] = pc["tick"] /\ pc'["slave"] = "request" /\ call' = TRUE
          /\ stackLock' = stackLock /\ sreq' \in Requests
      BY <1>0, <1>19 DEF LinuxCall, At, Goto, locks
    <2>2. sreq' \in Requested /\ sreq'.op \in Ops /\ (sreq'.op \in SocketOps => sreq'.s \in Sockets)
      BY <1>0, <2>1, RequestsOK
    <2>3. stackLock # "linux" => sreq'.op \notin BareOps /\ (sreq'.op \in SlockOps => MinLock) /\ sreq'.op # "unlock"
      BY <1>0, <2>1, RequestsOK DEF HasLock
    <2>4. stackLock # "linux" => Locks(sreq') \/ sreq'.op \in {"lock", "timer"}
      BY <2>2, <2>3 DEF Ops, Locks
    <2>5. sreq'.op # "none"
      BY <2>2 DEF Ops, ServerOps, SlockOps, BareOps
    <2>6. stackLock' = "slave" <=> pc'["slave"] \in Working /\ Locks(sreq')
      BY <1>0, <2>1 DEF LocksOK
    <2> QED BY <1>0, <1>00, <2>1, <2>2, <2>3, <2>4, <2>5, <2>6 DEF LocksOK
  <1>20. CASE LinuxReturn
    BY <1>0, <1>00, <1>20 DEF LinuxReturn, LocksOK, Goto, At, locks, threads, upcall, buffer, dhcp, ping, linux
  <1>21. CASE m_confirm_irq_handle \/ irq_handle \/ ping4_callback \/ LinuxEvent \/ UNCHANGED ivars
    <2>1. UNCHANGED <<pc, stackLock, sreq, call>>
      BY <1>21 DEF m_confirm_irq_handle, irq_handle, ping4_callback, LinuxEvent, ivars, locks, threads, buffer, linux
    <2> QED BY <1>0, <1>00, <2>1 DEF LocksOK, Locks
  <1> QED BY <1>1, <1>2, <1>3, <1>4, <1>5, <1>6, <1>7, <1>8, <1>9, <1>10, <1>11, <1>12, <1>13, <1>14, <1>15, <1>16, <1>17, <1>18, <1>19, <1>20, <1>21, StepCases
----------------------------------------------------------------------------
(* What the steps of the call's thread leave to the others.                *)

\* The answer fits into the buffer and is empty until the work is done.
LEMMA AnswersStay ==
  ASSUME IpInv, [IpNext]_ivars
  PROVE  AnswersOK' /\ AnswersFit' /\ PingStatsInCall'
  <1> USE DEF Threads, Serving, Working, Upcalls
  <1> DEFINE Before == {"idle", "request", "call", "dhcp", "answer", "servers", "ping"}
  <1>0. IpTypeOK /\ LocksOK /\ AnswersOK /\ AnswersFit /\ PingStatsInCall
        /\ pc \in [Threads -> {"idle", "lock", "stack", "callback"} \cup Serving]
    BY DEF IpInv, IpTypeOK
  <1>1. /\ {MAX_DEVICES, MAX_ROUTES, SEL4IP_MAX_NAMESERVERS, SEL4IP_MAX_PING} \subseteq Nat \ {0}
        /\ Okay.n = 0 /\ Failed.n = 0
        /\ ping_replies \in Nat /\ pings \in Nat /\ sreq.n \in Nat
    BY IpServAssumption, Answers, <1>0 DEF IpTypeOK, Requested
  <1>2. CASE s_request_irq_handle
    <2>1. pc["slave"] = "request" /\ UNCHANGED <<sreq, call, ping_replies, pings>> /\ pc'["slave"] \in {"confirm", "call"}
          /\ (sres' = Okay \/ sres' = sres)
      BY <1>0, <1>2 DEF s_request_irq_handle, At, Goto, ping, linux
    <2> QED BY <1>0, <1>1, <2>1 DEF AnswersOK, AnswersFit, PingStatsInCall, At
  <1>3. CASE Handle
    <2>1. PICK o \in handle_remcall(sreq) : sres' = o.ret /\ Goto("slave", IF o.ev = "none" THEN "leave" ELSE "event")
      BY <1>3 DEF Handle
    <2>2. HandlerOK(sreq, o)
      BY <1>0, <1>3, <2>1, Handled
    <2>3. pc["slave"] = "call" /\ sreq.op \notin {"dhcp", "ping"} /\ UNCHANGED <<sreq, call, ping_replies, pings>>
      BY <1>3 DEF Handle, At, ping, linux
    <2>4. pc'["slave"] \in {"leave", "event"}
      BY <1>0, <2>1 DEF Goto
    <2>5. (sreq.op = "get_devices" => sres'.n <= MAX_DEVICES) /\ (sreq.op = "get_routes" => sres'.n <= MAX_ROUTES)
      BY <2>1, <2>2 DEF HandlerOK
    <2> QED BY <1>0, <2>3, <2>4, <2>5 DEF AnswersOK, AnswersFit, PingStatsInCall, At
  <1>4. CASE handle_rem_dhcp
    <2>1. pc["slave"] = "call" /\ sreq.op = "dhcp" /\ UNCHANGED <<sreq, call, ping_replies, pings>>
          /\ \/ Goto("slave", "dhcp") /\ sres' = sres
             \/ Goto("slave", "confirm") /\ sres' = Failed
      BY <1>4 DEF handle_rem_dhcp, At, ping, linux
    <2>2. \/ pc'["slave"] = "dhcp" /\ sres' = sres
          \/ pc'["slave"] = "confirm" /\ sres' = Failed
      BY <1>0, <2>1 DEF Goto
    <2> QED BY <1>0, <1>1, <2>1, <2>2 DEF AnswersOK, AnswersFit, PingStatsInCall, At
  <1>5. CASE DhcpOver
    <2>1. pc["slave"] = "dhcp" /\ UNCHANGED <<sreq, sres, call, ping_replies, pings>> /\ pc'["slave"] = "answer"
      BY <1>0, <1>5 DEF DhcpOver, At, Goto, buffer, ping, linux
    <2> QED BY <1>0, <1>1, <2>1 DEF AnswersOK, AnswersFit, PingStatsInCall, At
  <1>6. CASE DhcpAnswer \/ DhcpServers
    <2>1. /\ pc["slave"] \in {"answer", "servers"} /\ UNCHANGED <<sreq, call, ping_replies, pings>>
          /\ pc'["slave"] = "confirm" \/ (pc'["slave"] = "servers" /\ sres' = sres)
      BY <1>0, <1>6 DEF DhcpAnswer, DhcpServers, At, Goto, ping, linux
    <2>2. sreq.op = "dhcp"
      BY <1>0, <2>1 DEF LocksOK
    <2>3. sres'.n <= SEL4IP_MAX_NAMESERVERS
      <3>1. ASSUME NEW n \in 0 .. MaxServers
            PROVE  [Okay EXCEPT !.n = AtMost(n, SEL4IP_MAX_NAMESERVERS)].n <= SEL4IP_MAX_NAMESERVERS
        BY SetNumber, FitsIn, IpServAssumption
      <3>2. \/ sres' = Failed \/ sres' = sres
            \/ \E n \in 0 .. MaxServers : sres' = [Okay EXCEPT !.n = AtMost(n, SEL4IP_MAX_NAMESERVERS)]
        BY <1>6 DEF DhcpAnswer, DhcpServers
      <3>3. Failed.n <= SEL4IP_MAX_NAMESERVERS /\ sres.n <= SEL4IP_MAX_NAMESERVERS
        BY <1>0, <1>1, <2>1 DEF AnswersOK
      <3>4. CASE \E n \in 0 .. MaxServers : sres' = [Okay EXCEPT !.n = AtMost(n, SEL4IP_MAX_NAMESERVERS)]
        <4>1. PICK n \in 0 .. MaxServers : sres' = [Okay EXCEPT !.n = AtMost(n, SEL4IP_MAX_NAMESERVERS)]
          BY <3>4
        <4>2. sres'.n = [Okay EXCEPT !.n = AtMost(n, SEL4IP_MAX_NAMESERVERS)].n
          BY <4>1
        <4> QED BY <3>1, <4>2
      <3> QED BY <3>2, <3>3, <3>4
    <2> QED BY <1>0, <1>1, <2>1, <2>2, <2>3 DEF AnswersOK, AnswersFit, PingStatsInCall, At
  <1>7. CASE handle_rem_ping
    <2>1. pc["slave"] = "call" /\ sreq.op = "ping" /\ UNCHANGED <<sreq, call>> /\ ping_replies' = 0
          /\ \/ Goto("slave", "ping") /\ sres' = sres /\ pings' = sreq.n
             \/ Goto("slave", "confirm") /\ sres' = Failed /\ pings' = pings
      BY <1>7 DEF handle_rem_ping, At, linux
    <2>2. ~(pings > 0)
      BY <1>0, <2>1 DEF PingStatsInCall, At
    <2>3. \/ pc'["slave"] = "ping" /\ sres' = sres /\ pings' = sreq.n
          \/ pc'["slave"] = "confirm" /\ sres' = Failed /\ pings' = pings
      BY <1>0, <2>1 DEF Goto
    <2> QED BY <1>0, <1>1, <2>1, <2>2, <2>3 DEF AnswersOK, AnswersFit, PingStatsInCall, At
  <1>8. CASE PingOver
    <2>1. pc["slave"] = "ping" /\ ping_replies >= sreq.n /\ UNCHANGED <<sreq, call, ping_replies, pings>>
          /\ pc'["slave"] = "confirm"
      BY <1>0, <1>8 DEF PingOver, AllReplies, At, Goto, ping, linux
    <2>2. ~(pings > 0)
      BY <1>0, <1>1, <2>1 DEF PingStatsInCall
    <2>3. sreq.op = "ping"
      BY <1>0, <2>1 DEF LocksOK
    <2> QED BY <1>0, <1>1, <2>1, <2>2, <2>3 DEF AnswersOK, AnswersFit, PingStatsInCall, At
  <1>9. CASE Leave \/ \E t \in Threads : \/ begin_master_request(t) \/ handle_socket_event(t)
                                         \/ do_master_request(t) \/ end_master_request(t)
    <2>1. UNCHANGED <<sreq, sres, call, ping_replies, pings>>
      BY <1>9 DEF Leave, begin_master_request, handle_socket_event, do_master_request, end_master_request,
                  buffer, ping, linux
    <2>2. pc'["slave"] = pc["slave"] \/ (pc["slave"] \in Working /\ pc'["slave"] \notin Before)
      BY <1>0, <1>9 DEF Leave, begin_master_request, handle_socket_event, do_master_request, end_master_request,
                        At, Goto
    <2> QED BY <1>0, <2>1, <2>2 DEF AnswersOK, AnswersFit, PingStatsInCall, At
  <1>10. CASE \/ m_confirm_irq_handle \/ irq_handle \/ TickWait \/ TickLock \/ TickUnlock \/ DhcpFinished
              \/ LinuxEvent \/ (\E s \in Sockets : SocketEvent(s)) \/ (\E c \in clients : dhcp_callback(c))
              \/ UNCHANGED ivars
    <2>1. UNCHANGED <<sreq, sres, call, ping_replies, pings>>
      BY <1>10 DEF m_confirm_irq_handle, irq_handle, TickWait, TickLock, TickUnlock, DhcpFinished, LinuxEvent,
                   SocketEvent, dhcp_callback, ivars, buffer, ping, linux
    <2>2. pc'["slave"] = pc["slave"]
      BY <1>0, <1>10 DEF m_confirm_irq_handle, irq_handle, TickWait, TickLock, TickUnlock, DhcpFinished,
                         LinuxEvent, SocketEvent, dhcp_callback, ivars, threads, Goto
    <2> QED BY <1>0, <2>1, <2>2 DEF AnswersOK, AnswersFit, PingStatsInCall, At
  <1>11. CASE ping4_callback
    <2>1. pings > 0 /\ pings' = pings - 1 /\ ping_replies' = ping_replies + 1 /\ UNCHANGED <<sreq, sres, call, pc>>
      BY <1>11 DEF ping4_callback, threads, buffer, linux
    <2>2. pc["slave"] = "ping" /\ ping_replies + pings <= sreq.n
      BY <1>0, <2>1 DEF PingStatsInCall, At
    <2>3. sreq.n <= SEL4IP_MAX_PING
      BY <1>0, <2>2 DEF LocksOK, AnswersOK
    <2> QED BY <1>0, <1>1, <2>1, <2>2, <2>3 DEF AnswersOK, AnswersFit, PingStatsInCall, At
  <1>12. CASE LinuxCall
    <2>1. pc["slave"] = "idle" /\ pc'["slave"] = "request" /\ UNCHANGED <<sres, ping_replies, pings>>
          /\ sreq' \in Requests
      BY <1>0, <1>12 DEF LinuxCall, At, Goto, ping
    <2>2. sres' = Okay
      BY <1>0, <2>1 DEF AnswersOK
    <2>3. ~(pings > 0)
      BY <1>0, <2>1 DEF PingStatsInCall, At
    <2>4. sreq'.op = "ping" => sreq'.n <= SEL4IP_MAX_PING
      BY <1>0, <2>1, RequestsOK
    <2> QED BY <1>0, <1>1, <2>1, <2>2, <2>3, <2>4 DEF AnswersOK, AnswersFit, PingStatsInCall, At
  <1>13. CASE LinuxReturn
    <2>1. pc["slave"] = "confirm" /\ pc'["slave"] = "idle" /\ sreq' = Idle /\ sres' = Okay /\ call' = FALSE
          /\ UNCHANGED <<ping_replies, pings>>
      BY <1>0, <1>13 DEF LinuxReturn, At, Goto, ping
    <2>2. ~(pings > 0)
      BY <1>0, <2>1 DEF PingStatsInCall, At
    <2> QED BY <1>0, <1>1, <2>1, <2>2, IdleRequested DEF AnswersOK, AnswersFit, PingStatsInCall, At
  <1> QED BY <1>2, <1>3, <1>4, <1>5, <1>6, <1>7, <1>8, <1>9, <1>10, <1>11, <1>12, <1>13, StepCases

\* What the call for an address waits for is of its own negotiation.
LEMMA DhcpStay ==
  ASSUME IpInv, [IpNext]_ivars
  PROVE  DhcpOK' /\ DhcpAnswerIsOwn'
  <1> USE DEF Threads, Serving, Working, Upcalls
  <1>0. IpTypeOK /\ LocksOK /\ DhcpOK /\ DhcpAnswerIsOwn
        /\ pc \in [Threads -> {"idle", "lock", "stack", "callback"} \cup Serving]
    BY DEF IpInv, IpTypeOK
  <1>1. CASE handle_rem_dhcp
    <2>1. pc["slave"] = "call" /\ sreq.op = "dhcp" /\ pc'["tick"] = pc["tick"] /\ dhcp_finished' = FALSE
          /\ (clients' = {"own"} \/ clients' = {}) /\ pc'["slave"] \in {"dhcp", "confirm"}
      BY <1>0, <1>1 DEF handle_rem_dhcp, ResetFinished, At, Goto
    <2>2. stackLock = "slave"
      BY <1>0, <2>1 DEF LocksOK, Locks, ServerOps
    <2>3. pc["tick"] # "callback"
      BY <1>0, <2>2 DEF LocksOK
    <2> QED BY <2>1, <2>3 DEF DhcpOK, DhcpAnswerIsOwn, At
  <1>2. CASE DhcpOver
    <2>1. pc["slave"] = "dhcp" /\ pc'["slave"] = "answer" /\ clients' = clients
          /\ ((dhcp_finished /\ codeOf' = codeOf) \/ dhcp_code' = "error")
      BY <1>0, <1>2 DEF DhcpOver, At, Goto
    <2> QED BY <1>0, <2>1 DEF DhcpOK, DhcpAnswerIsOwn, At
  <1>3. CASE \E c \in clients : dhcp_callback(c)
    <2>1. PICK c \in clients : dhcp_callback(c)
      BY <1>3
    <2>2. pc["tick"] = "stack" /\ pc'["tick"] = "callback" /\ pc'["slave"] = pc["slave"] /\ codeOf' = c
          /\ dhcp_finished' = dhcp_finished /\ clients' \subseteq clients
      BY <1>0, <2>1 DEF dhcp_callback, At, Goto
    <2> QED BY <1>0, <2>2 DEF DhcpOK, DhcpAnswerIsOwn, At
  <1>4. CASE DhcpFinished
    <2>1. pc["tick"] = "callback" /\ pc'["tick"] = "stack" /\ pc'["slave"] = pc["slave"]
          /\ UNCHANGED <<dhcp_code, codeOf, clients>>
      BY <1>0, <1>4 DEF DhcpFinished, At, Goto
    <2> QED BY <1>0, <2>1 DEF DhcpOK, DhcpAnswerIsOwn, At
  <1>5. CASE \/ s_request_irq_handle \/ Handle \/ Leave \/ DhcpAnswer \/ DhcpServers \/ handle_rem_ping \/ PingOver
             \/ LinuxCall \/ LinuxReturn
    <2>1. UNCHANGED dhcp /\ pc'["tick"] = pc["tick"]
      BY <1>0, <1>5 DEF s_request_irq_handle, Handle, Leave, DhcpAnswer, DhcpServers, handle_rem_ping, PingOver, LinuxCall,
                        LinuxReturn, Goto
    <2>2. pc'["slave"] \notin {"dhcp", "answer"}
      <3>1. CASE Handle
        BY <1>0, <3>1 DEF Handle, Goto
      <3>2. CASE \/ s_request_irq_handle \/ Leave \/ DhcpAnswer \/ DhcpServers \/ handle_rem_ping \/ PingOver
                 \/ LinuxCall \/ LinuxReturn
        BY <1>0, <3>2 DEF s_request_irq_handle, Leave, DhcpAnswer, DhcpServers, handle_rem_ping, PingOver, LinuxCall,
                          LinuxReturn, Goto
      <3> QED BY <1>5, <3>1, <3>2
    <2> QED BY <1>0, <2>1, <2>2 DEF DhcpOK, DhcpAnswerIsOwn, dhcp, At
  <1>6. CASE \E t \in Threads : \/ begin_master_request(t) \/ handle_socket_event(t)
                                \/ do_master_request(t) \/ end_master_request(t)
    <2>1. PICK t \in Threads : \/ begin_master_request(t) \/ handle_socket_event(t)
                               \/ do_master_request(t) \/ end_master_request(t)
      BY <1>6
    <2>2. UNCHANGED dhcp
      BY <2>1 DEF begin_master_request, handle_socket_event, do_master_request, end_master_request
    <2>3. pc[t] \in Upcalls /\ (\A u \in Threads \ {t} : pc'[u] = pc[u])
          /\ pc'[t] \in Upcalls \cup {"stack", "leave"}
      BY <1>0, <2>1 DEF begin_master_request, handle_socket_event, do_master_request, end_master_request, At, Goto
    <2> QED BY <1>0, <2>1, <2>2, <2>3 DEF DhcpOK, DhcpAnswerIsOwn, dhcp, At
  <1>7. CASE \/ m_confirm_irq_handle \/ irq_handle \/ TickWait \/ TickLock \/ TickUnlock \/ ping4_callback
             \/ LinuxEvent \/ (\E s \in Sockets : SocketEvent(s)) \/ UNCHANGED ivars
    <2>1. UNCHANGED dhcp
      BY <1>7 DEF m_confirm_irq_handle, irq_handle, TickWait, TickLock, TickUnlock, ping4_callback, LinuxEvent,
                  SocketEvent, ivars
    <2>2. pc'["slave"] = pc["slave"] /\ (pc'["tick"] = "callback" => pc["tick"] = "callback")
      BY <1>0, <1>7 DEF m_confirm_irq_handle, irq_handle, TickWait, TickLock, TickUnlock, ping4_callback,
                        LinuxEvent, SocketEvent, ivars, threads, Goto
    <2> QED BY <1>0, <2>1, <2>2 DEF DhcpOK, DhcpAnswerIsOwn, dhcp, At
  <1> QED BY <1>1, <1>2, <1>3, <1>4, <1>5, <1>6, <1>7, StepCases

----------------------------------------------------------------------------
(* The events of the sockets and whom they reach.                          *)

\* The only thread of Linux's calls; while it works without the lock nobody ticks.
LEMMA OneAtWork ==
  ASSUME IpTypeOK, LocksOK, pc["slave"] \in Working, sreq.op # "timer"
  PROVE  pc["tick"] \notin {"stack", "callback"} \cup Upcalls
  <1>1. call /\ sreq.op # "unlock"
    BY DEF LocksOK, Working, Upcalls
  <1>2. stackLock \in {"slave", "linux"}
    BY <1>1 DEF LocksOK
  <1> QED BY <1>2 DEF LocksOK

\* One thread at most waits for Linux.
LEMMA OneUpcall ==
  ASSUME IpTypeOK, LocksOK, NEW t \in Threads, pc[t] \in Upcalls
  PROVE  \A u \in Threads \ {t} : pc[u] \notin Upcalls
  <1>1. pc["slave"] \in Upcalls => pc["tick"] \notin Upcalls
    <2>1. pc["slave"] \in Upcalls => sreq.op # "timer" /\ pc["slave"] \in Working
      BY DEF LocksOK, UpcallOps, Working
    <2> QED BY <2>1, OneAtWork
  <1> QED BY <1>1 DEF Threads

LEMMA UpcallStays ==
  ASSUME IpInv, [IpNext]_ivars
  PROVE  UpcallOK'
  <1> USE DEF Threads, Serving, Working, Upcalls
  <1>0. /\ IpTypeOK /\ LocksOK /\ UpcallOK
        /\ pc \in [Threads -> {"idle", "lock", "stack", "callback"} \cup Serving]
        /\ event \in [Threads -> Events] /\ Sockets' = Sockets
    BY ClientStays DEF IpInv, IpTypeOK
  <1>1. CASE Handle
    <2>1. PICK o \in handle_remcall(sreq) :
             /\ event' = [event EXCEPT !["slave"] = [s |-> sreq.s, ev |-> o.ev]]
             /\ Goto("slave", IF o.ev = "none" THEN "leave" ELSE "event")
      BY <1>1 DEF Handle
    <2>2. o.ev # "none" => sreq.s \in Sockets
      <3>1. HandlerOK(sreq, o)
        BY <1>0, <1>1, Handled
      <3>2. o.ev # "none" => sreq.op \in SocketOps
        BY <3>1 DEF HandlerOK, UpcallOps, SocketOps, SlockOps
      <3> QED BY <1>0, <1>1, <3>2 DEF LocksOK, Handle, At
    <2>3. pc["slave"] = "call" /\ UNCHANGED <<mreq, mconf, confirmed>>
      BY <1>1 DEF Handle, At, upcall
    <2>4. event'["tick"] = event["tick"] /\ event'["slave"].s = sreq.s
      BY <1>0, <2>1
    <2>5. pc'["tick"] = pc["tick"] /\ (pc'["slave"] = "leave" \/ (pc'["slave"] = "event" /\ o.ev # "none"))
      BY <1>0, <2>1 DEF Goto
    <2> QED BY <1>0, <2>2, <2>3, <2>4, <2>5 DEF UpcallOK
  <1>2. CASE \E s \in Sockets : SocketEvent(s)
    <2>1. PICK s \in Sockets : SocketEvent(s)
      BY <1>2
    <2>2. PICK ev \in {"read", "write", "close"} : event' = [event EXCEPT !["tick"] = [s |-> s, ev |-> ev]]
      BY <2>1 DEF SocketEvent
    <2>3. pc["tick"] = "stack" /\ pc'["tick"] = "event" /\ pc'["slave"] = pc["slave"]
          /\ UNCHANGED <<mreq, mconf, confirmed>>
      BY <1>0, <2>1 DEF SocketEvent, At, Goto, upcall
    <2>4. event'["slave"] = event["slave"] /\ event'["tick"].s = s
      BY <1>0, <2>2
    <2> QED BY <1>0, <2>3, <2>4 DEF UpcallOK
  <1>3. CASE \E t \in Threads : begin_master_request(t)
    <2>1. PICK t \in Threads : begin_master_request(t)
      BY <1>3
    <2>2. pc[t] = "event" /\ pc'[t] = "begun" /\ (\A u \in Threads \ {t} : pc'[u] = pc[u])
          /\ UNCHANGED <<event, mreq, mconf, confirmed>>
      BY <1>0, <2>1 DEF begin_master_request, At, Goto, upcall
    <2> QED BY <1>0, <2>2 DEF UpcallOK
  <1>4. CASE \E t \in Threads : handle_socket_event(t)
    <2>1. PICK t \in Threads : handle_socket_event(t)
      BY <1>4
    <2>2. pc[t] = "begun" /\ (\A u \in Threads \ {t} : pc'[u] = pc[u]) /\ UNCHANGED <<event, mconf, confirmed>>
          /\ \/ pc'[t] = "wait" /\ mreq' = event[t]
             \/ pc'[t] = "end" /\ mreq' = mreq
      BY <1>0, <2>1 DEF handle_socket_event, At, Goto
    <2>3. \A u \in Threads : pc[u] # "wait"
      BY <1>0, <2>2, OneUpcall
    <2>4. ~mconf /\ ~confirmed /\ mreq = None
      BY <1>0, <2>3 DEF UpcallOK
    <2> QED BY <1>0, <2>2, <2>4 DEF UpcallOK
  <1>5. CASE \E t \in Threads : do_master_request(t)
    <2>1. PICK t \in Threads : do_master_request(t)
      BY <1>5
    <2>2. pc[t] = "wait" /\ pc'[t] = "end" /\ (\A u \in Threads \ {t} : pc'[u] = pc[u]) /\ confirmed
          /\ ~confirmed' /\ UNCHANGED <<event, mreq, mconf>>
      BY <1>0, <2>1 DEF do_master_request, At, Goto
    <2>3. mreq = None /\ ~mconf
      BY <1>0, <2>2 DEF UpcallOK
    <2> QED BY <1>0, <2>2, <2>3 DEF UpcallOK
  <1>6. CASE \E t \in Threads : end_master_request(t)
    <2>1. PICK t \in Threads : end_master_request(t)
      BY <1>6
    <2>2. pc[t] = "end" /\ pc'[t] \in {"stack", "leave"} /\ event' = [event EXCEPT ![t] = None]
          /\ (\A u \in Threads \ {t} : pc'[u] = pc[u]) /\ UNCHANGED <<mreq, mconf, confirmed>>
      BY <1>0, <2>1 DEF end_master_request, At, Goto, upcall
    <2>3. \A u \in Threads \ {t} : event'[u] = event[u]
      BY <1>0, <2>2
    <2> QED BY <1>0, <2>2, <2>3 DEF UpcallOK
  <1>7. CASE LinuxEvent
    <2>1. mreq # None /\ mreq' = None /\ mconf' = TRUE /\ UNCHANGED <<pc, event, confirmed>>
      BY <1>7 DEF LinuxEvent, threads
    <2>2. ~confirmed
      BY <1>0, <2>1 DEF UpcallOK
    <2> QED BY <1>0, <2>1, <2>2 DEF UpcallOK
  <1>8. CASE \/ s_request_irq_handle \/ Leave \/ handle_rem_dhcp \/ DhcpOver \/ DhcpAnswer \/ DhcpServers \/ handle_rem_ping
             \/ PingOver \/ TickWait \/ TickLock \/ TickUnlock \/ DhcpFinished \/ LinuxCall \/ LinuxReturn
             \/ (\E c \in clients : dhcp_callback(c))
    <2>1. event' = event /\ mreq' = mreq
      BY <1>8 DEF s_request_irq_handle, Leave, handle_rem_dhcp, DhcpOver, DhcpAnswer, DhcpServers, handle_rem_ping, PingOver,
                  TickWait, TickLock, TickUnlock, DhcpFinished, LinuxCall, LinuxReturn, dhcp_callback, upcall
    <2>2. mconf' = mconf /\ confirmed' = confirmed
      BY <1>8 DEF s_request_irq_handle, Leave, handle_rem_dhcp, DhcpOver, DhcpAnswer, DhcpServers, handle_rem_ping, PingOver,
                  TickWait, TickLock, TickUnlock, DhcpFinished, LinuxCall, LinuxReturn, dhcp_callback, upcall
    <2>3. \E t \in Threads : \E w : Goto(t, w) /\ pc[t] \notin Upcalls /\ w \notin Upcalls
      BY <1>8 DEF s_request_irq_handle, Leave, handle_rem_dhcp, DhcpOver, DhcpAnswer, DhcpServers, handle_rem_ping, PingOver,
                  TickWait, TickLock, TickUnlock, DhcpFinished, LinuxCall, LinuxReturn, dhcp_callback, At
    <2>4. \A t \in Threads : pc[t] \in Upcalls \/ pc'[t] \in Upcalls => pc'[t] = pc[t]
      BY <1>0, <2>3 DEF Goto
    <2> QED BY <1>0, <2>1, <2>2, <2>4 DEF UpcallOK
  <1>9. CASE m_confirm_irq_handle \/ irq_handle \/ ping4_callback \/ UNCHANGED ivars
    <2>1. UNCHANGED <<pc, event, mreq>> /\ (mconf' \/ confirmed' => mconf \/ confirmed) /\ ~(mconf' /\ confirmed')
      BY <1>0, <1>9 DEF m_confirm_irq_handle, irq_handle, ping4_callback, ivars, threads, upcall, UpcallOK
    <2> QED BY <1>0, <2>1 DEF UpcallOK
  <1> QED BY <1>1, <1>2, <1>3, <1>4, <1>5, <1>6, <1>7, <1>8, <1>9, StepCases

LEMMA OwnersStay ==
  ASSUME IpInv, [IpNext]_ivars
  PROVE  OwnersOK' /\ EventGoesToOwner'
  <1> USE DEF Threads, Serving, Working, Upcalls, Done
  <1>0. /\ IpTypeOK /\ LocksOK /\ UpcallOK /\ OwnersOK /\ EventGoesToOwner
        /\ pc \in [Threads -> {"idle", "lock", "stack", "callback"} \cup Serving]
        /\ sock \in [Sockets -> OneSocket] /\ object \in [Sockets -> {"none", "known", "live"}]
        /\ Sockets' = Sockets
    BY ClientStays DEF IpInv, IpTypeOK
  \* A step that takes no pointer and leaves the call where it is.
  <1>1. ASSUME UNCHANGED <<sreq, object, call>>,
               pc'["slave"] \in Done =>
                 sreq.op \notin {"set_priv", "open", "accept"} \/ (pc["slave"] \in Done /\ sres' = sres),
               \A s \in Sockets : sock'[s].priv => sock[s].priv
        PROVE  OwnersOK'
    BY <1>0, <1>1 DEF OwnersOK, LocksOK, SocketOps, BareOps
  <1>2. CASE Handle
    <2>1. PICK o \in handle_remcall(sreq) : sock' = o.sock /\ sres' = o.ret
      BY <1>2 DEF Handle
    <2>2. HandlerOK(sreq, o)
      BY <1>0, <1>2, Handled
    <2>3. pc["slave"] = "call" /\ call /\ UNCHANGED <<sreq, object, call, mreq>>
      BY <1>0, <1>2 DEF Handle, At, LocksOK, linux, upcall
    <2>4. \A s \in Sockets : sock'[s].priv =>
             sock[s].priv \/ (sreq.op = "set_priv" /\ sreq.n = 1 /\ s = sreq.s)
      BY <2>1, <2>2 DEF HandlerOK
    <2>5. \A s \in Sockets : sock'[s].priv => object[s] = "live"
      BY <1>0, <2>3, <2>4 DEF OwnersOK
    <2>6. (sreq.op = "set_priv" /\ sreq.n = 0 => ~sock'[sreq.s].priv)
          /\ (sreq.op \in {"open", "accept"} /\ sres'.ok => sres'.n \in Sockets /\ ~sock'[sres'.n].priv)
      BY <2>1, <2>2 DEF HandlerOK
    <2> QED BY <1>0, <2>3, <2>5, <2>6 DEF OwnersOK, EventGoesToOwner
  <1>3. CASE \E s \in Sockets : SocketEvent(s)
    <2>1. PICK s \in Sockets : SocketEvent(s)
      BY <1>3
    <2>2. UNCHANGED <<sreq, sres, object, call, mreq>> /\ pc'["slave"] = pc["slave"]
      BY <1>0, <2>1 DEF SocketEvent, buffer, linux, upcall, Goto
    <2>3. \A t \in Sockets : sock'[t].priv => sock[t].priv
      <3>1. sock' = sock \/ sock' = [sock EXCEPT ![s].q = @ + 1]
        BY <2>1 DEF SocketEvent
      <3>2. CASE sock' = [sock EXCEPT ![s].q = @ + 1]
        <4>1. sock'[s].priv = sock[s].priv
          BY <1>0, <3>2 DEF OneSocket
        <4> QED BY <1>0, <3>2, <4>1
      <3> QED BY <3>1, <3>2
    <2> QED BY <1>0, <1>1, <2>2, <2>3 DEF EventGoesToOwner
  <1>4. CASE \E t \in Threads : handle_socket_event(t)
    <2>1. PICK t \in Threads : handle_socket_event(t)
      BY <1>4
    <2>2. UNCHANGED <<sreq, sres, object, call>> /\ (pc'["slave"] \in Done => pc["slave"] \in Done)
      BY <1>0, <2>1 DEF handle_socket_event, buffer, linux, Goto
    <2>3. \A s \in Sockets : sock'[s].priv => sock[s].priv
      <3>1. sock' = sock \/ sock' = [sock EXCEPT ![event[t].s] = FreeSocket]
        BY <2>1 DEF handle_socket_event
      <3> QED BY <1>0, <3>1, NewSockets
    <2>4. event[t].s \in Sockets
      BY <1>0, <2>1 DEF handle_socket_event, At, UpcallOK
    <2>5. mreq' = mreq \/ (mreq' = event[t] /\ object[event[t].s] = "live")
      BY <1>0, <2>1, <2>4 DEF handle_socket_event, OwnersOK
    <2> QED BY <1>0, <1>1, <2>2, <2>3, <2>5 DEF EventGoesToOwner
  <1>5. CASE LinuxCall
    <2>1. PICK a \in Requests :
             /\ sreq' = a
             /\ object' = IF a.op = "set_priv" /\ a.n = 1 THEN [object EXCEPT ![a.s] = "live"] ELSE object
      BY <1>5 DEF LinuxCall
    <2>2. /\ a.op \in SocketOps => a.s \in Sockets
          /\ a.op = "close" => object[a.s] = "known"
      BY <1>0, <2>1, RequestsOK
    <2>3. pc'["slave"] = "request" /\ UNCHANGED <<sock, mreq>>
      BY <1>0, <1>5 DEF LinuxCall, Goto, upcall
    <2>4. \A s \in Sockets : object[s] = "live" => object'[s] = "live"
      BY <1>0, <2>1
    <2>5. a.op = "set_priv" /\ a.n = 1 => object'[a.s] = "live"
      BY <1>0, <2>1, <2>2 DEF SocketOps
    <2>6. a.op = "close" => object'[a.s] = "known"
      BY <2>1, <2>2
    <2>7. mreq # None => mreq.s \in Sockets
      BY <1>0 DEF UpcallOK
    <2> QED BY <1>0, <2>1, <2>3, <2>4, <2>5, <2>6, <2>7 DEF OwnersOK, EventGoesToOwner
  <1>6. CASE LinuxReturn
    <2>1. pc["slave"] = "confirm" /\ call /\ ~call' /\ pc'["slave"] = "idle" /\ UNCHANGED <<sock, mreq>>
      BY <1>0, <1>6 DEF LinuxReturn, At, Goto, upcall
    <2>2. \A s \in Sockets : object'[s] # object[s] =>
            /\ sreq.op \in {"open", "accept", "set_priv", "close"} /\ ~sock[s].priv
      <3>1. CASE sreq.op \in {"open", "accept"} /\ sres.ok
        <4>1. object' = [object EXCEPT ![sres.n] = "known"]
          BY <1>6, <3>1 DEF LinuxReturn
        <4>2. sres.n \in Sockets /\ ~sock[sres.n].priv
          BY <1>0, <2>1, <3>1 DEF OwnersOK
        <4> QED BY <1>0, <3>1, <4>1, <4>2
      <3>2. CASE sreq.op = "set_priv" /\ sreq.n = 0
        <4>1. object' = [object EXCEPT ![sreq.s] = "known"]
          BY <1>6, <3>2 DEF LinuxReturn
        <4>2. ~sock[sreq.s].priv
          BY <1>0, <2>1, <3>2 DEF OwnersOK
        <4> QED BY <1>0, <3>2, <4>1, <4>2
      <3>3. CASE sreq.op = "close"
        <4>1. object' = [object EXCEPT ![sreq.s] = "none"]
          BY <1>6, <3>3 DEF LinuxReturn
        <4>2. sreq.s \in Sockets /\ ~sock[sreq.s].priv
          BY <1>0, <2>1, <3>3 DEF OwnersOK, LocksOK, SocketOps
        <4> QED BY <1>0, <3>3, <4>1, <4>2
      <3>4. CASE object' = object
        BY <3>4
      <3> QED BY <1>6, <3>1, <3>2, <3>3, <3>4 DEF LinuxReturn
    <2>3. \A s \in Sockets : sock[s].priv => object'[s] = "live"
      BY <1>0, <2>2 DEF OwnersOK
    <2>4. mreq # None => object' = object
      <3>1. SUFFICES ASSUME mreq # None PROVE object' = object
        OBVIOUS
      <3>2. pc["tick"] \in Upcalls
        BY <1>0, <2>1, <3>1 DEF UpcallOK
      <3>3. stackLock = "tick"
        BY <1>0, <3>2 DEF LocksOK
      <3>4. sreq.op \notin {"open", "accept", "set_priv", "close"}
        BY <1>0, <2>1, <3>3 DEF LocksOK, Locks, ServerOps, SlockOps
      <3> QED BY <1>6, <3>4 DEF LinuxReturn
    <2> QED BY <1>0, <2>1, <2>3, <2>4 DEF OwnersOK, EventGoesToOwner
  <1>7. CASE s_request_irq_handle \/ handle_rem_dhcp \/ DhcpAnswer \/ DhcpServers \/ handle_rem_ping \/ PingOver
    <2>1. UNCHANGED <<sreq, object, call, sock, mreq>>
      BY <1>7 DEF s_request_irq_handle, handle_rem_dhcp, DhcpAnswer, DhcpServers, handle_rem_ping, PingOver, buffer, linux, upcall
    <2>2. pc'["slave"] \in Done => sreq.op \in {"lock", "unlock", "dhcp", "ping"}
      BY <1>0, <1>7 DEF s_request_irq_handle, handle_rem_dhcp, DhcpAnswer, DhcpServers, handle_rem_ping, PingOver, Goto, At,
                        LocksOK
    <2> QED BY <1>0, <1>1, <2>1, <2>2 DEF EventGoesToOwner
  <1>8. CASE LinuxEvent
    <2>1. UNCHANGED <<sreq, sres, object, call, sock, pc>> /\ mreq' = None
      BY <1>8 DEF LinuxEvent, buffer, threads
    <2>2. EventGoesToOwner'
      BY <2>1 DEF EventGoesToOwner, None
    <2> QED BY <1>1, <2>1, <2>2
  <1>9. CASE \/ Leave \/ DhcpOver \/ TickWait \/ TickLock \/ TickUnlock \/ DhcpFinished
             \/ (\E c \in clients : dhcp_callback(c)) \/ m_confirm_irq_handle \/ irq_handle \/ ping4_callback
             \/ UNCHANGED ivars
    <2>1. UNCHANGED <<sreq, sres, object, call, sock, mreq>>
      BY <1>9 DEF Leave, DhcpOver, TickWait, TickLock, TickUnlock, DhcpFinished, dhcp_callback,
                  m_confirm_irq_handle, irq_handle, ping4_callback, ivars, buffer, linux, upcall
    <2>2. pc'["slave"] \in Done => pc["slave"] \in Done
      BY <1>0, <1>9 DEF Leave, DhcpOver, TickWait, TickLock, TickUnlock, DhcpFinished, dhcp_callback,
                  m_confirm_irq_handle, irq_handle, ping4_callback, ivars, threads, At, Goto
    <2> QED BY <1>0, <1>1, <2>1, <2>2 DEF EventGoesToOwner
  <1>10. CASE \E t \in Threads : begin_master_request(t) \/ do_master_request(t) \/ end_master_request(t)
    <2>1. PICK t \in Threads : begin_master_request(t) \/ do_master_request(t) \/ end_master_request(t)
      BY <1>10
    <2>2. UNCHANGED <<sreq, sres, object, call, sock, mreq>>
      BY <2>1 DEF begin_master_request, do_master_request, end_master_request, buffer, linux, upcall
    <2>3. pc[t] \in Upcalls /\ \A u \in Threads \ {t} : pc'[u] = pc[u]
      BY <1>0, <2>1 DEF begin_master_request, do_master_request, end_master_request, At, Goto
    <2>4. pc'["slave"] \in Done => pc["slave"] \in Done \/ sreq.op \notin {"set_priv", "open", "accept"}
      BY <1>0, <2>3 DEF LocksOK, UpcallOps
    <2> QED BY <1>0, <1>1, <2>2, <2>4 DEF EventGoesToOwner
  <1> QED BY <1>2, <1>3, <1>4, <1>5, <1>6, <1>7, <1>8, <1>9, <1>10, StepCases

----------------------------------------------------------------------------
LEMMA InitOK == IpInit => IpInv
  <1> SUFFICES ASSUME IpInit PROVE IpInv
    OBVIOUS
  <1>1. client \in Clients
    BY DEF IpInit
  <1>2. None \in Events /\ Okay \in Results /\ FreeSocket \in OneSocket /\ Idle \in Requested
        /\ ~FreeSocket.priv /\ Idle.op = "none"
    BY Answers, NewSockets, IdleRequested DEF None, Events
  <1>3. net \in Nets
    BY DEF IpInit, Nets
  <1>4. sock \in [Sockets -> OneSocket] /\ event \in [Threads -> Events]
        /\ pc \in [Threads -> {"idle", "lock", "stack", "callback"} \cup Serving]
    BY <1>2 DEF IpInit, Threads
  <1>5. IpTypeOK
    BY <1>1, <1>2, <1>3, <1>4 DEF IpInit, IpTypeOK
  <1>6. SEL4IP_MAX_PING \in Nat /\ MAX_DEVICES \in Nat /\ MAX_ROUTES \in Nat
    BY IpServAssumption
  <1>7. LocksOK
    BY <1>2, <1>5 DEF IpInit, LocksOK, Serving, Working, Upcalls, Threads, Locks, ServerOps, SlockOps
  <1>8. AnswersOK /\ AnswersFit /\ PingStatsInCall
    BY <1>2, <1>6 DEF IpInit, AnswersOK, AnswersFit, PingStatsInCall, Threads, At
  <1>9. DhcpOK /\ DhcpAnswerIsOwn /\ UpcallOK /\ OwnersOK /\ EventGoesToOwner
    BY <1>2 DEF IpInit, DhcpOK, DhcpAnswerIsOwn, UpcallOK, OwnersOK, EventGoesToOwner, Threads, Upcalls, Done, At
  <1> QED BY <1>5, <1>7, <1>8, <1>9 DEF IpInv

LEMMA IpInvHolds == IpSpec => []IpInv
  <1>1. IpInv /\ [IpNext]_ivars => IpInv'
    BY TypeStays, LocksStay, AnswersStay, DhcpStay, UpcallStays, OwnersStay DEF IpInv
  <1> QED BY InitOK, <1>1, PTL DEF IpSpec

\* The variables keep their types: no index and no counter leaves its range.
THEOREM IpTypes == IpSpec => []IpTypeOK
  <1>1. IpInv => IpTypeOK
    BY DEF IpInv
  <1> QED BY <1>1, IpInvHolds, PTL

\* The stack is entered twice only where the name servers are asked for without
\* the lock.  The other handlers keep the control thread out, though most take no
\* lock of their own: the one that Linux took for them does.
THEOREM StackIsExclusive == IpSpec => []StackExclusive
  <1>1. IpInv => StackExclusive
    BY OneAtWork DEF IpInv, StackExclusive, InStack, Working, At
  <1> QED BY <1>1, IpInvHolds, PTL

\* An event never reaches an object that Linux has given up.
THEOREM OwnersGetEvents == IpSpec => []EventGoesToOwner
  <1>1. IpInv => EventGoesToOwner
    BY DEF IpInv
  <1> QED BY <1>1, IpInvHolds, PTL

\* A call for an address is never answered with the end of an older negotiation.
THEOREM DhcpIsOwn == IpSpec => []DhcpAnswerIsOwn
  <1>1. IpInv => DhcpAnswerIsOwn
    BY DEF IpInv
  <1> QED BY <1>1, IpInvHolds, PTL

\* A reply to a ping never comes after its call, and never one too many.
THEOREM PingsInCall == IpSpec => []PingStatsInCall
  <1>1. IpInv => PingStatsInCall
    BY DEF IpInv
  <1> QED BY <1>1, IpInvHolds, PTL

\* No answer is longer than the buffer, whatever the stack holds.
THEOREM AnswersAlwaysFit == IpSpec => []AnswersFit
  <1>1. IpInv => AnswersFit
    BY DEF IpInv
  <1> QED BY <1>1, IpInvHolds, PTL

----------------------------------------------------------------------------
(* What Linux knows of the data: without MINLOCK, since a call that locks  *)
(* for itself lets the control thread in before Linux has noted its answer.*)

LEMMA KnownStays ==
  ASSUME ~MinLock, IpInv, KnownOK, [IpNext]_ivars
  PROVE  KnownOK'
  <1> USE DEF Threads, Serving, Working, Upcalls, Done
  <1>0. /\ IpTypeOK /\ LocksOK /\ UpcallOK /\ OwnersOK /\ KnownOK
        /\ pc \in [Threads -> {"idle", "lock", "stack", "callback"} \cup Serving]
        /\ event \in [Threads -> Events]
        /\ sock \in [Sockets -> OneSocket] /\ readable \in [Sockets -> BOOLEAN]
        /\ Sockets' = Sockets
    BY ClientStays DEF IpInv, IpTypeOK
  \* The data of a socket stay while its call does.
  <1>1. pc["tick"] \in {"stack", "callback"} \cup Upcalls =>
          ~(call /\ sreq.op \in {"recvfrom", "poll", "accept"})
    BY <1>0 DEF LocksOK, Locks, ServerOps, SlockOps
  \* A step that neither changes a socket nor ends the work of one.
  <1>2. ASSUME UNCHANGED <<sreq, call, sock, readable, mreq>>,
               pc'["slave"] \in Done =>
                 sreq.op \notin {"recvfrom", "poll", "accept"} \/ (pc["slave"] \in Done /\ sres' = sres),
               pc["tick"] \in {"event", "begun"} => pc'["tick"] \in {"event", "begun"} /\ event'["tick"] = event["tick"]
        PROVE  KnownOK'
    BY <1>0, <1>2 DEF KnownOK
  <1>3. CASE Handle
    <2>1. PICK o \in handle_remcall(sreq) :
             /\ sock' = o.sock /\ sres' = o.ret
             /\ event' = [event EXCEPT !["slave"] = [s |-> sreq.s, ev |-> o.ev]]
      BY <1>3 DEF Handle
    <2>2. HandlerOK(sreq, o)
      BY <1>0, <1>3, Handled
    <2>3. call /\ pc'["tick"] = pc["tick"] /\ event'["tick"] = event["tick"]
          /\ UNCHANGED <<sreq, call, readable, mreq>>
      BY <1>0, <1>3, <2>1 DEF Handle, At, Goto, LocksOK, linux, upcall
    <2>4. \A s \in Sockets : sock'[s].priv /\ sock'[s].q > 0 =>
             (sock[s].priv /\ sock[s].q > 0) \/ (sreq.op = "set_priv" /\ sreq.n = 1 /\ s = sreq.s)
      BY <2>1, <2>2 DEF HandlerOK
    <2>5. /\ sreq.op \in {"recvfrom", "poll"} => sres'.more = (sock'[sreq.s].q > 0)
          /\ sreq.op = "accept" /\ sres' = Failed => sock'[sreq.s].q = 0
      BY <2>1, <2>2 DEF HandlerOK
    <2> QED BY <1>0, <2>3, <2>4, <2>5 DEF KnownOK
  <1>4. CASE \E s \in Sockets : SocketEvent(s)
    <2>1. PICK s \in Sockets, ev \in {"read", "write", "close"} :
             /\ sock' = IF ev = "read" THEN [sock EXCEPT ![s].q = @ + 1] ELSE sock
             /\ event' = [event EXCEPT !["tick"] = [s |-> s, ev |-> ev]]
             /\ SocketEvent(s)
      BY <1>4 DEF SocketEvent
    <2>2. pc["tick"] = "stack" /\ pc'["tick"] = "event" /\ pc'["slave"] = pc["slave"]
          /\ UNCHANGED <<sreq, sres, call, readable, mreq>>
      BY <1>0, <2>1 DEF SocketEvent, At, Goto, buffer, linux, upcall
    <2>3. event'["tick"] = [s |-> s, ev |-> ev]
      BY <1>0, <2>1
    <2>4. \A t \in Sockets : sock'[t].priv /\ sock'[t].q > 0 =>
             (sock[t].priv /\ sock[t].q > 0) \/ (ev = "read" /\ t = s)
      BY <1>0, <2>1
    <2>5. ~(pc["slave"] \in Done /\ sreq.op \in {"recvfrom", "poll", "accept"})
      BY <1>0, <1>1, <2>2 DEF LocksOK
    <2> QED BY <1>0, <2>2, <2>3, <2>4, <2>5 DEF KnownOK
  <1>5. CASE \E t \in Threads : handle_socket_event(t)
    <2>1. PICK t \in Threads : handle_socket_event(t)
      BY <1>5
    <2>2. pc[t] = "begun" /\ (\A u \in Threads \ {t} : pc'[u] = pc[u]) /\ pc'[t] \in {"wait", "end"}
          /\ UNCHANGED <<sreq, sres, call, readable, event>>
      BY <1>0, <2>1 DEF handle_socket_event, At, Goto, buffer, linux
    <2>3. (\A u \in Threads : pc[u] # "wait") /\ (t = "slave" => pc["tick"] \notin Upcalls)
      BY <1>0, <2>2, OneUpcall
    <2>4. mreq = None /\ event[t].s \in Sockets
      BY <1>0, <2>2, <2>3 DEF UpcallOK
    <2>5. \A s \in Sockets : mreq # [s |-> s, ev |-> "read"]
      BY <2>4 DEF None
    <2>6. ~(pc'["slave"] \in Done /\ sreq.op \in {"recvfrom", "poll", "accept"})
      BY <1>0, <1>1, <2>2 DEF LocksOK, UpcallOps
    <2>7. CASE sock[event[t].s].priv
      <3>1. mreq' = event[t] /\ sock' = sock
        BY <2>1, <2>7 DEF handle_socket_event
      <3> QED BY <1>0, <2>2, <2>3, <2>5, <2>6, <3>1 DEF KnownOK
    <2>8. CASE ~sock[event[t].s].priv
      <3>1. mreq' = mreq /\ (sock' = sock \/ sock' = [sock EXCEPT ![event[t].s] = FreeSocket])
        BY <2>1, <2>8 DEF handle_socket_event
      <3>2. \A s \in Sockets : sock'[s].priv => s # event[t].s /\ sock'[s] = sock[s]
        BY <1>0, <2>4, <2>8, <3>1, NewSockets
      <3>3. \A s \in Sockets : s # event[t].s /\ t = "tick" => event["tick"] # [s |-> s, ev |-> "read"]
        OBVIOUS
      <3>4. \A s \in Sockets : sock'[s].priv /\ sock'[s].q > 0 =>
               readable[s] \/ (call /\ sreq.op = "set_priv" /\ sreq.n = 1 /\ sreq.s = s)
        BY <1>0, <2>2, <2>3, <2>5, <3>2, <3>3 DEF KnownOK
      <3> QED BY <1>0, <2>2, <2>6, <3>1, <3>4 DEF KnownOK
    <2> QED BY <2>7, <2>8
  <1>6. CASE LinuxCall
    <2>1. pc'["slave"] = "request" /\ pc'["tick"] = pc["tick"] /\ ~call
          /\ UNCHANGED <<sock, readable, mreq, event>> /\ sreq' \in Requests
      BY <1>0, <1>6 DEF LinuxCall, Goto, upcall
    <2>2. sreq'.op = "set_priv" => sreq'.n \in {0, 1}
      BY <1>0, <2>1, RequestsOK
    <2> QED BY <1>0, <2>1, <2>2 DEF KnownOK
  <1>7. CASE LinuxReturn
    <2>1. pc["slave"] = "confirm" /\ call /\ ~call' /\ pc'["slave"] = "idle" /\ pc'["tick"] = pc["tick"]
          /\ UNCHANGED <<sock, mreq, event>>
      BY <1>0, <1>7 DEF LinuxReturn, At, Goto, upcall
    <2>2. sreq.op \in SocketOps => sreq.s \in Sockets
      BY <1>0, <2>1 DEF LocksOK
    <2>3. \A s \in Sockets : /\ sock[s].priv /\ sock[s].q > 0
                             /\ readable[s] \/ (sreq.op = "set_priv" /\ sreq.n = 1 /\ sreq.s = s)
                             => readable'[s]
      <3>1. CASE sreq.op = "set_priv"
        <4>1. readable' = [readable EXCEPT ![sreq.s] = (sreq.n = 1)]
          BY <1>7, <3>1 DEF LinuxReturn
        <4>2. sreq.n = 1 \/ ~sock[sreq.s].priv
          BY <1>0, <2>1, <3>1 DEF OwnersOK, KnownOK
        <4>3. sreq.s \in Sockets /\ (sreq.n = 1 => readable'[sreq.s])
          BY <1>0, <2>2, <3>1, <4>1 DEF SocketOps
        <4>4. \A s \in Sockets \ {sreq.s} : readable'[s] = readable[s]
          BY <1>0, <4>1
        <4> QED BY <4>2, <4>3, <4>4
      <3>2. CASE sreq.op \in {"recvfrom", "poll"}
        <4>1. readable' = [readable EXCEPT ![sreq.s] = sres.more]
          BY <1>7, <3>2 DEF LinuxReturn
        <4>2. sres.more = (sock[sreq.s].q > 0)
          BY <1>0, <2>1, <3>2 DEF KnownOK
        <4>3. sreq.s \in Sockets
          BY <2>2, <3>2 DEF SocketOps, SlockOps
        <4> QED BY <1>0, <3>2, <4>1, <4>2, <4>3
      <3>3. CASE sreq.op = "accept" /\ sres = Failed
        <4>1. readable' = [readable EXCEPT ![sreq.s] = FALSE]
          BY <1>7, <3>3 DEF LinuxReturn
        <4>2. sock[sreq.s].q = 0
          BY <1>0, <2>1, <3>3 DEF KnownOK
        <4> QED BY <1>0, <3>3, <4>1, <4>2
      <3>4. CASE sreq.op \notin {"set_priv", "recvfrom", "poll"} /\ ~(sreq.op = "accept" /\ sres = Failed)
        BY <1>7, <3>4 DEF LinuxReturn
      <3> QED BY <3>1, <3>2, <3>3, <3>4
    <2> QED BY <1>0, <2>1, <2>3 DEF KnownOK
  <1>8. CASE LinuxEvent
    <2>1. UNCHANGED <<sreq, sres, call, sock, pc, event>> /\ mreq # None
          /\ readable' = IF mreq.ev = "read" THEN [readable EXCEPT ![mreq.s] = TRUE] ELSE readable
      BY <1>8 DEF LinuxEvent, buffer, threads
    <2>2. \A s \in Sockets : readable[s] \/ mreq = [s |-> s, ev |-> "read"] => readable'[s]
      BY <1>0, <2>1
    <2> QED BY <1>0, <2>1, <2>2 DEF KnownOK
  <1>9. CASE s_request_irq_handle \/ handle_rem_dhcp \/ DhcpAnswer \/ DhcpServers \/ handle_rem_ping \/ PingOver
    <2>1. UNCHANGED <<sreq, call, sock, readable, mreq, event>> /\ pc'["tick"] = pc["tick"]
      BY <1>0, <1>9 DEF s_request_irq_handle, handle_rem_dhcp, DhcpAnswer, DhcpServers, handle_rem_ping, PingOver, buffer,
                        linux, upcall, Goto
    <2>2. pc'["slave"] \in Done => sreq.op \in {"lock", "unlock", "dhcp", "ping"}
      BY <1>0, <1>9 DEF s_request_irq_handle, handle_rem_dhcp, DhcpAnswer, DhcpServers, handle_rem_ping, PingOver, Goto, At,
                        LocksOK
    <2> QED BY <1>2, <2>1, <2>2
  <1>10. CASE \/ Leave \/ DhcpOver \/ TickWait \/ TickLock \/ TickUnlock \/ DhcpFinished
              \/ (\E c \in clients : dhcp_callback(c)) \/ m_confirm_irq_handle \/ irq_handle \/ ping4_callback
              \/ UNCHANGED ivars
    <2>1. UNCHANGED <<sreq, sres, call, sock, readable, mreq, event>>
      BY <1>10 DEF Leave, DhcpOver, TickWait, TickLock, TickUnlock, DhcpFinished, dhcp_callback,
                   m_confirm_irq_handle, irq_handle, ping4_callback, ivars, buffer, linux, upcall, threads
    <2>2. (pc'["slave"] \in Done => pc["slave"] \in Done)
          /\ (pc["tick"] \in {"event", "begun"} => pc'["tick"] = pc["tick"])
      BY <1>0, <1>10 DEF Leave, DhcpOver, TickWait, TickLock, TickUnlock, DhcpFinished, dhcp_callback,
                   m_confirm_irq_handle, irq_handle, ping4_callback, ivars, threads, At, Goto
    <2> QED BY <1>2, <2>1, <2>2
  <1>11. CASE \E t \in Threads : begin_master_request(t) \/ do_master_request(t) \/ end_master_request(t)
    <2>1. PICK t \in Threads : begin_master_request(t) \/ do_master_request(t) \/ end_master_request(t)
      BY <1>11
    <2>2. UNCHANGED <<sreq, sres, call, sock, readable, mreq>>
      BY <2>1 DEF begin_master_request, do_master_request, end_master_request, buffer, linux, upcall
    <2>3. pc[t] \in Upcalls /\ \A u \in Threads \ {t} : pc'[u] = pc[u]
      BY <1>0, <2>1 DEF begin_master_request, do_master_request, end_master_request, At, Goto
    <2>4. pc'["slave"] \in Done => pc["slave"] \in Done \/ sreq.op \notin {"recvfrom", "poll", "accept"}
      BY <1>0, <2>3 DEF LocksOK, UpcallOps
    <2>5. pc["tick"] \in {"event", "begun"} => pc'["tick"] \in {"event", "begun"} /\ event'["tick"] = event["tick"]
      BY <1>0, <2>1 DEF begin_master_request, do_master_request, end_master_request, At, Goto
    <2> QED BY <1>2, <2>2, <2>4, <2>5
  <1> QED BY <1>3, <1>4, <1>5, <1>6, <1>7, <1>8, <1>9, <1>10, <1>11, StepCases

\* Data that wait for Linux are always on their way to it, or known to it.
THEOREM DataAreKnown == ASSUME ~MinLock PROVE IpSpec => []ReadableIsKnown
  <1>1. IpInit => KnownOK
    <2>1. IpInit => \A s \in Sockets : ~sock[s].priv
      BY NewSockets DEF IpInit
    <2> QED BY <2>1 DEF IpInit, KnownOK, Done, Sockets
  <1>2. IpInv /\ KnownOK /\ [IpNext]_ivars => KnownOK'
    BY KnownStays
  <1>3. IpInv /\ KnownOK => ReadableIsKnown
    <2> SUFFICES ASSUME KnownOK, NEW s \in Sockets, sock[s].priv, sock[s].q > 0
                 PROVE  readable[s] \/ call \/ event["tick"].s = s \/ mreq.s = s
      BY DEF ReadableIsKnown
    <2>1. [s |-> s, ev |-> "read"].s = s
      OBVIOUS
    <2> QED BY <2>1 DEF KnownOK
  <1>4. IpSpec => []KnownOK
    BY <1>1, <1>2, IpInvHolds, PTL DEF IpSpec
  <1> QED BY <1>3, <1>4, IpInvHolds, PTL
=============================================================================
