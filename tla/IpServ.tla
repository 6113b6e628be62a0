------------------------------- MODULE IpServ -------------------------------
(***************************************************************************)
(* The seL4 network server (IPServ: ipserv.c, remcalls_s.c), which runs a  *)
(* TCP/IP stack for Linux on another core.                                 *)
(*                                                                         *)
(*   "tick"   the control thread: ticks the stack, which raises socket     *)
(*            events, and calls the callbacks of DHCP and of ping          *)
(*   "slave"  the thread of Linux's calls: one at a time, in s_buffer      *)
(*                                                                         *)
(* An event of a socket goes the other way: whoever is in the stack puts   *)
(* it into m_buffer, interrupts Linux and waits until Linux confirms it.   *)
(* The stack (picoTCP) and Linux's driver are outside src/: the stack may  *)
(* do what it documents, and Linux keeps to the locks that the server      *)
(* leaves to it.  The ethernet driver under the stack is EthDriver.        *)
(***************************************************************************)
EXTENDS Naturals

CONSTANTS
  MinLock,                           \* whether MINLOCK is defined
  loopback,                          \* whether there is a loopback device
  MAX_DEVICES, MAX_ROUTES, SEL4IP_MAX_NAMESERVERS, SEL4IP_MAX_PING,
  PingCounts,                        \* what the user of sel4iptool types
  MaxRoutes, MaxServers,             \* bounds: routes, name servers
  Clients                            \* what may be the client

ASSUME IpServAssumption ==
  /\ Clients \subseteq [ops : SUBSET STRING, sockets : SUBSET (Nat \ {0}), queue : Nat]
  /\ MinLock \in BOOLEAN /\ loopback \in BOOLEAN
  /\ {MAX_DEVICES, MAX_ROUTES, SEL4IP_MAX_NAMESERVERS, SEL4IP_MAX_PING} \subseteq Nat \ {0}
  /\ PingCounts \subseteq Nat /\ {MaxRoutes, MaxServers} \subseteq Nat

VARIABLES
  stackLock,   \* who holds pico_stack_lock: "free", "tick", "slave", "linux" (by a call)
  masterLock,  \* who holds master_request_lock
  pc,          \* thread -> where it is
  event,       \* thread -> the socket event it handles
  mreq,        \* the event in m_buffer, until Linux has confirmed it
  mconf,       \* the interrupt of Linux's confirmation
  confirmed,   \* the semaphore request_confirmed
  sreq, sres,  \* the call in s_buffer and its result
  net,         \* the device eth0, its address, how many routes
  sock,        \* socket -> its state, its priv pointer (set or NULL), its data
  dhcp_finished, dhcp_code,
  codeOf,      \* which negotiation wrote dhcp_code
  clients,     \* the negotiations that run in the stack: "own", "old"
  ping_replies,
  pings,       \* replies and timeouts that the stack still owes
  ticked,      \* the tick's notification
  client,      \* Linux: the calls it makes; bounds: its sockets, the data of one
  call,        \* Linux: whether a call is under way
  object,      \* Linux: socket -> "none", "known", "live" with an object of its own
  readable     \* Linux: socket -> there may be data

Sockets == client.sockets

locks    == <<stackLock, masterLock>>
threads  == <<pc, event>>
upcall   == <<mreq, mconf, confirmed>>
buffer   == <<sreq, sres>>
dhcp     == <<dhcp_finished, dhcp_code, codeOf, clients>>
ping     == <<ping_replies, pings>>
linux    == <<call, object, readable>>
ivars    == <<locks, threads, upcall, buffer, net, sock, dhcp, ping, ticked, linux, client>>

None == [s |-> 0, ev |-> "none"]
Asks(op, s, name, n) == [op |-> op, s |-> s, name |-> name, n |-> n]
Idle == Asks("none", 0, "none", 0)
Okay == [ok |-> TRUE, n |-> 0, more |-> FALSE]
Failed == [Okay EXCEPT !.ok = FALSE]

Goto(t, where) == pc' = [pc EXCEPT ![t] = where]
At(t, where)   == pc[t] = where

AtMost(n, max) == IF n <= max THEN n ELSE max

----------------------------------------------------------------------------
(* The handlers of remcalls_s.c: what a call may do to the devices and the *)
(* sockets, what it answers, and the event the stack may raise in it.      *)

Same         == [net |-> net, sock |-> sock, ret |-> Okay, ev |-> "none"]
Answer(ret)  == [Same EXCEPT !.ret = ret]
Fails        == {Answer(Failed)}
Become(s, x) == [Same EXCEPT !.sock[s] = x]
Raise(ev)    == [Same EXCEPT !.ev = ev]

FreeSocket == [st |-> "free", priv |-> FALSE, q |-> 0]
NewSocket(q) == [st |-> "open", priv |-> FALSE, q |-> q]

\* Mutant: the pointer stays.
StickyPriv(a) == {[Same EXCEPT !.sock[a.s].priv = (@ \/ a.n = 1)]}

handle_rem_set_priv(a) == {[Same EXCEPT !.sock[a.s].priv = (a.n = 1)]}

handle_rem_init_eth == {[Same EXCEPT !.net.eth = TRUE]} \cup Fails

Devices == (IF loopback THEN 1 ELSE 0) + (IF net.eth THEN 1 ELSE 0)

handle_rem_get_devices == {Answer([Okay EXCEPT !.n = AtMost(Devices, MAX_DEVICES)])}

pico_get_device(name) == (name = "lo" /\ loopback) \/ (name = "eth0" /\ net.eth)

\* Whether there is an address (hasipv4link) is "more".
handle_rem_get_device_config(a) ==
  IF pico_get_device(a.name)
    THEN {Answer([Okay EXCEPT !.more = (a.name = "eth0" /\ net.link)])} ELSE Fails

\* Without its address a device has no routes (picoTCP); with a new one it has one.
NoLink == [net EXCEPT !.link = FALSE, !.routes = 0]
Link   == [net EXCEPT !.link = TRUE, !.routes = 1]

handle_rem_set_device_address(a) ==
  IF a.name = "lo" THEN {Same}
  ELSE IF ~pico_get_device(a.name) THEN Fails
  ELSE {[Same EXCEPT !.net = Link], [Same EXCEPT !.net = NoLink, !.ret = Failed]}

handle_rem_device_down(a) ==
  IF a.name = "lo" \/ ~pico_get_device(a.name) THEN Fails ELSE {[Same EXCEPT !.net = NoLink]}

\* Without a name it is the route of eth0.
handle_rem_device_addroute(a) ==
  LET devname == IF a.name = "none" THEN "eth0" ELSE a.name
  IN IF devname = "lo" \/ ~pico_get_device(devname) \/ ~net.link THEN Fails
     ELSE Fails \cup {[Same EXCEPT !.net.routes = r] : r \in {net.routes + 1} \cap 0 .. MaxRoutes}

handle_rem_get_routes == {Answer([Okay EXCEPT !.n = AtMost(net.routes, MAX_ROUTES)])}

\* Calls during which the stack may raise an event of the socket.
handle_rem_pico_socket_shutdown == {Same, Raise("write"), Raise("close"), Answer(Failed)}
handle_rem_pico_socket_connect  == {Same, Raise("write"), Raise("close"), Answer(Failed)}

\* A TCP connection lingers until its end is acknowledged.
handle_rem_pico_socket_close(a) ==
  {Become(a.s, FreeSocket), [Same EXCEPT !.sock[a.s].st = "closing"]}

handle_rem_pico_socket_bind    == {Same, Answer(Failed)}
handle_rem_pico_socket_getname == {Same, Answer(Failed)}

Accepted(s, t, q) == [Same EXCEPT !.sock[s].q = @ - 1, !.sock[t] = NewSocket(q), !.ret.n = t]

\* The data of a listening socket are its pending connections; pico_err tells
\* Linux (n) that there is none from other failures.
handle_rem_pico_socket_accept(a) ==
  LET free == {s \in Sockets : sock[s].st = "free"}
  IN IF sock[a.s].st = "listen" /\ sock[a.s].q = 0 THEN Fails
     ELSE IF sock[a.s].st # "listen" \/ free = {} THEN {Answer([Failed EXCEPT !.n = 1])}
     ELSE {Accepted(a.s, t, q) : t \in free, q \in 0 .. client.queue}

handle_rem_pico_socket_listen(a) ==
  {[Same EXCEPT !.sock[a.s].st = "listen", !.sock[a.s].q = 0], Answer(Failed)}

handle_rem_pico_socket_sendto == {Same, Raise("write"), Answer(Failed)}
handle_rem_pico_socket_send   == {Same, Raise("write"), Answer(Failed)}

\* Mutant: "more" stays what the answer was cleared to.
NeverMore(a) == {[Same EXCEPT !.sock[a.s].q = IF @ = 0 THEN 0 ELSE @ - 1]}

handle_rem_pico_socket_recvfrom(a) ==
  LET left == IF sock[a.s].q = 0 THEN 0 ELSE sock[a.s].q - 1
  IN {[Same EXCEPT !.sock[a.s].q = left, !.ret.more = (left > 0)]}

handle_rem_pico_socket_poll(a) == {Answer([Okay EXCEPT !.more = (sock[a.s].q > 0)])}

handle_rem_pico_socket_open ==
  Fails \cup {[Same EXCEPT !.sock[t] = NewSocket(0), !.ret.n = t] :
                t \in {s \in Sockets : sock[s].st = "free"}}

handle_rem_pico_socket_option == {Same, Answer(Failed)}

handle_rem_timer == {Same}

\* The switch; the calls that wait are actions of their own.
handle_remcall(a) ==
  CASE a.op = "set_priv"           -> handle_rem_set_priv(a)
    [] a.op = "init_eth"           -> handle_rem_init_eth
    [] a.op = "get_devices"        -> handle_rem_get_devices
    [] a.op = "get_device_config"  -> handle_rem_get_device_config(a)
    [] a.op = "set_device_address" -> handle_rem_set_device_address(a)
    [] a.op = "device_down"        -> handle_rem_device_down(a)
    [] a.op = "device_addroute"    -> handle_rem_device_addroute(a)
    [] a.op = "get_routes"         -> handle_rem_get_routes
    [] a.op = "timer"              -> handle_rem_timer
    [] a.op = "shutdown"           -> handle_rem_pico_socket_shutdown
    [] a.op = "connect"            -> handle_rem_pico_socket_connect
    [] a.op = "close"              -> handle_rem_pico_socket_close(a)
    [] a.op = "bind"               -> handle_rem_pico_socket_bind
    [] a.op = "getname"            -> handle_rem_pico_socket_getname
    [] a.op = "accept"             -> handle_rem_pico_socket_accept(a)
    [] a.op = "listen"             -> handle_rem_pico_socket_listen(a)
    [] a.op = "sendto"             -> handle_rem_pico_socket_sendto
    [] a.op = "send"               -> handle_rem_pico_socket_send
    [] a.op = "recvfrom"           -> handle_rem_pico_socket_recvfrom(a)
    [] a.op = "poll"               -> handle_rem_pico_socket_poll(a)
    [] a.op = "open"               -> handle_rem_pico_socket_open
    [] a.op = "option"             -> handle_rem_pico_socket_option

ServerOps == {"init_eth", "get_devices", "get_device_config", "set_device_address",
              "device_down", "device_addroute", "get_routes", "dhcp", "ping"}
NamedOps  == {"get_device_config", "set_device_address", "device_down", "device_addroute"}
SlockOps  == {"connect", "bind", "getname", "listen", "sendto", "option", "send", "recvfrom"}
BareOps   == {"set_priv", "close", "accept", "poll", "open"}

\* Whether the handler takes the stack's lock itself; send and recvfrom are
\* asked to (a->lock) exactly when Linux does not hold it.
Locks(a) == a.op \in ServerOps \cup {"shutdown"} \/ (MinLock /\ a.op \in SlockOps)

----------------------------------------------------------------------------
(* The thread of Linux's calls.                                            *)

\* s_request_irq_handle, up to the handler's work.
s_request_irq_handle ==
  /\ At("slave", "request")
  /\ \/ /\ sreq.op = "lock" /\ stackLock = "free"
        /\ stackLock' = "linux" /\ sres' = Okay /\ Goto("slave", "confirm")
     \/ /\ sreq.op = "unlock"
        /\ stackLock' = "free" /\ sres' = Okay /\ Goto("slave", "confirm")
     \/ /\ Locks(sreq) /\ stackLock = "free"
        /\ stackLock' = "slave" /\ UNCHANGED sres /\ Goto("slave", "call")
     \/ /\ sreq.op \notin {"lock", "unlock"} /\ ~Locks(sreq)
        /\ UNCHANGED <<stackLock, sres>> /\ Goto("slave", "call")
  /\ UNCHANGED <<masterLock, event, upcall, sreq, net, sock, dhcp, ping, ticked, linux, client>>

Handle ==
  /\ At("slave", "call") /\ sreq.op \notin {"dhcp", "ping"}
  /\ \E o \in handle_remcall(sreq) :
       /\ net' = o.net /\ sock' = o.sock /\ sres' = o.ret
       /\ event' = [event EXCEPT !["slave"] = [s |-> sreq.s, ev |-> o.ev]]
       /\ Goto("slave", IF o.ev = "none" THEN "leave" ELSE "event")
  /\ UNCHANGED <<locks, upcall, sreq, dhcp, ping, ticked, linux, client>>

Unlocked == IF stackLock = "slave" THEN "free" ELSE stackLock

Leave ==
  /\ At("slave", "leave")
  /\ stackLock' = Unlocked
  /\ Goto("slave", "confirm")
  /\ UNCHANGED <<masterLock, event, upcall, buffer, net, sock, dhcp, ping, ticked, linux, client>>

\* handle_rem_dhcp: what is left of the last negotiation goes.
\* Mutant: an answer that nobody waited for stays.
KeepFinished == UNCHANGED dhcp_finished

ResetFinished == dhcp_finished' = FALSE

handle_rem_dhcp ==
  /\ At("slave", "call") /\ sreq.op = "dhcp"
  /\ ResetFinished
  /\ codeOf' = "old"
  /\ stackLock' = "free"
  /\ \/ /\ pico_get_device("eth0") /\ clients' = {"own"}
        /\ Goto("slave", "dhcp") /\ UNCHANGED sres
     \/ clients' = {} /\ sres' = Failed /\ Goto("slave", "confirm")
  /\ UNCHANGED <<masterLock, event, upcall, sreq, net, sock, dhcp_code, ping, ticked, linux, client>>

\* The negotiation is over, or 30 seconds are.
DhcpOver ==
  /\ At("slave", "dhcp")
  /\ \/ dhcp_finished /\ UNCHANGED <<dhcp_code, codeOf>>
     \/ ~dhcp_finished /\ dhcp_code' = "error" /\ codeOf' = "timeout"
  /\ Goto("slave", "answer")
  /\ UNCHANGED <<locks, event, upcall, buffer, net, sock, dhcp_finished, clients, ping, ticked, linux, client>>

DhcpAnswer ==
  /\ At("slave", "answer")
  /\ \/ dhcp_code = "success" /\ Goto("slave", "servers") /\ UNCHANGED sres
     \/ dhcp_code # "success" /\ Goto("slave", "confirm") /\ sres' = Failed
  /\ UNCHANGED <<locks, event, upcall, sreq, net, sock, dhcp, ping, ticked, linux, client>>

\* The stack is asked for the name servers, without its lock: a tick may be in it.
DhcpServers ==
  /\ At("slave", "servers")
  /\ \E n \in 0 .. MaxServers : sres' = [Okay EXCEPT !.n = AtMost(n, SEL4IP_MAX_NAMESERVERS)]
  /\ Goto("slave", "confirm")
  /\ UNCHANGED <<locks, event, upcall, sreq, net, sock, dhcp, ping, ticked, linux, client>>

\* Mutant: it waits with the lock.
KeepLock == UNCHANGED stackLock

GiveLock == stackLock' = "free"

handle_rem_ping ==
  /\ At("slave", "call") /\ sreq.op = "ping"
  /\ GiveLock
  /\ ping_replies' = 0
  /\ \/ pings' = sreq.n /\ Goto("slave", "ping") /\ UNCHANGED sres
     \/ sres' = Failed /\ Goto("slave", "confirm") /\ UNCHANGED pings
  /\ UNCHANGED <<masterLock, event, upcall, sreq, net, sock, dhcp, ticked, linux, client>>

\* Mutant: the last reply is not waited for.
AllButOne == ping_replies + 1 >= sreq.n

AllReplies == ping_replies >= sreq.n

PingOver ==
  /\ At("slave", "ping") /\ AllReplies
  /\ sres' = [Okay EXCEPT !.n = ping_replies] /\ Goto("slave", "confirm")
  /\ UNCHANGED <<locks, event, upcall, sreq, net, sock, dhcp, ping, ticked, linux, client>>

----------------------------------------------------------------------------
(* handle_socket_event, on either thread.                                  *)

begin_master_request(t) ==
  /\ At(t, "event") /\ masterLock = "free"
  /\ masterLock' = t /\ Goto(t, "begun")
  /\ UNCHANGED <<stackLock, event, upcall, buffer, net, sock, dhcp, ping, ticked, linux, client>>

handle_socket_event(t) ==
  LET s == event[t].s
  IN /\ At(t, "begun")
     /\ \/ /\ sock[s].priv
           /\ mreq' = event[t] /\ Goto(t, "wait")
           /\ UNCHANGED sock
        \/ /\ ~sock[s].priv
           /\ sock' = IF event[t].ev = "close" THEN [sock EXCEPT ![s] = FreeSocket] ELSE sock
           /\ Goto(t, "end")
           /\ UNCHANGED mreq
     /\ UNCHANGED <<locks, event, mconf, confirmed, buffer, net, dhcp, ping, ticked, linux, client>>

do_master_request(t) ==
  /\ At(t, "wait") /\ confirmed
  /\ confirmed' = FALSE /\ Goto(t, "end")
  /\ UNCHANGED <<locks, event, mreq, mconf, buffer, net, sock, dhcp, ping, ticked, linux, client>>

end_master_request(t) ==
  /\ At(t, "end")
  /\ masterLock' = "free"
  /\ event' = [event EXCEPT ![t] = None]
  /\ Goto(t, IF t = "tick" THEN "stack" ELSE "leave")
  /\ UNCHANGED <<stackLock, upcall, buffer, net, sock, dhcp, ping, ticked, linux, client>>

m_confirm_irq_handle ==
  /\ mconf
  /\ mconf' = FALSE /\ confirmed' = TRUE
  /\ UNCHANGED <<locks, threads, mreq, buffer, net, sock, dhcp, ping, ticked, linux, client>>

----------------------------------------------------------------------------
(* The timer (mstick.c; every second interrupt is for this server, the     *)
(* others are for the one of eth1) and the control thread (run): a tick    *)
(* that comes while the last one is worked on is kept, a second one is not.*)

irq_handle ==
  /\ ticked' = TRUE
  /\ UNCHANGED <<locks, threads, upcall, buffer, net, sock, dhcp, ping, linux, client>>

TickWait ==
  /\ At("tick", "idle") /\ ticked
  /\ ticked' = FALSE /\ Goto("tick", "lock")
  /\ UNCHANGED <<locks, event, upcall, buffer, net, sock, dhcp, ping, linux, client>>

\* Mutant: the stack ticks without the lock.
TickFreely == UNCHANGED stackLock

TakeLock == stackLock = "free" /\ stackLock' = "tick"

TickLock ==
  /\ At("tick", "lock") /\ TakeLock
  /\ Goto("tick", "stack")
  /\ UNCHANGED <<masterLock, event, upcall, buffer, net, sock, dhcp, ping, ticked, linux, client>>

TickUnlock ==
  /\ At("tick", "stack")
  /\ stackLock' = "free" /\ Goto("tick", "idle")
  /\ UNCHANGED <<masterLock, event, upcall, buffer, net, sock, dhcp, ping, ticked, linux, client>>

\* The stack raises an event: data or a connection, the peer's end, any other.
SocketEvent(s) ==
  /\ At("tick", "stack") /\ sock[s].st # "free"
  /\ \E ev \in {"read", "write", "close"} :
       /\ ev = "read" => sock[s].st # "closing" /\ sock[s].q < client.queue
       /\ sock' = IF ev = "read" THEN [sock EXCEPT ![s].q = @ + 1] ELSE sock
       /\ event' = [event EXCEPT !["tick"] = [s |-> s, ev |-> ev]]
  /\ Goto("tick", "event")
  /\ UNCHANGED <<locks, upcall, buffer, net, dhcp, ping, ticked, linux, client>>

\* The negotiation ends, and the server is told in two writes.
dhcp_callback(c) ==
  /\ At("tick", "stack") /\ c \in clients
  /\ \E code \in {"success", "error"} :
       /\ dhcp_code' = code /\ codeOf' = c
       /\ net' = IF code = "success" THEN Link ELSE net
       /\ clients' = IF code = "success" THEN clients ELSE clients \ {c}
  /\ Goto("tick", "callback")
  /\ UNCHANGED <<locks, event, upcall, buffer, sock, dhcp_finished, ping, ticked, linux, client>>

DhcpFinished ==
  /\ At("tick", "callback")
  /\ dhcp_finished' = TRUE /\ Goto("tick", "stack")
  /\ UNCHANGED <<locks, event, upcall, buffer, net, sock, dhcp_code, codeOf, clients, ping, ticked,
                 linux, client>>

\* For each packet of the ping, when its reply comes or is overdue.
ping4_callback ==
  /\ At("tick", "stack") /\ pings > 0
  /\ pings' = pings - 1 /\ ping_replies' = ping_replies + 1
  /\ UNCHANGED <<locks, threads, upcall, buffer, net, sock, dhcp, ticked, linux, client>>

----------------------------------------------------------------------------
(* Linux.  Its calls come one after the other.  It takes the stack's lock  *)
(* by a call for what the server does not lock, and never asks for a lock  *)
(* that it holds.  It knows a socket until it closes it; before that it    *)
(* takes back the pointer to its own object.                               *)

HasLock == stackLock = "linux"

\* Mutant: off by one.
CountFitsNearly(n) == n >= 1 /\ n <= SEL4IP_MAX_PING + 1

\* sel4iptool looks at the number the user types.
CountFits(n) == n >= 1 /\ n <= SEL4IP_MAX_PING

Requests ==
  {Asks(o, 0, "none", 0) :
     o \in client.ops \cap (IF HasLock THEN {"unlock", "open"}
                                ELSE {"lock", "timer"} \cup (ServerOps \ ({"ping"} \cup NamedOps)))}
  \cup {Asks(o, 0, name, 0) :
          o \in {x \in client.ops \cap NamedOps : ~HasLock}, name \in {"lo", "eth0", "none"}}
  \cup {Asks(o, 0, "none", n) :
          o \in {x \in client.ops \cap {"ping"} : ~HasLock}, n \in {m \in PingCounts : CountFits(m)}}
  \cup {Asks(o, s, "none", 0) :
          o \in {x \in client.ops \cap (SlockOps \cup {"accept", "poll", "shutdown"}) :
                   HasLock <=> ~Locks([op |-> x])},
          s \in {t \in Sockets : object[t] = "live"}}
  \cup {Asks("set_priv", s, "none", IF object[s] = "known" THEN 1 ELSE 0) :
          s \in {t \in Sockets : HasLock /\ object[t] # "none" /\ "set_priv" \in client.ops}}
  \cup {Asks("close", s, "none", 0) :
          s \in {t \in Sockets : HasLock /\ object[t] = "known" /\ "close" \in client.ops}}

LinuxCall ==
  /\ ~call /\ At("slave", "idle")
  /\ \E a \in Requests :
       /\ sreq' = a
       /\ object' = IF a.op = "set_priv" /\ a.n = 1 THEN [object EXCEPT ![a.s] = "live"] ELSE object
  /\ call' = TRUE /\ Goto("slave", "request")
  /\ UNCHANGED <<locks, event, upcall, sres, net, sock, dhcp, ping, ticked, readable, client>>

\* A socket with a new object is tried once; then its events and "more" say.
LinuxReturn ==
  LET s == sreq.s
  IN /\ call /\ At("slave", "confirm")
     /\ call' = FALSE /\ Goto("slave", "idle")
     /\ object' = IF sreq.op \in {"open", "accept"} /\ sres.ok
                    THEN [object EXCEPT ![sres.n] = "known"]
                  ELSE IF sreq.op = "set_priv" /\ sreq.n = 0 THEN [object EXCEPT ![s] = "known"]
                  ELSE IF sreq.op = "close" THEN [object EXCEPT ![s] = "none"]
                  ELSE object
     /\ readable' = IF sreq.op = "set_priv" THEN [readable EXCEPT ![s] = (sreq.n = 1)]
                    ELSE IF sreq.op \in {"recvfrom", "poll"} THEN [readable EXCEPT ![s] = sres.more]
                    ELSE IF sreq.op = "accept" /\ sres = Failed THEN [readable EXCEPT ![s] = FALSE]
                    ELSE readable
     /\ sreq' = Idle /\ sres' = Okay
     /\ UNCHANGED <<locks, event, upcall, net, sock, dhcp, ping, ticked, client>>

\* The event's interrupt: Linux notes it and confirms, without a call of its own.
LinuxEvent ==
  /\ mreq # None
  /\ readable' = IF mreq.ev = "read" THEN [readable EXCEPT ![mreq.s] = TRUE] ELSE readable
  /\ mreq' = None /\ mconf' = TRUE
  /\ UNCHANGED <<locks, threads, confirmed, buffer, net, sock, dhcp, ping, ticked, call, object, client>>

----------------------------------------------------------------------------
IpInit ==
  /\ client \in Clients
  /\ stackLock = "free" /\ masterLock = "free"
  /\ pc = [t \in {"tick", "slave"} |-> "idle"]
  /\ event = [t \in {"tick", "slave"} |-> None]
  /\ mreq = None /\ mconf = FALSE /\ confirmed = FALSE
  /\ sreq = Idle /\ sres = Okay
  /\ net = [eth |-> FALSE, link |-> FALSE, routes |-> 0]
  /\ sock = [s \in Sockets |-> FreeSocket]
  /\ dhcp_finished = FALSE /\ dhcp_code = "error" /\ codeOf = "old" /\ clients = {}
  /\ ping_replies = 0 /\ pings = 0
  /\ ticked = FALSE
  /\ call = FALSE
  /\ object = [s \in Sockets |-> "none"] /\ readable = [s \in Sockets |-> FALSE]

Slave == s_request_irq_handle \/ Handle \/ Leave
           \/ handle_rem_dhcp \/ DhcpOver \/ DhcpAnswer \/ DhcpServers \/ handle_rem_ping \/ PingOver
Event(t) == begin_master_request(t) \/ handle_socket_event(t) \/ do_master_request(t)
              \/ end_master_request(t)
Control == TickWait \/ TickLock \/ DhcpFinished
Stack == TickUnlock \/ ping4_callback \/ (\E s \in Sockets : SocketEvent(s))
           \/ (\E c \in clients : dhcp_callback(c))
Linux == LinuxCall \/ LinuxReturn \/ LinuxEvent

IpNext ==
  \/ Slave \/ Event("slave") \/ Event("tick") \/ m_confirm_irq_handle
  \/ irq_handle \/ Control \/ Stack \/ Linux

IpSpec == IpInit /\ [][IpNext]_ivars

(***************************************************************************)
(* The threads run and the timer ticks; a lock comes to whoever waits for  *)
(* it again and again; a tick ends; the stack answers every packet of a    *)
(* ping, with a timeout if need be; Linux confirms events and notices when *)
(* its calls are done, though it need not make any.                        *)
(***************************************************************************)
IpFairSpec ==
  /\ IpSpec
  /\ SF_ivars(Slave) /\ WF_ivars(Event("slave")) /\ WF_ivars(Event("tick"))
  /\ WF_ivars(m_confirm_irq_handle) /\ WF_ivars(irq_handle)
  /\ WF_ivars(TickWait) /\ SF_ivars(TickLock) /\ WF_ivars(DhcpFinished)
  /\ SF_ivars(TickUnlock) /\ SF_ivars(ping4_callback)
  /\ WF_ivars(LinuxEvent) /\ WF_ivars(LinuxReturn)

----------------------------------------------------------------------------
Upcalls == {"event", "begun", "wait", "end"}

InStack(t) ==
  IF t = "tick" THEN pc[t] \in Upcalls \cup {"stack", "callback"}
  ELSE pc[t] \in Upcalls \cup {"call", "leave", "servers"} /\ sreq.op # "timer"

\* Two threads are in the stack at once only where handle_rem_dhcp asks it for
\* the name servers, after it gave the lock back.  In every other call one is:
\* the handlers without a lock of their own run while the control thread is
\* kept out by the lock that an earlier call took for Linux.
StackExclusive == InStack("tick") /\ InStack("slave") => At("slave", "servers")

\* An event reaches only an object that Linux still has: the pointer that is
\* read before the post cannot be taken back between the two.
EventGoesToOwner == mreq # None => object[mreq.s] = "live"

\* Data that wait for Linux are known to it, from an event or from "more",
\* whatever the order of events, reads and answers.
ReadableIsKnown ==
  \A s \in Sockets :
    (object[s] = "live" /\ sock[s].priv /\ sock[s].q > 0) =>
      readable[s] \/ call \/ event["tick"].s = s \/ mreq.s = s

\* The answer to a call for an address is of the negotiation it started.
DhcpAnswerIsOwn == (At("slave", "answer") /\ dhcp_code = "success") => codeOf = "own"

\* The stack owes replies only to the call whose buffer they are written to.
PingStatsInCall == pings > 0 => At("slave", "ping") /\ ping_replies + pings <= sreq.n

\* The lists of an answer fit into the buffer.
AnswersFit ==
  /\ sreq.op = "get_devices" => sres.n <= MAX_DEVICES
  /\ sreq.op = "get_routes"  => sres.n <= MAX_ROUTES
  /\ sreq.op = "dhcp"        => sres.n <= SEL4IP_MAX_NAMESERVERS
  /\ sreq.op = "ping"        => ping_replies <= SEL4IP_MAX_PING

\* Every call returns: "blocks the rem_call until all replies are returned",
\* and until then only.
CallsReturn == call ~> ~call
=============================================================================
