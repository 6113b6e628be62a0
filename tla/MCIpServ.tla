------------------------------ MODULE MCIpServ ------------------------------
(* Instances of IpServ for TLC: the network stack of Linux with one socket,  *)
(* a server that accepts a second one, and the tools that set up a device.   *)
EXTENDS IpServ

NetworkOps == SlockOps \cup BareOps \cup {"shutdown", "lock", "unlock", "ping"}
AcceptOps  == {"open", "listen", "set_priv", "accept", "lock", "unlock"}
ToolOps    == ServerOps \cup {"timer", "lock", "unlock"}

MCClients == { [ops |-> NetworkOps, sockets |-> {1}, queue |-> 2],
               [ops |-> AcceptOps, sockets |-> {1, 2}, queue |-> 1],
               [ops |-> ToolOps, sockets |-> {}, queue |-> 0] }
MCPingCounts == {0, 2, 3}
=============================================================================
