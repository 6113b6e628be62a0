--------------------------- MODULE MCCryptoStream ---------------------------
(* Instances of CryptoStream for TLC: the configuration as delivered, and    *)
(* one that tries ICE at once but has no ICE storage server.                *)
EXTENDS CryptoStream

DefaultConfigs == { [skipzrtp1 |-> FALSE, icestorage |-> TRUE] }
MCConfigs == DefaultConfigs \cup { [skipzrtp1 |-> TRUE, icestorage |-> FALSE] }
=============================================================================
