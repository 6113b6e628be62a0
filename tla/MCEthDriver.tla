---------------------------- MODULE MCEthDriver ----------------------------
(* EthDriver for TLC: the constants are plain numbers.                       *)
EXTENDS EthDriver
=============================================================================
