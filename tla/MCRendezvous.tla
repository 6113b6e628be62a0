---------------------------- MODULE MCRendezvous ----------------------------
(***************************************************************************)
(* The boxes of one call, and one other user of the server.  An id is left *)
(* for the description that is stored twice, because an answer was lost.   *)
(***************************************************************************)
EXTENDS Rendezvous
CONSTANTS i1, i2

MCIds    == {i1, i2}
MCOffers == {"out", "in", "other"}
=============================================================================
