---------------------------- MODULE MCGuiEvents ----------------------------
(***************************************************************************)
(* Two calls, as a second one may come in while the first is held; the     *)
(* second one stays plain, and its address may name no user.               *)
(***************************************************************************)
EXTENDS GuiEvents
CONSTANTS c1, c2

MCCalls == {c1, c2}
MCEncrypting == {c1}
MCNameless == {c2}
=============================================================================
