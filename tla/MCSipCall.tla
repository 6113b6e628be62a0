----------------------------- MODULE MCSipCall -----------------------------
(* Instances of SipCall for TLC.                                           *)
EXTENDS SipCall

MCVias == {<<"inv", 1>>, <<"inv", 2>>, <<"ack", 1>>, <<"ack", 2>>, <<"bye", 1>>, <<"bye", 2>>,
           <<"hang", 1>>, <<"hold", 1>>, <<"held", 1>>}
Nothing == {}

\* The phone is called and may crash; a call of the phone is asked for
\* credentials first; the callee of the phone asks for other media, in vain or not.
MCScenarios ==
  { [sides |-> {"ext"}, allowed |-> {"cancel", "crash", "callee_bye"}],
    [sides |-> {"loc"}, allowed |-> {"challenge", "early_bye", "callee_bye"}],
    [sides |-> {"loc"}, allowed |-> {"hold"}],
    [sides |-> {"loc"}, allowed |-> {"hold", "refused_hold"}] }
LossyScenarios == { [sides |-> Sides, allowed |-> {"challenge", "lost_ack"}] }
=============================================================================
