---------------------------- MODULE MCThesisDecision ----------------------------
(* ThesisDecision for TLC: two callers; decisions with two different notes. *)
EXTENDS ThesisDecision

CONSTANTS m, n

MCInputs == {<<"ACCEPT", n>>, <<"ACCEPT", m>>, <<"REJECT", n>>, <<"DEFER", n>>, <<"DEFER", m>>}
=============================================================================
