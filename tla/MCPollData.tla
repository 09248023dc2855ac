------------------------------ MODULE MCPollData ------------------------------
(***************************************************************************)
(* Instances of PollData for TLC.                                          *)
(***************************************************************************)
EXTENDS PollData

CONSTANT p1

OnePort == {p1}
=============================================================================
