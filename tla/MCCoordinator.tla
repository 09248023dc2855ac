---------------------------- MODULE MCCoordinator ----------------------------
(***************************************************************************)
(* Instances of Coordinator for TLC.                                       *)
(***************************************************************************)
EXTENDS Coordinator

CONSTANTS p1, p2

TwoPorts == {p1, p2}
=============================================================================
