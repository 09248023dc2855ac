----------------------------- MODULE MCPortPower -----------------------------
(***************************************************************************)
(* Instances of PortPower for TLC.                                         *)
(***************************************************************************)
EXTENDS PortPower

CONSTANTS p1, p2

MCPorts == {p1, p2}
OnePort == {p1}
=============================================================================
