---------------------------- MODULE MCPortSettings ----------------------------
(***************************************************************************)
(* Instances of PortSettings for TLC.                                      *)
(***************************************************************************)
EXTENDS PortSettings

CONSTANTS p1, p2, c1, c2

MCPorts == {p1, p2}
MCAsked ==
    {<<"vlan", p1>>, <<"vlan", p2>>, <<"name", p1>>, <<"speed", p1>>,
     <<"power", p1>>, <<"power", p2>>, <<"reset", p1>>, <<"cycle", p2>>}
MCTouched == {p1}
MCCalls == {c1, c2}
MCDrivers == {"aj4", "legacy"}
WholeForms == {"json", "s350"}
=============================================================================
