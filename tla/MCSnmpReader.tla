---------------------------- MODULE MCSnmpReader ----------------------------
(***************************************************************************)
(* Instances of SnmpReader for TLC.                                        *)
(***************************************************************************)
EXTENDS SnmpReader

CONSTANTS p1, p2

TwoPorts == {p1, p2}

\* PoE on no, one or every port; vendor tables that report all of it or none
Agent(poe, tables) ==
    [col \in Columns |->
        IF col \in Walked THEN TwoPorts
        ELSE IF col = "main" THEN {Group}
        ELSE IF col \in Tables \ tables THEN {}
        ELSE poe]
EveryAgent ==
    {Agent(poe, tables) : poe \in {{}, {p1}, TwoPorts}, tables \in SUBSET Tables}
\* PoE on every port and one vendor table
PoeAgent == {Agent(TwoPorts, {"fastpath"})}
EveryHang == SUBSET Tables
NoHang == {{}}
=============================================================================
