--------------------------- MODULE MCConfigEntries ---------------------------
(***************************************************************************)
(* Instances of ConfigEntries for TLC.                                     *)
(***************************************************************************)
EXTENDS ConfigEntries

CONSTANTS s1, s2, h1, h2, h3, n1

MCSwitches == {s1, s2}
MCHosts == {h1, h2, h3}

\* The first switch has a name that users may type, or none has
MCNames == {n1}
MCOwner == [x \in MCNames |-> s1]
NoNames == {}
NoOwner == [x \in NoNames |-> s1]

\* Two switches of the kinds k and l; which is where first is all one
Home(k, l, y) ==
    [kind |-> [s \in MCSwitches |-> IF s = s1 THEN k ELSE l],
     addr |-> [s \in MCSwitches |-> IF s = s1 THEN h1 ELSE h2],
     yaml |-> y]

MCHomes == {Home("pro", "plus", TRUE), Home("upnp", "plus", TRUE),
            Home("pro", "other", FALSE)}

\* Two switches that NSDP finds
TwoPros == {Home("pro", "pro", TRUE)}
=============================================================================
