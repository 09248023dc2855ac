-------------------------- MODULE MCEntryLifecycle --------------------------
(***************************************************************************)
(* Instances of EntryLifecycle for TLC.                                    *)
(***************************************************************************)
EXTENDS EntryLifecycle

CONSTANTS e1, e2

\* Two entries that compete for the trap port, or have no use for it
Both == {e1, e2}
BothModes == {[e \in Both |-> "local"],
              [e \in Both |-> IF e = e1 THEN "mqtt" ELSE "disabled"]}
SecondLegacy == {e2}

\* One entry, for the promises that the code does not keep
One == {e1}
OneLocal == {[e \in One |-> "local"]}
OneLegacy == {e1}
NoLegacy == {}
=============================================================================
