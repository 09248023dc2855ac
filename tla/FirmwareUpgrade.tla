--------------------------- MODULE FirmwareUpgrade ---------------------------
(***************************************************************************)
(* What firmware installs promise whoever depends on the switch, whether   *)
(* they succeed, fail or are cut short: a restart finds a complete image,  *)
(* the one that runs or the new one; only a restart changes what runs; and *)
(* the image to boot never goes back to an old one.                        *)
(*                                                                         *)
(* Whoever cannot keep an image to boot whole says so by kept: the switch  *)
(* may then write over it, with the new image or a part of it.             *)
(***************************************************************************)
VARIABLES
    running, \* the version the switch runs
    boots,   \* the version a restart would bring
    kept     \* the image to boot is left alone

Init == running = "old" /\ boots = "old"

\* The new image is complete and will be booted
Arm == boots' = "new" /\ UNCHANGED running

Restart == running' = boots /\ UNCHANGED boots

Rewrite ==
    /\ ~kept
    /\ boots' \in {"new", "broken"}
    /\ UNCHANGED running

Next == Arm \/ Restart \/ Rewrite

Spec == Init /\ [][Next]_<<running, boots>>
=============================================================================
