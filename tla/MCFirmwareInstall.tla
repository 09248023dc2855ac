-------------------------- MODULE MCFirmwareInstall --------------------------
(***************************************************************************)
(* Instances of FirmwareInstall for TLC; the .cfg files name the drivers.  *)
(***************************************************************************)
EXTENDS FirmwareInstall
=============================================================================
