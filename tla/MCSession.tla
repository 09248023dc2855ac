------------------------------ MODULE MCSession ------------------------------
(***************************************************************************)
(* Instances of Session for TLC.                                           *)
(***************************************************************************)
EXTENDS Session

CONSTANTS t1, t2

MCTasks == {t1, t2}
OneTask == {t1}
=============================================================================
