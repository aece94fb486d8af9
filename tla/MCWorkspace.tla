------------------------------ MODULE MCWorkspace ------------------------------
(***************************************************************************)
(* Instances of Workspace for TLC.                                         *)
(***************************************************************************)
EXTENDS Workspace

Disturbed == [kill |-> 2, fault |-> 2, slow |-> 1]
Killed1 == [kill |-> 1, fault |-> 0, slow |-> 0]
=================================================================================
