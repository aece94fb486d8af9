------------------------------- MODULE MCGrading -------------------------------
(***************************************************************************)
(* Grading on small instances.                                             *)
(***************************************************************************)
EXTENDS Grading

CONSTANTS t, u

\* Two gestures of users, one failing statement and one crash.
CycleBudget == [input \in {"user", "fault", "crash"} |-> IF input = "user" THEN 2 ELSE 1]
=============================================================================
