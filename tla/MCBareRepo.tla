------------------------------- MODULE MCBareRepo -------------------------------
(***************************************************************************)
(* Instances of BareRepo for TLC.                                          *)
(***************************************************************************)
EXTENDS BareRepo, TLC

\* A pull request of the repository and one of a fork with the same head name,
\* and one whose fork is gone.
Heads == 1 :> "patch-1" @@ 2 :> "patch-1" @@ 3 :> "fix"
Kinds == 1 :> "own" @@ 2 :> "fork" @@ 3 :> "deleted"

Inputs0 == [i \in Inputs |-> 0]
AnyRun == Permutations(Runs)

AllOnce == [i \in Inputs |-> 1]
Faulty == [i \in Inputs |-> IF i \in {"cancel", "fault", "takeover", "sweep"} THEN 1 ELSE 0]
Concurrent == Inputs0
CancelOnce == [Inputs0 EXCEPT !["cancel"] = 1]
MisreadOnce == [Inputs0 EXCEPT !["sweep"] = 1, !["fault"] = 1]
OverlayFails == [Inputs0 EXCEPT !["takeover"] = 1, !["overlay"] = 1, !["fault"] = 1]
CrashOnce == [Inputs0 EXCEPT !["crash"] = 1]
=================================================================================
