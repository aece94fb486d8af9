---------------------------- MODULE MCCuratorQueue ----------------------------
(***************************************************************************)
(* CuratorQueue on small instances.                                        *)
(***************************************************************************)
EXTENDS CuratorQueue

CONSTANTS a, b

\* Two messages, two changes of the setting, one of everything else.
ChatBudget == [i \in Inputs |-> IF i = "patch" THEN 2 ELSE 1]

Quiet == [i \in Inputs |-> 0]
\* Three messages, and no settings.
LineBudget == [i \in Inputs |-> IF i = "patch" THEN 0 ELSE 1]
PatchBudget == [Quiet EXCEPT !["patch"] = 2]
=============================================================================
