---------------------------- MODULE MCChainRun ----------------------------
(***************************************************************************)
(* ChainRun on small instances.                                            *)
(***************************************************************************)
EXTENDS ChainRun, TLC

CONSTANTS q1, q2, orch, resumer

NoInput == [i \in Inputs |-> 0]

\* Two steps, two requests at once; one of the six kinds of trouble, or two of
\* them together, which ones is open.
RaceBudget == [i \in Inputs |-> 1]

\* Nothing fails: two requests on a parked step are enough.
TaskBudget == NoInput

\* Requests are alike; for runs without liveness.
Alike == Permutations(Requests)
=============================================================================
