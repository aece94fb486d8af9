------------------------------ MODULE MCPollFeed ------------------------------
(***************************************************************************)
(* PollFeed on small instances.                                            *)
(***************************************************************************)
EXTENDS PollFeed

CONSTANTS p, q

\* Two changes of the pull request, and one disturbance of each kind.
FeedBudget == [input \in Inputs |-> IF input = "world" THEN 2 ELSE 1]
=============================================================================
