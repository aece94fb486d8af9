--------------------------- MODULE MCFiringQueue ---------------------------
(***************************************************************************)
(* FiringQueue on small instances: one entity and one task with two        *)
(* triggers, one drain goroutine at a time next to the sweeper.  Each      *)
(* budget concentrates on one kind of disturbance.                         *)
(***************************************************************************)
EXTENDS FiringQueue

CONSTANTS e1, e2, t1, t2, g1, g2, h, s, d1, sweeper, u1, nobody

OneEntity == [t \in Tasks |-> e1]

NoInput == [i \in Inputs |-> 0]

\* Three trigger matches in two events, with one failing statement and one
\* restart of the process.
BurstBudget == [NoInput EXCEPT !.event = 5, !.fault = 1, !.crash = 1]

\* One match, a second trigger after scoring, one request of the user, one
\* stage of a run mirrored into its task and one failing statement.
ClaimBudget == [NoInput EXCEPT !.event = 3, !.user = 1, !.mirror = 1, !.fault = 1]

\* Two matches, one odd outcome of a run, one mirrored stage, one failing
\* statement and one change of the settings.
LiveBudget == [NoInput EXCEPT !.event = 2, !.score = 1, !.outcome = 1, !.fault = 1, !.admin = 1]

\* One trigger matched immediately and one after scoring, nobody else.
GateBudget == [NoInput EXCEPT !.event = 2, !.score = 1]

\* One match and one request of the user.
StampBudget == [NoInput EXCEPT !.event = 2, !.user = 1]

\* Two matches and one restart of the process.
RestartBudget == [NoInput EXCEPT !.event = 3, !.crash = 1]
=============================================================================
