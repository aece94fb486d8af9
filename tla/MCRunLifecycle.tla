--------------------------- MODULE MCRunLifecycle ---------------------------
(***************************************************************************)
(* RunLifecycle on small instances.                                        *)
(***************************************************************************)
EXTENDS RunLifecycle

CONSTANTS r1, nobody

NoInput == [i \in Inputs |-> 0]

\* One run through every race of two answers, two cancels and a takeover that
\* may fail half-way and may be released, with a second gesture on its card.
RaceBudget == [swipe |-> 2, cancel |-> 2, respond |-> 2, takeover |-> 2, fault |-> 1]

\* Delegated once, taken over once.
TakeoverBudget == [NoInput EXCEPT !.swipe = 1, !.takeover = 1]

\* Delegated once, cancelled once.
CancelBudget == [NoInput EXCEPT !.swipe = 1, !.cancel = 1]

\* Delegated once, nobody else.
YieldBudget == [NoInput EXCEPT !.swipe = 1]
=============================================================================
