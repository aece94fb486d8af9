------------------------------- MODULE Workspace -------------------------------
(***************************************************************************)
(* `triagefactory exec workspace add` (cmd/exec/workspace) in a Jira run:   *)
(* the agent starts command-line processes, which share nothing but the    *)
(* table run_worktrees and the file system, and which a timeout of its      *)
(* shell may kill at any step.  The row of the run and the repository      *)
(* reserves the path before git makes the worktree; a row without a        *)
(* directory is a creation in progress, or, after five minutes, one that    *)
(* died.  When the run returns, runAgent removes what the rows name.        *)
(***************************************************************************)
EXTENDS Naturals, FiniteSets

CONSTANTS Calls,   \* processes that may exist at a time
          Nobody,  \* no process
          Budget   \* how many inputs of each kind a behaviour has

Inputs == {"kill", "fault", "slow"}

ASSUME WorkspaceAssumption ==
  /\ Nobody \notin Calls
  /\ Budget \in [Inputs -> Nat]

VARIABLES
  row,      \* the row of run_worktrees: who reserved it, and whether it is old
  tree,     \* the directory
  branch,   \* the feature branch in the clone: checked out, locked, or neither
  pc,       \* where each process is
  seen,     \* the row that each process read: its age, and whether it is still there
  run,      \* the run: its agent works, or the place of its deferred cleanup
  lapses,   \* what has gone wrong that the code accepts
  budget

vars == <<row, tree, branch, pc, seen, run, lapses, budget>>

NoRow == [by |-> Nobody, old |-> FALSE]
Row(c) == [by |-> c, old |-> FALSE]
Unread == [old |-> FALSE, gone |-> FALSE]
PCs == {"idle", "lookup", "stat", "drop", "profile", "reserve", "create", "add", "exclude",
        "rollback", "prune", "release"}

Init ==
  /\ row = NoRow
  /\ tree = "none"
  /\ branch = "free"
  /\ pc = [c \in Calls |-> "idle"]
  /\ seen = [c \in Calls |-> Unread]
  /\ run = "working"
  /\ lapses = {}
  /\ budget = Budget

Spend(input) ==
  /\ budget[input] > 0
  /\ budget' = [budget EXCEPT ![input] = @ - 1]
At(c, here) == pc[c] = here
Goto(c, next) == pc' = [pc EXCEPT ![c] = next]
\* A statement, or a command, fails: the process prints the error and ends.
Fails(c) == Spend("fault") /\ Goto(c, "idle")
\* The row is deleted, which those who have read it do not know.
Deleted == row' = NoRow /\ seen' = [c \in Calls |-> [seen[c] EXCEPT !.gone = TRUE]]
Creating(c) == pc[c] \in {"create", "add", "exclude", "rollback", "prune", "release"}

-----------------------------------------------------------------------------
(***************************************************************************)
(* materializeWorkspace.                                                   *)
(***************************************************************************)
Call(c) ==
  /\ At(c, "idle") /\ run = "working"
  /\ Goto(c, "lookup")
  /\ UNCHANGED <<row, tree, branch, seen, run, lapses, budget>>

\* GetRunWorktreeByRepo.
Lookup(c) ==
  /\ At(c, "lookup")
  /\ \/ /\ Goto(c, IF row = NoRow THEN "profile" ELSE "stat")
        /\ seen' = [seen EXCEPT ![c] = [old |-> row.old, gone |-> FALSE]]
        /\ UNCHANGED budget
     \/ Fails(c) /\ UNCHANGED seen
  /\ UNCHANGED <<row, tree, branch, run, lapses>>

\* Mutant: a row whose directory is missing is dropped whatever its age.
StatImpatient(c) ==
  /\ At(c, "stat")
  /\ \/ Goto(c, IF tree = "none" THEN "drop" ELSE "idle") /\ UNCHANGED budget
     \/ Fails(c)
  /\ UNCHANGED <<row, tree, branch, seen, run, lapses>>

\* Mutant: a row is trusted whatever its age.
StatTrusting(c) ==
  /\ At(c, "stat")
  /\ Goto(c, "idle") /\ UNCHANGED budget
  /\ UNCHANGED <<row, tree, branch, seen, run, lapses>>

\* A directory is taken for the worktree, a young row for one in the making:
\* both paths are returned.
Stat(c) ==
  /\ At(c, "stat")
  /\ \/ Goto(c, IF tree = "none" /\ seen[c].old THEN "drop" ELSE "idle") /\ UNCHANGED budget
     \/ Fails(c)
  /\ UNCHANGED <<row, tree, branch, seen, run, lapses>>

\* DeleteRunWorktreeByRepo, of whatever row is there by now.
Drop(c) ==
  /\ At(c, "drop")
  /\ \/ /\ Deleted
        /\ lapses' = IF row # NoRow /\ seen[c].gone THEN lapses \cup {"late drop"} ELSE lapses
        /\ Goto(c, "profile")
        /\ UNCHANGED budget
     \/ Fails(c) /\ UNCHANGED <<row, seen, lapses>>
  /\ UNCHANGED <<tree, branch, run>>

\* GetRepo, and the checks of its clone URL.
Profile(c) ==
  /\ At(c, "profile")
  /\ \/ Goto(c, "reserve") /\ UNCHANGED budget
     \/ Fails(c)
  /\ UNCHANGED <<row, tree, branch, seen, run, lapses>>

\* INSERT OR IGNORE: whoever loses returns the path of the other.
Reserve(c) ==
  /\ At(c, "reserve")
  /\ \/ /\ row = NoRow
        /\ row' = Row(c)
        /\ Goto(c, "create")
        /\ UNCHANGED budget
     \/ row # NoRow /\ Goto(c, "idle") /\ UNCHANGED <<row, budget>>
     \/ Fails(c) /\ UNCHANGED row
  /\ UNCHANGED <<tree, branch, seen, run, lapses>>

\* CreateForBranchInRoot: the clone, the fetch, and `git worktree add`, which
\* refuses a directory that exists and a branch that is checked out.
Create(c) ==
  /\ At(c, "create")
  /\ \/ /\ tree = "none" /\ branch = "free"
        /\ tree' = "half" /\ branch' = "locked"
        /\ Goto(c, "add")
        /\ UNCHANGED budget
     \/ /\ tree # "none" \/ branch # "free"
        /\ Goto(c, "release")
        /\ UNCHANGED <<tree, branch, budget>>
     \/ Spend("fault") /\ Goto(c, "release") /\ UNCHANGED <<tree, branch>>
  /\ UNCHANGED <<row, seen, run, lapses>>

Add(c) ==
  /\ At(c, "add")
  /\ tree' = "made" /\ branch' = "checked out"
  /\ Goto(c, "exclude")
  /\ UNCHANGED <<row, seen, run, lapses, budget>>

\* addExcludesOrRollback: the rollback is a RemoveAt, whose error is only logged.
Exclude(c) ==
  /\ At(c, "exclude")
  /\ \/ Goto(c, "idle") /\ UNCHANGED budget
     \/ Spend("fault") /\ Goto(c, "rollback")
  /\ UNCHANGED <<row, tree, branch, seen, run, lapses>>

\* `git worktree prune`, once the directory is gone.
Pruned(state) == IF state = "locked" THEN "locked" ELSE "free"

Rollback(c) ==
  /\ At(c, "rollback")
  /\ \/ tree' = "none" /\ Goto(c, "prune") /\ UNCHANGED <<lapses, budget>>
     \/ /\ Spend("fault")
        /\ lapses' = lapses \cup {"left"}
        /\ Goto(c, "release")
        /\ UNCHANGED tree
  /\ UNCHANGED <<row, branch, seen, run>>

Prune(c) ==
  /\ At(c, "prune")
  /\ branch' = Pruned(branch)
  /\ Goto(c, "release")
  /\ UNCHANGED <<row, tree, seen, run, lapses, budget>>

\* The reservation is given back; an error is only logged.
Release(c) ==
  /\ At(c, "release")
  /\ Goto(c, "idle")
  /\ \/ Deleted /\ UNCHANGED budget
     \/ Spend("fault") /\ UNCHANGED <<row, seen>>
  /\ UNCHANGED <<tree, branch, run, lapses>>

-----------------------------------------------------------------------------
(***************************************************************************)
(* Time, and the shell of the agent.                                       *)
(***************************************************************************)
\* staleReservationAge passes, with its creator at work only if that is slow; a
\* row that was read earlier is as old.
Age ==
  /\ row # NoRow /\ ~row.old
  /\ row' = [row EXCEPT !.old = TRUE]
  /\ seen' = [c \in Calls |-> [seen[c] EXCEPT !.old = TRUE]]
  /\ IF row.by \in Calls /\ Creating(row.by)
       THEN Spend("slow") /\ lapses' = lapses \cup {"slow"}
       ELSE UNCHANGED <<lapses, budget>>
  /\ UNCHANGED <<tree, branch, pc, run>>

\* Git, or a removal, is cut short: a registration outlives its directory.
Killed(c) == lapses \cup (IF pc[c] \in {"add", "prune"} THEN {"half"} ELSE {})

\* A git that is told to end undoes what it began, one that is killed does not.
Kill(c) ==
  /\ pc[c] # "idle"
  /\ Spend("kill")
  /\ Goto(c, "idle")
  /\ \/ lapses' = Killed(c) /\ UNCHANGED <<tree, branch>>
     \/ At(c, "add") /\ tree' = "none" /\ branch' = "free" /\ UNCHANGED lapses
  /\ UNCHANGED <<row, seen, run>>

-----------------------------------------------------------------------------
(***************************************************************************)
(* The end of the run and its deferred cleanup, which a run that yields    *)
(* meets as well.                                                          *)
(***************************************************************************)
\* What the agent has left running ends with it.
RunReturns ==
  /\ run = "working"
  /\ run' = "list"
  /\ pc' = [c \in Calls |-> "idle"]
  /\ lapses' = lapses \cup UNION {Killed(c) : c \in Calls}
  /\ UNCHANGED <<row, tree, branch, seen, budget>>

\* ListSystem.
ListRows ==
  /\ run = "list"
  /\ \/ /\ run' = IF row = NoRow THEN "root" ELSE "remove"
        /\ UNCHANGED <<lapses, budget>>
     \/ /\ Spend("fault")
        /\ run' = "root"
        /\ lapses' = lapses \cup {"left"}
  /\ UNCHANGED <<row, tree, branch, pc, seen>>

\* Mutant: the directory is removed and nothing is pruned.
RemoveOnly ==
  /\ run = "remove"
  /\ tree' = "none" /\ run' = "delete"
  /\ UNCHANGED <<row, branch, pc, seen, lapses, budget>>

\* RemoveAt; a failure keeps the row.
RemoveTree ==
  /\ run = "remove"
  /\ \/ /\ tree' = "none" /\ branch' = Pruned(branch)
        /\ run' = "delete"
        /\ UNCHANGED <<lapses, budget>>
     \/ /\ Spend("fault")
        /\ run' = "root"
        /\ lapses' = lapses \cup {"left"}
        /\ UNCHANGED <<tree, branch>>
  /\ UNCHANGED <<row, pc, seen>>

\* DeleteByPathSystem.
DeleteRow ==
  /\ run = "delete"
  /\ run' = "root"
  /\ \/ Deleted /\ UNCHANGED <<lapses, budget>>
     \/ Spend("fault") /\ lapses' = lapses \cup {"left"} /\ UNCHANGED <<row, seen>>
  /\ UNCHANGED <<tree, branch, pc>>

\* RemoveRunRoot removes what is below it and prunes nothing.
RemoveRoot ==
  /\ run = "root"
  /\ run' = "over"
  /\ tree' = "none"
  /\ UNCHANGED <<row, branch, pc, seen, lapses, budget>>

-----------------------------------------------------------------------------
Process(c) ==
  \/ Lookup(c) \/ Stat(c) \/ Drop(c) \/ Profile(c) \/ Reserve(c)
  \/ Create(c) \/ Add(c) \/ Exclude(c) \/ Rollback(c) \/ Prune(c) \/ Release(c)

Cleanup == ListRows \/ RemoveTree \/ DeleteRow \/ RemoveRoot

Next ==
  \/ \E c \in Calls : Call(c) \/ Process(c) \/ Kill(c)
  \/ Age \/ RunReturns \/ Cleanup

Spec == Init /\ [][Next]_vars

\* Processes are scheduled and git ends; time passes; the goroutine of the run
\* is scheduled.  An agent that needs the repository asks again.
Fairness ==
  /\ \A c \in Calls : WF_vars(Process(c)) /\ WF_vars(Call(c))
  /\ WF_vars(Age) /\ WF_vars(Cleanup)

FairSpec == Spec /\ Fairness

-----------------------------------------------------------------------------
(***************************************************************************)
(* Properties.                                                             *)
(***************************************************************************)
TypeOK ==
  /\ row \in [by : Calls, old : BOOLEAN] \cup {NoRow}
  /\ tree \in {"none", "half", "made"}
  /\ branch \in {"free", "checked out", "locked"}
  /\ pc \in [Calls -> PCs]
  /\ seen \in [Calls -> [old : BOOLEAN, gone : BOOLEAN]]
  /\ run \in {"working", "list", "remove", "delete", "root", "over"}
  /\ lapses \subseteq {"late drop", "slow", "half", "left"}
  /\ budget \in [Inputs -> Nat]

\* materializeWorkspace: "Two concurrent processes that both reach this point
\* race at the PK; the loser short-circuits before touching git."
OneCreator == Cardinality({c \in Calls : Creating(c)}) <= 1

\* A process that makes the worktree, or gives its row back, holds the row,
\* unless a process has dropped a newer row than it had read, or a creation has
\* outlived its window.
CreatorHoldsRow ==
  lapses \cap {"late drop", "slow"} = {} => \A c \in Calls : Creating(c) => row.by = c

\* While the agent works, a worktree has a row, by which the cleanup finds it,
\* with the same exceptions and that of a rollback that failed.
TreeHasRow ==
  run = "working" /\ tree # "none" /\ lapses \cap {"late drop", "slow", "left"} = {} =>
    row # NoRow

\* When the run is over there is no row, no directory and no branch that the
\* next run of the issue could not check out, unless the making or the removal
\* of the worktree was cut short or failed, or a row was lost.
EndedIsClean ==
  run = "over" /\ lapses = {} => row = NoRow /\ tree = "none" /\ branch = "free"

\* An agent that keeps asking comes to have its worktree, whichever of its
\* processes are killed, whatever fails and however late a row is dropped, but
\* for a worktree whose making or removal is cut short.
RetrySucceeds ==
  run = "working" ~> (tree = "made" \/ run # "working" \/ "half" \in lapses)

\* materializeWorkspace of a creator that was killed: "subsequent retries looping
\* forever on a never-realized path is the wrong answer."
KilledIsRecovered == run = "working" ~> (tree = "made" \/ run # "working")
=================================================================================
