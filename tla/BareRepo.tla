-------------------------------- MODULE BareRepo --------------------------------
(***************************************************************************)
(* The bare clone of one repository (internal/worktree), which every run    *)
(* of one of its pull requests shares with every other, with the takeover  *)
(* directories of users and the checkouts of the curator: its branches,    *)
(* its worktree registrations, and the push configuration that CreateForPR *)
(* writes for each pull request and CleanupPRConfig, the bootstrap's sweep *)
(* and the rollbacks remove.                                               *)
(*                                                                         *)
(* A per-repository mutex serialises the functions of the package, but     *)
(* RemoveAt and CopyForTakeover take none.  Of git, the model has what     *)
(* these functions rely on: a branch that a registered worktree has        *)
(* checked out is neither fetched into, nor deleted, nor checked out       *)
(* again; `worktree prune` forgets the registrations whose directory is    *)
(* gone, unless they are locked, as one that is being made is.             *)
(***************************************************************************)
EXTENDS Naturals, FiniteSets

CONSTANTS Runs,      \* delegated runs, of one pull request each
          Projects,  \* projects that pin the repository
          PRs,       \* pull requests
          Head,      \* head branch of each
          Kind,      \* whether it is from the repository, a fork, a deleted fork
          Base,      \* the branch the curator checks out
          Boot,      \* the goroutine that bootstraps the clone
          Budget,    \* how many inputs of each kind a behaviour has
          Variety    \* how many of the kinds one behaviour mixes

Inputs == {"cancel", "takeover", "overlay", "delete", "sweep", "fault", "crash"}

ASSUME BareAssumption ==
  /\ PRs \subseteq Nat \ {0}
  /\ Boot \notin Runs
  /\ \A p \in PRs : Kind[p] \in {"own", "fork", "deleted"}
  /\ Budget \in [Inputs -> Nat] /\ Variety \in Nat

VARIABLES
  lock,      \* who holds the repository's mutex: nobody or one of Runs and Boot
  refs,      \* local branches of the clone
  section,   \* the pull request that branch.<name>.* was written for, or none
  remotes,   \* pull requests with a head-<n> remote
  trees,     \* worktree registrations
  disk,      \* worktree directories that exist
  pc,        \* where the goroutine of each run is
  of,        \* the pull request of each run
  hand,      \* where the takeover or release of each run is
  taken,     \* Spawner.takenOver
  cancelled, \* runs whose context was cancelled
  ended,     \* runs whose row has a terminal status
  named,     \* releases that could read the branch of the takeover directory
  inuse,     \* what the sweep read as checked out
  misread,   \* whether the sweep could not list the worktrees
  pin,       \* what came of the last checkout of each project
  stripped,  \* runs whose configuration was removed with that of another
  strays,    \* directories that were given up by a failed step or a crash
  leaks,     \* runs whose configuration was given up
  budget

git == <<refs, section, remotes>>
files == <<trees, disk>>
goroutine == <<pc, of, ended>>
handler == <<hand, taken, named>>
boot == <<inuse, misread>>
marks == <<stripped, strays, leaks>>
vars == <<lock, refs, section, remotes, trees, disk, pc, of, hand, taken, cancelled,
          ended, named, inuse, misread, pin, stripped, strays, leaks, budget>>

\* Pull requests are numbered from one.
None == 0
Synthetic(p) == <<"pr", p>>
Named(name) == <<"name", name>>
\* forkPRLocalBranch for a fork, else the head's own name.
Local(p) == IF Kind[p] = "fork" THEN Synthetic(p) ELSE Named(Head[p])
Branches == {Synthetic(p) : p \in PRs} \cup {Named(Head[p]) : p \in PRs} \cup {Named(Base)}

RunDir(r) == <<"run", r>>
UserDir(r) == <<"user", r>>
PinDir(j) == <<"pin", j>>
Dirs == {RunDir(r) : r \in Runs} \cup {UserDir(r) : r \in Runs} \cup {PinDir(j) : j \in Projects}
Tree(dir, branch) == [dir |-> dir, branch |-> branch, locked |-> FALSE]

PCs == {"idle", "setup", "add", "remote", "branch", "exclude", "undo", "undoPrune",
        "undoConfig", "work", "finish", "stop", "early", "earlyPrune", "defer", "remove",
        "prune", "cleanup", "over"}
Hands == {"none", "copy", "overlay", "source", "sourcePrune", "mark", "abortDest", "destPrune",
          "abort", "abortPrune", "held", "releasePrune", "releaseConfig", "releaseFlip", "done"}

Init ==
  /\ lock = {}
  /\ refs = {Named(Base)}
  /\ section = [b \in Branches |-> None]
  /\ remotes = {}
  /\ trees = {}
  /\ disk = {}
  /\ pc = [r \in Runs |-> "idle"]
  /\ of = [r \in Runs |-> None]
  /\ hand = [r \in Runs |-> "none"]
  /\ taken = {}
  /\ cancelled = {}
  /\ ended = {}
  /\ named = {}
  /\ inuse = {}
  /\ misread = FALSE
  /\ pin = [j \in Projects |-> "none"]
  /\ stripped = {}
  /\ strays = {}
  /\ leaks = {}
  /\ budget = Budget

\* Whether a takeover moves or copies is no kind of its own.
Used(b) == {i \in Inputs \ {"overlay"} : b[i] < Budget[i]}
Spend(input) ==
  /\ budget[input] > 0
  /\ budget' = [budget EXCEPT ![input] = @ - 1]
  /\ Cardinality(Used(budget')) <= Variety
At(r, here) == pc[r] = here
Goto(r, next) == pc' = [pc EXCEPT ![r] = next] /\ UNCHANGED <<of, ended>>
Hand(r, next) == hand' = [hand EXCEPT ![r] = next] /\ UNCHANGED <<taken, named>>

CheckedOut == {t.branch : t \in trees}
\* Mutant: git is forced (`fetch --update-head-ok`, `worktree add --force`).
Forced(branch) == TRUE
\* git checks a branch out, and fetches into it, unless a worktree has it.
Free(branch) == branch \notin CheckedOut

\* Mutant: `worktree prune` is left out.
NotPruned(registered, present) == registered

\* pruneAll, PruneCuratorBare.
Pruned(registered, present) == {t \in registered : t.dir \in present \/ t.locked}

\* Runs that still have a checkout when the configuration of these pull
\* requests and branches goes.
Losing(prs, doomed) ==
  {q \in Runs : /\ \E t \in trees : t.dir \in {RunDir(q), UserDir(q)}
                /\ of[q] \in prs \/ Local(of[q]) \in doomed}

\* These remotes, sections and branches go.
Clear(prs, sections, branches) ==
  /\ remotes' = remotes \ prs
  /\ section' = [b \in Branches |-> IF b \in sections THEN None ELSE section[b]]
  /\ refs' = refs \ (branches \ CheckedOut)

\* Mutant: branch.<head>.* and its marker are left to the sweep.
RemoveForkConfig(prs, heads) ==
  LET doomed == {Synthetic(p) : p \in prs}
  IN  Clear(prs, doomed, doomed \cup heads)

\* removePRConfigLocked: the remote, the sections of the synthetic branch and
\* of the head's, and both branches unless they are checked out.
RemoveConfig(prs, heads) ==
  LET doomed == {Synthetic(p) : p \in prs} \cup heads
  IN  Clear(prs, doomed, doomed)

\* Some of its commands fail or run out of time, which it does not look at.
RemoveSome(prs, heads) ==
  LET doomed == {Synthetic(p) : p \in prs} \cup heads
  IN  /\ Spend("fault")
      /\ \E some \in SUBSET prs, sections, branches \in SUBSET doomed :
           Clear(some, sections, branches)

\* What a run's goroutine removes, under the mutex.
Reclaim(r) ==
  LET heads == {Named(Head[of[r]])}
  IN  /\ \/ RemoveConfig({of[r]}, heads) /\ UNCHANGED <<leaks, budget>>
         \/ RemoveSome({of[r]}, heads) /\ leaks' = leaks \cup {r}
      /\ stripped' = stripped \cup Losing({of[r]}, heads)

-----------------------------------------------------------------------------
(***************************************************************************)
(* CreateForPR, called by setupGitHub of a run or a chain.                 *)
(***************************************************************************)
Delegate(r) ==
  /\ At(r, "idle")
  /\ \E p \in PRs : of' = [of EXCEPT ![r] = p]
  /\ pc' = [pc EXCEPT ![r] = "setup"]
  /\ UNCHANGED <<lock, git, files, ended, handler, cancelled, boot, pin, marks, budget>>

\* The mutex, then the fetch of refs/pull/<n>/head into the local branch,
\* which git refuses while the branch is checked out.
Fetch(r) ==
  /\ At(r, "setup")
  /\ lock = {}
  /\ \/ /\ Free(Local(of[r])) /\ r \notin cancelled
        /\ refs' = refs \cup {Local(of[r])}
        /\ lock' = {r}
        /\ Goto(r, "add")
        /\ UNCHANGED budget
     \/ /\ ~Free(Local(of[r])) \/ r \in cancelled
        /\ Goto(r, "over")
        /\ UNCHANGED <<lock, refs, budget>>
     \/ Spend("fault") /\ Goto(r, "over") /\ UNCHANGED <<lock, refs>>
  /\ UNCHANGED <<section, remotes, files, handler, cancelled, boot, pin, marks>>

\* `git worktree add`; a git that is killed leaves its directory and a locked
\* registration behind.
AddTree(r) ==
  /\ At(r, "add")
  /\ \/ /\ r \notin cancelled
        /\ trees' = trees \cup {Tree(RunDir(r), Local(of[r]))}
        /\ disk' = disk \cup {RunDir(r)}
        /\ Goto(r, CASE Kind[of[r]] = "fork" -> "remote"
                     [] Kind[of[r]] = "own" -> "branch"
                     [] OTHER -> "exclude")
        /\ UNCHANGED <<lock, strays, budget>>
     \/ /\ r \in cancelled
        /\ \/ /\ trees' = trees \cup {[Tree(RunDir(r), Local(of[r])) EXCEPT !.locked = TRUE]}
              /\ disk' = disk \cup {RunDir(r)}
              /\ strays' = strays \cup {RunDir(r)}
           \/ UNCHANGED <<files, strays>>
        /\ lock' = {}
        /\ Goto(r, "over")
        /\ UNCHANGED budget
     \/ Spend("fault") /\ lock' = {} /\ Goto(r, "over") /\ UNCHANGED <<files, strays>>
  /\ UNCHANGED <<git, handler, cancelled, boot, pin, stripped, leaks>>

\* A step after that fails is rolled back, under the mutex.
Fail(r) == Goto(r, "undo") /\ UNCHANGED lock

\* configureForkPRTracking: the remote comes first ...
TrackRemote(r) ==
  /\ At(r, "remote")
  /\ \/ /\ r \notin cancelled
        /\ remotes' = remotes \cup {of[r]}
        /\ Goto(r, "branch")
        /\ UNCHANGED <<lock, budget>>
     \/ Fail(r) /\ UNCHANGED remotes /\ (IF r \in cancelled THEN UNCHANGED budget ELSE Spend("fault"))
  /\ UNCHANGED <<refs, section, files, handler, cancelled, boot, pin, marks>>

\* ... then, as in configureOwnRepoPRTracking, the branch's section, whose
\* last key is the marker that the sweep looks for.
TrackBranch(r) ==
  /\ At(r, "branch")
  /\ \/ /\ r \notin cancelled
        /\ section' = [section EXCEPT ![Local(of[r])] = of[r]]
        /\ Goto(r, "exclude")
        /\ UNCHANGED <<lock, budget>>
     \/ Fail(r) /\ UNCHANGED section /\ (IF r \in cancelled THEN UNCHANGED budget ELSE Spend("fault"))
  /\ UNCHANGED <<refs, remotes, files, handler, cancelled, boot, pin, marks>>

WriteExcludes(r) ==
  /\ At(r, "exclude")
  /\ \/ lock' = {} /\ Goto(r, "work") /\ UNCHANGED budget
     \/ Fail(r) /\ Spend("fault")
  /\ UNCHANGED <<git, files, handler, cancelled, boot, pin, marks>>

\* Mutant: the rollback calls CleanupPRConfig, which takes the mutex itself.
UndoRelocks(r) ==
  /\ At(r, "undoConfig")
  /\ lock = {}
  /\ Reclaim(r)
  /\ lock' = {}
  /\ Goto(r, "over")
  /\ UNCHANGED <<files, handler, cancelled, boot, pin, strays>>

\* rollbackPRSetupLocked, after its RemoveAt, whether that worked or not.
Undo(r) ==
  /\ At(r, "undoConfig")
  /\ Reclaim(r)
  /\ lock' = {}
  /\ Goto(r, "over")
  /\ UNCHANGED <<files, handler, cancelled, boot, pin, strays>>

-----------------------------------------------------------------------------
(***************************************************************************)
(* The end of a run: handleCancelled and the defer of runAgent.            *)
(***************************************************************************)
\* runAgent looks at wasTakenOver when its agent ended, with a result or an
\* error or by its context (handleCancelled), and not again before it writes.
WorkEnds(r) ==
  /\ At(r, "work")
  /\ \/ r \in taken /\ Goto(r, "defer")
     \/ r \notin taken /\ Goto(r, "finish")
     \/ r \in cancelled \ taken /\ Goto(r, "stop")
  /\ UNCHANGED <<lock, git, files, handler, cancelled, boot, pin, marks, budget>>

\* Complete overwrites whatever status the row has, taken_over too; a yield, a
\* step of a chain and a write that fails leave it.
Finish(r) ==
  /\ pc[r] \in {"finish", "stop"}
  /\ \/ /\ ended' = ended \cup {r}
        /\ strays' = strays \cup (IF hand[r] = "held" THEN {UserDir(r)} ELSE {})
     \/ UNCHANGED <<ended, strays>>
  /\ pc' = [pc EXCEPT ![r] = IF At(r, "finish") THEN "defer" ELSE "early"]
  /\ UNCHANGED <<lock, git, files, of, handler, cancelled, boot, pin, stripped, leaks, budget>>

\* The defer reads wasTakenOver before anything else.
Defers(r) ==
  /\ At(r, "defer")
  /\ Goto(r, IF r \in taken THEN "over" ELSE "remove")
  /\ UNCHANGED <<lock, git, files, handler, cancelled, boot, pin, marks, budget>>

\* RemoveAt: the directory first, then the prune of every clone.
RemoveDir(r) ==
  /\ pc[r] \in {"undo", "early", "remove"}
  /\ Goto(r, CASE At(r, "undo") -> "undoPrune"
               [] At(r, "early") -> "earlyPrune"
               [] OTHER -> "prune")
  /\ disk' = disk \ {RunDir(r)}
  /\ UNCHANGED <<lock, git, trees, handler, cancelled, boot, pin, marks, budget>>

\* It does not prune then.  A rollback goes on, handleCancelled leaves it to the
\* defer, and the defer keeps the configuration of a directory that stays.
RemoveFails(r) ==
  /\ pc[r] \in {"undo", "early", "remove"}
  /\ RunDir(r) \in disk
  /\ Spend("fault")
  /\ Goto(r, CASE At(r, "undo") -> "undoConfig" [] At(r, "early") -> "defer" [] OTHER -> "over")
  /\ strays' = strays \cup (IF At(r, "early") THEN {} ELSE {RunDir(r)})
  /\ leaks' = leaks \cup (IF At(r, "remove") THEN {r} ELSE {})
  /\ UNCHANGED <<lock, git, files, handler, cancelled, boot, pin, stripped>>

\* A prune that fails is not tried again.
PruneAll(r) ==
  /\ pc[r] \in {"undoPrune", "earlyPrune", "prune"}
  /\ Goto(r, CASE At(r, "undoPrune") -> "undoConfig"
               [] At(r, "earlyPrune") -> "defer"
               [] OTHER -> "cleanup")
  /\ \/ trees' = Pruned(trees, disk) /\ UNCHANGED <<strays, budget>>
     \/ Spend("fault") /\ strays' = strays \cup {RunDir(r)} /\ UNCHANGED trees
  /\ UNCHANGED <<lock, git, disk, handler, cancelled, boot, pin, stripped, leaks>>

\* CleanupPRConfig.
Cleanup(r) ==
  /\ At(r, "cleanup")
  /\ lock = {}
  /\ Reclaim(r)
  /\ Goto(r, "over")
  /\ UNCHANGED <<lock, files, handler, cancelled, boot, pin, strays>>

\* A chain that a cancel or an approval ends while it is parked: the cfg they
\* rebuild names no pull request, so that its configuration stays.
ParkedChainEnds(r) ==
  /\ At(r, "cleanup")
  /\ Spend("cancel")
  /\ leaks' = leaks \cup {r}
  /\ Goto(r, "over")
  /\ UNCHANGED <<lock, git, files, handler, cancelled, boot, pin, stripped, strays>>

Cancel(r) ==
  /\ pc[r] \notin {"idle", "over"} /\ r \notin cancelled
  /\ Spend("cancel")
  /\ cancelled' = cancelled \cup {r}
  /\ UNCHANGED <<lock, git, files, goroutine, handler, boot, pin, marks>>

-----------------------------------------------------------------------------
(***************************************************************************)
(* Takeover with CopyForTakeover and abortTakeover, and Release.           *)
(***************************************************************************)
\* The flag is set and the agent is killed, wherever its goroutine is.
Takeover(r) ==
  /\ pc[r] \in {"work", "finish", "stop", "early", "earlyPrune", "defer", "remove", "prune",
              "cleanup"}
  /\ hand[r] = "none"
  /\ Spend("takeover")
  /\ taken' = taken \cup {r}
  /\ cancelled' = cancelled \cup {r}
  /\ hand' = [hand EXCEPT ![r] = "copy"]
  /\ UNCHANGED <<lock, git, files, goroutine, named, boot, pin, marks>>

Registered(dir) == \E t \in trees : t.dir = dir
Movable(r) == RunDir(r) \in disk /\ Registered(RunDir(r))

\* `git worktree move` within a file system, or the copy to another one, which
\* registers the branch a second time by force.
Copy(r) ==
  /\ hand[r] = "copy"
  /\ Movable(r)
  /\ \/ /\ trees' = {IF t.dir = RunDir(r) THEN [t EXCEPT !.dir = UserDir(r)] ELSE t : t \in trees}
        /\ disk' = (disk \ {RunDir(r)}) \cup {UserDir(r)}
        /\ Hand(r, "mark")
        /\ UNCHANGED budget
     \/ /\ trees' = trees \cup {Tree(UserDir(r), Local(of[r]))}
        /\ disk' = disk \cup {UserDir(r)}
        /\ Hand(r, "overlay")
        /\ Spend("overlay")
  /\ UNCHANGED <<lock, git, goroutine, cancelled, boot, pin, marks>>

CopyFails(r) ==
  /\ hand[r] = "copy"
  /\ IF Movable(r) THEN Spend("fault") ELSE UNCHANGED budget
  /\ Hand(r, "abort")
  /\ UNCHANGED <<lock, git, files, goroutine, cancelled, boot, pin, marks>>

\* A copy that fails half-way returns no path, so that the rollback does not
\* know of the destination.
Overlay(r) ==
  /\ hand[r] = "overlay"
  /\ \/ RunDir(r) \in disk /\ Hand(r, "source") /\ UNCHANGED <<strays, budget>>
     \/ /\ IF RunDir(r) \in disk THEN Spend("fault") ELSE UNCHANGED budget
        /\ strays' = strays \cup {UserDir(r)}
        /\ Hand(r, "abort")
  /\ UNCHANGED <<lock, git, files, goroutine, cancelled, boot, pin, stripped, leaks>>

\* The two halves of the handler's RemoveAt calls: CopyForTakeover removes the
\* source of an overlay, abortTakeover the destination and then the source.  Both
\* go on when the first half fails, without the second.
HandRemoves(r) ==
  /\ hand[r] \in {"source", "abortDest", "abort"}
  /\ LET dir == IF hand[r] = "abortDest" THEN UserDir(r) ELSE RunDir(r)
     IN  \/ /\ disk' = disk \ {dir}
            /\ Hand(r, CASE hand[r] = "source" -> "sourcePrune"
                         [] hand[r] = "abortDest" -> "destPrune"
                         [] OTHER -> "abortPrune")
            /\ UNCHANGED <<strays, budget>>
         \/ /\ dir \in disk
            /\ Spend("fault")
            /\ strays' = strays \cup {dir}
            /\ Hand(r, CASE hand[r] = "source" -> "mark"
                         [] hand[r] = "abortDest" -> "abort"
                         [] OTHER -> "done")
            /\ UNCHANGED disk
  /\ UNCHANGED <<lock, git, trees, goroutine, cancelled, boot, pin, stripped, leaks>>

HandPrunes(r) ==
  /\ hand[r] \in {"sourcePrune", "destPrune", "abortPrune", "releasePrune"}
  /\ \/ trees' = Pruned(trees, disk) /\ UNCHANGED <<strays, budget>>
     \/ /\ Spend("fault")
        /\ strays' = strays \cup {RunDir(r), UserDir(r)}
        /\ UNCHANGED trees
  /\ Hand(r, CASE hand[r] = "sourcePrune" -> "mark"
               [] hand[r] = "destPrune" -> "abort"
               [] hand[r] = "abortPrune" -> "done"
               [] OTHER -> "releaseConfig")
  /\ UNCHANGED <<lock, git, disk, goroutine, cancelled, boot, pin, stripped, leaks>>

\* MarkTakenOver loses against a terminal status.
MarkTakenOver(r) ==
  /\ hand[r] = "mark"
  /\ \/ r \notin ended /\ Hand(r, "held") /\ UNCHANGED budget
     \/ r \in ended /\ Hand(r, "abortDest") /\ UNCHANGED budget
     \/ Spend("fault") /\ Hand(r, "abortDest")
  /\ UNCHANGED <<lock, git, files, goroutine, cancelled, boot, pin, marks>>

\* Release refuses a row that is not taken_over any more.  It reads the branch of
\* the directory, if there is one, and removes it; it can be called again when
\* that fails.
Release(r) ==
  /\ hand[r] = "held" /\ r \notin ended
  /\ named' = IF UserDir(r) \in disk THEN named \cup {r} ELSE named \ {r}
  /\ disk' = disk \ {UserDir(r)}
  /\ hand' = [hand EXCEPT ![r] = "releasePrune"]
  /\ UNCHANGED <<lock, git, trees, goroutine, taken, cancelled, boot, pin, marks, budget>>

ReleaseConfig(r) ==
  /\ hand[r] = "releaseConfig"
  /\ lock = {}
  /\ LET heads == IF r \in named THEN {Local(of[r])} ELSE {}
     IN  /\ \/ RemoveConfig({of[r]}, heads) /\ UNCHANGED budget
            \/ RemoveSome({of[r]}, heads)
         /\ stripped' = stripped \cup Losing({of[r]}, heads)
  /\ Hand(r, "releaseFlip")
  /\ UNCHANGED <<lock, files, goroutine, cancelled, boot, pin, strays, leaks>>

ReleaseFlip(r) ==
  /\ hand[r] = "releaseFlip"
  /\ \/ Hand(r, "done") /\ UNCHANGED budget
     \/ Hand(r, "held") /\ Spend("fault")
  /\ UNCHANGED <<lock, git, files, goroutine, cancelled, boot, pin, marks>>

\* The user deletes the takeover directory.
UserDeletes(r) ==
  /\ hand[r] = "held" /\ UserDir(r) \in disk
  /\ Spend("delete")
  /\ disk' = disk \ {UserDir(r)}
  /\ UNCHANGED <<lock, git, trees, goroutine, handler, cancelled, boot, pin, marks>>

-----------------------------------------------------------------------------
(***************************************************************************)
(* SweepStaleForkPRConfig, called by the bootstrap after each profiling.   *)
(***************************************************************************)
\* The worktrees first; an error counts as none.
SweepReads ==
  /\ lock = {}
  /\ lock' = {Boot}
  /\ \/ Spend("sweep") /\ inuse' = CheckedOut /\ misread' = FALSE
     \/ /\ budget["sweep"] > 0 /\ Spend("fault")
        /\ inuse' = {} /\ misread' = TRUE
  /\ UNCHANGED <<git, files, goroutine, handler, cancelled, pin, marks>>

\* Mutant: a run's directory is enough, a takeover's is not looked for.
Swept == {b \in Branches : section[b] # None /\ ~\E r \in Runs : Tree(RunDir(r), b) \in trees}

\* Every marked branch that was not read as checked out.
Stale == {b \in Branches : section[b] # None /\ b \notin inuse}

SweepReclaims ==
  /\ lock = {Boot}
  /\ LET prs == {section[b] : b \in Stale}
     IN  /\ \/ RemoveConfig(prs, Stale) /\ UNCHANGED budget
            \/ RemoveSome(prs, Stale)
         /\ stripped' = IF misread THEN stripped \cup Losing(prs, Stale) ELSE stripped
  /\ lock' = {}
  /\ inuse' = {} /\ misread' = FALSE
  /\ UNCHANGED <<files, goroutine, handler, cancelled, pin, strays, leaks>>

-----------------------------------------------------------------------------
(***************************************************************************)
(* EnsureCuratorWorktree at each turn of a project's chat, and the         *)
(* project's deletion.                                                     *)
(***************************************************************************)
\* A checkout that exists is reset in place.
EnsurePin(j) ==
  /\ pin[j] # "pruning"
  /\ lock = {}
  /\ \/ PinDir(j) \in disk /\ pin' = [pin EXCEPT ![j] = "ready"] /\ UNCHANGED <<refs, files>>
     \/ /\ PinDir(j) \notin disk /\ Free(Named(Base))
        /\ refs' = refs \cup {Named(Base)}
        /\ trees' = trees \cup {Tree(PinDir(j), Named(Base))}
        /\ disk' = disk \cup {PinDir(j)}
        /\ pin' = [pin EXCEPT ![j] = "ready"]
     \/ /\ PinDir(j) \notin disk /\ ~Free(Named(Base))
        /\ pin' = [pin EXCEPT ![j] = "refused"]
        /\ UNCHANGED <<refs, files>>
  /\ UNCHANGED <<lock, section, remotes, goroutine, handler, cancelled, boot, marks, budget>>

DeletePin(j) ==
  /\ pin[j] = "ready"
  /\ Spend("delete")
  /\ disk' = disk \ {PinDir(j)}
  /\ pin' = [pin EXCEPT ![j] = "pruning"]
  /\ UNCHANGED <<lock, git, trees, goroutine, handler, cancelled, boot, marks>>

PrunePin(j) ==
  /\ pin[j] = "pruning"
  /\ lock = {}
  /\ \/ trees' = Pruned(trees, disk) /\ UNCHANGED budget
     \/ UNCHANGED trees /\ Spend("fault")
  /\ pin' = [pin EXCEPT ![j] = "none"]
  /\ UNCHANGED <<lock, git, disk, goroutine, handler, cancelled, boot, marks>>

\* The process dies.  Startup removes the directories of runs and prunes; after
\* a reboot that emptied the temporary directory it does not prune.
Crash ==
  /\ Spend("crash")
  /\ lock' = {}
  /\ disk' = disk \ {RunDir(r) : r \in Runs}
  /\ \/ trees' = Pruned(trees, disk')
     \/ UNCHANGED trees
  /\ pc' = [r \in Runs |-> IF At(r, "idle") THEN "idle" ELSE "over"]
  /\ hand' = [r \in Runs |-> CASE hand[r] = "none" -> "none"
                               [] hand[r] \in {"held", "releasePrune", "releaseConfig", "releaseFlip"}
                                    -> "held"
                               [] OTHER -> "done"]
  /\ strays' = strays \cup ({t.dir : t \in trees'} \ ({PinDir(j) : j \in Projects} \cup
                 {UserDir(r) : r \in {q \in Runs \ ended : hand'[q] = "held"}}))
  /\ leaks' = leaks \cup {r \in Runs : pc[r] \notin {"idle", "over"}}
  /\ taken' = {} /\ cancelled' = {}
  /\ inuse' = {} /\ misread' = FALSE
  /\ UNCHANGED <<git, of, ended, named, pin, stripped>>

-----------------------------------------------------------------------------
RunStep(r) ==
  \/ Fetch(r) \/ AddTree(r) \/ TrackRemote(r) \/ TrackBranch(r) \/ WriteExcludes(r) \/ Undo(r)
  \/ WorkEnds(r) \/ Finish(r) \/ Defers(r)
  \/ RemoveDir(r) \/ RemoveFails(r) \/ PruneAll(r) \/ Cleanup(r)

HandStep(r) ==
  \/ Copy(r) \/ CopyFails(r) \/ Overlay(r) \/ HandRemoves(r) \/ HandPrunes(r)
  \/ MarkTakenOver(r) \/ ReleaseConfig(r) \/ ReleaseFlip(r)

Next ==
  \/ \E r \in Runs : Delegate(r) \/ RunStep(r) \/ Cancel(r) \/ ParkedChainEnds(r)
  \/ \E r \in Runs : Takeover(r) \/ HandStep(r) \/ Release(r) \/ UserDeletes(r)
  \/ SweepReads \/ SweepReclaims
  \/ \E j \in Projects : EnsurePin(j) \/ DeletePin(j) \/ PrunePin(j)
  \/ Crash

Spec == Init /\ [][Next]_vars

\* Goroutines and handlers are scheduled, git and agents end; the mutex is
\* taken a bounded number of times, so that nobody starves for it.
Fairness ==
  /\ \A r \in Runs : WF_vars(RunStep(r)) /\ WF_vars(HandStep(r))
  /\ WF_vars(SweepReclaims)

FairSpec == Spec /\ Fairness

-----------------------------------------------------------------------------
(***************************************************************************)
(* Properties.                                                             *)
(***************************************************************************)
TypeOK ==
  /\ lock \subseteq Runs \cup {Boot} /\ Cardinality(lock) <= 1
  /\ refs \subseteq Branches
  /\ section \in [Branches -> PRs \cup {None}]
  /\ remotes \subseteq PRs
  /\ trees \subseteq [dir : Dirs, branch : Branches, locked : BOOLEAN]
  /\ disk \subseteq Dirs
  /\ pc \in [Runs -> PCs]
  /\ of \in [Runs -> PRs \cup {None}]
  /\ hand \in [Runs -> Hands]
  /\ taken \cup cancelled \cup ended \cup named \cup stripped \cup leaks \subseteq Runs
  /\ inuse \subseteq Branches /\ misread \in BOOLEAN
  /\ pin \in [Projects -> {"none", "ready", "refused", "pruning"}]
  /\ strays \subseteq Dirs
  /\ budget \in [Inputs -> Nat]

Quiet ==
  /\ lock = {}
  /\ \A r \in Runs : pc[r] \in {"idle", "over"} /\ hand[r] \in {"none", "held", "done"}
  /\ \A j \in Projects : pin[j] # "pruning"
Crashed == budget["crash"] < Budget["crash"]

\* The run's agent, or the user who took the run over, has a checkout.
Working(r) == \/ At(r, "work") /\ RunDir(r) \in disk
              \/ hand[r] = "held" /\ UserDir(r) \in disk
\* `git push` knows where to go.
Pushes(r) == /\ section[Local(of[r])] # None
             /\ Kind[of[r]] = "fork" => of[r] \in remotes

\* removePRConfigLocked: "a takeover dir or concurrent delegation would force
\* this to no-op rather than silently break a live checkout".
CleanupSparesCheckouts ==
  \A r \in Runs : Working(r) /\ Kind[of[r]] # "deleted" => Pushes(r)

\* But for a configuration removed with that of another run of the same pull
\* request or of the same head name, and for a sweep that could not list the
\* worktrees, whoever works in a checkout can push from it: no rollback, no
\* sweep and no restart takes its configuration away (worktree.go).
PushHasTarget ==
  \A r \in Runs : Working(r) /\ Kind[of[r]] # "deleted" /\ r \notin stripped => Pushes(r)

\* SweepStaleForkPRConfig: "we only reclaim branches with no live checkout".
SweepSparesCheckouts ==
  [][SweepReclaims => \A b \in CheckedOut : section'[b] = section[b]]_vars

\* abortTakeover: "destPath may be empty (copy never produced one) or may point at
\* a partial directory; either way we RemoveAll it".
NoHalfCopy == \A r \in Runs : hand[r] = "done" => ~Registered(UserDir(r))

\* A branch is checked out once, or by the source and the destination of one
\* takeover (CopyForTakeover's --force).
OneCheckout ==
  \A t, u \in trees : t.branch = u.branch /\ t # u =>
    \E r \in Runs : {t.dir, u.dir} = {RunDir(r), UserDir(r)}

\* When nothing is in progress, a branch is checked out by a project, by a
\* takeover that can be released, or by a directory that was given up: by a killed
\* `worktree add`, an overlay that failed half-way, a removal or a prune that
\* failed, a completion written over taken_over, or a crash.  Nothing else keeps
\* a pull request from being delegated again.
NoStrandedTree ==
  Quiet => \A t \in trees :
    \/ t.dir \in strays
    \/ \E j \in Projects : t.dir = PinDir(j)
    \/ \E r \in Runs : hand[r] = "held" /\ r \notin ended /\ t.dir = UserDir(r)

\* handleCancelled: "the bare-repo registration is pruned even if the goroutine
\* returns through one of the early paths".
EarlyPathsPrune ==
  Quiet => \A r \in Runs : Registered(RunDir(r)) => Crashed

\* When nothing is in progress, whatever is configured is for the pull request of
\* a run that was taken over, or whose configuration was given up: a command of
\* its removal failed, its directory could not be removed, a request ended its
\* chain, or the process died.  No other run leaves any, wherever its setup or its
\* end fails or is cancelled.
QuietIsClean ==
  LET kept == {of[r] : r \in {q \in Runs : q \in leaks \/ hand[q] # "none"}}
  IN  Quiet => remotes \subseteq kept /\ \A b \in Branches : section[b] \in kept \cup {None}

\* rollbackPRSetupLocked: what a failure mid-write leaves, "SweepStaleForkPRConfig
\* would eventually clean those up": a remote has a marked branch.
LeakIsMarked ==
  lock = {} => \A p \in remotes : \E b \in Branches : section[b] = p

Busy(r) == pc[r] \notin {"idle", "over"} \/ hand[r] \notin {"none", "held", "done"}
\* It is not about to take the mutex, or finds it free.
GoesOn(r) ==
  \/ pc[r] \notin {"idle", "over", "setup", "cleanup"}
  \/ hand[r] \notin {"none", "held", "done", "releaseConfig"}
  \/ lock = {}
WaitsForHolder(r) == \E q \in lock \ {r} : q = Boot \/ GoesOn(q)

\* Whoever sets up, cleans up or releases can go on or waits for somebody who
\* can: no rollback, sweep or cleanup keeps the mutex, or takes it twice
\* (CreateForPR and rollbackPRSetupLocked, CleanupPRConfig).
NobodyStalls ==
  \A r \in Runs : Busy(r) => /\ GoesOn(r) <=> ENABLED (RunStep(r) \/ HandStep(r))
                             /\ GoesOn(r) \/ WaitsForHolder(r)

\* A run gets its checkout or an error, and a run that ends gets rid of it.
RunSettles ==
  \A r \in Runs : pc[r] \notin {"idle", "work", "over"} ~> pc[r] \in {"work", "over"}

\* EnsureCuratorWorktree "materializes a per-project worktree of a pinned repo".
PinIsMaterialized == \A j \in Projects : pin[j] # "refused"
=================================================================================
