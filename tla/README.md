# Triage Factory in TLA+

Triage Factory watches GitHub and Jira, turns what happens there into tasks on
a board, and delegates tasks to a coding agent, either because a user swipes a
card or because an event matches a trigger. Everything runs in one Go process
beside one database (SQLite, or PostgreSQL with the same statements): HTTP
handlers, an event bus, pollers, and one goroutine per delegated run. They
share rows, a handful of mutexes and the file system, and hardly any sequence
of statements is one transaction. The models are about what these goroutines
do to each other.

In this directory:

    tlc -config FiringQueue_burst.cfg MCFiringQueue      (any cfg of a module)
    tlapm FiringQueueProofs.tla       (RunLifecycleProofs, ChainRunProofs,
                                      CuratorQueueProofs, PollFeedProofs,
                                      GradingProofs, BareRepoProofs, WorkspaceProofs)

## 1. Inventory

Paths are relative to `src/`. "Status" is what this project does with the part.

| Component | State | Operations | Status |
|---|---|---|---|
| Event router, `internal/routing/router.go` | `tasks`, `pending_firings`, `entities.state`; a mutex per entity | HandleEvent, ReDeriveAfterScoring, tryAutoDelegate, DrainEntity, sweeper, close cascades | FiringQueue |
| Spawner, `internal/delegate/{delegate,run,cancel,resume,spawner}.go` | `runs`; maps `cancels`, `takenOver`; worktrees, transcripts | Delegate, runAgent, processCompletion, Cancel, ResumeAfterYield, deferred cleanup | FiringQueue (outline), RunLifecycle (statement by statement) |
| Takeover, `internal/delegate/takeover.go` | the same and the takeover directory | Takeover, abortTakeover, Release | RunLifecycle |
| Task endpoints, `internal/server/tasks.go`, `agent.go` | `tasks.status`, the two claim columns | swipe (claim, delegate, dismiss, complete, snooze), undo, requeue, cancel, respond | both, for one user |
| Stores, `internal/db/sqlite` | the tables | guarded updates | the statements that the modelled code issues |
| Prompt chains, `internal/delegate/chain.go` | `chain_runs`, the step rows, verdict artifacts; one worktree | run steps, yield between steps, CancelChain, continue after approval | ChainRun |
| Pending reviews and PRs, `internal/server/{reviews,pending_prs}_handler.go` | `pending_reviews`, `pending_prs` | submit, discard | in ChainRun, as a chain meets them |
| Curator, `internal/curator`, `internal/server/{curator,projects}.go` | queue and session goroutine per project; `curator_requests`, `curator_pending_context`, the project's session id | SendMessage, Cancel, reset, CancelProject, PATCH, startup sweep | CuratorQueue |
| Scoring, `internal/ai` | `tasks.scoring_status` and grades; coalescing channel | Trigger, run cycle, callback | Grading |
| Poller and tracker, `internal/poller`, `internal/tracker` | entity snapshots; a loop per source | discover, gate, reconcile, refresh, diff, restart | PollFeed (GitHub) |
| Event bus, `internal/eventbus/bus.go` | subscriber buffers | Publish (drops when full) | PollFeed |
| Classification, `internal/projectclassify` | project of an entity | trigger, classify, wait | not modelled |
| Worktrees, `internal/worktree` | the bare clone of each repository: branches, worktree registrations, push configuration; directories | CreateForPR, RemoveAt, CleanupPRConfig, sweep, CopyForTakeover, EnsureCuratorWorktree, startup | BareRepo |
| `exec workspace add`, `cmd/exec/workspace/add.go` | `run_worktrees`; the worktrees of a Jira run | add (a process per call), cleanup of the run | Workspace |
| Sandbox and agent processes | | | what a run sees of them only |
| GitHub and Jira clients, sessions, auth, CLI, frontend | | | not modelled (section 6) |

Interactions. The bus calls `HandleEvent` in one subscriber goroutine. Scoring
calls `ReDeriveAfterScoring` in a goroutine of its own. Both reach
`tryAutoDelegate`, which either inserts into `pending_firings` or calls
`Spawner.Delegate`. A run goroutine that exits calls back (`notifyDrainer`)
with `go DrainEntity`, and a ticker drains what was missed. HTTP handlers write
claims and statuses, then call `Spawner.Cancel`, `Delegate`, `Takeover` or
`ResumeAfterYield`, which share the spawner's two maps with the run's goroutine.
A chain's orchestrator calls `runAgent` once per step and registers its own
context in the same map. The poll cycle stores a snapshot and publishes what
changed on the bus; its end triggers the scorer. The curator is beside all this:
its session goroutines share `projects` with the settings form.

What is hard, by component:

- **Router**: the entity gate is two reads before a write, in two goroutines; a
  firing is popped by a read, so only a mutex ties the row that is settled to
  the row that was validated; the claim is stamped after the run has started;
  errors half-way leave a run started and its firing pending; a restart loses
  every goroutine and none of the rows.
- **Spawner**: a run has several writers (its goroutine, a resume goroutine,
  Cancel, Takeover, swipes), some of their updates are guarded by the status in
  the WHERE clause and some are not; a cancel function outlives the decision it
  should stop; five deferred cleanups each read the `takenOver` flag anew.
- **Takeover**: it moves files that the goroutine it stops is about to delete,
  without waiting for it, and has to roll back everything that goroutine then
  skipped.
- **Chains**: the orchestrator leaves when a step parks, and whoever cancels or
  approves has to guess from the map whether it is gone; every end of the chain
  (four actors) runs the same four unguarded statements.
- **Curator**: a message is a row, an entry of a channel and a goroutine, created
  in three steps; a settings change is an update and a note for the agent, in
  two; the note is claimed by a turn that may be killed, and comes back.
- **Tracker and bus**: the snapshot advances before the event is published, so
  an event that is lost is not produced again; a poll cycle that outlives a
  restart diffs against a snapshot that another one has replaced.
- **Worktrees**: one clone is shared by all runs of its pull requests, by takeovers
  and by curator checkouts. The mutex covers single functions, and neither the
  removal of directories nor takeovers; what a pull request's runs configure
  is one entry that each of them removes.
- **Workspace**: the agent's processes meet in one row and one directory, neither of
  which tells a creator at work from one that was killed; age decides.
- **Scoring**: rows are marked in progress before a call that may answer for some
  of them; what waits for the grade is told once.

What makes them correct, in the same order: one live run per firing, order of
arrival kept, every firing settled; the registered cancel function is that of
the live goroutine, an accepted cancellation and a takeover stand, every run
reaches an end; a held takeover can be resumed and nothing is left behind; steps
run in order with their worktree, and a chain can be ended and then is clean;
every message ends and the agent learns every change; the board comes to agree
with GitHub; every task is graded and no grade is lost; whoever has a checkout
can push from it, and what ends leaves nothing in the clone that blocks others;
one process makes a worktree, and one that was killed is made up for.

`PROJECT.json` lists every hazard at its line, with the property that covers it
or the reason why none does yet.

## 2. Modules

    FiringLog             what the firing queue promises, abstractly
    FiringQueue           router, firing queue, drains, sweeper, users, restarts
      INSTANCE FiringLog  (refinement mapping LogOf)
    FiringQueueProofs     theorems about FiringQueue
    MCFiringQueue         budgets and entities for TLC

    RunLifecycle          the goroutines, maps, rows and files of delegated runs
    RunLifecycleProofs    theorems about RunLifecycle
    MCRunLifecycle        budgets for TLC

    ChainRun              a prompt chain, its steps and the requests it meets
    ChainRunProofs        theorems about ChainRun
    Chat                  what the chat with the curator promises, abstractly
    CuratorQueue          the chat of a project with its curator
      INSTANCE Chat       (refinement mapping Phase, AtDoor, Line)
    CuratorQueueProofs    theorems about CuratorQueue
    PollFeed              from GitHub over tracker and bus to the board
    PollFeedProofs        theorems about PollFeed
    Grading               scoring cycles, and the triggers that wait for a grade
    GradingProofs         theorems about Grading
    BareRepo              the shared clone of a repository and its worktrees
    BareRepoProofs        theorems about BareRepo
    Workspace             the processes that make a Jira run's worktrees
    WorkspaceProofs       theorems about Workspace
    MCChainRun, MCCuratorQueue, MCPollFeed, MCGrading, MCBareRepo, MCWorkspace
                          budgets for TLC

A step is one statement on the database, one operation under a mutex or one
operation on the file system. Every read that a later write relies on is in
another step, so all interleavings in between are there. A `budget` counts the
inputs that an environment may still give (events, user requests, failures,
restarts); it is the only bound, the proofs do not depend on its values. In
ChainRun, CuratorQueue and BareRepo `Variety`, in PollFeed `Total`, bounds how many of
these kinds, or inputs, one behaviour mixes.

`lapses` (ChainRun, CuratorQueue, PollFeed, Grading, Workspace) records the
kinds of loss a behaviour has met that the code accepts or overlooks. A property
that does not hold after such a loss excepts it by name: what it says is that
these are the only ways. Each is described with its module.

### FiringQueue

| State | Code |
|---|---|
| `entity`, `task` | `entities.state`; `tasks.status` and the claim columns |
| `enabled` | triggers with `event_handlers.enabled` |
| `firings` | `pending_firings` in id order, with status, skip reason, run |
| `runs` | `runs` in start order; `live`: its goroutine exists; `signal`: a Cancel reached it; `mirror`: the goroutine is between read and write of advanceTaskFromRunStatus |
| `lock` | the map behind `entityDrainLock` |
| `wakeups` | `go drainer.DrainEntity` not scheduled yet |
| `auto[th]` | locals of `tryAutoDelegate` and of its caller's loop |
| `drain[d]` | locals of `DrainEntity`, and of `sweepOrg` for the sweeper |
| `user[u]` | locals of a request handler |

`auto` moves through `CheckActive` (breaker, first half of the gate),
`CheckQueue` (second half), then `Enqueue` or `FireDirect`, then
`StampAgentClaim`; `AutoError` is any failing statement on the way. `drain`
moves through `DrainLock`, `DrainPop`, `DrainCheckTask`, `DrainCheckTrigger`,
`DrainFire`, `DrainMarkFired`, or `DrainMarkSkipped` and back to the pop;
`DrainRollback` and `DrainRevert` are the branch where `MarkFired` fails, and where the
cancel and the status write may fail too. `MirrorReads` and `MirrorWrites` are
advanceTaskFromRunStatus: what a run's stage does to its task.
`HandleEvent`, `CloseTask`, `CloseEntity`, `ReDerive`, the user requests,
`ToggleTrigger`, `Resume` and `Crash` are inputs.

Abstractions:

- Task statuses are open (queued, in_progress, in_review), snoozed and closed
  (done, dismissed). Of the run statuses that release the entity and that the
  breaker ignores, "review" is pending_approval and "ended" the others.
- Predicates are not evaluated: an event comes with the set of triggers that
  matched. The triggers of one event are tried in any order; the code takes the
  order of one query. One team and one user; an event's inline close checks and
  its task creation are separate inputs.
- `FindOrCreate` and `Bump` are one step, as are the breaker's count and the
  read of active runs, and the list of runs and their cancellation in a close
  cascade. The breaker's LIMIT 20 is ignored (thresholds are far below it).
- A run's goroutine is an outline: it mirrors stages into its task as often as the
  budget says (the code: up to four times while the agent works, and once after),
  returns with some status, closes its task when no other run of it is active, and
  wakes a drain. A chain counts as one run. `signal` records that
  a Cancel reached its goroutine and stays set when the run yields and is
  answered; all this changes is that the resumed run may end as cancelled
  without spending budget.
- The undo of a delegate swipe whose `Delegate` fails is left out.

### RunLifecycle

| State | Code |
|---|---|
| `row`, `session`, `path` | `runs.status`, `session_id`, `worktree_path` |
| `status`, `claim` | the task's status and claim |
| `handle` | `Spawner.cancels`, by the goroutine whose context the function cancels |
| `taken`, `signal` | `Spawner.takenOver`; the contexts that are cancelled |
| `wt`, `jsonl` | the worktree and the session transcript: none, the run's, the takeover's, gone |
| `pc[r][k]`, `result[r][k]` | where the goroutine of kind `k` (`run`: runAgent, `resume`: ResumeAfterYield) of run `r` is, and the terminal status it has in hand |
| `cancel`, `takeover`, `swipe` | the Cancel, the Takeover or Release, and the swipe in progress |

`Register`, `SetupWorks`/`SetupFails`, `Start`, `AgentSession`, `RunReturns`
are Delegate's goroutine up to the agent's return. `Yield`, `Record`, `Park`,
`Check`, `Close`, `Advance` are `processCompletion`, shared by both kinds.
`WriteCancelled` is handleCancelled, `WriteFailed` failRun, `CleanStart`,
`CleanSession`, `CleanWorktree` and `Exit` the defers. `Respond`, `Flip`,
`Resume`, `ResumeReturns`, `ResumeCancelled` are ResumeAfterYield. The guard of
an UPDATE is `SetRowIfActive`; the unguarded ones are `SetRow`: the difference
is what the two cancellation and takeover findings below come from.

Abstractions:

- GitHub runs outside chains. They start with the delegate swipe; a run started
  by the router differs only before its first step.
- "running" stands for fetching, cloning, worktree_created, agent_starting and
  running, "failed" for task_unsolvable too, "done" for dismissed too.
- Reading a context and acting on it are one step, as are handleCancelled's
  write and removal, abortTakeover's calls, Release's removals, and the read
  and the write of advanceTaskFromRunStatus (`Mirror`; to be split later).
  `Check` and `Close` are two, as in the code. The memory gate, which runs the
  agent again, is the time between `RunReturns` and `Record`.
- Database statements do not fail here, file removals succeed. Setup, the
  agent, its answer, a takeover's copy and its transcript may fail ("fault").
- One user and one Cancel of a run at a time. Approval of a review or pull
  request, snoozing and moving the card by hand are left out.

### ChainRun

| State | Code |
|---|---|
| `chain`, `row`, `verdict`, `pending` | `chain_runs.status`; each step's `runs.status`, latest verdict artifact; the steps of which a review or pull request waits |
| `jira`, `wt` | whether the task is a Jira issue; the shared worktree, or a Jira chain's root |
| `handles`, `signals`, `taken` | the spawner's maps as in RunLifecycle, the chain's own context is 0 |
| `pc`, `at`, `ending` | where the orchestrator, the resume goroutine and each request are, at which step, and the status they are about to give the chain |
| `drained` | whether notifyDrainer was called for the chain of an event |

`SetupWorks`, `SetupFails`, `Create` are delegateChain; `StepStarts`,
`StepRegisters`, the agent's steps and `Decide` one turn of runChain; `Mark`,
`CloseTask`, `Clean`, `Notify` are terminateChain, which orchestrator and requests share.
`CancelReads`, `CancelFires` (with `CancelMisreads`, `CancelMarksOnly` for its two
failing reads) are CancelChain. `Approves`, `ApproveMarks`, `ApproveResumes` are a
submission and ResumeChainAfterApproval; `Discard`, `StopStep`, `Responds`,
`Resumes`, `TakeoverClaims`, `TakeoverEnds` what else meets a step.

- Of runAgent only what the chain reads is kept; RunLifecycle has the rest.
  StopStep, Discard and the two halves of a takeover are one step each.
- A resumed agent answers later than the orchestrator, which returned from the
  same step before, re-reads the row (`AgentReturns`): minutes against one query.
- After an approval or an answer the walk does not go on: ResumeChainAfterYield
  has no caller, so a chain whose step yielded stays running until it is
  cancelled. A last step approved without --final, and a discard, do the same.
  CancelEnds is therefore about cancellation, and not about the chain alone.
- A verdict read under a cancelled context fails and counts as none: a chain that
  is cancelled as its step completes is recorded as aborted (`chain.go:317`).
- The handlers of a submission ask whether there is a review or pull request, not
  whether its step is parked (`reviews_handler.go:109`). So an approval may come while
  the agent still works (`AgentWorks`), and if that agent has said --final, it ends
  the chain and removes the worktree under it; the comment at `chain.go:680` knows
  parked steps only. A later --advance then starts a step in a chain that has ended.
- Requests pass "manual" to terminateChain, for which notifyDrainer does nothing: when
  one of them ends a parked chain that an event has started, nobody wakes the queue
  (the sweeper does, FiringQueue), although `chain.go:443` speaks of "exactly once".
- `lapses` names what was left undone. In CancelChain, a failing read: "steps" ends a
  chain at work, "task" leaves the worktree of a parked one. "early": the approval above.
  "kept": the worktree could not be removed. "rootless": a request cleaned up a Jira chain,
  with a configuration that does not name its root. "parked": the orchestrator left the
  end of the chain to a request; "unmarked", "entity": its own mark, or the read of the
  entity that it would wake, failed.
- A takeover of a step that has just completed moves the worktree from under the
  next one; WorktreeUnderAgent excepts takeovers, and the first two kinds of lapse.

### CuratorQueue

| State | Code |
|---|---|
| `project`, `value`, `sid` | the `projects` row, one setting, `curator_session_id` |
| `req`, `pend` | `curator_requests.status`; rows of `curator_pending_context` with session, baseline, consumer |
| `current`, `queue`, `wpc`, `item`, `snap`, `outcome` | `Curator.sessions`, the channels, and the locals of run and dispatch |
| `killed`, `stopped` | cancelled message and session contexts |
| `sender`, `cancel`, `patch`, `del` | the handlers in progress |
| `known` | what a session of the agent was told in turns that ended well (no code: the promise) |

`CreateRequest`, `GetOrStart`, `Enqueue` are SendMessage; `Take` to `Revert` one
dispatch; `CancelReads`, `CancelFires`, `CancelMarks` handleCuratorCancel;
`PatchReads`, `PatchUpdates`, `PatchQueues` the settings form; `DeleteTakes` to
`DeleteRow` the deletion of the project; `Reset` and `Crash` with its startup
sweep are one transaction each.

- The abstract `Chat` has neither goroutines, channels nor contexts: messages stand
  in one line in the order in which they were let in, at most `Room` behind the
  next one, and each is begun from its head or passed over because it has ended.
  ImplementsChat maps the line to the channel of the goroutine in the map, behind
  the message that it has taken out and not yet marked running.
- One setting stands for the pinned repositories, the Jira key and the Linear key;
  a project's handlers for PATCH and DELETE exclude each other by its mutex.
- The statements that end a request do not fail; a failing agent does ("fault").
- Lapses: "first turn" (a PATCH while the first turn of a project has no
  session id yet queues nothing), "stale update" (the PATCH writes the whole row,
  with the session id it read), "split" (a turn starts between the update and the
  queueing), "untold" (the queueing fails, which is only logged), "late session" (after cancel and reset the killed agent's first
  message stores its session), "crash" (what a killed turn has claimed is not
  given back).

### PollFeed

| State | Code |
|---|---|
| `pr` | the pull request on GitHub: open, review asked, and a change counter for updated_at |
| `entity`, `snap`, `task` | `entities.state`, `snapshot_json`, the review task |
| `loop`, `stopped`, `teamless`, `fresh`, `prev`, `curr` | each polling loop, its stop channel, whether it has no list of teams, and a cycle's locals |
| `bus`, `cascade` | the router's channel, and closeEntity between its two statements |
| `answered` | whether the request that is pending on GitHub was announced (no code: the promise) |

`Start` is startGitHub; `Discover` to `PublishEvents` are one RefreshGitHub, with `Skip` for
the gate and its reconciliation. The code logs most of its errors and goes on; each is an
action: `StartsTeamless`, `DiscoverFails`, `RegisterFails`, `SeedFails`, `SettleFails`,
`CycleFails`, `SaveFails`, and in the router `HandlingFails` and `CloseAllFails`. `HandleAsked`, `HandleUnasked`, `HandleClosed`, `HandleLate`,
`CloseAllForEntity` are the router's side; `RestartGitHub`, `Crash`, the users and
GitHub are inputs. `DiffPRSnapshots` and `shouldSkipRefresh` (`Quiet`) are operators.

- One pull request, one kind of task, GitHub; CI, labels, mentions and Jira are
  diffed the same way and left out. Whether checks are in flight or the snapshot
  is too old for the gate is left open, so what may be skipped may be refreshed.
- The user is asked by login: which requests a loop without teams misses is left out. What
  is there is its other consequence, that such a loop reconciles nothing
  (`tracker.go:218`); its list is nil after an error, read once per start
  (`manager.go:252`), and for a user who is in no team.
- Lapses: "drop" (full channel), "overlap" (two loops wrote one snapshot),
  "reclosed" (reopened and closed between two polls of a reactivated entity),
  "buried" (a request stored with a closed state is not new after a reopening),
  "late" (a request reaches a closed entity), "revived" (undo or requeue of a card
  whose entity is closed), "crash"; and the errors that lose something: "swallowed" (the
  router could not record or handle an event), "left open" (the tasks of a closed entity),
  "unclosed" (MarkClosed), "unseeded" and "unsaved" (the first snapshot, a later one) and
  "cut" (a cycle that leaves a reactivated entity with its closed snapshot). A failed
  search, FindOrCreate, reactivation or refresh loses nothing: a later cycle does it.
- A crash between FindOrCreate and the first snapshot, or its error, leaves an entity
  that no cycle refreshes or seeds again (`tracker.go:194`).

### Grading

| State | Code |
|---|---|
| `status`, `scoring`, `suited`, `holder` | the columns of `tasks`; the grade against the trigger's threshold |
| `trigger`, `scorer`, `batch`, `graded` | the runner's channel and the locals of its cycle |
| `due`, `firing` | the goroutine of ReDeriveAfterScoring: tasks to read, tasks found fit |
| `agents` | tasks whose deferred trigger started a run or stands in the firing queue |

`PickBatch`, `MarkScoring`, `BatchAnswers`, `ResetSkipped`, `SaveScores` are one
cycle, with `ResetFails` and `SaveFails` for its failing statements; `Derive` and
`Fire` are reDeriveTask to its claim, `DeriveGivesUp` and `FireGivesUp` their
returns on the way; `EventOpens`, `EventCloses` and four `User`
actions are the other writers of the rows.

- Whether the agent starts at once or as a queued firing is FiringQueue's; the
  stamp after it may fail or not happen. A batch is every
  unscored task. The profile gate is always
  ready, and Invalidate has no caller. A give-up needs no budget: a switch that
  is off and a breaker that has tripped are states, not faults.
- Lapses: "omitted" (the answer leaves a task out and no batch failed: nothing is
  reset, `runner.go:195`), "not reset" (the reset failed and is only logged),
  "missed" (snoozed or over when it was re-derived), "gave up" (a read or
  statement of the re-derivation failed, the team's switch or bot is off, or the
  breaker has tripped, with the task fit and unclaimed: it is logged at most, and
  the task is not scored again), "requeued" (a graded task is
  put back: no grade will come again), "crash" (rows in progress are not swept;
  the callback is lost).

### BareRepo

| State | Code |
|---|---|
| `lock` | who holds `repoLocks[owner/repo]` |
| `refs`, `section`, `remotes` | in the clone: local branches; for which pull request `branch.<name>.*` with its marker was written; the `head-<n>` remotes |
| `trees`, `disk` | worktree registrations (directory, branch, locked) and directories that exist |
| `pc`, `of`, `ended` | the goroutine of each run, its pull request, whether its row is terminal |
| `hand`, `taken`, `named` | the takeover or release of each run, `Spawner.takenOver`, whether Release could read a branch |
| `inuse`, `misread` | what the sweep read |
| `pin` | the last outcome of EnsureCuratorWorktree per project |
| `stripped`, `strays`, `leaks` | no code: runs whose configuration went with another's, directories that were given up, runs whose own configuration was |

`Delegate` to `Undo` are CreateForPR with its rollback, `WorkEnds` and `Finish` the
last look at wasTakenOver and the terminal write that follows it, `Defers` to `Cleanup` the
deferred cleanup and handleCancelled, `ParkedChainEnds` an end of a chain by a request, `Takeover` to `MarkTakenOver` Takeover with
CopyForTakeover and abortTakeover, `Release*` Release, `SweepReads` and
`SweepReclaims` the sweep of a bootstrap, `EnsurePin` to `PrunePin` the curator's
checkouts; `Crash` includes CleanupWithOptions at startup.

- git is modelled by what the code relies on (`Free`, `Pruned`, and that deleting a
  section or a remote never asks for checkouts); that it behaves so was tried with
  git 2.39.
- A user who switches branches in a takeover directory is left out: Release then
  deletes that branch with -D. So are the clone itself, `repairOriginURL`, the
  branches of Jira runs, and a deleted fork's pull request inheriting a section.
- A sweep that could not list the worktrees, and a cleanup that takes a
  configuration along that another run uses, are excepted from PushHasTarget and
  shown by `BareRepo_sweep.cfg` and `BareRepo_spare.cfg`.
- Removals fail as they do in the code, where only runAgent's cleanup and Release look at
  the error. `RemoveSome`: any of the commands of removePRConfigLocked may fail, in a cleanup,
  a rollback, a release and a sweep. `RemoveFails` and `HandRemoves`: RemoveAt leaves the
  directory and does not prune; the rollback and abortTakeover go on, runAgent's cleanup keeps the
  configuration. `PruneAll`, `HandPrunes`, `PrunePin`: a failing prune is not tried again.
- A directory is a stray when nobody will look at it again: after such a failure, a
  killed `worktree add`, an overlay that failed half-way, a crash, or when the goroutine
  has written its outcome over taken_over (`Finish`, `run.go:347`), so that Release
  refuses (`takeover.go:439`). A run leaks when its configuration stays: a command or the
  removal of its directory failed, the process died, or CancelChain or an approval
  ended its chain without its pull request (`chain.go:606`, `chain.go:719`).
- At startup a directory that cannot be removed is one whose registration is not pruned.
- `git worktree list` names a branch for every checkout here. One in a rebase or with a
  detached HEAD has none, and a sweep takes its configuration: a further exception from
  PushHasTarget, which the model does not show.
- NobodyStalls says that who has begun can go on, or waits for a mutex whose holder
  can, and that GoesOn, which says so by the place and the mutex, is what ENABLED
  says of the steps: a step that kept or re-took the mutex would leave a state in which neither
  is so. `BareRepo_settle.cfg` checks the same as liveness (RunSettles), with fewer
  inputs.

### Workspace

| State | Code |
|---|---|
| `row` | the row of `run_worktrees` for the run and one repository: its creator, whether it is older than `staleReservationAge` |
| `tree`, `branch` | `<run root>/<owner>/<repo>`: missing, half made, made; `feature/<issue>` in the clone |
| `pc`, `seen` | the place of each process in materializeWorkspace, and the row it read |
| `run` | the agent works, or the place of runAgent's deferred cleanup |

`Lookup` to `Release` are materializeWorkspace with CreateForBranchInRoot, `ListRows`
to `RemoveRoot` the cleanup. `Kill` (a timeout of the agent's shell), `Age` and
failing statements are inputs; a failing statement ends a process as in runAdd.

- One repository and one run. `gone` in `seen` is no code: it tells whether the row
  that was read is still the one in the table.
- The processes call the database directly (LocalClient). A restart of the server
  is BareRepo's. A removal and its prune, two steps in BareRepo, are one here.
- Lapses: "late drop" (two processes read one stale row, and the second deletes the
  row the first has put in its place, `add.go:205`), "slow" (a creation that takes
  longer than the five minutes), "half" (git, or a removal, is cut short), "left"
  (a removal failed).
- RemoveRunRoot prunes nothing: a directory that has lost its row leaves its branch
  checked out, which is why EndedIsClean needs TreeHasRow.

## 3. Runs

| Run | Instance | Shows |
|---|---|---|
| `burst` | 1 entity, 1 task, 2 triggers; 3 matches in 2 events, 1 error, 1 restart | HeldIsOldest, and the refinement ImplementsFiringLog |
| `claim` | 2 matches; 1 user request, 1 mirrored stage, 1 error | FiringOwnsItsRun, UserWins |
| `live` | 1 match, 1 more after scoring, 1 failed, cancelled or yielding run, 1 error, 1 change of a trigger; fair | PendingIsSettled |
| `race` | 1 run; 2 swipes, 2 cancels, 2 answers, 2 takeovers or releases, 1 fault; fair | HandleIsLive, TakenOverIsResumable, WorktreeReclaimed, RunEnds, NoPhantomRun, EndedStaysEnded |
| `chain` | 2 steps, 2 requests at once, approvals and cancellations without end; 1 of: early record, answer, takeover, stop, fault, restart; fair | WorktreeUnderAgent, EndedIsClean, EndedIsDrained, StepsInOrder, CancelEnds |
| `chat` | 2 messages, 2 goroutines, a queue of 1; 2 changes, and 1 cancel, reset, delete, fault, restart, any 2 kinds; fair | OneAgent, CancelOfRunning, DeltaKeptWithoutLapse, BaselineIsKnown, RunningIsWorkedOn, RequestEnds, and the refinement ImplementsChat |
| `feed` | 2 loops, a channel of 2; 3 inputs in all, of 2 changes on GitHub and 1 user, fault, crash, restart; fair | ClosedEntityIsQuiet, SnapshotIsExplained, RequestIsCarried, BoardCatchesUp, WithdrawalReachesBoard |
| `cycle` | 2 tasks; 2 gestures, 1 fault, 1 crash, any events; fair | ScoringIsHeld, GradeIsCarried, TaskIsScored, GradeReachesAgent |
| `shared` | 2 runs (interchangeable), 3 pull requests of 2 head names, 1 project; 1 cancel, takeover (moving or copying), deletion, sweep, fault, crash, any 2 of them | PushHasTarget, OneCheckout, NoStrandedTree, QuietIsClean, NobodyStalls |
| `add` | 2 processes at a time; 2 kills, 2 faults, 1 slow creation; fair | CreatorHoldsRow, EndedIsClean, RetrySucceeds |
| `gate`, `yield` | the least budget that shows it | a documented property that the code does not have (section 4) |

Why the bounds are enough to be interesting. Three matches of two triggers give
a direct run, a queued firing and a collapsed or second queued one; a drain
goroutine and the sweeper are two drains that contend for one mutex; one error
reaches the rollback, one restart every half-finished drain (`live` has none: what a
restart leaves is `FiringQueue_restart.cfg`). One task per
entity suffices there because a firing is identified by task and trigger, and
triggers vary. In `claim` one trigger fires and the other waits, so that a stamp, a drain, its
rollback, a run's mirror and a user meet on one task. In `race` a run can yield, be answered, yield and be answered
again while two cancellations, a takeover and its release, and a second gesture
on the card fall anywhere; the two goroutine kinds are the only ones a run has.
Races between two runs of a task would need a second run id.

In `chain` two steps are a first one, promoted or advanced from, and a last one;
two requests are two ends of one chain that meet, and one disturbance is what each of the
exceptions needs. `ChainRun_types.cfg`, without liveness, has any two of them. In `chat` a queue of one is
full with two messages, two changes are a baseline and a later one that must
not replace it, and a second goroutine follows a deleted one or a restart. In
`feed` two changes are a state and its opposite between two polls, two loops
what a restart leaves, and a channel of two overflows with the events of one
cycle behind an unread one. `CuratorQueue_line.cfg`, beside
the listed runs, checks the refinement with three messages, one setting and no
fairness: the queue is full with a message in it and one in hand, and the third is
turned away. In `cycle` one task is in the batch while the other
is left out, fails or changes. In
`shared` two runs suffice for a conflict over a branch, a section or the mutex
(a third only waits); a pull request of the repository and one of a fork share
a head name, and the third's head is the branch the curator pins; two kinds of
disturbance (how a takeover copies is not counted) are a failing takeover by
copy, or a crash or sweep among two runs. In `add` one process is killed and two
find its row, which takes two at a time, as a call may follow a killed one; a
second kill meets the retry.

The type invariants are proved, for all eight specifications (section 5), and so
are FifoPerEntity, TreeHasRow and QueuedIsRead, which are parts of
the invariants there or follow from them; the listed runs do not repeat them. Before
its proof each was checked on these instances; `ChainRun_types.cfg`,
`PollFeed_types.cfg`, `BareRepo_types.cfg` and, for the curator's types and
QueuedIsRead, `CuratorQueue_line.cfg` still do so, with
`tlc -config ChainRun_types.cfg MCChainRun` and so on.

For each property of a passing run `PROJECT.json` names a mutant, a plausible
bug in one modelled definition (a dropped mutex, a missing unique index, a
stamp that trusts the row it read, a sweeper that asks the whole gate, an answer that does not
look at the registered function, a rollback that forgets row or files, a
turn that retires what it was not told, a diff that compares open pull requests
only) that TLC
refutes on the same instance. They are the definitions commented "Mutant".

Deadlock checking is off in all runs: when the budget is spent, the queue is
empty and no run is left, the real system waits for its next input too.

### Fairness

FiringQueue: weak fairness of every goroutine's next step (the Go scheduler),
of the start of a spawned drain, of the sweeper (its ticker), and of the return
of a run's agent (agentproc waits for the process, which ends or is killed).
RunLifecycle: the same, per goroutine, and for handlers that have begun. No
input is ever forced: users need not answer, so PendingIsSettled allows a queue
that stands behind a run awaiting an answer, and RunEnds counts awaiting_input
as an end. Errors are inputs too and finite in number; with a Delegate that
fails for ever, the head of a queue is retried for ever. `MaxRuns` only bounds
the index of the fairness conjunction; no run of the instance has more run ids.

ChainRun and CuratorQueue: weak fairness of every goroutine and of handlers that
have begun, as above. ChainRun adds `Patience`, one user who presses cancel as
long as the chain runs: CancelEnds says that this is always enough, and nothing
less is (a single CancelChain may find a function of an orchestrator that is
about to leave, and return without ending anything). PollFeed: weak fairness of
the poll cycles (tickers) and of the bus's drain goroutine; strong fairness of
Skip, as a pull request on which nothing happens is polled again and again with
its checks over and its snapshot younger than the gate's limit. BareRepo (in
`BareRepo_settle.cfg`): weak fairness of goroutines, handlers and a sweep that has
begun; the mutex is taken finitely often, so that waiting needs no more.
Workspace: weak fairness of processes, of time and of the cleanup, and of an
agent that asks again while it has no worktree (`Call`). Grading: weak
fairness of polls, cycles and re-derivations; strong fairness of AnswersInFull,
as the model, asked again and again, must at some time grade the whole batch.

## 4. Where code and documentation disagree

Two have a listed run with a counterexample; `PROJECT.json` quotes the sentence.

- `gate`: an event and a re-derivation both pass the entity gate and both fire,
  although the gate is called the point of serialisation (`router.go:429`).
- `yield`: the deferred cleanup removes worktree and transcript of a run that
  only yielded, so that it cannot be resumed, against `delegate.go:416`.

The following configurations end in a counterexample as well. They are kept
beside the listed runs and can be checked by hand, as
`tlc -config FiringQueue_userclaim.cfg MCFiringQueue`:

- `FiringQueue_userclaim.cfg` (MCFiringQueue, NoBotRunOnUserTask): the direct path
  fires first and stamps the claim later; a user who claims in between has the
  bot on their task, against `router.go:603`. What the stamp still guarantees, that the
  claim stays theirs, is UserWins. That property excepts two writers: a drain that
  could not mark its firing sets the task to queued, also one that its run, or a
  user, has closed meanwhile (`router.go:753`), and a run's goroutine sets its stage
  a statement after it looked whether the task is closed (`spawner.go:346`, under a
  comment that says that a closed task should never re-open).
- `FiringQueue_restart.cfg` (MCFiringQueue, PendingIsSettled): nothing at startup
  ends the `runs` rows of a killed process; they hold their entity's gate, and
  the sweeper skips it, against `router.go:766`.
- `RunLifecycle_cancel.cfg` (MCRunLifecycle, CancelledIsFinal): a Cancel between
  the insert of the row and the registration of its function is undone by the
  goroutine's first status, against `spawner.go:275`.
- `RunLifecycle_takeover.cfg` (MCRunLifecycle, TakenOverIsFinal): a takeover that
  commits while the goroutine is inside the memory gate is overwritten by the
  unguarded Complete, against `spawner.go:189`.
- `ChainRun_task.cfg` (MCChainRun, DoneMeansCompleted): terminateChain does not ask
  whether it ended the chain: an approval closes the task of a chain that was
  cancelled, against `chain.go:435` ("Aborted / failed / cancelled chains
  intentionally do NOT mark the task done").
- `CuratorQueue_patch.cfg` (MCCuratorQueue, DeltaKept): a change during the first
  turn of a project is neither in that turn's envelope nor queued, against
  `server/projects.go:586`.
- `Grading_snooze.cfg` (MCGrading, DeferredTriggerFires): a task that is snoozed
  as its scoring completes is not re-derived, and is never scored again, so the
  trigger "deferred to this callback" (`router.go:945`) is lost. The property
  excepts a re-derivation that gave up.
- `BareRepo_spare.cfg` (MCBareRepo, CleanupSparesCheckouts): removing a remote or a
  section is not refused while the branch is checked out, so one run's cleanup
  cuts another's push target off, against `worktree.go:805` ("would force this to
  no-op rather than silently break a live checkout"). Two runs of one pull
  request, the second of which starts during the cleanup of the first, are enough.
- `BareRepo_early.cfg` (EarlyPathsPrune): a cancelled setup passes no path to
  handleCancelled, and the registration that a killed `git worktree add` leaves is
  locked, against `cancel.go:129` ("so the bare-repo registration is pruned even
  if the goroutine returns through one of the early paths").
- `BareRepo_marked.cfg` (LeakIsMarked): the marker is written last; a crash before it
  leaves a remote that the sweep does not find, against `worktree.go:695`
  ("SweepStaleForkPRConfig would eventually clean those up on next bootstrap").
- `BareRepo_sweep.cfg` (SweepSparesCheckouts): a failing `git worktree list` counts as
  "nothing is checked out", against `worktree.go:853` ("we only reclaim branches
  with no live checkout").
- `BareRepo_halfcopy.cfg` (NoHalfCopy): a copy that fails half-way returns no path,
  and its destination stays registered, against `takeover.go:309` ("may point at a
  partial directory; either way we RemoveAll it").
- `BareRepo_pins.cfg` (PinIsMaterialized): the second project that pins a repository
  gets no checkout, as git allows a branch in one worktree only, against
  `worktree/curator.go:31`.
- `Workspace_winner.cfg` (MCWorkspace, OneCreator): two processes that have both read
  a stale row create both, against `add.go:237` ("the loser short-circuits before
  touching git").
- `Workspace_killed.cfg` (MCWorkspace, KilledIsRecovered): a killed `git worktree add`
  leaves a directory, which every later call takes for the worktree, against
  `add.go:177` ("retries looping forever on a never-realized path is the wrong
  answer").

The passing properties are stated about the code as it is. HandleIsLive holds
with runs that yield and are answered, TakenOverIsResumable with the overwritten
takeovers of `RunLifecycle_takeover.cfg`: a row that lost its status is no longer held. The
exceptions by name of section 2 are of the same kind.

## 5. Proofs

TLAPS proves these for every value of the constants: any number of entities,
tasks, triggers, goroutines, runs and inputs. Assumed are only the named
ASSUMEs of the modules (sets are disjoint, budgets are functions into Nat,
there is a task and a trigger, triggers are finitely many, a setting has a value), which TLC evaluates.

**FiringQueue** (`FiringQueueProofs`). HeldIsOldest is not inductive: that
nobody else settles the entity's firings while a drain holds one is due to the
mutex. The invariant is

    IInv == TypeOK /\ LockHeld /\ HeldIsOldest /\ FifoPerEntity

where LockHeld says that a drain inside the loop is the holder of its entity's
mutex. Enqueue appends, so what arrives is younger than what is held;
Settle removes the held head, which keeps the order; all other steps leave
queue, mutexes and drains alone (QueueFrame, DrainFrame).

- `TypeCorrect`, `DrainHoldsOldest`, `QueueIsFifo`: the parts of IInv.
- `QueueImplementsLog`: `Spec => Log!Spec`. Initial states map to the empty
  log, and under IInv every step maps to Append1, SettleHead or a stutter.
- `DrainedRunsAreOwned`: FiringOwnsItsRun if the process does not restart
  (`Budget["crash"] = 0`). The property excepts the run whose cancellation failed in
  a rollback. The second invariant, Owned, adds that run ids and
  firings a drain remembers exist. With a restart between DrainFire and
  DrainMarkFired the property fails: the started run's row stays and the firing
  stays pending.
- `UserAlwaysWins`: UserWins, an action property. Of all that writes the row of a
  task only the stamp sets a claim unasked, and it reads the row once more; only a
  drain that rolls back and a late mirror open a closed task.

**RunLifecycle** (`RunLifecycleProofs`). The invariant has five parts, each
proved from the ones before it, one step per action:

- Typed: TypeOK, and that Record has a terminal status in hand.
- Handled: HandleIsLive and StartsOnce. A resume goroutine and a takeover need
  a session, a session needs the agent, so neither meets a run whose first
  goroutine has not registered yet; without that Register could replace the
  function of a resume goroutine.
- Held: TakenOverIsResumable and what a takeover has moved at each step. A row
  is taken_over only through TakeoverMarks, which has both files; the flag keeps
  every later takeover out, and removal by the goroutine no longer finds them.
- WorktreeHasOwner: a worktree whose goroutine has skipped or finished its
  defers, or whose run is flagged, belongs to a takeover that is about to move
  or remove it. HandleIsLive and the flag carry it through the gated defers.

- Written: a row that says that something works has a writer, a goroutine before
  its last write or a takeover under way; and a takeover that is over has left no
  active row behind, as the goroutines that see its flag leave the row to it.

`TypeCorrect`, `HandleIsRight`, `TakeoverKeepsFiles`, `NoWorktreeLeft` and
`NoRunLeftActive` follow, the last being the safety half of RunEnds: no row is left
active that nobody will end. `EndedIsForGood` is the action property EndedStaysEnded.
None of them depends on fairness or on a bound.

**Grading** (`GradingProofs`). The invariant is

    IInv == TypeOK /\ GradedLate /\ CycleHolds /\ GradeIsCarried

ScoringIsHeld is not inductive: that a task in progress is in the batch when the
cycle ends is due to every path before the end having graded or reset it.
CycleHolds says so per place of the cycle (at "save" the tasks in progress are
graded ones), GradedLate that grades of an earlier cycle are gone.
GradeIsCarried, the safety half of GradeReachesAgent, is: a grade enters with its
task in the batch that is handed on, and leaves with the agent, a claim or a
named loss. `GradingTypeOK`, `GradingScoringIsHeld` and
`GradingGradeIsCarried` follow, for any number of tasks and inputs.

**Curator** (`CuratorQueueProofs`). The invariant is

    IInv == Types /\ OnlyCurrent /\ Holding /\ SeenRunning /\ KilledWorks

OneAgent follows from OnlyCurrent: a goroutine that is alive is the one of the
map. CancelOfRunning is not inductive: a goroutine could still take the
cancelled message. SeenRunning excludes that (a message that was seen running is
never queued again, whatever reset, deletion and crash write), and KilledWorks is
the property for the places before the agent's too. `CuratorOneAgent` and
`CuratorCancelOfRunning` hold for any number of messages, goroutines and inputs
and for any bound of the channel.

The two properties of the pending rows need a second invariant, proved under the
first:

    SInv == Settings /\ Patching /\ Blank /\ Known /\ OnItsWay /\ Few
            /\ Kept /\ Claimed /\ FirstTurn /\ Deltas

Its heart is Deltas, which says what the rows mean at every place of a turn.
Between turns, the rows that wait have as baseline what the session was last told,
and if there are none the setting is that. During a turn, the rows it claimed have
that baseline, and those that wait, queued since, have as baseline what the turn
read; finalizing makes the one the other, and reverting merges them. A setting that
is written but not yet queued counts with the value it replaces (Recorded), as the
two are separate transactions. Claimed, FirstTurn and Kept hold, like Deltas, in
behaviours without a lapse. The others hold always: OnItsWay and Few count the
sessions, no more than the messages whose agent answered and the one the project
may begin with, so that a new one always has a number. `CuratorDeltaKept` and
`CuratorBaselineIsKnown` hold for any number of settings, too.

The refinement needs a third, proved under the first only:

    CInv == Handlers /\ Fresh /\ Standing /\ Sending /\ Turns /\ Begun /\ Deleted

As long as the project is not being deleted, a handler that sends has the goroutine
of the map (Sending), which is not stopped (Standing) and has an empty channel before
it is started (Fresh); a message is running only if that goroutine has it in hand
(Turns), so that one at a time is, and none that a goroutine works on is still queued
(Begun). Each step of the code then is the step of the chat that its comment names or a
stutter: taking a message out of the channel is one, as it stays the head of the
line. `CuratorImplementsChat` is `Spec => TheChat!Spec`, `CuratorQueuedIsRead` an
invariant of the chat carried back along the mapping: with
`CuratorRunningIsWorkedOn` (a running message is in the hands of a goroutine that has yet to
write its end) it is the safety half of RequestEnds. `CuratorTypeOK` puts the types of
the three invariants together with Bounded, the rest of them: among others, that no
channel holds more than its capacity, as a handler looks before it sends.

**Prompt chains** (`ChainRunProofs`). The invariant is

    IInv == TypeOK /\ Spent /\ Endings /\ Fresh /\ Order /\ Registered /\ Alone
            /\ Approvals /\ EndedLast /\ Takeovers /\ Files /\ Cleaned /\ Drained

WorktreeUnderAgent is not inductive: a request that cleans up does so several
steps after it took the chain for parked. Files extends the property from the
agent's place to all places of the walk over the steps, with the two exceptions
under which the orchestrator is about to leave it. For that to be kept, no
request may end the chain under the walk before its agent has finished (EndedLast),
which follows from what each of them has seen: Approvals and Order for a submission
(its step has been started, so it is the orchestrator's own or one that said --advance),
Alone for a goroutine that resumes a yielded step, Registered for a
CancelChain (while the walk goes on there is a cancel function, and it takes that
path). Order gives StepsInOrder; Cleaned, that whoever has ended the chain is on
its way to clean up or has, EndedIsClean; Drained, of the orchestrator alone, EndedIsDrained.
`ChainRunTypeOK`, `ChainRunWorktreeUnderAgent`, `ChainRunEndedIsClean`,
`ChainRunEndedIsDrained` and `ChainRunStepsInOrder` hold for any number of steps,
requests and inputs.

**Poller, tracker and bus** (`PollFeedProofs`). The invariant is

    IInv == Types /\ Counted /\ Imaged /\ Unfound /\ Founder /\ Compared /\ Founding
            /\ ClosedEntityIsQuiet /\ SnapshotIsExplained

and Based, an invariant of its own, says that what a cycle compares with was stored.
The difficult step is the cycle that finds a pull request that is already over:
it saves a snapshot, fetches again and closes the entity without an event, while
another loop may have refreshed it meanwhile. Founder and Unfound say that one
cycle finds the entity and that nothing is announced before it has; Founding says
that when it is about to close, either a later image has been stored, or nobody has
announced anything, so that no task is left open behind the close, unless its own first
snapshot was not stored either. FailurePreserves and HandlingFailurePreserves have one case
per error of tracker and router: each either names its loss or leaves the parts as they
were. For "later"
Counted and Imaged give every image a time, that of the changes spent on the pull
request, and say that two images of one time agree. PublishKeeps is the lemma on
the channel: what a publication leaves in it, dropped or not. RequestIsCarried, the
safety half of BoardCatchesUp, is inductive under IInv: Save stores a request either
with the difference it will publish or over a snapshot that had it already, and then
the overlap of two cycles is the one thing that could have lost it.
`PollFeedTypeOK`, `PollFeedClosedEntityIsQuiet`, `PollFeedSnapshotIsExplained` and
`PollFeedRequestIsCarried` hold for any number of loops, any capacity and any inputs.

**Workspace** (`WorkspaceProofs`). The invariant is

    IInv == TypeOK /\ LateIdle /\ HolderIsYoung /\ ReadersKnow /\ Places /\ Reserved
            /\ Registered /\ Ending

CreatorHoldsRow is not inductive, as somebody may be about to drop the row.
HolderIsYoung adds that a creator's row is young, ReadersKnow that who is about to
drop a row saw it old: with both, whoever drops a creator's row dropped a newer one
than it read. Places and Reserved relate the directory to the places of processes
and to the row, Registered and Ending do so for git's registration and the cleanup.
`WorkspaceTypeOK`, `WorkspaceCreatorHoldsRow`, `WorkspaceTreeHasRow` and
`WorkspaceEndedIsClean` hold for any number of processes and inputs.

**Worktrees** (`BareRepoProofs`). The invariant is

    IInv == InvControl /\ InvFiles /\ InvConfig
    InvControl == Types /\ Budgeted /\ Mutex /\ Taking /\ Sweeping
    InvFiles   == Placed /\ Reserved /\ OneCheckout /\ Locked /\ Emptied /\ Cared
    InvConfig  == Sections /\ Tracking /\ Equipped /\ Owned

OneCheckout is kept by a setup because the branch it fetched is still free when
`git worktree add` runs (Reserved): only setups and curator checkouts take a new
branch, and they hold the mutex. A takeover holds no mutex, but what it registers
is the branch of its own source (Placed). NoStrandedTree follows from Cared: a
registration that was not given up has a goroutine (CaresRun) or a takeover's handler or
a release that the row still allows (CaresUser), and is still before the prune that
removes it; Emptied says that the directory is gone by then, so that a prune which
does not fail works. A failing step has to put the directory among the strays, which is
what the proof of each such step shows. PushHasTarget extends to every place after the
setup (Equipped). What removes configuration either marks the runs it takes it
from or, as the sweep does, leaves what was checked out when it read (Sweeping, by
the mutex that setups need too) and touches no other branch: Sections says that a
section is written for the pull request its branch is of, so that two branches
never share a remote. Owned is QuietIsClean for every moment: what is configured
has a run that will remove it, was taken over or has given it up. Actions that touch no file, or no configuration,
are handled once (FilesFrame, ConfigFrame).
`BareRepoTypeOK`, `BareRepoOneCheckout`, `BareRepoPushHasTarget`,
`BareRepoNoStrandedTree` and `BareRepoQuietIsClean` hold for any number of runs,
takeovers, projects, pull requests and inputs.
`BareRepoSweepSpares` is the complement of the refuted SweepSparesCheckouts: a
sweep that could list the worktrees takes no section from a checkout.
`BareRepoNobodyWaitsForEver` is NobodyStalls but for its clause on ENABLED: who waits
for the mutex waits for a holder that goes on. Mutex says that exactly the places
that need the mutex hold it, so that no path leaves with it.

Only model-checked: the liveness properties (PendingIsSettled, RunEnds,
CancelEnds, RequestEnds, BoardCatchesUp, WithdrawalReachesBoard, TaskIsScored,
GradeReachesAgent, RetrySucceeds, and RunSettles of BareRepo), and of NobodyStalls
that GoesOn is what ENABLED says: both are beyond the prover. Of six of the ten the
safety half is proved as said above, that what must still happen has somebody at work on it
(NoPhantomRun, RunningIsWorkedOn with QueuedIsRead, SnapshotIsExplained with RequestIsCarried,
ScoringIsHeld, GradeIsCarried, NobodyStalls); that they do work on is the fairness.
Every other property of a passing
run is checked and proved. The refuted properties are TLC's.

## 6. Not modelled, and plan

Not modelled, and why:

- Sandbox and agent processes, session transcripts, excludes: process control and
  files. The models keep what other parts see of them, a directory or a return.
- GitHub and Jira clients, proxies, integrations, sessions and authentication,
  the CLI but for `workspace add`, frontend, project bundles, settings: formatting
  and I/O, one request at a
  time, with no order of steps that another actor could disturb.
- PostgreSQL stores: the SQLite statements again with tenant scoping; the models
  are read from the SQLite ones.
- Classification: the trigger has the shape of scoring's. Its hazard is that
  AssignProject does not look at what it overwrites: an entity that a user
  assigns while its votes are out is assigned again, though `backfill.go:153`
  calls such entities sticky.
- handleReviewSubmit has no guard against a second submission (the pull request's
  has one, `MarkSubmitted`, which is read before it is set): two clicks post two
  reviews. The comment at `reviews_handler.go:182` says as much.
- Of the chat: messages and envelopes, failing final statements
  (CompleteRequest, Finalize, Revert are logged and not retried).
- A message sent between CancelProject and the deletion of the row starts a
  session goroutine for a project that is gone; it lives until the process ends.

By lines this leaves most of the repository out: the concurrent core that the
eight specifications translate is a small part of it, and handlers, stores for
two databases, clients, the terminal programs and the web interface are the
rest. More lines can be had only by modelling code that has one actor.

Plan, the most important first:

1. `RunLifecycle` with two run ids: a user's card is left alone by a run that
   completes late (`run.go:480`), a task re-delegated between Check and Close is
   not closed under its new run (`run.go:466`). `Mirror` split in two.
2. One claim register that the claim columns of FiringQueue and Grading both refine.
3. The Jira half of the tracker and the remaining event types of the diff.
