---------------------------- MODULE FiringQueue ----------------------------
(***************************************************************************)
(* The auto-delegation path of internal/routing/router.go over the tables  *)
(* tasks, pending_firings and runs: which matched trigger becomes a bot    *)
(* run, which one waits in the per-entity firing queue, and who drains it. *)
(*                                                                         *)
(* Goroutines of the program, each with its own program counter:           *)
(*   Handler    the event bus subscriber that runs Router.HandleEvent      *)
(*   Derivers   `go eventRouter.ReDeriveAfterScoring`, one per scoring     *)
(*   Drainers   `go drainer.DrainEntity`, started when a run goroutine     *)
(*              exits; wakeups counts those not scheduled yet              *)
(*   Sweeper    Router.RunDrainSweeper                                     *)
(*   Users      HTTP requests that change a claim or close a task          *)
(*   runs       one goroutine per delegated run (field live)               *)
(* A step is one statement on the database or one lock operation, so every *)
(* interleaving between a read and the write that relies on it is there.   *)
(***************************************************************************)
EXTENDS Naturals, Sequences, FiniteSets

CONSTANTS
  Entities, Tasks, Triggers,
  EntityOf,          \* the entity of a task
  Deferred,          \* triggers with min_autonomy_suitability > 0
  BreakerThreshold,  \* consecutive failures that trip a trigger's breaker
  Handler, Derivers, Drainers, Sweeper, Users,
  Nobody,            \* holder of a free mutex
  Budget,            \* how often each input may happen (bounds the model)
  MaxRuns            \* run ids that fairness ranges over

Inputs == {"event", "score", "user", "admin", "outcome", "mirror", "fault", "crash"}
RouterThreads == {Handler} \cup Derivers
DrainThreads == Drainers \cup {Sweeper}

ASSUME TaskAssumption == Tasks # {} /\ EntityOf \in [Tasks -> Entities]
ASSUME TriggerAssumption ==
  Triggers # {} /\ IsFiniteSet(Triggers) /\ Deferred \subseteq Triggers
ASSUME ThreadAssumption ==
  /\ Handler \notin Derivers
  /\ Sweeper \notin Drainers
  /\ Nobody \notin DrainThreads
ASSUME BoundAssumption ==
  /\ BreakerThreshold \in Nat
  /\ MaxRuns \in Nat
  /\ Budget \in [Inputs -> Nat]

VARIABLES
  entity,    \* entities.state
  task,      \* tasks: lifecycle status and claim
  enabled,   \* triggers whose event_handlers.enabled is set
  firings,   \* pending_firings, in id order
  runs,      \* runs, in started_at order, with the goroutine's state
  lock,      \* Router.entityDrainLock: the goroutine inside DrainEntity
  wakeups,   \* DrainEntity goroutines started and not yet scheduled
  auto,      \* locals of HandleEvent and reDeriveTask
  drain,     \* locals of DrainEntity and sweepOrg
  user,      \* locals of the request handlers
  budget     \* what is left of Budget

vars == <<entity, task, enabled, firings, runs, lock, wakeups, auto, drain,
          user, budget>>

(***************************************************************************)
(* Rows.  "open" stands for queued, in_progress and in_review; "closed"    *)
(* for done and dismissed.  A run in "review" is pending_approval, "ended" *)
(* is cancelled or taken_over; both release the entity, and the breaker    *)
(* ignores them.  mirror says that the run's goroutine has read the task   *)
(* and is about to set its stage.  src is the firing a drain made the run  *)
(* from, 0 for a run the router fired directly, and lost says that a       *)
(* rollback failed to cancel it; both are history, no step reads them.     *)
(***************************************************************************)
TaskRow == [status : {"absent", "open", "snoozed", "closed"},
            claim : {"none", "agent", "user"}]
Firing == [task : Tasks, trigger : Triggers,
           status : {"pending", "fired", "skipped"},
           reason : {"none", "task_closed", "claim_changed",
                     "trigger_disabled", "breaker_tripped"},
           run : Nat]
Run == [task : Tasks, trigger : Triggers, origin : {"event", "manual"},
        status : {"active", "awaiting", "review", "completed", "failed", "ended"},
        live : BOOLEAN, signal : BOOLEAN, mirror : BOOLEAN,
        src : Nat, lost : BOOLEAN]

Active(r) == runs[r].status \in {"active", "awaiting"}
RunEntity(r) == EntityOf[runs[r].task]
FiringEntity(f) == EntityOf[firings[f].task]
Pending(f) == firings[f].status = "pending"
PendingOf(e) == {f \in DOMAIN firings : Pending(f) /\ FiringEntity(f) = e}

\* HasActiveAutoRunForEntity: awaiting_input counts as active.
ActiveAutoRuns(e) ==
  {r \in DOMAIN runs : Active(r) /\ runs[r].origin = "event" /\ RunEntity(r) = e}

\* CountConsecutiveFailedRuns: event runs that failed since the last one of
\* the same prompt on the entity that completed.
Failures(e, g) ==
  LET Own == {r \in DOMAIN runs : /\ RunEntity(r) = e
                                  /\ runs[r].trigger = g
                                  /\ runs[r].origin = "event"}
  IN  Cardinality({r \in Own : /\ runs[r].status = "failed"
                               /\ \A s \in Own : s > r => runs[s].status # "completed"})
Tripped(e, g) == Failures(e, g) >= BreakerThreshold

SpendSome(input, n) ==
  /\ budget[input] >= n
  /\ budget' = [budget EXCEPT ![input] = @ - n]
Spend(input) == SpendSome(input, 1)

(***************************************************************************)
(* Locals of the goroutines.                                               *)
(***************************************************************************)
SomeTask == CHOOSE t \in Tasks : TRUE
SomeTrigger == CHOOSE g \in Triggers : TRUE

AutoLocals == [pc : {"ready", "queue", "enqueue", "fire", "stamp",
                     "closeTask", "closeEntity"},
               task : Tasks, trigger : Triggers, todo : SUBSET Triggers]
DrainLocals == [pc : {"idle", "sweep", "lock", "pop", "task", "trigger",
                      "fire", "mark", "revert", "skip"},
                ent : Entities, firing : Nat, run : Nat,
                reason : {"none", "task_closed", "claim_changed",
                          "trigger_disabled", "breaker_tripped"},
                todo : SUBSET Entities]
UserLocals == [pc : {"idle", "cancel", "delegate"}, task : Tasks, next : {"idle", "delegate"}]

AutoIdle == [pc |-> "ready", task |-> SomeTask, trigger |-> SomeTrigger, todo |-> {}]
DrainIdle == [pc |-> "idle", ent |-> EntityOf[SomeTask], firing |-> 0, run |-> 0,
              reason |-> "none", todo |-> {}]
UserIdle == [pc |-> "idle", task |-> SomeTask, next |-> "idle"]

Init ==
  /\ entity = [e \in Entities |-> "active"]
  /\ task = [t \in Tasks |-> [status |-> "absent", claim |-> "none"]]
  /\ enabled = Triggers
  /\ firings = <<>>
  /\ runs = <<>>
  /\ lock = [e \in Entities |-> Nobody]
  /\ wakeups = [e \in Entities |-> 0]
  /\ auto = [th \in RouterThreads |-> AutoIdle]
  /\ drain = [d \in DrainThreads |-> DrainIdle]
  /\ user = [u \in Users |-> UserIdle]
  /\ budget = Budget

-----------------------------------------------------------------------------
(***************************************************************************)
(* Spawner.Delegate and Spawner.Cancel as their callers see them.          *)
(***************************************************************************)

\* Delegate inserts the runs row, registers the cancel handle and starts the
\* goroutine.  The id it returns is the position of the new row.
Delegated(t, g, origin, src) ==
  Append(runs, [task |-> t, trigger |-> g, origin |-> origin, status |-> "active",
                live |-> TRUE, signal |-> FALSE, mirror |-> FALSE,
                src |-> src, lost |-> FALSE])

\* Cancel only signals a registered goroutine; a parked row it marks
\* cancelled itself.
CancelledRow(r) ==
  IF ~Active(r) THEN runs[r]
  ELSE IF runs[r].live THEN [runs[r] EXCEPT !.signal = TRUE]
  ELSE [runs[r] EXCEPT !.status = "ended"]

\* Cancel of every run in R.  Ending a parked event run starts a drain.
CancelAll(R) ==
  /\ runs' = [r \in DOMAIN runs |-> IF r \in R THEN CancelledRow(r) ELSE runs[r]]
  /\ wakeups' = [e \in Entities |->
       wakeups[e] + Cardinality({r \in R \cap ActiveAutoRuns(e) : ~runs[r].live})]

RunsOfTasks(S) == {r \in DOMAIN runs : runs[r].task \in S}

\* A task row after a claim helper: snoozed wakes, the claim is set.
Claimed(t, c) ==
  [status |-> IF task[t].status = "snoozed" THEN "open" ELSE task[t].status, claim |-> c]

-----------------------------------------------------------------------------
(***************************************************************************)
(* HandleEvent, the one event-bus goroutine of the router.                 *)
(***************************************************************************)
AutoReady(th) == auto[th].pc = "ready" /\ auto[th].todo = {}
AutoGoto(th, pc) == auto' = [auto EXCEPT ![th].pc = pc]
\* The loop over the triggers that are left to try.
TryAll(t, todo) ==
  IF todo = {} THEN AutoIdle ELSE [AutoIdle EXCEPT !.task = t, !.todo = todo]
AutoNext(th) == auto' = [auto EXCEPT ![th] = TryAll(@.task, @.todo)]

\* The immediate triggers of an event, in which M are those whose predicate
\* matched and whose team has auto-delegation and the bot switched on.
Immediate(M) == (M \cap enabled) \ Deferred

\* A matching event on an active entity creates its task or bumps the active
\* one (which wakes a snoozed task), and leaves its triggers to be tried one
\* by one.
HandleEvent(t, M) ==
  /\ AutoReady(Handler)
  /\ entity[EntityOf[t]] = "active"
  /\ task[t].status # "closed"
  /\ SpendSome("event", 1 + Cardinality(M))
  /\ task' = [task EXCEPT ![t].status = "open"]
  /\ auto' = [auto EXCEPT ![Handler] = TryAll(t, Immediate(M))]
  /\ UNCHANGED <<entity, enabled, firings, runs, lock, wakeups, drain, user>>

\* An inline close check, or an entity-terminating event: first the runs of
\* the tasks that are about to close are cancelled ...
CloseTask(t) ==
  /\ AutoReady(Handler)
  /\ entity[EntityOf[t]] = "active"
  /\ task[t].status \in {"open", "snoozed"}
  /\ Spend("event")
  /\ CancelAll(RunsOfTasks({t}))
  /\ auto' = [auto EXCEPT ![Handler] = [AutoIdle EXCEPT !.pc = "closeTask", !.task = t]]
  /\ UNCHANGED <<entity, task, enabled, firings, lock, drain, user>>

ActiveTasks(e) ==
  {t \in Tasks : EntityOf[t] = e /\ task[t].status \in {"open", "snoozed"}}

CloseEntity(t) ==
  /\ AutoReady(Handler)
  /\ Spend("event")
  /\ CancelAll(RunsOfTasks(ActiveTasks(EntityOf[t])))
  /\ auto' = [auto EXCEPT ![Handler] = [AutoIdle EXCEPT !.pc = "closeEntity", !.task = t]]
  /\ UNCHANGED <<entity, task, enabled, firings, lock, drain, user>>

\* ... then the rows are closed, in a later statement.
ClosedRow(t) ==
  IF task[t].status \in {"open", "snoozed"} THEN [task[t] EXCEPT !.status = "closed"]
  ELSE task[t]

FinishClose ==
  LET t == auto[Handler].task
      e == EntityOf[t]
  IN  /\ \/ /\ auto[Handler].pc = "closeTask"
            /\ task' = [task EXCEPT ![t] = ClosedRow(t)]
            /\ UNCHANGED entity
         \/ /\ auto[Handler].pc = "closeEntity"
            /\ entity' = [entity EXCEPT ![e] = "closed"]
            /\ task' = [s \in Tasks |-> IF EntityOf[s] = e THEN ClosedRow(s) ELSE task[s]]
      /\ auto' = [auto EXCEPT ![Handler] = AutoIdle]
      /\ UNCHANGED <<enabled, firings, runs, lock, wakeups, drain, user, budget>>

-----------------------------------------------------------------------------
(***************************************************************************)
(* reDeriveTask: after scoring, the deferred triggers of a task that is    *)
(* queued and unclaimed when it is read.                                   *)
(***************************************************************************)
ReDerive(th, t, M) ==
  /\ AutoReady(th)
  /\ Spend("score")
  /\ task[t] = [status |-> "open", claim |-> "none"]
  /\ auto' = [auto EXCEPT ![th] = TryAll(t, M \cap enabled \cap Deferred)]
  /\ UNCHANGED <<entity, task, enabled, firings, runs, lock, wakeups, drain, user>>

-----------------------------------------------------------------------------
(***************************************************************************)
(* tryAutoDelegate: breaker, entity gate in two reads, then either the     *)
(* queue or the spawner, and the claim stamp last.                         *)
(***************************************************************************)
AutoEntity(th) == EntityOf[auto[th].task]

\* Breaker and the runs half of the gate.
CheckActive(th, g) ==
  /\ auto[th].pc = "ready"
  /\ g \in auto[th].todo
  /\ auto' = [auto EXCEPT ![th] =
       LET rest == auto[th].todo \ {g}
       IN  IF Tripped(AutoEntity(th), g) THEN TryAll(auto[th].task, rest)
           ELSE [pc |-> IF ActiveAutoRuns(AutoEntity(th)) # {} THEN "enqueue" ELSE "queue",
                 task |-> auto[th].task, trigger |-> g, todo |-> rest]]
  /\ UNCHANGED <<entity, task, enabled, firings, runs, lock, wakeups, drain, user, budget>>

\* The queue half of the gate.
CheckQueue(th) ==
  /\ auto[th].pc = "queue"
  /\ AutoGoto(th, IF PendingOf(AutoEntity(th)) # {} THEN "enqueue" ELSE "fire")
  /\ UNCHANGED <<entity, task, enabled, firings, runs, lock, wakeups, drain, user, budget>>

\* Mutant: no unique index on the pending rows.
DuplicateUnindexed(t, g) == FALSE

\* INSERT ... ON CONFLICT (task_id, trigger_id) WHERE pending DO NOTHING.
Duplicate(t, g) ==
  \E f \in DOMAIN firings : Pending(f) /\ firings[f].task = t /\ firings[f].trigger = g

Enqueue(th) ==
  LET t == auto[th].task
      g == auto[th].trigger
  IN  /\ auto[th].pc = "enqueue"
      /\ IF Duplicate(t, g)
         THEN AutoNext(th) /\ UNCHANGED firings
         ELSE /\ AutoGoto(th, "stamp")
              /\ firings' = Append(firings, [task |-> t, trigger |-> g, status |-> "pending",
                                             reason |-> "none", run |-> 0])
      /\ UNCHANGED <<entity, task, enabled, runs, lock, wakeups, drain, user, budget>>

\* fireDelegate on the direct path.
FireDirect(th) ==
  /\ auto[th].pc = "fire"
  /\ runs' = Delegated(auto[th].task, auto[th].trigger, "event", 0)
  /\ AutoGoto(th, "stamp")
  /\ UNCHANGED <<entity, task, enabled, firings, lock, wakeups, drain, user, budget>>

\* Mutant: the stamp trusts the row that was read before the firing.
StampAnyway(th) ==
  /\ auto[th].pc = "stamp"
  /\ task' = [task EXCEPT ![auto[th].task] = Claimed(auto[th].task, "agent")]
  /\ AutoNext(th)
  /\ UNCHANGED <<entity, enabled, firings, runs, lock, wakeups, drain, user, budget>>

\* StampAgentClaimIfUnclaimed: a user's claim and a closed task win.
StampAgentClaim(th) ==
  LET t == auto[th].task
  IN  /\ auto[th].pc = "stamp"
      /\ IF task[t].claim = "none" /\ task[t].status # "closed"
         THEN task' = [task EXCEPT ![t] = Claimed(t, "agent")]
         ELSE UNCHANGED task
      /\ AutoNext(th)
      /\ UNCHANGED <<entity, enabled, firings, runs, lock, wakeups, drain, user, budget>>

\* Any database or Delegate error in tryAutoDelegate: logged, trigger dropped.
AutoError(th) ==
  /\ auto[th].pc \in {"queue", "enqueue", "fire", "stamp"}
  /\ Spend("fault")
  /\ AutoNext(th)
  /\ UNCHANGED <<entity, task, enabled, firings, runs, lock, wakeups, drain, user>>

-----------------------------------------------------------------------------
(***************************************************************************)
(* DrainEntity: under the entity's mutex, settle pending firings oldest    *)
(* first until one becomes a run.                                          *)
(***************************************************************************)
DrainGoto(d, pc) == drain' = [drain EXCEPT ![d].pc = pc]

\* `go drainer.DrainEntity(...)` gets scheduled.
DrainStart(d, e) ==
  /\ d \in Drainers
  /\ drain[d].pc = "idle"
  /\ wakeups[e] > 0
  /\ wakeups' = [wakeups EXCEPT ![e] = @ - 1]
  /\ drain' = [drain EXCEPT ![d] = [DrainIdle EXCEPT !.pc = "lock", !.ent = e]]
  /\ UNCHANGED <<entity, task, enabled, firings, runs, lock, auto, user, budget>>

\* Mutant: DrainEntity without entityDrainLock.
MutexFreeUnlocked(e) == lock[e] \in DrainThreads \cup {Nobody}

MutexFree(e) == lock[e] = Nobody

DrainLock(d) ==
  /\ drain[d].pc = "lock"
  /\ MutexFree(drain[d].ent)
  /\ lock' = [lock EXCEPT ![drain[d].ent] = d]
  /\ DrainGoto(d, "pop")
  /\ UNCHANGED <<entity, task, enabled, firings, runs, wakeups, auto, user, budget>>

\* mu.Unlock and return: the sweeper goes on with its list.
DrainReturn(d) ==
  /\ lock' = [lock EXCEPT ![drain[d].ent] = Nobody]
  /\ drain' = [drain EXCEPT ![d] =
       [DrainIdle EXCEPT !.pc = IF drain[d].todo = {} THEN "idle" ELSE "sweep",
                         !.todo = drain[d].todo]]

\* PopForEntity reads the oldest pending row and changes nothing.
Oldest(e, f) == f \in PendingOf(e) /\ \A g \in PendingOf(e) : f <= g

DrainPop(d) ==
  /\ drain[d].pc = "pop"
  /\ IF PendingOf(drain[d].ent) = {}
     THEN DrainReturn(d)
     ELSE /\ \E f \in DOMAIN firings :
               /\ Oldest(drain[d].ent, f)
               /\ drain' = [drain EXCEPT ![d].pc = "task", ![d].firing = f]
          /\ UNCHANGED lock
  /\ UNCHANGED <<entity, task, enabled, firings, runs, wakeups, auto, user, budget>>

\* attemptDrainOne: the task and its claim are read first ...
SkipWith(d, why) == drain' = [drain EXCEPT ![d].pc = "skip", ![d].reason = why]

DrainCheckTask(d) ==
  LET row == task[firings[drain[d].firing].task]
  IN  /\ drain[d].pc = "task"
      /\ IF row.status # "open" THEN SkipWith(d, "task_closed")
         ELSE IF row.claim # "agent" THEN SkipWith(d, "claim_changed")
         ELSE DrainGoto(d, "trigger")
      /\ UNCHANGED <<entity, task, enabled, firings, runs, lock, wakeups, auto, user, budget>>

\* ... then the trigger row and its breaker ...
DrainCheckTrigger(d) ==
  LET g == firings[drain[d].firing].trigger
  IN  /\ drain[d].pc = "trigger"
      /\ IF g \notin enabled THEN SkipWith(d, "trigger_disabled")
         ELSE IF Tripped(drain[d].ent, g) THEN SkipWith(d, "breaker_tripped")
         ELSE DrainGoto(d, "fire")
      /\ UNCHANGED <<entity, task, enabled, firings, runs, lock, wakeups, auto, user, budget>>

\* ... and the run is delegated, whatever has changed since the reads.
DrainFire(d) ==
  LET f == drain[d].firing
  IN  /\ drain[d].pc = "fire"
      /\ runs' = Delegated(firings[f].task, firings[f].trigger, "event", f)
      /\ drain' = [drain EXCEPT ![d].pc = "mark", ![d].run = Len(runs) + 1]
      /\ UNCHANGED <<entity, task, enabled, firings, lock, wakeups, auto, user, budget>>

\* MarkFired and MarkSkipped only touch a pending row.
Settle(f, status, why, r) ==
  firings' = [firings EXCEPT ![f] =
    IF @.status = "pending" THEN [@ EXCEPT !.status = status, !.reason = why, !.run = r] ELSE @]

\* One fire per drain.
DrainMarkFired(d) ==
  /\ drain[d].pc = "mark"
  /\ Settle(drain[d].firing, "fired", "none", drain[d].run)
  /\ DrainReturn(d)
  /\ UNCHANGED <<entity, task, enabled, runs, wakeups, auto, user, budget>>

LosingRun(r) == [runs EXCEPT ![r].lost = TRUE]

\* MarkFired fails: cancel the run that was just started; a Cancel that fails,
\* as it does for a chain, whose id is no run's, is logged and ignored ...
DrainRollback(d) ==
  /\ drain[d].pc = "mark"
  /\ Spend("fault")
  /\ \/ CancelAll({drain[d].run})
     \/ runs' = LosingRun(drain[d].run) /\ UNCHANGED wakeups
  /\ DrainGoto(d, "revert")
  /\ UNCHANGED <<entity, task, enabled, firings, lock, auto, user>>

\* ... and set the task back to queued, whatever it has become, unless that
\* write fails too; the firing stays pending.
DrainRevert(d) ==
  LET t == firings[drain[d].firing].task
  IN  /\ drain[d].pc = "revert"
      /\ \/ task' = [task EXCEPT ![t].status = "open"] /\ UNCHANGED budget
         \/ Spend("fault") /\ UNCHANGED task
      /\ DrainReturn(d)
      /\ UNCHANGED <<entity, enabled, firings, runs, wakeups, auto, user>>

DrainMarkSkipped(d) ==
  /\ drain[d].pc = "skip"
  /\ Settle(drain[d].firing, "skipped", drain[d].reason, 0)
  /\ drain' = [drain EXCEPT ![d] = [DrainIdle EXCEPT !.pc = "pop", !.ent = drain[d].ent,
                                                     !.todo = drain[d].todo]]
  /\ UNCHANGED <<entity, task, enabled, runs, lock, wakeups, auto, user, budget>>

\* A transient error (a read, Delegate, MarkSkipped) bails out of the drain
\* and leaves the firing pending.
DrainError(d) ==
  /\ drain[d].pc \in {"pop", "task", "trigger", "fire", "skip"}
  /\ Spend("fault")
  /\ DrainReturn(d)
  /\ UNCHANGED <<entity, task, enabled, firings, runs, wakeups, auto, user>>

-----------------------------------------------------------------------------
(***************************************************************************)
(* RunDrainSweeper: on a tick, every entity that has pending firings and   *)
(* no active auto run is drained.                                          *)
(***************************************************************************)
SweepList ==
  /\ drain[Sweeper].pc = "idle"
  /\ \E e \in Entities : PendingOf(e) # {}
  /\ drain' = [drain EXCEPT ![Sweeper] =
       [DrainIdle EXCEPT !.pc = "sweep", !.todo = {e \in Entities : PendingOf(e) # {}}]]
  /\ UNCHANGED <<entity, task, enabled, firings, runs, lock, wakeups, auto, user, budget>>

\* Mutant: the sweeper asks the whole gate, queue half included.
SweepBusyGate(e) == ActiveAutoRuns(e) # {} \/ PendingOf(e) # {}

SweepBusy(e) == ActiveAutoRuns(e) # {}

SweepNext(e) ==
  LET rest == drain[Sweeper].todo \ {e}
      skipped == IF rest = {} THEN "idle" ELSE "sweep"
  IN  /\ drain[Sweeper].pc = "sweep"
      /\ e \in drain[Sweeper].todo
      /\ drain' = [drain EXCEPT ![Sweeper] =
           [DrainIdle EXCEPT !.pc = IF SweepBusy(e) THEN skipped ELSE "lock",
                             !.ent = IF SweepBusy(e) THEN @ ELSE e,
                             !.todo = rest]]
      /\ UNCHANGED <<entity, task, enabled, firings, runs, lock, wakeups, auto, user, budget>>

-----------------------------------------------------------------------------
(***************************************************************************)
(* The run goroutine, reduced to what the queue sees of it: the statuses   *)
(* it writes, the task it closes and the drain it starts when it exits.    *)
(***************************************************************************)

\* The agent process returns: a result, an error, a cancellation, or a yield
\* that parks the run in awaiting_input.
RunReturns(r, status) ==
  /\ runs[r].live
  /\ runs[r].status = "active"
  /\ ~runs[r].mirror
  /\ IF status = "completed" \/ (status = "ended" /\ runs[r].signal)
     THEN UNCHANGED budget
     ELSE Spend("outcome")
  /\ runs' = [runs EXCEPT ![r].status = status]
  /\ UNCHANGED <<entity, task, enabled, firings, lock, wakeups, auto, drain, user>>

\* advanceTaskFromRunStatus, after a stage of the run or its last status: the
\* goroutine reads that its task is the bot's, is not closed and has no other
\* active run ...
MirrorReads(r) ==
  LET t == runs[r].task
  IN  /\ runs[r].live
      /\ ~runs[r].mirror
      /\ runs[r].status \in {"active", "review"}
      /\ task[t].claim = "agent"
      /\ task[t].status # "closed"
      /\ ~\E s \in RunsOfTasks({t}) \ {r} : Active(s)
      /\ Spend("mirror")
      /\ runs' = [runs EXCEPT ![r].mirror = TRUE]
      /\ UNCHANGED <<entity, task, enabled, firings, lock, wakeups, auto, drain, user>>

\* ... and sets it to in_progress or in_review, whatever it is by then.
MirrorWrites(r) ==
  /\ runs[r].mirror
  /\ runs' = [runs EXCEPT ![r].mirror = FALSE]
  /\ task' = [task EXCEPT ![runs[r].task].status = "open"]
  /\ UNCHANGED <<entity, enabled, firings, lock, wakeups, auto, drain, user, budget>>

\* notifyDrainer is silent for manual runs.
Woken(r) ==
  IF runs[r].origin = "event" THEN [wakeups EXCEPT ![RunEntity(r)] = @ + 1] ELSE wakeups

\* A completed run closes its task unless another run of the task is active;
\* then the goroutine exits through the defer that starts a drain.
RunExits(r) ==
  LET t == runs[r].task
  IN  /\ runs[r].live
      /\ runs[r].status # "active"
      /\ ~runs[r].mirror
      /\ runs' = [runs EXCEPT ![r].live = FALSE]
      /\ IF runs[r].status = "completed" /\ ~\E s \in RunsOfTasks({t}) \ {r} : Active(s)
         THEN task' = [task EXCEPT ![t] = ClosedRow(t)]
         ELSE UNCHANGED task
      /\ wakeups' = Woken(r)
      /\ UNCHANGED <<entity, enabled, firings, lock, auto, drain, user, budget>>

\* ResumeAfterYield: the user answers a parked run.
Resume(r) ==
  /\ runs[r].status = "awaiting"
  /\ ~runs[r].live
  /\ runs' = [runs EXCEPT ![r].status = "active", ![r].live = TRUE]
  /\ UNCHANGED <<entity, task, enabled, firings, lock, wakeups, auto, drain, user, budget>>

-----------------------------------------------------------------------------
(***************************************************************************)
(* Request handlers of server/tasks.go, for one user.                      *)
(***************************************************************************)
UserStarts(u, t) ==
  /\ user[u].pc = "idle"
  /\ task[t].status # "absent"
  /\ Spend("user")

UserThen(u, t, next) == user' = [user EXCEPT ![u] = [pc |-> "cancel", task |-> t, next |-> next]]

\* Swipe "claim": from the bot, of an unclaimed task, or of one's own.
UserClaims(u, t) ==
  /\ UserStarts(u, t)
  /\ task[t].status \in {"open", "snoozed"}
  /\ task' = [task EXCEPT ![t] = Claimed(t, "user")]
  /\ UserThen(u, t, "idle")
  /\ UNCHANGED <<entity, enabled, firings, runs, lock, wakeups, auto, drain>>

\* Swipe "delegate": HandoffAgentClaim, then cancel, then a manual run.
UserDelegates(u, t) ==
  /\ UserStarts(u, t)
  /\ task[t].status \in {"open", "snoozed"}
  /\ task' = [task EXCEPT ![t] = Claimed(t, "agent")]
  /\ UserThen(u, t, "delegate")
  /\ UNCHANGED <<entity, enabled, firings, runs, lock, wakeups, auto, drain>>

\* Swipe "dismiss" or "complete": RecordSwipe has no guard.
UserCloses(u, t) ==
  /\ UserStarts(u, t)
  /\ task' = [task EXCEPT ![t].status = "closed"]
  /\ UserThen(u, t, "idle")
  /\ UNCHANGED <<entity, enabled, firings, runs, lock, wakeups, auto, drain>>

\* SnoozeTask is guarded by the claim alone, swipe "snooze" by nothing.
UserSnoozes(u, t) ==
  /\ UserStarts(u, t)
  /\ task' = [task EXCEPT ![t].status = "snoozed"]
  /\ UNCHANGED user
  /\ UNCHANGED <<entity, enabled, firings, runs, lock, wakeups, auto, drain>>

\* RequeueTask and UndoLastSwipe: back to the queue, unclaimed, runs go on.
UserRequeues(u, t) ==
  /\ UserStarts(u, t)
  /\ task' = [task EXCEPT ![t] = [status |-> "open", claim |-> "none"]]
  /\ UNCHANGED user
  /\ UNCHANGED <<entity, enabled, firings, runs, lock, wakeups, auto, drain>>

\* The rest of a swipe: cancel the active runs of the task ...
UserCancels(u) ==
  /\ user[u].pc = "cancel"
  /\ CancelAll(RunsOfTasks({user[u].task}))
  /\ user' = [user EXCEPT ![u] = IF @.next = "idle" THEN UserIdle ELSE [@ EXCEPT !.pc = user[u].next]]
  /\ UNCHANGED <<entity, task, enabled, firings, lock, auto, drain, budget>>

\* ... and delegate, outside the entity gate.
UserDelegateRuns(u, g) ==
  /\ user[u].pc = "delegate"
  /\ runs' = Delegated(user[u].task, g, "manual", 0)
  /\ user' = [user EXCEPT ![u] = UserIdle]
  /\ UNCHANGED <<entity, task, enabled, firings, lock, wakeups, auto, drain, budget>>

\* A trigger is switched on or off in the settings.
ToggleTrigger(g) ==
  /\ Spend("admin")
  /\ enabled' = IF g \in enabled THEN enabled \ {g} ELSE enabled \cup {g}
  /\ UNCHANGED <<entity, task, firings, runs, lock, wakeups, auto, drain, user>>

\* The process dies and starts again: goroutines, handles and mutexes are
\* gone, and nothing at startup touches the rows of runs or pending_firings.
Crash ==
  /\ Spend("crash")
  /\ runs' = [r \in DOMAIN runs |-> [runs[r] EXCEPT !.live = FALSE, !.mirror = FALSE]]
  /\ lock' = [e \in Entities |-> Nobody]
  /\ wakeups' = [e \in Entities |-> 0]
  /\ auto' = [th \in RouterThreads |-> AutoIdle]
  /\ drain' = [d \in DrainThreads |-> DrainIdle]
  /\ user' = [u \in Users |-> UserIdle]
  /\ UNCHANGED <<entity, task, enabled, firings>>
-----------------------------------------------------------------------------
RouterStep(th) ==
  \/ \E g \in Triggers : CheckActive(th, g)
  \/ CheckQueue(th)
  \/ Enqueue(th)
  \/ FireDirect(th)
  \/ StampAgentClaim(th)
  \/ AutoError(th)

DrainStep(d) ==
  \/ DrainLock(d)
  \/ DrainPop(d)
  \/ DrainCheckTask(d)
  \/ DrainCheckTrigger(d)
  \/ DrainFire(d)
  \/ DrainMarkFired(d)
  \/ DrainRollback(d)
  \/ DrainRevert(d)
  \/ DrainMarkSkipped(d)
  \/ DrainError(d)

SweepStep == SweepList \/ \E e \in Entities : SweepNext(e)

RunStatuses == {"awaiting", "review", "completed", "failed", "ended"}

RunStep(r) ==
  /\ r \in DOMAIN runs
  /\ \/ \E status \in RunStatuses : RunReturns(r, status)
     \/ MirrorReads(r)
     \/ MirrorWrites(r)
     \/ RunExits(r)

UserStep(u) == UserCancels(u) \/ \E g \in Triggers : UserDelegateRuns(u, g)

UserRequest(u, t) ==
  \/ UserClaims(u, t)
  \/ UserDelegates(u, t)
  \/ UserCloses(u, t)
  \/ UserSnoozes(u, t)
  \/ UserRequeues(u, t)

Input ==
  \/ \E t \in Tasks, M \in SUBSET Triggers :
       \/ HandleEvent(t, M)
       \/ \E th \in Derivers : ReDerive(th, t, M)
  \/ \E t \in Tasks :
       \/ CloseTask(t)
       \/ CloseEntity(t)
       \/ \E u \in Users : UserRequest(u, t)
  \/ \E r \in DOMAIN runs : Resume(r)
  \/ \E g \in Triggers : ToggleTrigger(g)
  \/ Crash

Next ==
  \/ Input
  \/ FinishClose
  \/ \E th \in RouterThreads : RouterStep(th)
  \/ \E d \in DrainThreads : DrainStep(d)
  \/ \E d \in Drainers, e \in Entities : DrainStart(d, e)
  \/ SweepStep
  \/ \E r \in DOMAIN runs : RunStep(r)
  \/ \E u \in Users : UserStep(u)

Spec == Init /\ [][Next]_vars

\* Goroutines are scheduled, agent processes return, the sweeper's ticker
\* ticks.  Inputs (events, users, errors, crashes) are never forced.
Fairness ==
  /\ WF_vars(FinishClose)
  /\ \A th \in RouterThreads : WF_vars(RouterStep(th))
  /\ \A d \in DrainThreads : WF_vars(DrainStep(d))
  /\ \A d \in Drainers, e \in Entities : WF_vars(DrainStart(d, e))
  /\ WF_vars(SweepStep)
  /\ \A r \in 1..MaxRuns : WF_vars(RunStep(r))
  /\ \A u \in Users : WF_vars(UserStep(u))

FairSpec == Spec /\ Fairness

-----------------------------------------------------------------------------
(***************************************************************************)
(* Properties.                                                             *)
(***************************************************************************)
TypeOK ==
  /\ entity \in [Entities -> {"active", "closed"}]
  /\ task \in [Tasks -> TaskRow]
  /\ enabled \subseteq Triggers
  /\ firings \in Seq(Firing)
  /\ runs \in Seq(Run)
  /\ lock \in [Entities -> DrainThreads \cup {Nobody}]
  /\ wakeups \in [Entities -> Nat]
  /\ auto \in [RouterThreads -> AutoLocals]
  /\ drain \in [DrainThreads -> DrainLocals]
  /\ user \in [Users -> UserLocals]
  /\ budget \in [Inputs -> Nat]

\* The drain loop holds a firing between its pop and the statement that
\* settles it (router.go DrainEntity).
Holding(d) == drain[d].pc \in {"task", "trigger", "fire", "mark", "revert", "skip"}

\* A firing that a drain has popped is still the entity's oldest pending one
\* whatever events, users and other drains did meanwhile, so the row the
\* drain settles is the row it validated.
HeldIsOldest ==
  \A d \in DrainThreads : Holding(d) => Oldest(drain[d].ent, drain[d].firing)

\* Firings of an entity leave the queue in the order they entered it, across
\* skips, transient errors and rollbacks: no settled firing is younger than
\* a pending one.
FifoPerEntity ==
  \A f, g \in DOMAIN firings :
    f < g /\ FiringEntity(f) = FiringEntity(g) /\ Pending(f) => Pending(g)

\* The table pending_firings as the abstract log: what Enqueue, MarkFired and
\* MarkSkipped, called by unsynchronised goroutines, promise together.
LogOf(fs) ==
  [f \in DOMAIN fs |-> [key |-> [task |-> fs[f].task, trigger |-> fs[f].trigger],
                        status |-> fs[f].status]]

Log == INSTANCE FiringLog WITH
         Keys <- [task : Tasks, trigger : Triggers],
         LaneOf <- [k \in [task : Tasks, trigger : Triggers] |-> EntityOf[k.task]],
         log <- LogOf(firings)

\* Every step of the queue is a step of the log or leaves it alone: no
\* duplicate waits, firings of an entity are settled oldest first, and a
\* settled one is never touched again (router.go DrainEntity).
ImplementsFiringLog == Log!Spec

\* A run that a drain started and nobody asked to cancel belongs to a firing
\* that says so, or to the drain that is about to record it: a queued firing
\* never has two live runs, and a skipped one has none. The exception is a run
\* whose cancellation failed in a rollback (router.go DrainEntity logs that and
\* goes on), which its firing, fired again, forgets.
FiringOwnsItsRun ==
  \A r \in DOMAIN runs :
    runs[r].src # 0 /\ Active(r) /\ ~runs[r].signal /\ ~runs[r].lost =>
      \/ firings[runs[r].src].status = "fired" /\ firings[runs[r].src].run = r
      \/ \E d \in DrainThreads : /\ drain[d].pc = "mark"
                                 /\ drain[d].run = r
                                 /\ drain[d].firing = runs[r].src

\* Every pending firing is settled, or its entity has an auto run that waits
\* for a user's answer (router.go RunDrainSweeper: the safety net for stuck
\* queues).
Blocked(e) == \E r \in ActiveAutoRuns(e) : runs[r].status = "awaiting"

PendingIsSettled ==
  \A e \in Entities : (PendingOf(e) # {}) ~> (PendingOf(e) = {} \/ Blocked(e))

\* However old the row is that a handler fires on: a user who claims the task
\* before its stamp keeps the claim, and one closed by then stays closed
\* (router.go stampAgentClaim, "the user-claim wins"). Only a user's request
\* takes either back, and two writes that do not look at what the task has
\* become: a drain that rolls back opens the task of its firing again, and a
\* run's goroutine that read the task before it was closed sets its stage.
Respected(t) ==
  /\ task[t].claim = "user" /\ task'[t].claim # "user" => \E u \in Users : UserRequest(u, t)
  /\ task[t].status = "closed" /\ task'[t] # task[t] =>
       \/ \E u \in Users : UserRequest(u, t)
       \/ \E d \in DrainThreads : DrainRevert(d) /\ firings[drain[d].firing].task = t
       \/ \E r \in DOMAIN runs : MirrorWrites(r) /\ runs[r].task = t

UserWins == [][\A t \in Tasks : Respected(t)]_vars

\* router.go tryAutoDelegate: at most one auto run in flight per entity,
\* regardless of which task or trigger it came from.
OneAutoRunPerEntity ==
  \A e \in Entities : Cardinality(ActiveAutoRuns(e)) <= 1

\* router.go attemptDrainOne and stampAgentClaim: no bot run starts on a task
\* that a user has claimed.
NoBotRunOnUserTask ==
  [][\A r \in DOMAIN runs' \ DOMAIN runs :
       runs'[r].origin = "event" => task[runs'[r].task].claim # "user"]_vars

=============================================================================
