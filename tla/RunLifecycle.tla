---------------------------- MODULE RunLifecycle ----------------------------
(***************************************************************************)
(* The delegated runs of one GitHub task: the goroutine that executes a    *)
(* run (internal/delegate/delegate.go, run.go), the goroutine that resumes *)
(* it after a yield (resume.go), and the requests that meet them: cancel   *)
(* (cancel.go), takeover and release (takeover.go), and the swipes of the  *)
(* task's card (internal/server/tasks.go).  They share the rows of runs    *)
(* and tasks, the spawner's maps of cancel functions and takenOver flags,  *)
(* the run's worktree and its session transcript.                          *)
(*                                                                         *)
(* A step ends where the code starts another statement of the database,    *)
(* takes the spawner's mutex, or touches the file system.                  *)
(***************************************************************************)
EXTENDS Naturals, FiniteSets

CONSTANTS Runs,    \* run ids
          Nobody,  \* no goroutine
          Budget   \* how many inputs of each kind a behaviour has

Kinds == {"run", "resume"}
Inputs == {"swipe", "cancel", "respond", "takeover", "fault"}

ASSUME RunsAssumption == Nobody \notin Kinds
ASSUME BudgetAssumption == Budget \in [Inputs -> Nat]

VARIABLES
  row,       \* runs.status of each run
  session,   \* runs whose session_id is set
  path,      \* runs whose worktree_path is set
  status,    \* tasks.status
  claim,     \* tasks.claimed_by_agent_id or claimed_by_user_id
  handle,    \* Spawner.cancels: the goroutine a run's cancel function stops
  taken,     \* Spawner.takenOver
  signal,    \* contexts that were cancelled, by goroutine
  wt,        \* where the run's worktree is
  jsonl,     \* where the session transcript is
  pc,        \* where a goroutine is, by run and kind
  result,    \* the terminal status it has in hand
  cancel,    \* the Cancel call in progress for a run
  takeover,  \* the Takeover or Release call in progress for a run
  swipe,     \* the swipe in progress
  budget

task == <<status, claim>>
rows == <<row, session, path, status, claim>>
maps == <<handle, taken, signal>>
files == <<wt, jsonl>>
go == <<pc, result>>
vars == <<row, session, path, status, claim, handle, taken, signal, wt, jsonl,
          pc, result, cancel, takeover, swipe, budget>>

\* "running" stands for fetching, cloning, worktree_created, agent_starting
\* and running, "failed" for task_unsolvable too.
Active == {"initializing", "running", "awaiting_input"}
Ended == {"completed", "failed", "cancelled", "pending_approval", "taken_over"}
Goroutines == Runs \X Kinds
Results == {"none", "completed", "failed", "pending_approval"}
PCs == {"none", "register", "setup", "start", "agent", "yield", "record", "park",
        "check", "close", "advance", "cancelled", "failed", "clean", "session",
        "worktree", "exit", "done", "flip", "resume", "mark"}

Init ==
  /\ row = [r \in Runs |-> "absent"]
  /\ session = {}
  /\ path = {}
  /\ status = "queued"
  /\ claim = "none"
  /\ handle = [r \in Runs |-> Nobody]
  /\ taken = {}
  /\ signal = {}
  /\ wt = [r \in Runs |-> "none"]
  /\ jsonl = [r \in Runs |-> "none"]
  /\ pc = [r \in Runs |-> [k \in Kinds |-> "none"]]
  /\ result = [r \in Runs |-> [k \in Kinds |-> "none"]]
  /\ cancel = [r \in Runs |-> "idle"]
  /\ takeover = [r \in Runs |-> "idle"]
  /\ swipe = "idle"
  /\ budget = Budget

Spend(input) == budget[input] > 0 /\ budget' = [budget EXCEPT ![input] = @ - 1]
At(r, k, here) == pc[r][k] = here
Jump(r, k, next) == pc' = [pc EXCEPT ![r][k] = next]
Goto(r, k, next) == Jump(r, k, next) /\ UNCHANGED result
Hold(r, k, outcome) == result' = [result EXCEPT ![r][k] = outcome]
SetRow(r, next) == row' = [row EXCEPT ![r] = next]

\* UPDATE runs ... WHERE status NOT IN (terminal statuses).
SetRowIfActive(r, next) == SetRow(r, IF row[r] \in Active THEN next ELSE row[r])

\* The deferred cleanups are runAgent's; a resume goroutine only unregisters.
End(k) == IF k = "run" THEN "clean" ELSE "exit"

\* handleCancelled and failRun read wasTakenOver before their write.
Gated(r, k, next) == IF r \in taken THEN End(k) ELSE next

OtherActive(r) == \E q \in Runs \ {r} : row[q] \in Active

\* advanceTaskFromRunStatus.
Mirror(r, target) ==
  /\ status' = IF claim = "agent" /\ status # "done" /\ ~OtherActive(r)
               THEN target ELSE status
  /\ UNCHANGED claim

\* os.RemoveAll of the run's worktree; nothing happens after a takeover moved it.
RemoveWorktree(r) == wt' = [wt EXCEPT ![r] = IF @ = "run" THEN "gone" ELSE @]

\* RemoveClaudeProjectDir resolves the worktree's path first and gives up when
\* the directory is gone.
RemoveSession(r) ==
  jsonl' = [jsonl EXCEPT ![r] = IF @ = "run" /\ wt[r] = "run" THEN "gone" ELSE @]

-----------------------------------------------------------------------------
(***************************************************************************)
(* The goroutine of a delegated run.                                       *)
(***************************************************************************)
\* Delegate: the row is inserted before the cancel function is registered.
Register(r) ==
  /\ At(r, "run", "register")
  /\ handle' = [handle EXCEPT ![r] = "run"]
  /\ Goto(r, "run", "setup")
  /\ UNCHANGED <<rows, taken, signal, files, cancel, takeover, swipe, budget>>

\* setupGitHub: unguarded status writes, the worktree and its path.
SetupWorks(r) ==
  /\ At(r, "run", "setup")
  /\ SetRow(r, "running")
  /\ Mirror(r, "in_progress")
  /\ wt' = [wt EXCEPT ![r] = "run"]
  /\ path' = path \cup {r}
  /\ Goto(r, "run", "start")
  /\ UNCHANGED <<session, maps, jsonl, cancel, takeover, swipe, budget>>

SetupFails(r) ==
  /\ At(r, "run", "setup")
  /\ SetRow(r, "running")
  /\ Mirror(r, "in_progress")
  /\ Goto(r, "run", Gated(r, "run", IF <<r, "run">> \in signal THEN "cancelled" ELSE "failed"))
  /\ IF <<r, "run">> \in signal THEN UNCHANGED budget ELSE Spend("fault")
  /\ UNCHANGED <<session, path, maps, files, cancel, takeover, swipe>>

\* runAgent: agent_starting, the last look at the context, running.
Start(r) ==
  /\ At(r, "run", "start")
  /\ SetRow(r, "running")
  /\ Mirror(r, "in_progress")
  /\ Goto(r, "run", IF <<r, "run">> \in signal THEN Gated(r, "run", "cancelled") ELSE "agent")
  /\ UNCHANGED <<session, path, maps, files, cancel, takeover, swipe, budget>>

\* runSink.OnSession: the agent's first message names its session.
AgentSession(r) ==
  /\ At(r, "run", "agent")
  /\ r \notin session
  /\ session' = session \cup {r}
  /\ jsonl' = [jsonl EXCEPT ![r] = "run"]
  /\ UNCHANGED <<row, path, task, maps, wt, go, cancel, takeover, swipe, budget>>

\* What the agent said last.  A result that was read before the kill counts.
Answered(r, k, answer) ==
  /\ r \in session
  /\ IF answer = "yield"
     THEN Goto(r, k, "yield")
     ELSE Jump(r, k, "record") /\ Hold(r, k, answer)

\* agentproc.Run returned to runAgent.
RunReturns(r) ==
  /\ At(r, "run", "agent")
  /\ \/ r \in taken /\ Goto(r, "run", "clean") /\ UNCHANGED budget
     \/ /\ r \notin taken
        /\ \/ /\ \E answer \in {"yield", "completed"} : Answered(r, "run", answer)
              /\ UNCHANGED budget
           \/ <<r, "run">> \in signal /\ Goto(r, "run", "cancelled") /\ UNCHANGED budget
           \/ <<r, "run">> \notin signal /\ Goto(r, "run", "failed") /\ Spend("fault")
           \/ Answered(r, "run", "failed") /\ Spend("fault")
  /\ UNCHANGED <<rows, maps, files, cancel, takeover, swipe>>

-----------------------------------------------------------------------------
(***************************************************************************)
(* processCompletion, for both goroutines.                                 *)
(***************************************************************************)
\* Mutant: the yield is stored whatever the row says.
YieldUnguarded(r, k) ==
  /\ At(r, k, "yield")
  /\ SetRow(r, "awaiting_input")
  /\ Goto(r, k, End(k))
  /\ UNCHANGED <<session, path, task, maps, files, cancel, takeover, swipe, budget>>

\* persistYield: MarkAwaitingInput is guarded by the status.
Yield(r, k) ==
  /\ At(r, k, "yield")
  /\ SetRowIfActive(r, "awaiting_input")
  /\ Goto(r, k, End(k))
  /\ UNCHANGED <<session, path, task, maps, files, cancel, takeover, swipe, budget>>

\* After the memory gate: Complete has no guard.
Record(r, k) ==
  /\ At(r, k, "record")
  /\ SetRow(r, result[r][k])
  /\ Goto(r, k, IF result[r][k] = "completed" THEN "park" ELSE End(k))
  /\ UNCHANGED <<session, path, task, maps, files, cancel, takeover, swipe, budget>>

\* A review or pull request waits for approval: MarkPendingApprovalIfCompleted.
Park(r, k) ==
  /\ At(r, k, "park")
  /\ \/ Goto(r, k, "check") /\ UNCHANGED row
     \/ /\ row[r] = "completed"
        /\ SetRow(r, "pending_approval")
        /\ Jump(r, k, "advance")
        /\ Hold(r, k, "pending_approval")
  /\ UNCHANGED <<session, path, task, maps, files, cancel, takeover, swipe, budget>>

\* HasOtherActiveRunForTask, then Close: two statements.
Check(r, k) ==
  /\ At(r, k, "check")
  /\ Goto(r, k, IF OtherActive(r) THEN "advance" ELSE "close")
  /\ UNCHANGED <<rows, maps, files, cancel, takeover, swipe, budget>>

Close(r, k) ==
  /\ At(r, k, "close")
  /\ status' = "done"
  /\ Goto(r, k, "advance")
  /\ UNCHANGED <<row, session, path, claim, maps, files, cancel, takeover, swipe, budget>>

Advance(r, k) ==
  /\ At(r, k, "advance")
  /\ Mirror(r, IF result[r][k] = "completed" THEN "done" ELSE "in_review")
  /\ Goto(r, k, End(k))
  /\ UNCHANGED <<row, session, path, maps, files, cancel, takeover, swipe, budget>>

-----------------------------------------------------------------------------
(***************************************************************************)
(* The other ends of a goroutine, and its deferred calls.                  *)
(***************************************************************************)
\* handleCancelled: Complete has no guard here either.
WriteCancelled(r) ==
  /\ At(r, "run", "cancelled")
  /\ SetRow(r, "cancelled")
  /\ RemoveWorktree(r)
  /\ Goto(r, "run", "clean")
  /\ UNCHANGED <<session, path, task, maps, jsonl, cancel, takeover, swipe, budget>>

\* failRun: MarkFailedIfActive.
WriteFailed(r, k) ==
  /\ At(r, k, "failed")
  /\ SetRowIfActive(r, "failed")
  /\ Goto(r, k, End(k))
  /\ UNCHANGED <<session, path, task, maps, files, cancel, takeover, swipe, budget>>

\* The defers of runAgent, last one first; each reads the flag before it acts.
CleanStart(r) ==
  /\ At(r, "run", "clean")
  /\ Goto(r, "run", IF r \in taken THEN "exit" ELSE "session")
  /\ UNCHANGED <<rows, maps, files, cancel, takeover, swipe, budget>>

CleanSession(r) ==
  /\ At(r, "run", "session")
  /\ RemoveSession(r)
  /\ Goto(r, "run", IF r \in taken THEN "exit" ELSE "worktree")
  /\ UNCHANGED <<rows, maps, wt, cancel, takeover, swipe, budget>>

CleanWorktree(r) ==
  /\ At(r, "run", "worktree")
  /\ RemoveWorktree(r)
  /\ Goto(r, "run", "exit")
  /\ UNCHANGED <<rows, maps, jsonl, cancel, takeover, swipe, budget>>

\* The outermost defer forgets the cancel function, whoever registered it.
Exit(r, k) ==
  /\ At(r, k, "exit")
  /\ handle' = [handle EXCEPT ![r] = Nobody]
  /\ signal' = signal \ {<<r, k>>}
  /\ Jump(r, k, IF k = "run" THEN "done" ELSE "none")
  /\ Hold(r, k, "none")
  /\ UNCHANGED <<rows, taken, files, cancel, takeover, swipe, budget>>

-----------------------------------------------------------------------------
(***************************************************************************)
(* ResumeAfterYield.                                                       *)
(***************************************************************************)
\* Mutant: no look at the registered cancel function.
RespondUnchecked(r) ==
  /\ row[r] = "awaiting_input"
  /\ r \in session /\ r \in path
  /\ Spend("respond")
  /\ handle' = [handle EXCEPT ![r] = "resume"]
  /\ Goto(r, "resume", "flip")
  /\ UNCHANGED <<rows, taken, signal, files, cancel, takeover, swipe>>

\* The user answers: the cancel function is registered first.
Respond(r) ==
  /\ row[r] = "awaiting_input"
  /\ r \in session /\ r \in path
  /\ handle[r] = Nobody
  /\ Spend("respond")
  /\ handle' = [handle EXCEPT ![r] = "resume"]
  /\ Goto(r, "resume", "flip")
  /\ UNCHANGED <<rows, taken, signal, files, cancel, takeover, swipe>>

\* MarkResuming, or out again.
Flip(r) ==
  /\ At(r, "resume", "flip")
  /\ IF row[r] = "awaiting_input"
     THEN SetRow(r, "running") /\ Goto(r, "resume", "resume")
     ELSE Goto(r, "resume", "exit") /\ UNCHANGED row
  /\ UNCHANGED <<session, path, task, maps, files, cancel, takeover, swipe, budget>>

\* The agent restarts in the run's worktree, if there is one.
Resume(r) ==
  /\ At(r, "resume", "resume")
  /\ Goto(r, "resume", IF <<r, "resume">> \in signal THEN "mark"
                       ELSE IF wt[r] = "run" THEN "agent"
                       ELSE Gated(r, "resume", "failed"))
  /\ UNCHANGED <<rows, maps, files, cancel, takeover, swipe, budget>>

ResumeReturns(r) ==
  /\ At(r, "resume", "agent")
  /\ IF <<r, "resume">> \in signal
     THEN Goto(r, "resume", "mark") /\ UNCHANGED budget
     ELSE \/ /\ \E answer \in {"yield", "completed"} : Answered(r, "resume", answer)
             /\ UNCHANGED budget
          \/ Goto(r, "resume", Gated(r, "resume", "failed")) /\ Spend("fault")
          \/ Answered(r, "resume", "failed") /\ Spend("fault")
  /\ UNCHANGED <<rows, maps, files, cancel, takeover, swipe>>

\* markCancelled does not look at the takenOver flag.
ResumeCancelled(r) ==
  /\ At(r, "resume", "mark")
  /\ SetRowIfActive(r, "cancelled")
  /\ Goto(r, "resume", "exit")
  /\ UNCHANGED <<session, path, task, maps, files, cancel, takeover, swipe, budget>>

-----------------------------------------------------------------------------
(***************************************************************************)
(* Cancel: the cancel function if there is one, the row otherwise.         *)
(***************************************************************************)
UserCancels(r) ==
  /\ row[r] # "absent"
  /\ cancel[r] = "idle"
  /\ Spend("cancel")
  /\ cancel' = [cancel EXCEPT ![r] = "lookup"]
  /\ UNCHANGED <<rows, maps, files, go, takeover, swipe>>

CancelLookup(r) ==
  /\ cancel[r] = "lookup"
  /\ IF handle[r] # Nobody
     THEN /\ signal' = signal \cup {<<r, handle[r]>>}
          /\ cancel' = [cancel EXCEPT ![r] = "idle"]
     ELSE /\ cancel' = [cancel EXCEPT ![r] = "mark"]
          /\ UNCHANGED signal
  /\ UNCHANGED <<rows, handle, taken, files, go, takeover, swipe, budget>>

CancelMark(r) ==
  /\ cancel[r] = "mark"
  /\ SetRowIfActive(r, "cancelled")
  /\ cancel' = [cancel EXCEPT ![r] = "idle"]
  /\ UNCHANGED <<session, path, task, maps, files, go, takeover, swipe, budget>>

-----------------------------------------------------------------------------
(***************************************************************************)
(* Takeover and Release.                                                   *)
(***************************************************************************)
\* The flag, under the mutex that guards both maps, then cancel().
TakeoverClaims(r) ==
  /\ r \in session /\ r \in path
  /\ handle[r] # Nobody
  /\ r \notin taken
  /\ Spend("takeover")
  /\ taken' = taken \cup {r}
  /\ signal' = signal \cup {<<r, handle[r]>>}
  /\ takeover' = [takeover EXCEPT ![r] = "copy"]
  /\ UNCHANGED <<rows, handle, files, go, cancel, swipe>>

\* A file system step of a takeover: it fails when what it moves is gone.
TakeoverFails(r) ==
  /\ takeover' = [takeover EXCEPT ![r] = "abort"]
  /\ UNCHANGED files

TakeoverCopies(r) ==
  /\ takeover[r] = "copy"
  /\ \/ /\ wt[r] = "run"
        /\ wt' = [wt EXCEPT ![r] = "takeover"]
        /\ takeover' = [takeover EXCEPT ![r] = "session"]
        /\ UNCHANGED <<jsonl, budget>>
     \/ wt[r] = "run" /\ TakeoverFails(r) /\ Spend("fault")
     \/ wt[r] # "run" /\ TakeoverFails(r) /\ UNCHANGED budget
  /\ UNCHANGED <<rows, maps, go, cancel, swipe>>

\* Mutant: the run is marked although its transcript was not copied.
TakeoverMaterializesBestEffort(r) ==
  /\ takeover[r] = "session"
  /\ jsonl' = [jsonl EXCEPT ![r] = IF @ = "run" THEN "takeover" ELSE @]
  /\ takeover' = [takeover EXCEPT ![r] = "mark"]
  /\ UNCHANGED <<rows, maps, wt, go, cancel, swipe, budget>>

TakeoverMaterializes(r) ==
  /\ takeover[r] = "session"
  /\ \/ /\ jsonl[r] = "run"
        /\ jsonl' = [jsonl EXCEPT ![r] = "takeover"]
        /\ takeover' = [takeover EXCEPT ![r] = "mark"]
        /\ UNCHANGED <<wt, budget>>
     \/ jsonl[r] = "run" /\ TakeoverFails(r) /\ Spend("fault")
     \/ jsonl[r] # "run" /\ TakeoverFails(r) /\ UNCHANGED budget
  /\ UNCHANGED <<rows, maps, go, cancel, swipe>>

\* MarkTakenOver: the run and the claim in one transaction, or neither.
TakeoverMarks(r) ==
  /\ takeover[r] = "mark"
  /\ IF row[r] \in Active /\ claim = "agent"
     THEN /\ SetRow(r, "taken_over")
          /\ claim' = "user"
          /\ takeover' = [takeover EXCEPT ![r] = "idle"]
     ELSE takeover' = [takeover EXCEPT ![r] = "abort"] /\ UNCHANGED <<row, claim>>
  /\ UNCHANGED <<session, path, status, maps, files, go, cancel, swipe, budget>>

\* Mutant: a rollback that relies on the gated goroutine for the worktree.
TakeoverAbortsRowOnly(r) ==
  /\ takeover[r] = "abort"
  /\ SetRowIfActive(r, "cancelled")
  /\ takeover' = [takeover EXCEPT ![r] = "idle"]
  /\ UNCHANGED <<session, path, task, maps, files, go, cancel, swipe, budget>>

\* Mutant: a rollback that relies on the gated goroutine for the row.
TakeoverAbortsFilesOnly(r) ==
  /\ takeover[r] = "abort"
  /\ RemoveSession(r)
  /\ wt' = [wt EXCEPT ![r] = "gone"]
  /\ takeover' = [takeover EXCEPT ![r] = "idle"]
  /\ UNCHANGED <<rows, maps, go, cancel, swipe, budget>>

\* abortTakeover: what the gated goroutine left undone.
TakeoverAborts(r) ==
  /\ takeover[r] = "abort"
  /\ RemoveSession(r)
  /\ wt' = [wt EXCEPT ![r] = "gone"]
  /\ SetRowIfActive(r, "cancelled")
  /\ takeover' = [takeover EXCEPT ![r] = "idle"]
  /\ UNCHANGED <<session, path, task, maps, go, cancel, swipe, budget>>

\* Release: the files first, the row last.
Releases(r) ==
  /\ row[r] = "taken_over" /\ r \in path
  /\ takeover[r] = "idle"
  /\ Spend("takeover")
  /\ wt' = [wt EXCEPT ![r] = "gone"]
  /\ jsonl' = [jsonl EXCEPT ![r] = "gone"]
  /\ takeover' = [takeover EXCEPT ![r] = "release"]
  /\ UNCHANGED <<rows, maps, go, cancel, swipe>>

ReleaseMarks(r) ==
  /\ takeover[r] = "release"
  /\ path' = IF row[r] = "taken_over" THEN path \ {r} ELSE path
  /\ takeover' = [takeover EXCEPT ![r] = "idle"]
  /\ UNCHANGED <<row, session, task, maps, files, go, cancel, swipe, budget>>

-----------------------------------------------------------------------------
(***************************************************************************)
(* The task's card.                                                        *)
(***************************************************************************)
SwipeStarts(next) == swipe = "idle" /\ swipe' = next /\ Spend("swipe")

\* HandoffAgentClaim.  Bound: there is a run id left.
SwipeDelegate ==
  /\ \E r \in Runs : row[r] = "absent"
  /\ status # "done"
  /\ claim' = "agent"
  /\ SwipeStarts("redelegate")
  /\ UNCHANGED <<row, session, path, status, maps, files, go, cancel, takeover>>

\* TakeoverClaimFromAgent, ClaimQueuedForUser or nothing to change.
SwipeClaim ==
  /\ status # "done"
  /\ claim = "none" => status = "queued"
  /\ claim' = "user"
  /\ SwipeStarts("stop")
  /\ UNCHANGED <<row, session, path, status, maps, files, go, cancel, takeover>>

\* RecordSwipe for dismiss and complete.
SwipeClose ==
  /\ status' = "done"
  /\ SwipeStarts("stop")
  /\ UNCHANGED <<row, session, path, claim, maps, files, go, cancel, takeover>>

\* RequeueTask and UndoLastSwipe.
Requeue ==
  /\ status' = "queued"
  /\ claim' = "none"
  /\ SwipeStarts("requeue")
  /\ UNCHANGED <<row, session, path, maps, files, go, cancel, takeover>>

\* cleanupPendingApprovalRun discards one run that waits for approval; a
\* swipe also cancels the active runs of the task, a requeue does not.
SwipeCancels ==
  /\ swipe \in {"requeue", "stop", "redelegate"}
  /\ \A r \in Runs : cancel[r] = "idle"
  /\ LET Parked == {r \in Runs : row[r] = "pending_approval"}
     IN  IF Parked = {} THEN UNCHANGED row ELSE \E r \in Parked : SetRow(r, "cancelled")
  /\ cancel' = [r \in Runs |-> IF swipe # "requeue" /\ row[r] \in Active THEN "lookup" ELSE "idle"]
  /\ swipe' = IF swipe = "redelegate" THEN "create" ELSE "idle"
  /\ UNCHANGED <<session, path, task, maps, files, go, takeover, budget>>

\* Delegate inserts the new run's row and starts its goroutine.
SwipeRuns(r) ==
  /\ swipe = "create"
  /\ \A q \in Runs : cancel[q] = "idle"
  /\ row[r] = "absent"
  /\ SetRow(r, "initializing")
  /\ Goto(r, "run", "register")
  /\ swipe' = "idle"
  /\ UNCHANGED <<session, path, task, maps, files, cancel, takeover, budget>>

-----------------------------------------------------------------------------
RunStep(r) ==
  \/ Register(r)
  \/ SetupWorks(r)
  \/ SetupFails(r)
  \/ Start(r)
  \/ AgentSession(r)
  \/ RunReturns(r)
  \/ WriteCancelled(r)
  \/ CleanStart(r)
  \/ CleanSession(r)
  \/ CleanWorktree(r)

ResumeStep(r) == Flip(r) \/ Resume(r) \/ ResumeReturns(r) \/ ResumeCancelled(r)

CompletionStep(r, k) ==
  \/ Yield(r, k)
  \/ Record(r, k)
  \/ Park(r, k)
  \/ Check(r, k)
  \/ Close(r, k)
  \/ Advance(r, k)
  \/ WriteFailed(r, k)
  \/ Exit(r, k)

CancelStep(r) == CancelLookup(r) \/ CancelMark(r)

TakeoverStep(r) ==
  \/ TakeoverCopies(r)
  \/ TakeoverMaterializes(r)
  \/ TakeoverMarks(r)
  \/ TakeoverAborts(r)
  \/ ReleaseMarks(r)

SwipeStep == SwipeCancels \/ \E r \in Runs : SwipeRuns(r)

UserRequest ==
  \/ SwipeDelegate
  \/ SwipeClaim
  \/ SwipeClose
  \/ Requeue
  \/ \E r \in Runs : UserCancels(r) \/ Respond(r) \/ TakeoverClaims(r) \/ Releases(r)

Next ==
  \/ UserRequest
  \/ SwipeStep
  \/ \E r \in Runs : \/ RunStep(r)
                     \/ ResumeStep(r)
                     \/ \E k \in Kinds : CompletionStep(r, k)
                     \/ CancelStep(r)
                     \/ TakeoverStep(r)

Spec == Init /\ [][Next]_vars

\* Goroutines and handlers are scheduled and agent processes return; users
\* are not obliged to do anything.
Fairness ==
  /\ WF_vars(SwipeStep)
  /\ \A r \in Runs :
       /\ WF_vars(RunStep(r))
       /\ WF_vars(ResumeStep(r))
       /\ \A k \in Kinds : WF_vars(CompletionStep(r, k))
       /\ WF_vars(CancelStep(r))
       /\ WF_vars(TakeoverStep(r))

FairSpec == Spec /\ Fairness

-----------------------------------------------------------------------------
(***************************************************************************)
(* Properties.                                                             *)
(***************************************************************************)
TypeOK ==
  /\ row \in [Runs -> Active \cup Ended \cup {"absent"}]
  /\ session \subseteq Runs
  /\ path \subseteq Runs
  /\ status \in {"queued", "in_progress", "in_review", "done"}
  /\ claim \in {"none", "agent", "user"}
  /\ handle \in [Runs -> Kinds \cup {Nobody}]
  /\ taken \subseteq Runs
  /\ signal \subseteq Goroutines
  /\ wt \in [Runs -> {"none", "run", "takeover", "gone"}]
  /\ jsonl \in [Runs -> {"none", "run", "takeover", "gone"}]
  /\ pc \in [Runs -> [Kinds -> PCs]]
  /\ result \in [Runs -> [Kinds -> Results]]
  /\ cancel \in [Runs -> {"idle", "lookup", "mark"}]
  /\ takeover \in [Runs -> {"idle", "copy", "session", "mark", "abort", "release"}]
  /\ swipe \in {"idle", "requeue", "stop", "redelegate", "create"}
  /\ budget \in [Inputs -> Nat]

Live(r, k) == pc[r][k] \notin {"none", "register", "done"}

\* The cancel function registered for a run is the one of its live goroutine,
\* and a run never has two: whatever answers, cancels and takeovers meet, a
\* Cancel that finds a function stops the goroutine that will write the row's
\* last status, and one that finds none has nothing to stop (resume.go's
\* registration before MarkResuming, the outermost defers).
HandleIsLive == \A r \in Runs, k \in Kinds : handle[r] = k <=> Live(r, k)

\* A held takeover can be resumed in the terminal: until it is released its
\* worktree and its transcript are both in the takeover directory, although
\* the run's goroutine deletes both when it ends and does not wait for the
\* takeover (the gated defers of run.go, the rollback of takeover.go).
TakenOverIsResumable ==
  \A r \in Runs : row[r] = "taken_over" /\ r \in path /\ takeover[r] # "release"
                 => wt[r] = "takeover" /\ jsonl[r] = "takeover"

AtRest(r) ==
  /\ pc[r]["run"] = "done"
  /\ pc[r]["resume"] = "none"
  /\ takeover[r] = "idle"

\* Once nothing works on a run any more its checkout is not left behind in
\* the temporary directory, whichever of the goroutine, the cancellation and
\* the takeover had to remove it.
WorktreeReclaimed == \A r \in Runs : AtRest(r) => wt[r] # "run"

\* ... and its row is not left as if something still did: the goroutines that a
\* takeover or a cancellation has silenced have somebody who writes for them
\* (run.go and resume.go behind wasTakenOver; takeover.go, abortTakeover).
NoPhantomRun == \A r \in Runs : AtRest(r) => row[r] \notin {"initializing", "running"}

\* A run whose agent has been heard of and that has ended is never active
\* again, whichever answer, yield or setup write comes late: only the setup of
\* its first goroutine writes an active status without looking (the guards of
\* MarkAwaitingInput and MarkResuming; delegate.go, updateStatus).
EndedStaysEnded ==
  [][\A r \in Runs : row[r] \in Ended /\ r \in session => row'[r] \in Ended]_vars

\* A run whose row is active either ends or waits for the user's answer:
\* no race of cancel, takeover, answer and completion leaves a phantom run
\* that would hold the entity's queue for ever.
RunEnds ==
  \A r \in Runs : (row[r] \in {"initializing", "running"})
                 ~> (row[r] \in Ended \cup {"awaiting_input"})

\* spawner.go, wasTakenOver: the flag "prevents a concurrent natural
\* completion from overwriting the taken_over status".
TakenOverIsFinal ==
  [][\A r \in Runs : row[r] = "taken_over" => row'[r] = "taken_over"]_vars

\* spawner.go, updateStatus: "no guard needed; the caller knows the prior row
\* is non-terminal"; a cancellation that was accepted stands.
CancelledIsFinal ==
  [][\A r \in Runs : row[r] = "cancelled" => row'[r] = "cancelled"]_vars

\* delegate.go, setupJira: resume reads worktree_path "as the cwd to resume
\* the session in", which is there while the run waits for its answer.
ParkedIsResumable ==
  \A r \in Runs : row[r] = "awaiting_input" /\ AtRest(r)
                 => wt[r] = "run" /\ jsonl[r] = "run"
=============================================================================
