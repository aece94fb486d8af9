------------------------------- MODULE ChainRun -------------------------------
(***************************************************************************)
(* One run of a prompt chain (internal/delegate/chain.go): the orchestrator *)
(* goroutine that walks the steps in one shared worktree, the goroutine    *)
(* that resumes a step after a yield, and the requests that meet them:     *)
(* CancelChain, Cancel and Takeover of the step, the answer to a yield,    *)
(* and the approval or the discard of the review or pull request a step    *)
(* left behind (internal/server/reviews_handler.go, pending_prs_handler.go, *)
(* tasks.go).                                                              *)
(*                                                                         *)
(* What runAgent does inside a step is RunLifecycle's; here a step keeps   *)
(* the writes of its row that the chain reads.                             *)
(***************************************************************************)
EXTENDS Naturals, FiniteSets

CONSTANTS Requests,  \* calls of the user that may be in progress at once
          Orch,      \* the orchestrator goroutine
          Resumer,   \* the goroutine that resumes a parked step
          StepCount, \* steps of the chain prompt
          Budget,    \* how many inputs of each kind a behaviour has
          Variety    \* how many of the kinds one behaviour mixes

Inputs == {"early", "respond", "takeover", "stop", "fault", "crash"}

ASSUME ActorsAssumption == Orch # Resumer /\ {Orch, Resumer} \cap Requests = {}
ASSUME StepCountAssumption == StepCount \in Nat \ {0}
ASSUME BudgetAssumption == Budget \in [Inputs -> Nat] /\ Variety \in Nat

VARIABLES
  chain,    \* chain_runs.status
  row,      \* runs.status of each step's run
  verdict,  \* the step's latest chain:verdict artifact
  pending,  \* the steps that left a review or pull request to approve
  task,     \* tasks.status
  jira,     \* the task is a Jira issue: worktrees are made under a root
  wt,       \* the shared worktree, or the root
  handles,  \* Spawner.cancels: the chain's id is 0, a step's is its index
  signals,  \* contexts that were cancelled
  taken,    \* Spawner.takenOver
  pc,       \* where each actor is
  ending,   \* the status an actor is about to give the chain
  at,       \* the step an actor is at; for a CancelChain the active step it read
  drained,  \* whether notifyDrainer was called for the chain of an event
  lapses,   \* what errors, approvals and parked steps left undone
  budget

rows == <<chain, row, verdict, pending, task>>
maps == <<handles, signals, taken>>
go == <<pc, ending, at>>
marks == <<drained, lapses>>
vars == <<chain, row, verdict, pending, task, jira, wt, handles, signals, taken,
          pc, ending, at, drained, lapses, budget>>

Steps == 1 .. StepCount
Chain == 0
Ids == 0 .. StepCount
Actors == Requests \cup {Orch, Resumer}

Active == {"initializing", "running"}
Paused == {"awaiting_input", "pending_approval"}
Ended == {"completed", "failed", "cancelled", "taken_over"}
ChainEnded == {"completed", "failed", "aborted", "cancelled"}
Verdicts == {"none", "advance", "final", "abort"}
Lapses == {"steps", "task", "early", "kept", "rootless", "parked", "unmarked", "entity"}
PCs == {"idle", "setup", "create", "loop", "register", "start", "agent", "record",
        "park", "yield", "cancelled", "failed", "return", "read", "exit", "flip",
        "mark", "close", "clean", "notify", "active", "approve", "approved", "take"}

Init ==
  /\ chain = "absent"
  /\ row = [s \in Steps |-> "absent"]
  /\ verdict = [s \in Steps |-> "none"]
  /\ pending = {}
  /\ task = "open"
  /\ jira \in BOOLEAN
  /\ wt = "none"
  /\ handles = {Chain}
  /\ signals = {}
  /\ taken = {}
  /\ pc = [a \in Actors |-> IF a = Orch THEN "setup" ELSE "idle"]
  /\ ending = [a \in Actors |-> "none"]
  /\ at = [a \in Actors |-> IF a = Orch THEN 1 ELSE 0]
  /\ drained = FALSE
  /\ lapses = {}
  /\ budget = Budget

Used(b) == {i \in Inputs : b[i] < Budget[i]}
Spend(input) ==
  /\ budget[input] > 0
  /\ budget' = [budget EXCEPT ![input] = @ - 1]
  /\ Cardinality(Used(budget')) <= Variety
Lost(kind, when) == lapses' = lapses \cup (IF when THEN {kind} ELSE {})
At(a, here) == pc[a] = here
Goto(a, next) == pc' = [pc EXCEPT ![a] = next] /\ UNCHANGED <<ending, at>>
Leave(a) ==
  /\ pc' = [pc EXCEPT ![a] = IF a = Orch THEN "exit" ELSE "idle"]
  /\ ending' = [ending EXCEPT ![a] = "none"]
  /\ at' = IF a = Orch THEN at ELSE [at EXCEPT ![a] = 0]
GotoAt(a, next, s) ==
  /\ pc' = [pc EXCEPT ![a] = next]
  /\ at' = [at EXCEPT ![a] = s]
  /\ UNCHANGED ending
Terminate(a, status) ==
  /\ pc' = [pc EXCEPT ![a] = "mark"]
  /\ ending' = [ending EXCEPT ![a] = status]
  /\ UNCHANGED at
SetRow(s, next) == row' = [row EXCEPT ![s] = next]
SetRowIfActive(s, next) ==
  SetRow(s, IF row[s] \in Active \cup {"awaiting_input"} THEN next ELSE row[s])

\* A step's context is a child of the chain's; a resume has one of its own.
Signalled(a) == at[a] \in signals \/ (a = Orch /\ Chain \in signals)

-----------------------------------------------------------------------------
(***************************************************************************)
(* delegateChain's goroutine and runChain.                                 *)
(***************************************************************************)
\* setupGitHub or setupJira; there is no chain_runs row yet.
SetupWorks ==
  /\ At(Orch, "setup")
  /\ wt' = "present"
  /\ Goto(Orch, "create")
  /\ UNCHANGED <<rows, jira, maps, marks, budget>>

\* Mutant: the entity's queue is not drained when the setup fails.
SetupFailsQuietly ==
  /\ At(Orch, "setup")
  /\ Spend("fault")
  /\ chain' = "failed"
  /\ Goto(Orch, "exit")
  /\ UNCHANGED <<row, verdict, pending, task, jira, wt, maps, marks>>

SetupFails ==
  /\ At(Orch, "setup")
  /\ Spend("fault")
  /\ chain' = "failed"
  /\ Goto(Orch, "notify")
  /\ UNCHANGED <<row, verdict, pending, task, jira, wt, maps, marks>>

Create ==
  /\ At(Orch, "create")
  /\ \/ chain' = "running" /\ Goto(Orch, "loop") /\ UNCHANGED budget
     \/ Goto(Orch, "clean") /\ Spend("fault") /\ UNCHANGED chain
  /\ UNCHANGED <<row, verdict, pending, task, jira, wt, maps, marks>>

\* The head of the loop: the context, the step's prompt and skill, its row.
StepStarts ==
  /\ At(Orch, "loop")
  /\ IF at[Orch] > StepCount
     THEN Terminate(Orch, "completed") /\ UNCHANGED <<row, budget>>
     ELSE IF Chain \in signals
     THEN Terminate(Orch, "cancelled") /\ UNCHANGED <<row, budget>>
     ELSE \/ SetRow(at[Orch], "initializing") /\ Goto(Orch, "register") /\ UNCHANGED budget
          \/ /\ \E status \in {"failed", "aborted"} : Terminate(Orch, status)
             /\ Spend("fault")
             /\ UNCHANGED row
  /\ UNCHANGED <<chain, verdict, pending, task, jira, wt, maps, marks>>

StepRegisters ==
  /\ At(Orch, "register")
  /\ handles' = handles \cup {at[Orch]}
  /\ Goto(Orch, "start")
  /\ UNCHANGED <<rows, jira, wt, signals, taken, marks, budget>>

\* runAgent's unguarded status writes, and its last look at the context.
AgentStarts ==
  /\ At(Orch, "start")
  /\ SetRow(at[Orch], "running")
  /\ Goto(Orch, IF Signalled(Orch) THEN (IF at[Orch] \in taken THEN "return" ELSE "cancelled")
                ELSE "agent")
  /\ UNCHANGED <<chain, verdict, pending, task, jira, wt, maps, marks, budget>>

\* What an agent records: verdicts while the chain runs, of which the latest
\* counts, and a review or a pull request, which can be approved from then on.
Says == IF chain = "running" THEN Verdicts \ {"none"} ELSE {}
Records(a) ==
  /\ \E v \in {verdict[at[a]]} \cup Says : verdict' = [verdict EXCEPT ![at[a]] = v]
  /\ pending' \in {pending, pending \cup {at[a]}}

\* An agent that works on after it has recorded something.  A resumed agent
\* takes longer, for this and for its answer, than the orchestrator needs to
\* read the row of the step that it has returned from.
AgentWorks(a) ==
  /\ At(a, "agent")
  /\ a = Resumer => ~At(Orch, "read")
  /\ Spend("early")
  /\ Records(a)
  /\ UNCHANGED <<chain, row, task, jira, wt, maps, go, marks>>

AgentReturns(a) ==
  /\ At(a, "agent")
  /\ a = Resumer => ~At(Orch, "read")
  /\ IF a = Orch /\ at[a] \in taken
     THEN Goto(a, "return") /\ UNCHANGED <<verdict, pending, budget>>
     ELSE \/ /\ ~(a = Resumer /\ Signalled(a))
             /\ Records(a)
             /\ Goto(a, "record")
             /\ UNCHANGED budget
          \/ /\ ~(a = Resumer /\ Signalled(a))
             /\ Goto(a, "yield")
             /\ UNCHANGED <<verdict, pending, budget>>
          \/ Signalled(a) /\ Goto(a, "cancelled") /\ UNCHANGED <<verdict, pending, budget>>
          \/ ~Signalled(a) /\ Goto(a, "failed") /\ Spend("fault") /\ UNCHANGED <<verdict, pending>>
  /\ UNCHANGED <<chain, row, task, jira, wt, maps, marks>>

Record(a) ==
  /\ At(a, "record")
  /\ SetRow(at[a], "completed")
  /\ Goto(a, IF at[a] \in pending THEN "park" ELSE "return")
  /\ UNCHANGED <<chain, verdict, pending, task, jira, wt, maps, marks, budget>>

\* A step before the last that left something to approve is promoted to
\* --final; the row waits unless something else ended it first.
Park(a) ==
  /\ At(a, "park")
  /\ verdict' = [verdict EXCEPT ![at[a]] = IF at[a] < StepCount THEN "final" ELSE @]
  /\ SetRow(at[a], IF row[at[a]] = "completed" THEN "pending_approval" ELSE row[at[a]])
  /\ Goto(a, "return")
  /\ UNCHANGED <<chain, pending, task, jira, wt, maps, marks, budget>>

Yield(a) ==
  /\ At(a, "yield")
  /\ SetRowIfActive(at[a], "awaiting_input")
  /\ Goto(a, "return")
  /\ UNCHANGED <<chain, verdict, pending, task, jira, wt, maps, marks, budget>>

\* handleCancelled writes without a guard and removes the worktree, the
\* resumed step's markCancelled does neither.
WriteCancelled(a) ==
  /\ At(a, "cancelled")
  /\ IF a = Orch THEN SetRow(at[a], "cancelled") /\ wt' = (IF wt = "present" THEN "gone" ELSE wt)
     ELSE SetRowIfActive(at[a], "cancelled") /\ UNCHANGED wt
  /\ Goto(a, "return")
  /\ UNCHANGED <<chain, verdict, pending, task, jira, maps, marks, budget>>

\* failRun.
WriteFailed(a) ==
  /\ At(a, "failed")
  /\ IF at[a] \in taken THEN UNCHANGED row ELSE SetRowIfActive(at[a], "failed")
  /\ Goto(a, "return")
  /\ UNCHANGED <<chain, verdict, pending, task, jira, wt, maps, marks, budget>>

\* Both goroutines forget the step's cancel function.
StepReturns(a) ==
  /\ At(a, "return")
  /\ handles' = handles \ {at[a]}
  /\ signals' = signals \ {at[a]}
  /\ IF a = Orch THEN Goto(a, "read") ELSE Leave(a)
  /\ UNCHANGED <<rows, jira, wt, taken, marks, budget>>

\* Mutant: a step without a verdict counts as one that said --advance.
VerdictLenient ==
  CASE verdict[at[Orch]] \in {"advance", "none"} -> "advance"
    [] verdict[at[Orch]] = "final" -> "completed"
    [] OTHER -> "aborted"

\* What the latest verdict of a completed step means for the chain.
Verdict ==
  CASE verdict[at[Orch]] = "advance" -> "advance"
    [] verdict[at[Orch]] = "final" -> "completed"
    [] OTHER -> "aborted"

\* The step's row decides: a parked step leaves the chain running and the
\* worktree in place, any other end but completed ends the chain.  Under a
\* cancelled context the verdict cannot be read, which counts as none.
Decide ==
  /\ At(Orch, "read")
  /\ \/ /\ row[at[Orch]] \in Paused
        /\ Goto(Orch, "exit")
        /\ UNCHANGED <<verdict, budget>>
     \/ /\ row[at[Orch]] = "cancelled"
        /\ Terminate(Orch, "cancelled")
        /\ UNCHANGED <<verdict, budget>>
     \/ /\ row[at[Orch]] \notin Paused \cup {"cancelled", "completed"}
        /\ Terminate(Orch, "failed")
        /\ UNCHANGED <<verdict, budget>>
     \/ /\ row[at[Orch]] = "completed"
        /\ Chain \in signals
        /\ Terminate(Orch, "aborted")
        /\ UNCHANGED <<verdict, budget>>
     \/ /\ row[at[Orch]] = "completed"
        /\ Chain \notin signals
        /\ IF Verdict = "advance"
           THEN GotoAt(Orch, "loop", at[Orch] + 1)
           ELSE Terminate(Orch, Verdict)
        /\ verdict' = [verdict EXCEPT ![at[Orch]] = IF @ = "none" THEN "abort" ELSE @]
        /\ UNCHANGED budget
     \/ Terminate(Orch, "failed") /\ Spend("fault") /\ UNCHANGED verdict
  /\ Lost("parked", pc'[Orch] = "exit")
  /\ UNCHANGED <<chain, row, pending, task, jira, wt, maps, drained>>

OrchExits ==
  /\ At(Orch, "exit")
  /\ handles' = handles \ {Chain}
  /\ signals' = signals \ {Chain}
  /\ Goto(Orch, "idle")
  /\ UNCHANGED <<rows, jira, wt, taken, marks, budget>>

-----------------------------------------------------------------------------
(***************************************************************************)
(* terminateChain, for the orchestrator and for requests.                  *)
(***************************************************************************)
\* Mutant: a request only marks the row.
MarkOnly(a) ==
  /\ At(a, "mark")
  /\ chain' = IF chain = "running" THEN ending[a] ELSE chain
  /\ IF a # Orch THEN Leave(a) ELSE Goto(a, IF ending[a] = "completed" THEN "close" ELSE "clean")
  /\ UNCHANGED <<row, verdict, pending, task, jira, wt, maps, marks, budget>>

\* MarkRunStatus is guarded, but whether it changed the row is not asked; an
\* error skips everything that follows.
Mark(a) ==
  /\ At(a, "mark")
  /\ \/ /\ chain' = IF chain = "running" THEN ending[a] ELSE chain
        /\ Goto(a, IF ending[a] = "completed" THEN "close" ELSE "clean")
        /\ UNCHANGED <<lapses, budget>>
     \/ Leave(a) /\ Spend("fault") /\ Lost("unmarked", a = Orch) /\ UNCHANGED chain
  /\ UNCHANGED <<row, verdict, pending, task, jira, wt, maps, drained>>

CloseTask(a) ==
  /\ At(a, "close")
  /\ \/ task' = "done" /\ UNCHANGED budget
     \/ Spend("fault") /\ UNCHANGED task
  /\ Goto(a, "clean")
  /\ UNCHANGED <<chain, row, verdict, pending, jira, wt, maps, marks>>

\* runChainWorktreeCleanup.  A removal that fails is logged, and the
\* configuration that a request builds does not name the root of a Jira chain.
Clean(a) ==
  /\ At(a, "clean")
  /\ LET known == a = Orch \/ ~jira
     IN  \/ /\ wt' = IF wt = "present" /\ known THEN "gone" ELSE wt
           /\ Lost("rootless", wt = "present" /\ ~known)
           /\ UNCHANGED budget
        \/ /\ wt = "present" /\ known
           /\ Spend("fault")
           /\ Lost("kept", TRUE)
           /\ UNCHANGED wt
  /\ Goto(a, "notify")
  /\ UNCHANGED <<rows, jira, maps, drained>>

\* notifyDrainer, if the entity can be read: a request passes "manual", for
\* which it does nothing, whatever started the chain.
Notify(a) ==
  /\ At(a, "notify")
  /\ \/ drained' = (drained \/ a = Orch) /\ UNCHANGED <<lapses, budget>>
     \/ Spend("fault") /\ Lost("entity", a = Orch) /\ UNCHANGED drained
  /\ Leave(a)
  /\ UNCHANGED <<rows, jira, wt, maps>>

-----------------------------------------------------------------------------
(***************************************************************************)
(* Requests.                                                               *)
(***************************************************************************)
\* CancelChain reads the chain and the ids of its active steps.
CancelReads(q) ==
  /\ At(q, "idle")
  /\ chain = "running"
  /\ \E s \in Steps \cup {Chain} :
       /\ IF s = Chain THEN \A r \in Steps : row[r] \notin Active ELSE row[s] \in Active
       /\ GotoAt(q, "active", s)
  /\ UNCHANGED <<rows, jira, wt, maps, marks, budget>>

\* Mutant: only the cancel functions of the active steps are called.
CancelFiresSteps(q) ==
  /\ At(q, "active")
  /\ LET found == ({at[q]} \ {Chain}) \cap handles
     IN  /\ signals' = signals \cup found
         /\ IF found # {} THEN Leave(q) ELSE Terminate(q, "cancelled")
  /\ UNCHANGED <<rows, jira, wt, handles, taken, marks, budget>>

\* Mutant: the terminal write is always left to the orchestrator.
CancelFiresAlways(q) ==
  /\ At(q, "active")
  /\ signals' = signals \cup ({Chain, at[q]} \cap handles)
  /\ Leave(q)
  /\ UNCHANGED <<rows, jira, wt, handles, taken, marks, budget>>

\* Under the mutex: every cancel function there is.  None means that the
\* chain is parked, and the request ends it itself.
CancelFires(q) ==
  /\ At(q, "active")
  /\ LET found == {Chain, at[q]} \cap handles
     IN  /\ signals' = signals \cup found
         /\ IF found # {} THEN Leave(q) ELSE Terminate(q, "cancelled")
  /\ UNCHANGED <<rows, jira, wt, handles, taken, marks, budget>>

\* The ids cannot be read: no function is called, a chain at work is ended as
\* if it were parked.
CancelMisreads(q) ==
  /\ At(q, "active")
  /\ Spend("fault")
  /\ Terminate(q, "cancelled")
  /\ Lost("steps", TRUE)
  /\ UNCHANGED <<rows, jira, wt, maps, drained>>

\* The chain is parked, but its task cannot be read: the row is marked, the
\* worktree and the firing queue are left alone.
CancelMarksOnly(q) ==
  /\ At(q, "active")
  /\ {Chain, at[q]} \cap handles = {}
  /\ Spend("fault")
  /\ chain' = IF chain = "running" THEN "cancelled" ELSE chain
  /\ Lost("task", TRUE)
  /\ Leave(q)
  /\ UNCHANGED <<row, verdict, pending, task, jira, wt, maps, drained>>

\* Cancel of the step's run: its cancel function, or the row.
StopStep ==
  /\ Spend("stop")
  /\ \E s \in Steps :
       /\ row[s] # "absent"
       /\ IF s \in handles
          THEN signals' = signals \cup {s} /\ UNCHANGED row
          ELSE SetRowIfActive(s, "cancelled") /\ UNCHANGED signals
  /\ UNCHANGED <<chain, verdict, pending, task, jira, wt, handles, taken, go, marks>>

\* cleanupPendingApprovalRun: the discard of what waits for approval.
Discard ==
  /\ Spend("stop")
  /\ \E s \in Steps :
       /\ row[s] = "pending_approval"
       /\ SetRow(s, "cancelled")
       /\ pending' = pending \ {s}
  /\ UNCHANGED <<chain, verdict, task, jira, wt, maps, go, marks>>

\* handleReviewSubmit and handlePendingPRSubmit, up to the answer of GitHub:
\* what is pending is submitted, whatever its step does meanwhile.
Approves(q) ==
  /\ At(q, "idle")
  /\ \E s \in pending : GotoAt(q, "approve", s)
  /\ UNCHANGED <<rows, jira, wt, maps, marks, budget>>

\* The cleanup after it: the pending row, then the run and the look for its
\* chain.  Each goes on when the one before has failed, but for the chain.
ApproveMarks(q) ==
  /\ At(q, "approve")
  /\ LET completed == [row EXCEPT ![at[q]] = IF @ = "pending_approval" THEN "completed" ELSE @]
     IN  \/ /\ pending' = pending \ {at[q]}
           /\ row' = completed
           /\ Goto(q, "approved")
           /\ UNCHANGED budget
        \/ /\ Spend("fault")
           /\ \/ UNCHANGED pending /\ row' = completed /\ Goto(q, "approved")
              \/ pending' = pending \ {at[q]} /\ row' \in {row, completed} /\ Leave(q)
  /\ UNCHANGED <<chain, verdict, task, jira, wt, maps, marks>>

\* ResumeChainAfterApproval: only a running chain whose verdict is --final,
\* which a step may have said whose agent still works.
ApproveResumes(q) ==
  /\ At(q, "approved")
  /\ \/ IF chain = "running" /\ verdict[at[q]] = "final"
        THEN /\ Terminate(q, "completed")
             /\ Lost("early", at[Orch] = at[q] /\ pc[Orch] \in {"register", "start", "agent"})
             /\ UNCHANGED budget
        ELSE Leave(q) /\ UNCHANGED <<lapses, budget>>
     \/ Leave(q) /\ Spend("fault") /\ UNCHANGED lapses
  /\ UNCHANGED <<rows, jira, wt, maps, drained>>

\* ResumeAfterYield registers a cancel function, then flips the row.
Responds ==
  /\ At(Resumer, "idle")
  /\ Spend("respond")
  /\ \E s \in Steps :
       /\ row[s] = "awaiting_input"
       /\ s \notin handles
       /\ handles' = handles \cup {s}
       /\ GotoAt(Resumer, "flip", s)
  /\ UNCHANGED <<rows, jira, wt, signals, taken, marks>>

Resumes ==
  /\ At(Resumer, "flip")
  /\ IF row[at[Resumer]] # "awaiting_input"
     THEN Goto(Resumer, "return") /\ UNCHANGED row
     ELSE /\ SetRow(at[Resumer], "running")
          /\ Goto(Resumer, IF Signalled(Resumer) THEN "cancelled"
                           ELSE IF wt = "present" THEN "agent" ELSE "failed")
  /\ UNCHANGED <<chain, verdict, pending, task, jira, wt, maps, marks, budget>>

\* Takeover of the step: the flag and the signal under the mutex ...
TakeoverClaims(q) ==
  /\ At(q, "idle")
  /\ ~jira
  /\ Spend("takeover")
  /\ \E s \in (Steps \cap handles) \ taken :
       /\ row[s] # "initializing"
       /\ taken' = taken \cup {s}
       /\ signals' = signals \cup {s}
       /\ GotoAt(q, "take", s)
  /\ UNCHANGED <<rows, jira, wt, handles, marks>>

\* ... then the move of the worktree and the row, or the rollback of both.
TakeoverEnds(q) ==
  /\ At(q, "take")
  /\ LET movable == wt = "present" /\ row[at[q]] \in Active \cup {"awaiting_input"}
     IN  \/ /\ movable
            /\ wt' = "user"
            /\ SetRow(at[q], "taken_over")
            /\ UNCHANGED budget
         \/ /\ wt' = "gone"
            /\ SetRowIfActive(at[q], "cancelled")
            /\ IF movable THEN Spend("fault") ELSE UNCHANGED budget
  /\ Leave(q)
  /\ UNCHANGED <<chain, verdict, pending, task, jira, maps, marks>>

\* The process dies: rows stay, startup sweeps the worktrees.
Crash ==
  /\ Spend("crash")
  /\ pc' = [a \in Actors |-> "idle"]
  /\ handles' = {}
  /\ signals' = {}
  /\ taken' = {}
  /\ wt' = IF wt = "present" THEN "gone" ELSE wt
  /\ ending' = [a \in Actors |-> "none"]
  /\ at' = [a \in Actors |-> IF a = Orch THEN at[a] ELSE 0]
  /\ UNCHANGED <<rows, jira, marks>>

-----------------------------------------------------------------------------
AgentStep(a) ==
  \/ AgentReturns(a)
  \/ Record(a)
  \/ Park(a)
  \/ Yield(a)
  \/ WriteCancelled(a)
  \/ WriteFailed(a)
  \/ StepReturns(a)

OrchStep ==
  \/ SetupWorks
  \/ SetupFails
  \/ Create
  \/ StepStarts
  \/ StepRegisters
  \/ AgentStarts
  \/ Decide
  \/ OrchExits

TerminateStep(a) == Mark(a) \/ CloseTask(a) \/ Clean(a) \/ Notify(a)

RequestStep(q) ==
  \/ CancelFires(q)
  \/ CancelMisreads(q)
  \/ CancelMarksOnly(q)
  \/ ApproveMarks(q)
  \/ ApproveResumes(q)
  \/ TakeoverEnds(q)

UserRequest ==
  \/ StopStep
  \/ Discard
  \/ Responds
  \/ \E q \in Requests : CancelReads(q) \/ Approves(q) \/ TakeoverClaims(q)

Next ==
  \/ OrchStep
  \/ \E a \in {Orch, Resumer} : AgentWorks(a) \/ AgentStep(a)
  \/ Resumes
  \/ \E a \in Requests \cup {Orch} : TerminateStep(a)
  \/ \E q \in Requests : RequestStep(q)
  \/ UserRequest
  \/ Crash

Spec == Init /\ [][Next]_vars

\* Goroutines and handlers are scheduled, agents and GitHub answer.
Fairness ==
  /\ WF_vars(OrchStep)
  /\ WF_vars(Resumes)
  /\ \A a \in {Orch, Resumer} : WF_vars(AgentStep(a))
  /\ \A a \in Requests \cup {Orch} : WF_vars(TerminateStep(a))
  /\ \A q \in Requests : WF_vars(RequestStep(q))

\* A user who repeats the cancellation until the chain has ended.
Patience == \E q \in Requests : WF_vars(CancelReads(q))

FairSpec == Spec /\ Fairness /\ Patience

-----------------------------------------------------------------------------
(***************************************************************************)
(* Properties.                                                             *)
(***************************************************************************)
TypeOK ==
  /\ chain \in ChainEnded \cup {"absent", "running"}
  /\ row \in [Steps -> Active \cup Paused \cup Ended \cup {"absent"}]
  /\ verdict \in [Steps -> Verdicts]
  /\ pending \subseteq Steps
  /\ task \in {"open", "done"}
  /\ jira \in BOOLEAN /\ wt \in {"none", "present", "user", "gone"}
  /\ handles \subseteq Ids
  /\ signals \subseteq Ids
  /\ taken \subseteq Steps
  /\ pc \in [Actors -> PCs]
  /\ ending \in [Actors -> ChainEnded \cup {"none"}]
  /\ at \in [Actors -> 0 .. StepCount + 1]
  /\ drained \in BOOLEAN /\ lapses \subseteq Lapses
  /\ budget \in [Inputs -> Nat]

Quiet == \A a \in Actors : At(a, "idle")
Crashed == budget["crash"] < Budget["crash"]

\* While the orchestrator's agent works, its worktree is there: a request
\* that ends the chain and cleans up (CancelChain on a parked chain, an
\* approval) never takes a chain for parked whose orchestrator is about to
\* start the next step.  The exceptions are a takeover, a CancelChain that could
\* not read which steps are active, and an approval of what a step left whose
\* agent had said --final and was still at work.
WorktreeUnderAgent ==
  At(Orch, "agent") /\ taken = {} /\ lapses \cap {"steps", "early"} = {} => wt = "present"

\* Whoever ends a chain removes the shared worktree, which no deferred call of
\* a step does (terminateChain's cleanup).  It stays when its removal fails,
\* when the task of a parked chain could not be read, and, for a Jira chain,
\* when a request cleans up.
EndedIsClean ==
  Quiet /\ chain \in ChainEnded /\ lapses \cap {"task", "kept", "rootless"} = {} =>
    wt # "present"

\* Unless the orchestrator left the chain parked, or a crash ended it, it wakes
\* the drainer of the entity's firing queue at the end of a chain that an event
\* has started, also of one that a request has marked under it: only an error
\* of its own mark, or of the read of the entity, loses that call.
EndedIsDrained ==
  Quiet /\ chain \in ChainEnded /\ ~Crashed /\ lapses \cap {"parked", "unmarked", "entity"} = {}
    => drained

\* A step is started only in a running chain all of whose earlier steps have
\* completed and said --advance, whatever approvals, discards, cancels and
\* answers arrived meanwhile (runChain's walk over the steps).  After a
\* misread or an approval during its work the chain may have ended under it.
StepsInOrder ==
  [][\A s \in Steps :
       row[s] = "absent" /\ row'[s] # "absent" =>
         /\ chain = "running" \/ lapses \cap {"steps", "early"} # {}
         /\ \A r \in 1 .. s - 1 : row[r] = "completed" /\ verdict[r] = "advance"]_vars

\* A chain can always be brought to an end: a user who repeats CancelChain
\* ends it whether it runs, is parked, is being resumed, or was left behind
\* by a crash or an error (chain.go, CancelChain).
CancelEnds == chain = "running" ~> chain \in ChainEnded

\* terminateChain: "Aborted / failed / cancelled chains intentionally do NOT
\* mark the task done".
DoneMeansCompleted == task = "done" => chain = "completed"
=============================================================================
