-------------------------------- MODULE Grading --------------------------------
(***************************************************************************)
(* How a task gets its grade, and the agent that waits for it: the scoring *)
(* cycle of one organisation (ai.Runner, internal/ai), which asks a model  *)
(* how suited each new task is for an agent, and the re-derivation after   *)
(* it (Router.ReDeriveAfterScoring), which fires the triggers whose        *)
(* min_autonomy_suitability the grade meets.  Events and users change the  *)
(* same rows meanwhile.                                                    *)
(*                                                                         *)
(* Every task has a trigger that waits for the grade.  Whether its agent   *)
(* starts at once or as a queued firing is FiringQueue's.                  *)
(***************************************************************************)
EXTENDS Naturals, FiniteSets

CONSTANTS Tasks,  \* rows of the tasks table
          Budget  \* how many inputs of each kind a behaviour has

ASSUME GradingAssumption ==
  /\ IsFiniteSet(Tasks)
  /\ Budget \in [{"user", "fault", "crash"} -> Nat]

VARIABLES
  status,   \* tasks.status; "over" for done and dismissed
  scoring,  \* tasks.scoring_status
  suited,   \* tasks.autonomy_suitability, against the trigger's threshold
  holder,   \* the claim columns
  trigger,  \* the buffered trigger channel of the runner
  scorer,   \* where the cycle is
  batch,    \* the tasks of the cycle
  graded,   \* those the model graded
  due,      \* tasks a re-derivation has still to read
  firing,   \* tasks whose row it has read, and found fit
  agents,   \* tasks whose trigger has fired or has a firing in the queue
  lapses,   \* kinds of loss this behaviour has met
  budget

rows == <<status, scoring, suited, holder>>
cycle == <<scorer, batch, graded>>
deriving == <<due, firing, agents>>
vars == <<rows, trigger, cycle, deriving, lapses, budget>>

Spend(input) ==
  /\ budget[input] > 0
  /\ budget' = [budget EXCEPT ![input] = @ - 1]
Lapse(kind, when) == lapses' = lapses \cup (IF when THEN {kind} ELSE {})
Set(column, tasks, value) == [t \in Tasks |-> IF t \in tasks THEN value ELSE column[t]]

Init ==
  /\ status = [t \in Tasks |-> "none"]
  /\ scoring = [t \in Tasks |-> "pending"]
  /\ suited = [t \in Tasks |-> "unknown"]
  /\ holder = [t \in Tasks |-> "nobody"]
  /\ trigger = FALSE
  /\ scorer = "idle" /\ batch = {} /\ graded = {}
  /\ due = {} /\ firing = {} /\ agents = {}
  /\ lapses = {}
  /\ budget = Budget

-----------------------------------------------------------------------------
(***************************************************************************)
(* Events: HandleEvent opens a row, or bumps an open one, which wakes it   *)
(* if it was snoozed; a trigger with a threshold is left to the            *)
(* re-derivation.                                                          *)
(***************************************************************************)
EventOpens(t) ==
  /\ status[t] \notin {"over"}
  /\ status' = [status EXCEPT ![t] = IF @ \in {"none", "snoozed"} THEN "queued" ELSE @]
  /\ trigger' = TRUE
  /\ UNCHANGED <<scoring, suited, holder, cycle, deriving, lapses, budget>>

\* Close and CloseAllForEntity.
EventCloses(t) ==
  /\ status[t] \in {"queued", "snoozed"}
  /\ status' = [status EXCEPT ![t] = "over"]
  /\ UNCHANGED <<scoring, suited, holder, trigger, cycle, deriving, lapses, budget>>

\* The scorer's subscription to the end of a poll; the trigger is merged with
\* a pending one.
PollCompletes ==
  /\ ~trigger
  /\ trigger' = TRUE
  /\ UNCHANGED <<rows, cycle, deriving, lapses, budget>>

-----------------------------------------------------------------------------
(***************************************************************************)
(* Runner.run, one cycle.                                                  *)
(***************************************************************************)
UnscoredTasks == {t \in Tasks : status[t] = "queued" /\ scoring[t] = "pending"}

PickBatch ==
  /\ scorer = "idle" /\ trigger
  /\ trigger' = FALSE
  /\ batch' = UnscoredTasks
  /\ scorer' = IF UnscoredTasks = {} THEN "idle" ELSE "mark"
  /\ UNCHANGED <<rows, graded, deriving, lapses, budget>>

\* One UPDATE per task; an error ends the loop and nothing else.
MarkScoring(marked) ==
  /\ scorer = "mark"
  /\ marked \subseteq batch
  /\ IF marked = batch THEN UNCHANGED budget ELSE Spend("fault")
  /\ scoring' = Set(scoring, marked, "in_progress")
  /\ scorer' = "ask"
  /\ UNCHANGED <<status, suited, holder, trigger, batch, graded, deriving, lapses>>

\* Mutant: the skipped tasks are not reset.
BatchAnswersOnly(failed, scored) ==
  /\ scorer = "ask"
  /\ failed \subseteq batch /\ scored \subseteq batch \ failed
  /\ graded' = scored
  /\ scorer' = "save"
  /\ Lapse("omitted", failed = {} /\ scored # batch)
  /\ UNCHANGED <<rows, trigger, batch, deriving, budget>>

\* ScoreTasks: the calls for the tasks of failed return an error; the answers
\* to the others may leave tasks out, which are not counted as skipped.
BatchAnswers(failed, scored) ==
  /\ scorer = "ask"
  /\ failed \subseteq batch /\ scored \subseteq batch \ failed
  /\ graded' = scored
  /\ scorer' = IF failed = {} THEN "save" ELSE "reset"
  /\ Lapse("omitted", failed = {} /\ scored # batch)
  /\ UNCHANGED <<rows, trigger, batch, deriving, budget>>

\* ResetScoringToPending of what was not scored.
ResetSkipped ==
  /\ scorer = "reset"
  /\ scoring' = Set(scoring, batch \ graded, "pending")
  /\ scorer' = "save"
  /\ UNCHANGED <<status, suited, holder, trigger, batch, graded, deriving, lapses, budget>>

\* Its error is logged.
ResetFails ==
  /\ scorer = "reset"
  /\ Spend("fault")
  /\ scorer' = "save"
  /\ lapses' = lapses \cup {"not reset"}
  /\ UNCHANGED <<rows, trigger, batch, graded, deriving>>

EndCycle == scorer' = "idle" /\ batch' = {} /\ graded' = {}

\* Mutant: the re-derivation is not told.
SaveScoresQuietly(good) ==
  /\ scorer = "save"
  /\ good \subseteq graded
  /\ scoring' = Set(scoring, graded, "scored")
  /\ suited' = Set(Set(suited, graded, "low"), good, "high")
  /\ EndCycle
  /\ UNCHANGED <<status, holder, trigger, deriving, lapses, budget>>

\* UpdateTaskScores, whatever the rows have become, and OnScoringCompleted
\* with every task of the batch.
SaveScores(good) ==
  /\ scorer = "save"
  /\ good \subseteq graded
  /\ scoring' = Set(scoring, graded, "scored")
  /\ suited' = Set(Set(suited, graded, "low"), good, "high")
  /\ due' = due \cup batch
  /\ EndCycle
  /\ UNCHANGED <<status, holder, trigger, firing, agents, lapses, budget>>

\* Mutant: the tasks of the cycle stay in progress.
SaveFailsQuietly ==
  /\ scorer = "save"
  /\ Spend("fault")
  /\ EndCycle
  /\ UNCHANGED <<rows, trigger, deriving, lapses>>

SaveFails ==
  /\ scorer = "save"
  /\ Spend("fault")
  /\ scoring' = Set(scoring, batch, "pending")
  /\ EndCycle
  /\ UNCHANGED <<status, suited, holder, trigger, deriving, lapses>>

-----------------------------------------------------------------------------
(***************************************************************************)
(* reDeriveTask, in a goroutine per cycle; the order of its tasks is left  *)
(* open.                                                                   *)
(***************************************************************************)
Unclaimed(t) == holder[t] = "nobody"
Suits(t) == status[t] = "queued" /\ Unclaimed(t) /\ suited[t] = "high"

\* A task that suits, but is snoozed or over just now, is not read again.
Derive(t) ==
  /\ t \in due
  /\ due' = due \ {t}
  /\ firing' = IF Suits(t) THEN firing \cup {t} ELSE firing
  /\ Lapse("missed", suited[t] = "high" /\ status[t] # "queued")
  /\ UNCHANGED <<rows, agents, trigger, cycle, budget>>

\* It returns without a word: the team's switch is off, or the read of the
\* task, of its handlers or of its event failed.
DeriveGivesUp(t) ==
  /\ t \in due
  /\ due' = due \ {t}
  /\ Lapse("gave up", suited[t] = "high" /\ Unclaimed(t))
  /\ UNCHANGED <<rows, firing, agents, trigger, cycle, budget>>

\* tryAutoDelegate fires or enqueues, whatever the row has become.  Its last
\* statement, StampAgentClaimIfUnclaimed, wakes the task of a user who snoozed
\* it since; it may fail, and a firing that is queued already is not stamped.
Fire(t) ==
  /\ t \in firing
  /\ firing' = firing \ {t}
  /\ agents' = agents \cup {t}
  /\ \/ /\ Unclaimed(t) /\ status[t] # "over"
        /\ holder' = [holder EXCEPT ![t] = "bot"]
        /\ status' = [status EXCEPT ![t] = "queued"]
     \/ UNCHANGED <<holder, status>>
  /\ UNCHANGED <<scoring, suited, trigger, cycle, due, lapses, budget>>

\* It returns before: the bot is switched off for the team, the breaker has
\* tripped, or a read, the enqueue or the start of the run failed.
FireGivesUp(t) ==
  /\ t \in firing
  /\ firing' = firing \ {t}
  /\ Lapse("gave up", suited[t] = "high" /\ Unclaimed(t))
  /\ UNCHANGED <<rows, due, agents, trigger, cycle, budget>>

-----------------------------------------------------------------------------
(***************************************************************************)
(* The users of the board, from cards that may be out of date.             *)
(***************************************************************************)
\* ClaimQueuedForUser.
UserClaims(t) ==
  /\ Spend("user")
  /\ status[t] \in {"queued", "snoozed"} /\ Unclaimed(t)
  /\ holder' = [holder EXCEPT ![t] = "user"]
  /\ status' = [status EXCEPT ![t] = "queued"]
  /\ UNCHANGED <<scoring, suited, trigger, cycle, deriving, lapses>>

\* RecordSwipe, of a dismissal.
UserDismisses(t) ==
  /\ Spend("user")
  /\ status[t] # "none"
  /\ status' = [status EXCEPT ![t] = "over"]
  /\ UNCHANGED <<scoring, suited, holder, trigger, cycle, deriving, lapses>>

\* SnoozeTask looks at the claim, and RecordSwipe of a snooze at nothing.
UserSnoozes(t) ==
  /\ Spend("user")
  /\ status[t] # "none"
  /\ status' = [status EXCEPT ![t] = "snoozed"]
  /\ UNCHANGED <<scoring, suited, holder, trigger, cycle, deriving, lapses>>

\* RequeueTask and UndoLastSwipe look at neither.
UserRequeues(t) ==
  /\ Spend("user")
  /\ status[t] # "none"
  /\ status' = [status EXCEPT ![t] = "queued"]
  /\ holder' = [holder EXCEPT ![t] = "nobody"]
  /\ Lapse("requeued", suited[t] = "high")
  /\ UNCHANGED <<scoring, suited, trigger, cycle, deriving>>

-----------------------------------------------------------------------------
\* Only the rows survive, and nothing resets those in progress.
Crash ==
  /\ Spend("crash")
  /\ trigger' = FALSE
  /\ EndCycle
  /\ due' = {} /\ firing' = {}
  /\ lapses' = lapses \cup {"crash"}
  /\ UNCHANGED <<rows, agents>>

-----------------------------------------------------------------------------
AnswersInFull == BatchAnswers({}, batch)

Score ==
  \/ PickBatch \/ MarkScoring(batch) \/ ResetSkipped
  \/ \E failed, scored \in SUBSET Tasks : BatchAnswers(failed, scored)
  \/ \E good \in SUBSET Tasks : SaveScores(good)

Disturbance ==
  \/ \E marked \in SUBSET Tasks : MarkScoring(marked)
  \/ ResetFails \/ SaveFails \/ Crash
  \/ \E t \in Tasks : \/ EventOpens(t) \/ EventCloses(t)
                      \/ DeriveGivesUp(t) \/ FireGivesUp(t)
                      \/ UserClaims(t) \/ UserDismisses(t)
                      \/ UserSnoozes(t) \/ UserRequeues(t)

Next ==
  \/ Score \/ PollCompletes \/ Disturbance
  \/ \E t \in Tasks : Derive(t) \/ Fire(t)

Spec == Init /\ [][Next]_vars

\* The polls go on, the goroutines run, and again and again the model answers
\* in full.
Fairness ==
  /\ WF_vars(PollCompletes) /\ WF_vars(Score) /\ SF_vars(AnswersInFull)
  /\ \A t \in Tasks : WF_vars(Derive(t)) /\ WF_vars(Fire(t))

FairSpec == Spec /\ Fairness

-----------------------------------------------------------------------------
TypeOK ==
  /\ status \in [Tasks -> {"none", "queued", "snoozed", "over"}]
  /\ scoring \in [Tasks -> {"pending", "in_progress", "scored"}]
  /\ suited \in [Tasks -> {"unknown", "low", "high"}]
  /\ holder \in [Tasks -> {"nobody", "user", "bot"}]
  /\ trigger \in BOOLEAN /\ scorer \in {"idle", "mark", "ask", "reset", "save"}
  /\ batch \subseteq Tasks /\ graded \subseteq batch
  /\ due \subseteq Tasks /\ firing \subseteq Tasks /\ agents \subseteq Tasks
  /\ lapses \subseteq {"omitted", "not reset", "missed", "gave up", "requeued", "crash"}
  /\ budget \in [DOMAIN Budget -> Nat]

\* A task is in progress only while a cycle holds it that will grade it or
\* reset it (runner.go:156-238), so that none is left behind: but for a crash,
\* an answer that left it out, and a reset that failed.
ScoringIsHeld ==
  \/ lapses \cap {"crash", "omitted", "not reset"} # {}
  \/ \A t \in Tasks : scoring[t] = "in_progress" => t \in batch

\* A grade that a trigger waited for is never dropped on its way: while nobody
\* holds the task and no agent was sent for it, a re-derivation has still to
\* read it or to fire for it (runner.go:224-245, router.go:943-985), through
\* every claim, snooze, bump and later cycle; but for a crash, a requeue after
\* the grade, a task that was snoozed or over when it was read, and a
\* re-derivation that gave up on it (router.go:447-563, 959-1015).
Losses == {"crash", "requeued", "missed", "gave up"}
GradeIsCarried ==
  \/ lapses \cap Losses # {}
  \/ \A t \in Tasks :
       suited[t] = "high" /\ Unclaimed(t) => t \in due \cup firing \cup agents

-----------------------------------------------------------------------------
\* A task that stays queued is graded (scores.go:26-32).
TaskIsScored ==
  \A t \in Tasks :
    []<>(\/ status[t] # "queued" \/ scoring[t] = "scored"
         \/ lapses \cap {"crash", "omitted", "not reset"} # {})

\* The trigger that waited for the grade of a task fires (router.go:379-398,
\* 943-955), however long the task was snoozed: nothing stays for ever what
\* the trigger is for.
DeferredTriggerFires ==
  \A t \in Tasks :
    []<>(~Suits(t) \/ t \in agents \/ lapses \cap {"crash", "requeued", "gave up"} # {})

\* It fires, unless a re-derivation gave up on it or found it snoozed or over.
GradeReachesAgent ==
  \A t \in Tasks : []<>(~Suits(t) \/ t \in agents \/ lapses \cap Losses # {})
=============================================================================
