----------------------------- MODULE GradingProofs -----------------------------
(***************************************************************************)
(* Theorems about Grading, for any number of tasks and any budget.         *)
(***************************************************************************)
EXTENDS Grading, TLAPS

Columns == [Tasks -> {"pending", "in_progress", "scored"}]
Lapses == {"omitted", "not reset", "missed", "gave up", "requeued", "crash"}
Inputs == {"user", "fault", "crash"}
Stuck == {"crash", "omitted", "not reset"}

\* A cycle holds each task it has marked, and from the moment it is to save
\* their grades has reset the others.
CycleHolds ==
  \/ lapses \cap Stuck # {}
  \/ \A t \in Tasks : scoring[t] = "in_progress" =>
       /\ scorer \in {"ask", "reset", "save"}
       /\ t \in batch
       /\ scorer = "save" => t \in graded

\* Nothing is graded before the model has answered.
GradedLate == scorer \in {"idle", "mark", "ask"} => graded = {}

IInv == TypeOK /\ GradedLate /\ CycleHolds /\ GradeIsCarried

-----------------------------------------------------------------------------
\* A column with some of its rows set to a value of its type keeps its type.
LEMMA SetType ==
  ASSUME NEW V, NEW column \in [Tasks -> V], NEW tasks, NEW value \in V
  PROVE  Set(column, tasks, value) \in [Tasks -> V]
BY DEF Set

\* Spending an input leaves the budget a budget.
LEMMA SpendType ==
  ASSUME NEW input \in Inputs, budget \in [Inputs -> Nat], Spend(input)
  PROVE  budget' \in [Inputs -> Nat]
BY DEF Spend, Inputs

\* The budget's inputs are the three of its assumption.
LEMMA BudgetDomain == DOMAIN Budget = Inputs
BY GradingAssumption DEF Inputs

-----------------------------------------------------------------------------
\* The initial states satisfy the invariant.
LEMMA InitIInv == Init => IInv
<1> SUFFICES ASSUME Init PROVE IInv
  OBVIOUS
<1>1. TypeOK
  BY GradingAssumption, BudgetDomain DEF Init, TypeOK, Inputs
<1>2. GradedLate /\ CycleHolds /\ GradeIsCarried
  BY DEF Init, GradedLate, CycleHolds, GradeIsCarried
<1> QED
  BY <1>1, <1>2 DEF IInv

-----------------------------------------------------------------------------
(***************************************************************************)
(* One lemma per kind of actor.                                            *)
(***************************************************************************)
\* What the steps of a cycle preserve.
LEMMA CycleStep ==
  ASSUME IInv,
         \/ PickBatch \/ ResetSkipped \/ ResetFails \/ SaveFails
         \/ \E marked \in SUBSET Tasks : MarkScoring(marked)
         \/ \E failed, scored \in SUBSET Tasks : BatchAnswers(failed, scored)
         \/ \E good \in SUBSET Tasks : SaveScores(good)
  PROVE  IInv'
<1> USE BudgetDomain
<1> USE DEF IInv, TypeOK, GradedLate, CycleHolds, GradeIsCarried, Losses, Unclaimed,
        Stuck, rows, deriving, cycle, Inputs
<1>1. CASE PickBatch
  BY <1>1 DEF PickBatch, UnscoredTasks
<1>2. ASSUME NEW marked \in SUBSET Tasks, MarkScoring(marked) PROVE IInv'
  <2>1. scoring' \in Columns
    BY <1>2, SetType DEF MarkScoring, Columns
  <2>2. CycleHolds'
    <3>1. CASE lapses \cap Stuck # {}
      BY <1>2, <3>1 DEF MarkScoring
    <3>2. ASSUME lapses \cap Stuck = {}, NEW t \in Tasks, scoring'[t] = "in_progress"
          PROVE  t \in batch'
      BY <1>2, <3>2 DEF MarkScoring, Set
    <3> QED
      BY <1>2, <3>1, <3>2 DEF MarkScoring
  <2>3. budget' \in [Inputs -> Nat]
    BY <1>2, SpendType DEF MarkScoring
  <2> QED
    BY <1>2, <2>1, <2>2, <2>3 DEF MarkScoring, Columns
<1>3. ASSUME NEW failed \in SUBSET Tasks, NEW scored \in SUBSET Tasks,
             BatchAnswers(failed, scored)
      PROVE  IInv'
  <2>1. lapses \subseteq lapses' /\ lapses' \subseteq lapses \cup {"omitted"}
    BY <1>3 DEF BatchAnswers, Lapse
  <2>2. graded' = scored /\ scored \subseteq batch
        /\ scorer' = IF failed = {} THEN "save" ELSE "reset"
    BY <1>3 DEF BatchAnswers
  <2>3. failed = {} /\ scored # batch => "omitted" \in lapses'
    BY <1>3 DEF BatchAnswers, Lapse
  <2>4. UNCHANGED <<rows, trigger, batch, deriving, budget>>
    BY <1>3 DEF BatchAnswers
  <2>5. CycleHolds'
    BY <2>1, <2>2, <2>3, <2>4
  <2> QED
    BY <2>1, <2>2, <2>4, <2>5
<1>4. CASE ResetSkipped
  <2>1. scoring' \in Columns
    BY <1>4, SetType DEF ResetSkipped, Columns
  <2>2. CycleHolds'
    <3>1. CASE lapses \cap Stuck # {}
      BY <1>4, <3>1 DEF ResetSkipped
    <3>2. ASSUME lapses \cap Stuck = {}, NEW t \in Tasks, scoring'[t] = "in_progress"
          PROVE  t \in batch' /\ t \in graded'
      BY <1>4, <3>2 DEF ResetSkipped, Set
    <3> QED
      BY <1>4, <3>1, <3>2 DEF ResetSkipped
  <2> QED
    BY <1>4, <2>1, <2>2 DEF ResetSkipped, Columns
<1>5. CASE ResetFails
  BY <1>5, SpendType DEF ResetFails
<1>6. ASSUME NEW good \in SUBSET Tasks, SaveScores(good) PROVE IInv'
  <2>1. scoring' \in Columns /\ suited' \in [Tasks -> {"unknown", "low", "high"}]
    BY <1>6, SetType DEF SaveScores, Columns
  <2>2. CycleHolds'
    <3>1. CASE lapses \cap Stuck # {}
      BY <1>6, <3>1 DEF SaveScores
    <3>2. ASSUME lapses \cap Stuck = {}, NEW t \in Tasks
          PROVE  scoring'[t] # "in_progress"
      BY <1>6, <3>2 DEF SaveScores, Set
    <3> QED
      BY <3>1, <3>2
  <2>3. GradeIsCarried'
    <3>1. CASE lapses \cap Losses # {}
      BY <1>6, <3>1 DEF SaveScores
    <3>2. ASSUME lapses \cap Losses = {}, NEW t \in Tasks,
                 suited'[t] = "high", Unclaimed(t)'
          PROVE  t \in (due \cup firing \cup agents)'
      <4>1. UNCHANGED <<holder, firing, agents>> /\ due' = due \cup batch
        BY <1>6 DEF SaveScores
      <4>2. t \in graded \/ suited[t] = "high"
        BY <1>6, <3>2 DEF SaveScores, Set
      <4> QED
        BY <3>2, <4>1, <4>2
    <3> QED
      BY <1>6, <3>1, <3>2 DEF SaveScores
  <2> QED
    BY <1>6, <2>1, <2>2, <2>3 DEF SaveScores, EndCycle, Columns
<1>7. CASE SaveFails
  <2>1. scoring' \in Columns
    BY <1>7, SetType DEF SaveFails, Columns
  <2>2. CycleHolds'
    <3>1. CASE lapses \cap Stuck # {}
      BY <1>7, <3>1 DEF SaveFails
    <3>2. ASSUME lapses \cap Stuck = {}, NEW t \in Tasks
          PROVE  scoring'[t] # "in_progress"
      BY <1>7, <3>2 DEF SaveFails, Set
    <3> QED
      BY <3>1, <3>2
  <2>3. budget' \in [Inputs -> Nat]
    BY <1>7, SpendType DEF SaveFails
  <2> QED
    BY <1>7, <2>1, <2>2, <2>3 DEF SaveFails, EndCycle, Columns
<1> QED
  BY <1>1, <1>2, <1>3, <1>4, <1>5, <1>6, <1>7

\* What the events and the end of a poll preserve.
LEMMA EventStep ==
  ASSUME IInv, PollCompletes \/ \E t \in Tasks : EventOpens(t) \/ EventCloses(t)
  PROVE  IInv'
<1> USE BudgetDomain
<1> USE DEF IInv, TypeOK, GradedLate, CycleHolds, GradeIsCarried, Losses, Unclaimed,
        Stuck, rows, deriving, cycle, Inputs
<1>1. CASE PollCompletes
  BY <1>1 DEF PollCompletes
<1>2. ASSUME NEW t \in Tasks, EventOpens(t) PROVE IInv'
  BY <1>2 DEF EventOpens
<1>3. ASSUME NEW t \in Tasks, EventCloses(t) PROVE IInv'
  BY <1>3 DEF EventCloses
<1> QED
  BY <1>1, <1>2, <1>3

\* What the re-derivation preserves.
LEMMA DeriveStep ==
  ASSUME IInv,
         \E t \in Tasks : Derive(t) \/ Fire(t) \/ DeriveGivesUp(t) \/ FireGivesUp(t)
  PROVE  IInv'
<1> USE BudgetDomain
<1> USE DEF IInv, TypeOK, GradedLate, CycleHolds, GradeIsCarried, Losses, Unclaimed,
        Stuck, rows, deriving, cycle, Inputs, Lapse
<1>1. ASSUME NEW t \in Tasks, Derive(t) PROVE IInv'
  <2>1. GradeIsCarried'
    <3>1. CASE Suits(t) \/ suited[t] # "high" \/ ~Unclaimed(t)
      BY <1>1, <3>1 DEF Derive, Suits
    <3>2. CASE suited[t] = "high" /\ status[t] # "queued"
      BY <1>1, <3>2 DEF Derive
    <3> QED
      BY <3>1, <3>2 DEF Suits
  <2>2. /\ lapses' \subseteq lapses \cup {"missed"} /\ lapses \subseteq lapses'
        /\ due' \subseteq Tasks /\ firing' \subseteq Tasks
        /\ UNCHANGED <<rows, agents, trigger, cycle, budget>>
    BY <1>1 DEF Derive
  <2> QED
    BY <2>1, <2>2
<1>2. ASSUME NEW t \in Tasks, Fire(t) PROVE IInv'
  <2>1. UNCHANGED <<scoring, suited, trigger, cycle, due, lapses, budget>>
        /\ firing' = firing \ {t} /\ agents' = agents \cup {t}
    BY <1>2 DEF Fire
  <2>2. CASE /\ holder' = [holder EXCEPT ![t] = "bot"]
             /\ status' = [status EXCEPT ![t] = "queued"]
    <3>1. GradeIsCarried'
      BY <2>1, <2>2
    <3> QED
      BY <2>1, <2>2, <3>1
  <2>3. CASE UNCHANGED <<holder, status>>
    <3>1. GradeIsCarried'
      BY <2>1, <2>3
    <3> QED
      BY <2>1, <2>3, <3>1
  <2> QED
    BY <1>2, <2>2, <2>3, Zenon DEF Fire
<1>3. ASSUME NEW t \in Tasks, DeriveGivesUp(t) PROVE IInv'
  <2>1. /\ lapses' \subseteq lapses \cup {"gave up"} /\ lapses \subseteq lapses'
        /\ due' = due \ {t}
        /\ UNCHANGED <<rows, firing, agents, trigger, cycle, budget>>
    BY <1>3 DEF DeriveGivesUp
  <2>2. suited[t] = "high" /\ Unclaimed(t) => "gave up" \in lapses'
    BY <1>3 DEF DeriveGivesUp
  <2>3. GradeIsCarried'
    BY <2>1, <2>2
  <2> QED
    BY <2>1, <2>3
<1>4. ASSUME NEW t \in Tasks, FireGivesUp(t) PROVE IInv'
  <2>1. /\ lapses' \subseteq lapses \cup {"gave up"} /\ lapses \subseteq lapses'
        /\ firing' = firing \ {t}
        /\ UNCHANGED <<rows, due, agents, trigger, cycle, budget>>
    BY <1>4 DEF FireGivesUp
  <2>2. suited[t] = "high" /\ Unclaimed(t) => "gave up" \in lapses'
    BY <1>4 DEF FireGivesUp
  <2>3. GradeIsCarried'
    BY <2>1, <2>2
  <2> QED
    BY <2>1, <2>3
<1> QED
  BY <1>1, <1>2, <1>3, <1>4

\* What the users and a crash preserve.
LEMMA UserStep ==
  ASSUME IInv,
         \/ Crash
         \/ \E t \in Tasks : \/ UserClaims(t) \/ UserDismisses(t)
                             \/ UserSnoozes(t) \/ UserRequeues(t)
  PROVE  IInv'
<1> USE BudgetDomain
<1> USE DEF IInv, TypeOK, GradedLate, CycleHolds, GradeIsCarried, Losses, Unclaimed,
        Stuck, rows, deriving, cycle, Inputs, Lapse
<1>1. CASE Crash
  BY <1>1, SpendType DEF Crash, EndCycle
<1>2. ASSUME NEW t \in Tasks, UserClaims(t) PROVE IInv'
  BY <1>2, SpendType DEF UserClaims
<1>3. ASSUME NEW t \in Tasks, UserDismisses(t) PROVE IInv'
  BY <1>3, SpendType DEF UserDismisses
<1>4. ASSUME NEW t \in Tasks, UserSnoozes(t) PROVE IInv'
  BY <1>4, SpendType DEF UserSnoozes
<1>5. ASSUME NEW t \in Tasks, UserRequeues(t) PROVE IInv'
  <2>1. GradeIsCarried'
    <3>1. CASE suited[t] = "high" \/ lapses \cap Losses # {}
      BY <1>5, <3>1 DEF UserRequeues
    <3>2. CASE suited[t] # "high" /\ lapses \cap Losses = {}
      BY <1>5, <3>2 DEF UserRequeues
    <3> QED
      BY <3>1, <3>2
  <2>2. /\ lapses' \subseteq lapses \cup {"requeued"} /\ lapses \subseteq lapses'
        /\ status' = [status EXCEPT ![t] = "queued"] /\ holder' = [holder EXCEPT ![t] = "nobody"]
        /\ UNCHANGED <<scoring, suited, trigger, cycle, deriving>>
    BY <1>5 DEF UserRequeues
  <2>3. budget' \in [Inputs -> Nat]
    BY <1>5, SpendType DEF UserRequeues
  <2> QED
    BY <2>1, <2>2, <2>3
<1> QED
  BY <1>1, <1>2, <1>3, <1>4, <1>5

-----------------------------------------------------------------------------
\* Every step preserves the invariant.
LEMMA StepIInv == IInv /\ [Next]_vars => IInv'
<1> SUFFICES ASSUME IInv, [Next]_vars PROVE IInv'
  OBVIOUS
<1>1. CASE Score
  <2>1. ASSUME MarkScoring(batch) PROVE IInv'
    BY <2>1, CycleStep DEF IInv, TypeOK
  <2> QED
    BY <1>1, <2>1, CycleStep DEF Score
<1>2. CASE PollCompletes
  BY <1>2, EventStep
<1>3. CASE Disturbance
  BY <1>3, CycleStep, EventStep, DeriveStep, UserStep DEF Disturbance
<1>4. CASE \E t \in Tasks : Derive(t) \/ Fire(t)
  BY <1>4, DeriveStep
<1>5. CASE UNCHANGED vars
  BY <1>5 DEF vars, rows, cycle, deriving, IInv, TypeOK, GradedLate, CycleHolds,
              GradeIsCarried, Losses, Unclaimed
<1> QED
  BY <1>1, <1>2, <1>3, <1>4, <1>5 DEF Next

\* The variables keep their types, whatever the model answers and whichever
\* statements fail (internal/ai/runner.go:130-238).
THEOREM GradingTypeOK == Spec => []TypeOK
<1>1. IInv => TypeOK
  BY DEF IInv
<1> QED
  BY InitIInv, StepIInv, <1>1, PTL DEF Spec

\* A task is in progress only in the hands of the cycle that will grade or
\* reset it, unless the process crashed, an answer left a task out or a reset
\* failed (internal/ai/runner.go:156-238).
THEOREM GradingScoringIsHeld == Spec => []ScoringIsHeld
<1>1. IInv => ScoringIsHeld
  BY DEF IInv, CycleHolds, ScoringIsHeld, Stuck
<1> QED
  BY InitIInv, StepIInv, <1>1, PTL DEF Spec

\* From the statement that saves it to the one that acts on it, a grade that a
\* trigger waits for is never dropped, but for the four losses that are named
\* (internal/ai/runner.go, internal/routing/router.go reDeriveTask and
\* tryAutoDelegate).
THEOREM GradingGradeIsCarried == Spec => []GradeIsCarried
<1>1. IInv => GradeIsCarried
  BY DEF IInv
<1> QED
  BY InitIInv, StepIInv, <1>1, PTL DEF Spec
=============================================================================
