------------------------- MODULE FiringQueueProofs -------------------------
(***************************************************************************)
(* Theorems about FiringQueue, for any number of entities, tasks, triggers *)
(* and goroutines and for any budget.                                      *)
(***************************************************************************)
EXTENDS FiringQueue, FiniteSetTheorems, SequenceTheorems, TLAPS

-----------------------------------------------------------------------------
(***************************************************************************)
(* Types of the rows and locals that the actions build.                    *)
(***************************************************************************)
LEMMA Defaults ==
  /\ SomeTask \in Tasks
  /\ SomeTrigger \in Triggers
  /\ AutoIdle \in AutoLocals
  /\ DrainIdle \in DrainLocals
  /\ UserIdle \in UserLocals
<1>1. SomeTask \in Tasks
  BY TaskAssumption DEF SomeTask
<1>2. SomeTrigger \in Triggers
  BY TriggerAssumption DEF SomeTrigger
<1> QED
  BY <1>1, <1>2, TaskAssumption
     DEF AutoIdle, DrainIdle, UserIdle, AutoLocals, DrainLocals, UserLocals

\* The locals with which a loop over triggers starts.
LEMMA TryAllType ==
  ASSUME NEW t \in Tasks, NEW todo \in SUBSET Triggers
  PROVE  TryAll(t, todo) \in AutoLocals
BY Defaults DEF TryAll, AutoIdle, AutoLocals

\* Replacing an element of a sequence.
LEMMA SeqExcept ==
  ASSUME NEW S, NEW q \in Seq(S), NEW i, NEW x,
         i \in DOMAIN q => x \in S
  PROVE  [q EXCEPT ![i] = x] \in Seq(S)
<1>1. CASE i \in DOMAIN q
  BY <1>1, ExceptSeq
<1>2. CASE i \notin DOMAIN q
  <2>1. [q EXCEPT ![i] = x] = q
    BY <1>2
  <2> QED
    BY <2>1
<1> QED
  BY <1>1, <1>2

\* A function on 1..n is a sequence.
LEMMA SeqMap ==
  ASSUME NEW S, NEW q \in Seq(S), NEW m,
         m = [i \in DOMAIN q |-> m[i]],
         \A i \in DOMAIN q : m[i] \in S
  PROVE  m \in Seq(S)
BY IsASeq, LenProperties

\* Sets of runs are finite, so the drains a Cancel starts can be counted.
LEMMA RunsFinite ==
  ASSUME TypeOK, NEW R, R \subseteq DOMAIN runs
  PROVE  Cardinality(R) \in Nat
<1>1. DOMAIN runs = 1..Len(runs) /\ Len(runs) \in Nat
  BY LenProperties DEF TypeOK
<1>2. IsFiniteSet(1..Len(runs))
  BY <1>1, FS_Interval
<1>3. IsFiniteSet(R)
  BY <1>1, <1>2, FS_Subset
<1> QED
  BY <1>3, FS_CardinalityType

\* Cancel keeps rows and counters typed.
LEMMA CancelAllType ==
  ASSUME TypeOK, NEW R, CancelAll(R)
  PROVE  /\ runs' \in Seq(Run)
         /\ DOMAIN runs' = DOMAIN runs
         /\ wakeups' \in [Entities -> Nat]
<1>1. \A r \in DOMAIN runs : runs[r] \in Run
  BY ElementOfSeq, LenProperties DEF TypeOK
<1>2. \A r \in DOMAIN runs : CancelledRow(r) \in Run
  BY <1>1 DEF CancelledRow, Run
<1>3. runs' \in Seq(Run)
  BY <1>1, <1>2, SeqMap DEF CancelAll, TypeOK
<1>4. ASSUME NEW e \in Entities
      PROVE  Cardinality({r \in R \cap ActiveAutoRuns(e) : ~runs[r].live}) \in Nat
  BY RunsFinite DEF ActiveAutoRuns
<1>5. \A e \in Entities : wakeups[e] \in Nat
  BY DEF TypeOK
<1>6. wakeups' \in [Entities -> Nat]
  <2> DEFINE n(e) == Cardinality({r \in R \cap ActiveAutoRuns(e) : ~runs[r].live})
  <2>1. \A e \in Entities : n(e) \in Nat
    BY <1>4
  <2>2. wakeups' = [e \in Entities |-> wakeups[e] + n(e)]
    BY DEF CancelAll
  <2> HIDE DEF n
  <2> QED
    BY <1>5, <2>1, <2>2
<1> QED
  BY <1>3, <1>6 DEF CancelAll

\* Delegate appends a run.
LEMMA DelegatedType ==
  ASSUME TypeOK, NEW t \in Tasks, NEW g \in Triggers,
         NEW origin \in {"event", "manual"}, NEW src \in Nat
  PROVE  /\ Delegated(t, g, origin, src) \in Seq(Run)
         /\ Len(runs) + 1 \in Nat
BY AppendProperties, LenProperties DEF Delegated, Run, TypeOK

\* A budget stays a budget.
LEMMA SpendType ==
  ASSUME TypeOK, NEW input \in Inputs, NEW n \in Nat, SpendSome(input, n)
  PROVE  budget' \in [Inputs -> Nat]
BY DEF SpendSome, TypeOK

\* One unit of it.
LEMMA SpendOneType ==
  ASSUME TypeOK, NEW input \in Inputs, Spend(input)
  PROVE  budget' \in [Inputs -> Nat]
BY SpendType DEF Spend

-----------------------------------------------------------------------------
(***************************************************************************)
(* Every action preserves the types.                                       *)
(***************************************************************************)
LEMMA EventType ==
  ASSUME TypeOK, NEW t \in Tasks, NEW M \in SUBSET Triggers,
         \/ HandleEvent(t, M)
         \/ \E th \in Derivers : ReDerive(th, t, M)
         \/ CloseTask(t)
         \/ CloseEntity(t)
  PROVE  TypeOK'
<1>1. 1 + Cardinality(M) \in Nat
  BY TriggerAssumption, FS_Subset, FS_CardinalityType
<1>2. CASE HandleEvent(t, M)
  <2>1. budget' \in [Inputs -> Nat]
    BY <1>1, <1>2, SpendType DEF HandleEvent, Inputs
  <2>2. auto' \in [RouterThreads -> AutoLocals]
    BY <1>2, TryAllType DEF HandleEvent, Immediate, TypeOK
  <2>3. task' \in [Tasks -> TaskRow]
    BY <1>2 DEF HandleEvent, TypeOK, TaskRow
  <2> QED
    BY <1>2, <2>1, <2>2, <2>3 DEF HandleEvent, TypeOK
<1>3. CASE \E th \in Derivers : ReDerive(th, t, M)
  <2> PICK th \in Derivers : ReDerive(th, t, M)
    BY <1>3
  <2>1. budget' \in [Inputs -> Nat]
    BY SpendOneType DEF ReDerive, Inputs
  <2>2. auto' \in [RouterThreads -> AutoLocals]
    BY TryAllType DEF ReDerive, TypeOK
  <2> QED
    BY <2>1, <2>2 DEF ReDerive, TypeOK
<1>4. CASE CloseTask(t)
  <2>1. budget' \in [Inputs -> Nat]
    BY <1>4, SpendOneType DEF CloseTask, Inputs
  <2>2. auto' \in [RouterThreads -> AutoLocals]
    BY <1>4, Defaults DEF CloseTask, TypeOK, AutoLocals
  <2>3. runs' \in Seq(Run) /\ wakeups' \in [Entities -> Nat]
    BY <1>4, CancelAllType DEF CloseTask
  <2> QED
    BY <1>4, <2>1, <2>2, <2>3 DEF CloseTask, TypeOK
<1>5. CASE CloseEntity(t)
  <2>1. budget' \in [Inputs -> Nat]
    BY <1>5, SpendOneType DEF CloseEntity, Inputs
  <2>2. auto' \in [RouterThreads -> AutoLocals]
    BY <1>5, Defaults DEF CloseEntity, TypeOK, AutoLocals
  <2>3. runs' \in Seq(Run) /\ wakeups' \in [Entities -> Nat]
    BY <1>5, CancelAllType DEF CloseEntity
  <2> QED
    BY <1>5, <2>1, <2>2, <2>3 DEF CloseEntity, TypeOK
<1> QED
  BY <1>2, <1>3, <1>4, <1>5

\* Closing a task or an entity.
LEMMA FinishCloseType ==
  ASSUME TypeOK, FinishClose
  PROVE  TypeOK'
<1>1. \A t \in Tasks : ClosedRow(t) \in TaskRow
  BY DEF ClosedRow, TypeOK, TaskRow
<1> DEFINE t == auto[Handler].task
<1> DEFINE e == EntityOf[t]
<1> DEFINE tasks == [u \in Tasks |-> IF EntityOf[u] = e THEN ClosedRow(u) ELSE task[u]]
<1>2. t \in Tasks
  BY DEF TypeOK, RouterThreads, AutoLocals
<1>3. [task EXCEPT ![t] = ClosedRow(t)] \in [Tasks -> TaskRow]
  BY <1>1, <1>2 DEF TypeOK
<1>4. tasks \in [Tasks -> TaskRow]
  BY <1>1 DEF TypeOK
<1>5. [entity EXCEPT ![e] = "closed"] \in [Entities -> {"active", "closed"}]
  BY DEF TypeOK
<1>6. \/ task' = [task EXCEPT ![t] = ClosedRow(t)] /\ entity' = entity
      \/ task' = tasks /\ entity' = [entity EXCEPT ![e] = "closed"]
  BY DEF FinishClose
<1>7. entity' \in [Entities -> {"active", "closed"}] /\ task' \in [Tasks -> TaskRow]
  BY <1>3, <1>4, <1>5, <1>6 DEF TypeOK
<1>8. auto' \in [RouterThreads -> AutoLocals]
  BY Defaults DEF FinishClose, TypeOK
<1> QED
  BY <1>7, <1>8 DEF FinishClose, TypeOK

\* The gate, the queue, the direct fire and the claim stamp.
LEMMA RouterType ==
  ASSUME TypeOK, NEW th \in RouterThreads, RouterStep(th)
  PROVE  TypeOK'
<1>1. auto[th] \in AutoLocals
  BY DEF TypeOK
<1>2. auto[th].task \in Tasks /\ auto[th].trigger \in Triggers /\ auto[th].todo \subseteq Triggers
  BY <1>1 DEF AutoLocals
<1>3. AutoNext(th) => auto' \in [RouterThreads -> AutoLocals]
  BY <1>2, TryAllType DEF AutoNext, TypeOK
<1>4. \A pc \in {"enqueue", "fire", "stamp"} :
        AutoGoto(th, pc) => auto' \in [RouterThreads -> AutoLocals]
  <2> SUFFICES ASSUME NEW pc \in {"enqueue", "fire", "stamp"}, AutoGoto(th, pc)
               PROVE  auto' \in [RouterThreads -> AutoLocals]
    OBVIOUS
  <2>1. [auto[th] EXCEPT !.pc = pc] \in AutoLocals
    BY <1>1 DEF AutoLocals
  <2>2. auto' = [auto EXCEPT ![th] = [auto[th] EXCEPT !.pc = pc]]
    BY DEF AutoGoto
  <2> QED
    BY <2>1, <2>2 DEF TypeOK
<1>5. CASE \E g \in Triggers : CheckActive(th, g)
  <2> PICK g \in Triggers : CheckActive(th, g)
    BY <1>5
  <2>1. TryAll(auto[th].task, auto[th].todo \ {g}) \in AutoLocals
    BY <1>2, TryAllType
  <2>2. \A pc \in {"enqueue", "queue"} :
          [pc |-> pc, task |-> auto[th].task, trigger |-> g, todo |-> auto[th].todo \ {g}]
            \in AutoLocals
    BY <1>2 DEF AutoLocals
  <2>3. \E row \in AutoLocals : auto' = [auto EXCEPT ![th] = row]
    BY <2>1, <2>2 DEF CheckActive
  <2>4. auto' \in [RouterThreads -> AutoLocals]
    BY <2>3 DEF TypeOK
  <2> QED
    BY <2>4 DEF CheckActive, TypeOK
<1>6. CASE CheckQueue(th)
  BY <1>4, <1>6 DEF CheckQueue, TypeOK
<1>7. CASE Enqueue(th)
  <2> DEFINE new == [task |-> auto[th].task, trigger |-> auto[th].trigger,
                     status |-> "pending", reason |-> "none", run |-> 0]
  <2>1. new \in Firing
    BY <1>2 DEF Firing
  <2>2. firings' = firings \/ firings' = Append(firings, new)
    BY <1>7, Zenon DEF Enqueue
  <2>3. firings \in Seq(Firing)
    BY DEF TypeOK
  <2> HIDE DEF new
  <2>4. firings' \in Seq(Firing)
    BY <2>1, <2>2, <2>3, AppendProperties
  <2> QED
    BY <1>3, <1>4, <1>7, <2>4 DEF Enqueue, TypeOK
<1>8. CASE FireDirect(th)
  BY <1>2, <1>4, <1>8, DelegatedType DEF FireDirect, TypeOK
<1>9. CASE StampAgentClaim(th)
  <2>1. task' \in [Tasks -> TaskRow]
    BY <1>2, <1>9 DEF StampAgentClaim, Claimed, TypeOK, TaskRow
  <2> QED
    BY <1>3, <1>9, <2>1 DEF StampAgentClaim, TypeOK
<1>10. CASE AutoError(th)
  BY <1>3, <1>10, SpendOneType DEF AutoError, Inputs, TypeOK
<1> QED
  BY <1>5, <1>6, <1>7, <1>8, <1>9, <1>10 DEF RouterStep

\* What DrainReturn does to the mutex and to the locals.
LEMMA DrainReturnType ==
  ASSUME TypeOK, NEW d \in DrainThreads, DrainReturn(d)
  PROVE  /\ lock' \in [Entities -> DrainThreads \cup {Nobody}]
         /\ drain' \in [DrainThreads -> DrainLocals]
<1>1. drain[d] \in DrainLocals
  BY DEF TypeOK
<1>2. [DrainIdle EXCEPT !.pc = IF drain[d].todo = {} THEN "idle" ELSE "sweep",
                        !.todo = drain[d].todo] \in DrainLocals
  BY <1>1, Defaults DEF DrainLocals
<1> QED
  BY <1>2 DEF DrainReturn, TypeOK

\* A drain that moves on.
LEMMA DrainGotoType ==
  ASSUME TypeOK, NEW d \in DrainThreads,
         NEW pc \in {"pop", "task", "trigger", "fire", "revert"}, DrainGoto(d, pc)
  PROVE  drain' \in [DrainThreads -> DrainLocals]
<1>1. [drain[d] EXCEPT !.pc = pc] \in DrainLocals
  BY DEF TypeOK, DrainLocals
<1> QED
  BY <1>1 DEF DrainGoto, TypeOK

\* A drain that decided to skip.
LEMMA SkipType ==
  ASSUME TypeOK, NEW d \in DrainThreads,
         NEW why \in {"task_closed", "claim_changed", "trigger_disabled", "breaker_tripped"},
         SkipWith(d, why)
  PROVE  drain' \in [DrainThreads -> DrainLocals]
<1>1. [drain[d] EXCEPT !.pc = "skip", !.reason = why] \in DrainLocals
  BY DEF TypeOK, DrainLocals
<1> QED
  BY <1>1 DEF SkipWith, TypeOK

\* A firing that is fired or skipped.
LEMMA SettleType ==
  ASSUME TypeOK, NEW f, NEW status \in {"fired", "skipped"}, NEW r \in Nat,
         NEW why \in {"none", "task_closed", "claim_changed",
                      "trigger_disabled", "breaker_tripped"},
         Settle(f, status, why, r)
  PROVE  firings' \in Seq(Firing)
<1> DEFINE row == IF firings[f].status = "pending"
                  THEN [firings[f] EXCEPT !.status = status, !.reason = why, !.run = r]
                  ELSE firings[f]
<1>1. f \in DOMAIN firings => firings[f] \in Firing
  BY ElementOfSeq, LenProperties DEF TypeOK
<1>2. f \in DOMAIN firings => row \in Firing
  BY <1>1 DEF Firing
<1>3. firings' = [firings EXCEPT ![f] = row]
  BY DEF Settle
<1>4. firings \in Seq(Firing)
  BY DEF TypeOK
<1> HIDE DEF row
<1> QED
  BY <1>2, <1>3, <1>4, SeqExcept

\* A run that a rollback could not cancel.
LEMMA LostType ==
  ASSUME TypeOK, NEW r, runs' = LosingRun(r)
  PROVE  runs' \in Seq(Run)
<1>1. \A x \in DOMAIN runs : runs[x] \in Run
  BY ElementOfSeq, LenProperties DEF TypeOK
<1>2. \A x \in DOMAIN runs : LosingRun(r)[x] \in Run
  BY <1>1 DEF LosingRun, Run
<1>3. LosingRun(r) = [x \in DOMAIN runs |-> LosingRun(r)[x]]
  BY DEF LosingRun
<1>4. runs \in Seq(Run)
  BY DEF TypeOK
<1> QED
  BY <1>2, <1>3, <1>4, SeqMap

\* The drain loop.
LEMMA DrainType ==
  ASSUME TypeOK, HeldIsOldest, NEW d \in DrainThreads, DrainStep(d)
  PROVE  TypeOK'
<1>1. drain[d] \in DrainLocals
  BY DEF TypeOK
<1>2. CASE DrainLock(d)
  <2>1. lock' \in [Entities -> DrainThreads \cup {Nobody}]
    BY <1>2 DEF DrainLock, TypeOK
  <2> QED
    BY <1>2, <2>1, DrainGotoType DEF DrainLock, TypeOK
<1>3. CASE DrainPop(d)
  <2>1. CASE PendingOf(drain[d].ent) = {}
    BY <1>3, <2>1, DrainReturnType DEF DrainPop, TypeOK
  <2>2. CASE PendingOf(drain[d].ent) # {}
    <3> PICK f \in DOMAIN firings : drain' = [drain EXCEPT ![d].pc = "task", ![d].firing = f]
      BY <1>3, <2>2 DEF DrainPop
    <3>1. f \in Nat
      BY LenProperties DEF TypeOK
    <3>2. [drain[d] EXCEPT !.pc = "task", !.firing = f] \in DrainLocals
      BY <1>1, <3>1 DEF DrainLocals
    <3>3. drain' \in [DrainThreads -> DrainLocals]
      BY <3>2 DEF TypeOK
    <3> QED
      BY <1>3, <2>2, <3>3 DEF DrainPop, TypeOK
  <2> QED
    BY <2>1, <2>2
<1>4. CASE DrainCheckTask(d)
  <2>1. drain' \in [DrainThreads -> DrainLocals]
    BY <1>4, SkipType, DrainGotoType DEF DrainCheckTask
  <2> QED
    BY <1>4, <2>1 DEF DrainCheckTask, TypeOK
<1>5. CASE DrainCheckTrigger(d)
  <2>1. drain' \in [DrainThreads -> DrainLocals]
    BY <1>5, SkipType, DrainGotoType DEF DrainCheckTrigger
  <2> QED
    BY <1>5, <2>1 DEF DrainCheckTrigger, TypeOK
<1>6. CASE DrainFire(d)
  <2> DEFINE f == drain[d].firing
  <2>1. f \in DOMAIN firings /\ f \in Nat
    BY <1>1, <1>6 DEF DrainFire, HeldIsOldest, Holding, Oldest, PendingOf, DrainLocals
  <2>2. firings[f] \in Firing
    BY <2>1, ElementOfSeq, LenProperties DEF TypeOK
  <2>3. firings[f].task \in Tasks /\ firings[f].trigger \in Triggers
    BY <2>2 DEF Firing
  <2>4. runs' \in Seq(Run) /\ Len(runs) + 1 \in Nat
    BY <1>6, <2>1, <2>3, DelegatedType DEF DrainFire
  <2>5. [drain[d] EXCEPT !.pc = "mark", !.run = Len(runs) + 1] \in DrainLocals
    BY <1>1, <2>4 DEF DrainLocals
  <2>6. drain' \in [DrainThreads -> DrainLocals]
    BY <1>6, <2>5 DEF DrainFire, TypeOK
  <2> QED
    BY <1>6, <2>4, <2>6 DEF DrainFire, TypeOK
<1>7. CASE DrainMarkFired(d)
  <2>1. firings' \in Seq(Firing)
    BY <1>1, <1>7, SettleType DEF DrainMarkFired, DrainLocals
  <2> QED
    BY <1>7, <2>1, DrainReturnType DEF DrainMarkFired, TypeOK
<1>8. CASE DrainRollback(d)
  <2>1. runs' \in Seq(Run) /\ wakeups' \in [Entities -> Nat]
    <3>1. CASE CancelAll({drain[d].run})
      BY <3>1, CancelAllType
    <3>2. CASE runs' = LosingRun(drain[d].run) /\ UNCHANGED wakeups
      BY <3>2, LostType DEF TypeOK
    <3> QED
      BY <1>8, <3>1, <3>2 DEF DrainRollback
  <2>2. budget' \in [Inputs -> Nat]
    BY <1>8, SpendOneType DEF DrainRollback, Inputs
  <2>3. drain' \in [DrainThreads -> DrainLocals]
    BY <1>8, DrainGotoType DEF DrainRollback
  <2>4. UNCHANGED <<entity, task, enabled, firings, lock, auto, user>>
    BY <1>8 DEF DrainRollback
  <2> QED
    BY <2>1, <2>2, <2>3, <2>4 DEF TypeOK
<1>9. CASE DrainRevert(d)
  <2> DEFINE t == firings[drain[d].firing].task
  <2>1. task' \in [Tasks -> TaskRow]
    <3>1. task' = task \/ task' = [task EXCEPT ![t].status = "open"]
      BY <1>9 DEF DrainRevert
    <3>2. CASE task' = [task EXCEPT ![t].status = "open"]
      BY <3>2 DEF TypeOK, TaskRow
    <3> QED
      BY <3>1, <3>2 DEF TypeOK
  <2>2. budget' \in [Inputs -> Nat]
    <3>1. budget' = budget \/ Spend("fault")
      BY <1>9 DEF DrainRevert
    <3> QED
      BY <3>1, SpendOneType DEF Inputs, TypeOK
  <2>3. lock' \in [Entities -> DrainThreads \cup {Nobody}]
        /\ drain' \in [DrainThreads -> DrainLocals]
    BY <1>9, DrainReturnType DEF DrainRevert
  <2>4. UNCHANGED <<entity, enabled, firings, runs, wakeups, auto, user>>
    BY <1>9 DEF DrainRevert
  <2> QED
    BY <2>1, <2>2, <2>3, <2>4 DEF TypeOK
<1>10. CASE DrainMarkSkipped(d)
  <2>1. firings' \in Seq(Firing)
    <3>1. drain[d].reason \in {"none", "task_closed", "claim_changed",
                               "trigger_disabled", "breaker_tripped"}
      BY <1>1 DEF DrainLocals
    <3>2. Settle(drain[d].firing, "skipped", drain[d].reason, 0)
      BY <1>10 DEF DrainMarkSkipped
    <3> QED
      BY <3>1, <3>2, SettleType
  <2>2. [DrainIdle EXCEPT !.pc = "pop", !.ent = drain[d].ent, !.todo = drain[d].todo]
          \in DrainLocals
    BY <1>1, Defaults DEF DrainLocals
  <2>3. drain' \in [DrainThreads -> DrainLocals]
    BY <1>10, <2>2 DEF DrainMarkSkipped, TypeOK
  <2> QED
    BY <1>10, <2>1, <2>3 DEF DrainMarkSkipped, TypeOK
<1>11. CASE DrainError(d)
  BY <1>11, SpendOneType, DrainReturnType DEF DrainError, Inputs, TypeOK
<1> QED
  BY <1>2, <1>3, <1>4, <1>5, <1>6, <1>7, <1>8, <1>9, <1>10, <1>11 DEF DrainStep

\* Drains and sweeps that start.
LEMMA StartType ==
  ASSUME TypeOK,
         \/ \E d \in Drainers, e \in Entities : DrainStart(d, e)
         \/ SweepStep
  PROVE  TypeOK'
<1>1. CASE \E d \in Drainers, e \in Entities : DrainStart(d, e)
  <2> PICK d \in Drainers, e \in Entities : DrainStart(d, e)
    BY <1>1
  <2>1. [DrainIdle EXCEPT !.pc = "lock", !.ent = e] \in DrainLocals
    BY Defaults DEF DrainLocals
  <2>2. drain' \in [DrainThreads -> DrainLocals]
    BY <2>1 DEF DrainStart, DrainThreads, TypeOK
  <2>3. wakeups' \in [Entities -> Nat]
    <3>1. wakeups[e] \in Nat /\ wakeups[e] > 0
      BY DEF DrainStart, TypeOK
    <3>2. wakeups[e] - 1 \in Nat
      BY <3>1
    <3> QED
      BY <3>2 DEF DrainStart, TypeOK
  <2> QED
    BY <2>2, <2>3 DEF DrainStart, TypeOK
<1>2. CASE SweepList
  <2>1. [DrainIdle EXCEPT !.pc = "sweep", !.todo = {e \in Entities : PendingOf(e) # {}}]
          \in DrainLocals
    BY Defaults DEF DrainLocals
  <2>2. drain' \in [DrainThreads -> DrainLocals]
    BY <1>2, <2>1 DEF SweepList, TypeOK
  <2> QED
    BY <1>2, <2>2 DEF SweepList, TypeOK
<1>3. CASE \E e \in Entities : SweepNext(e)
  <2> PICK e \in Entities : SweepNext(e)
    BY <1>3
  <2>1. drain[Sweeper].todo \subseteq Entities
    BY DEF DrainThreads, DrainLocals, TypeOK
  <2>2. \A pc \in {"idle", "sweep", "lock"}, x \in {e, DrainIdle.ent} :
          [DrainIdle EXCEPT !.pc = pc, !.ent = x, !.todo = drain[Sweeper].todo \ {e}]
            \in DrainLocals
    BY <2>1, Defaults DEF DrainLocals
  <2>3. \E row \in DrainLocals : drain' = [drain EXCEPT ![Sweeper] = row]
    BY <2>2 DEF SweepNext
  <2>4. drain' \in [DrainThreads -> DrainLocals]
    BY <2>3 DEF TypeOK
  <2> QED
    BY <2>4 DEF SweepNext, TypeOK
<1> QED
  BY <1>1, <1>2, <1>3 DEF SweepStep

\* Runs that return, exit or are resumed.
LEMMA RunType ==
  ASSUME TypeOK, NEW r \in DOMAIN runs, RunStep(r) \/ Resume(r)
  PROVE  TypeOK'
<1>1. runs[r] \in Run /\ runs \in Seq(Run)
  BY ElementOfSeq, LenProperties DEF TypeOK
<1>2. CASE \E status \in RunStatuses : RunReturns(r, status)
  <2> PICK status \in RunStatuses : RunReturns(r, status)
    BY <1>2
  <2>1. [runs[r] EXCEPT !.status = status] \in Run
    BY <1>1 DEF Run, RunStatuses
  <2>2. runs' \in Seq(Run)
    BY <1>1, <2>1, SeqExcept DEF RunReturns
  <2>3. budget' \in [Inputs -> Nat]
    BY SpendOneType DEF RunReturns, Inputs, TypeOK
  <2> QED
    BY <2>2, <2>3 DEF RunReturns, TypeOK
<1>3. CASE RunExits(r)
  <2>1. [runs[r] EXCEPT !.live = FALSE] \in Run
    BY <1>1 DEF Run
  <2>2. runs' \in Seq(Run)
    BY <1>1, <1>3, <2>1, SeqExcept DEF RunExits
  <2>3. \A t \in Tasks : ClosedRow(t) \in TaskRow
    BY DEF ClosedRow, TypeOK, TaskRow
  <2>4. task' \in [Tasks -> TaskRow]
    BY <1>1, <1>3, <2>3 DEF RunExits, TypeOK, Run
  <2>5. Woken(r) \in [Entities -> Nat]
    <3>1. \A e \in Entities : wakeups[e] + 1 \in Nat
      BY DEF TypeOK
    <3> QED
      BY <3>1 DEF Woken, TypeOK
  <2> QED
    BY <1>3, <2>2, <2>4, <2>5 DEF RunExits, TypeOK
<1>5. CASE MirrorReads(r)
  <2>1. [runs[r] EXCEPT !.mirror = TRUE] \in Run
    BY <1>1 DEF Run
  <2>2. runs' \in Seq(Run)
    BY <1>1, <1>5, <2>1, SeqExcept DEF MirrorReads
  <2>3. budget' \in [Inputs -> Nat]
    BY <1>5, SpendOneType DEF MirrorReads, Inputs
  <2> QED
    BY <1>5, <2>2, <2>3 DEF MirrorReads, TypeOK
<1>6. CASE MirrorWrites(r)
  <2>1. [runs[r] EXCEPT !.mirror = FALSE] \in Run
    BY <1>1 DEF Run
  <2>2. runs' \in Seq(Run)
    BY <1>1, <1>6, <2>1, SeqExcept DEF MirrorWrites
  <2>3. task' \in [Tasks -> TaskRow]
    BY <1>6 DEF MirrorWrites, TypeOK, TaskRow
  <2> QED
    BY <1>6, <2>2, <2>3 DEF MirrorWrites, TypeOK
<1>4. CASE Resume(r)
  <2>1. [runs[r] EXCEPT !.status = "active", !.live = TRUE] \in Run
    BY <1>1 DEF Run
  <2>2. runs' = [runs EXCEPT ![r] = [runs[r] EXCEPT !.status = "active", !.live = TRUE]]
    BY <1>4 DEF Resume
  <2>3. runs' \in Seq(Run)
    BY <1>1, <2>1, <2>2, SeqExcept
  <2> QED
    BY <1>4, <2>3 DEF Resume, TypeOK
<1> QED
  BY <1>2, <1>3, <1>4, <1>5, <1>6 DEF RunStep

\* The first statement of a user's request.
LEMMA UserRequestType ==
  ASSUME TypeOK, NEW u \in Users, NEW t \in Tasks, UserRequest(u, t)
  PROVE  TypeOK'
<1>1. UserStarts(u, t)
  BY DEF UserRequest, UserClaims, UserDelegates, UserCloses, UserSnoozes, UserRequeues
<1>2. budget' \in [Inputs -> Nat]
  BY <1>1, SpendOneType DEF UserStarts, Inputs
<1>3. \A next \in {"idle", "delegate"} :
        UserThen(u, t, next) => user' \in [Users -> UserLocals]
  BY DEF UserThen, TypeOK, UserLocals
<1>4. user' \in [Users -> UserLocals]
  BY <1>3 DEF UserRequest, UserClaims, UserDelegates, UserCloses, UserSnoozes, UserRequeues, TypeOK
<1>5. \A c \in {"none", "agent", "user"} : Claimed(t, c) \in TaskRow
  BY DEF Claimed, TypeOK, TaskRow
<1>6. \E row \in TaskRow : task' = [task EXCEPT ![t] = row]
  <2>1. CASE UserClaims(u, t) \/ UserDelegates(u, t)
    BY <1>5, <2>1 DEF UserClaims, UserDelegates
  <2>2. \A status \in {"closed", "snoozed"} : [task[t] EXCEPT !.status = status] \in TaskRow
    BY DEF TypeOK, TaskRow
  <2>3. CASE UserCloses(u, t) \/ UserSnoozes(u, t)
    BY <2>2, <2>3 DEF UserCloses, UserSnoozes
  <2>4. CASE UserRequeues(u, t)
    BY <2>4 DEF UserRequeues, TaskRow
  <2> QED
    BY <2>1, <2>3, <2>4 DEF UserRequest
<1>7. task' \in [Tasks -> TaskRow]
  BY <1>6 DEF TypeOK
<1> QED
  BY <1>2, <1>4, <1>7
     DEF UserRequest, UserClaims, UserDelegates, UserCloses, UserSnoozes, UserRequeues, TypeOK

\* The rest of it.
LEMMA UserType ==
  ASSUME TypeOK, NEW u \in Users, UserStep(u)
  PROVE  TypeOK'
<1>1. user[u] \in UserLocals
  BY DEF TypeOK
<1>2. CASE UserCancels(u)
  <2>1. runs' \in Seq(Run) /\ wakeups' \in [Entities -> Nat]
    BY <1>2, CancelAllType DEF UserCancels
  <2>2. [user[u] EXCEPT !.pc = user[u].next] \in UserLocals
    BY <1>1 DEF UserLocals
  <2>3. user' \in [Users -> UserLocals]
    BY <1>2, <2>2, Defaults DEF UserCancels, TypeOK
  <2> QED
    BY <1>2, <2>1, <2>3 DEF UserCancels, TypeOK
<1>3. CASE \E g \in Triggers : UserDelegateRuns(u, g)
  <2> PICK g \in Triggers : UserDelegateRuns(u, g)
    BY <1>3
  <2>1. runs' \in Seq(Run)
    BY <1>1, DelegatedType DEF UserDelegateRuns, UserLocals
  <2>2. user' \in [Users -> UserLocals]
    BY Defaults DEF UserDelegateRuns, TypeOK
  <2> QED
    BY <2>1, <2>2 DEF UserDelegateRuns, TypeOK
<1> QED
  BY <1>2, <1>3 DEF UserStep

\* Settings and restarts.
LEMMA AdminType ==
  ASSUME TypeOK, (\E g \in Triggers : ToggleTrigger(g)) \/ Crash
  PROVE  TypeOK'
<1>1. CASE \E g \in Triggers : ToggleTrigger(g)
  BY <1>1, SpendOneType DEF ToggleTrigger, Inputs, TypeOK
<1>2. CASE Crash
  <2>1. \A r \in DOMAIN runs : [runs[r] EXCEPT !.live = FALSE, !.mirror = FALSE] \in Run
    <3>1. \A r \in DOMAIN runs : runs[r] \in Run
      BY ElementOfSeq, LenProperties DEF TypeOK
    <3> QED
      BY <3>1 DEF Run
  <2>2. runs' \in Seq(Run)
    BY <1>2, <2>1, SeqMap DEF Crash, TypeOK
  <2>3. budget' \in [Inputs -> Nat]
    BY <1>2, SpendOneType DEF Crash, Inputs
  <2> QED
    BY <1>2, <2>2, <2>3, Defaults DEF Crash, TypeOK
<1> QED
  BY <1>1, <1>2

-----------------------------------------------------------------------------
(***************************************************************************)
(* The queue.  A goroutine inside the drain loop of an entity holds that   *)
(* entity's mutex, so between its pop and its settling nobody else settles *)
(* a firing of the entity, and what is appended meanwhile is younger.      *)
(***************************************************************************)
InLoop(d) == drain[d].pc = "pop" \/ Holding(d)

LockHeld == \A d \in DrainThreads : InLoop(d) => lock[drain[d].ent] = d

IInv == TypeOK /\ LockHeld /\ HeldIsOldest /\ FifoPerEntity

\* Initially nobody is in a loop and nothing waits.
LEMMA InitInv == Init => IInv
<1> SUFFICES ASSUME Init PROVE IInv
  OBVIOUS
<1>1. TypeOK
  BY Defaults, BoundAssumption, TaskAssumption, EmptySeq
     DEF Init, TypeOK, TaskRow
<1>2. \A d \in DrainThreads : drain[d].pc = "idle"
  BY DEF Init, DrainIdle
<1>3. LockHeld /\ HeldIsOldest
  BY <1>2 DEF LockHeld, HeldIsOldest, InLoop, Holding
<1>4. DOMAIN firings = {}
  BY DEF Init
<1>5. FifoPerEntity
  BY <1>4 DEF FifoPerEntity
<1> QED
  BY <1>1, <1>3, <1>5 DEF IInv

\* Most steps leave the queue, the mutexes and the drains alone.
LEMMA QueueFrame ==
  ASSUME LockHeld, HeldIsOldest, FifoPerEntity, UNCHANGED <<firings, lock, drain>>
  PROVE  LockHeld' /\ HeldIsOldest' /\ FifoPerEntity'
BY DEF LockHeld, HeldIsOldest, FifoPerEntity, InLoop, Holding, Oldest, PendingOf,
       Pending, FiringEntity

\* A drain that moves without touching the queue keeps what it holds, or
\* holds nothing.
LEMMA DrainFrame ==
  ASSUME LockHeld, HeldIsOldest, FifoPerEntity, UNCHANGED firings,
         NEW d \in DrainThreads,
         \A x \in DrainThreads \ {d} : drain'[x] = drain[x],
         \A e \in Entities : lock[e] # d /\ lock[e] # Nobody => lock'[e] = lock[e],
         InLoop(d)' => lock'[drain'[d].ent] = d,
         Holding(d)' => Oldest(drain'[d].ent, drain'[d].firing),
         TypeOK
  PROVE  LockHeld' /\ HeldIsOldest' /\ FifoPerEntity'
<1>1. FifoPerEntity'
  BY DEF FifoPerEntity, Pending, FiringEntity
<1>2. \A x \in DrainThreads :
        Oldest(drain[x].ent, drain[x].firing)' = Oldest(drain'[x].ent, drain'[x].firing)
  BY DEF Oldest, PendingOf, Pending, FiringEntity
<1>3. ASSUME NEW x \in DrainThreads \ {d}
      PROVE  /\ Holding(x)' => Oldest(drain'[x].ent, drain'[x].firing)
             /\ InLoop(x)' => lock'[drain'[x].ent] = x
  <2>1. drain'[x] = drain[x]
    OBVIOUS
  <2>2. Holding(x)' => Oldest(drain'[x].ent, drain'[x].firing)
    BY <2>1 DEF Holding, HeldIsOldest
  <2>3. drain[x].ent \in Entities /\ x # Nobody
    BY ThreadAssumption DEF TypeOK, DrainLocals
  <2>4. InLoop(x)' => lock'[drain'[x].ent] = x
    BY <2>1, <2>3 DEF InLoop, Holding, LockHeld
  <2> QED
    BY <2>2, <2>4
<1>4. HeldIsOldest'
  BY <1>2, <1>3 DEF HeldIsOldest
<1>5. LockHeld'
  BY <1>3 DEF LockHeld
<1> QED
  BY <1>1, <1>4, <1>5

\* Settling the held firing removes the head of the entity's queue.
LEMMA SettleKeeps ==
  ASSUME IInv, NEW d \in DrainThreads, Holding(d),
         NEW h, h = drain[d].firing,
         NEW status \in {"fired", "skipped"}, NEW why, NEW r \in Nat,
         Settle(h, status, why, r)
  PROVE  /\ FifoPerEntity'
         /\ \A x \in DrainThreads \ {d}, e \in Entities, f \in DOMAIN firings :
              Holding(x) /\ drain[x].ent = e /\ drain[x].firing = f => Oldest(e, f)'
<1>1. h \in DOMAIN firings /\ Pending(h) /\ FiringEntity(h) = drain[d].ent
  BY DEF IInv, HeldIsOldest, Oldest, PendingOf
<1>2. /\ DOMAIN firings' = DOMAIN firings
      /\ \A f \in DOMAIN firings : f # h => firings'[f] = firings[f]
      /\ \A f \in DOMAIN firings : FiringEntity(f)' = FiringEntity(f)
      /\ ~Pending(h)'
  <2> DEFINE row == [firings[h] EXCEPT !.status = status, !.reason = why, !.run = r]
  <2>1. firings[h] \in Firing
    BY <1>1, ElementOfSeq, LenProperties DEF IInv, TypeOK
  <2>2. row.status = status /\ row.task = firings[h].task
    BY <2>1 DEF Firing
  <2>3. firings' = [firings EXCEPT ![h] = row]
    BY <1>1 DEF Settle, Pending
  <2> HIDE DEF row
  <2>4. DOMAIN firings' = DOMAIN firings /\ firings'[h] = row
    BY <1>1, <2>3
  <2>5. \A f \in DOMAIN firings : f # h => firings'[f] = firings[f]
    BY <2>3
  <2> QED
    BY <2>2, <2>4, <2>5 DEF Pending, FiringEntity
<1>3. \A f \in DOMAIN firings : f # h => Pending(f)' = Pending(f)
  BY <1>2 DEF Pending
<1>4. \A f \in DOMAIN firings : f \in Nat
  BY LenProperties DEF IInv, TypeOK
<1>5. FifoPerEntity'
  <2> SUFFICES ASSUME NEW f \in DOMAIN firings, NEW g \in DOMAIN firings,
                      f < g, FiringEntity(f) = FiringEntity(g), Pending(f)'
               PROVE  Pending(g)'
    BY <1>2 DEF FifoPerEntity
  <2>1. f # h /\ Pending(f)
    BY <1>2, <1>3
  <2>2. Pending(g)
    BY <2>1 DEF IInv, FifoPerEntity
  <2>3. g # h
    <3> SUFFICES ASSUME g = h PROVE FALSE
      OBVIOUS
    <3>1. f \in PendingOf(drain[d].ent)
      BY <1>1, <2>1 DEF PendingOf
    <3>2. h <= f
      BY <3>1 DEF IInv, HeldIsOldest, Oldest
    <3> QED
      BY <1>4, <3>2
  <2> QED
    BY <1>3, <2>2, <2>3
<1>6. ASSUME NEW x \in DrainThreads \ {d}, NEW e \in Entities, NEW f \in DOMAIN firings,
             Holding(x), drain[x].ent = e, drain[x].firing = f
      PROVE  Oldest(e, f)'
  <2>1. e # FiringEntity(h)
    BY <1>1, <1>6 DEF IInv, LockHeld, InLoop
  <2>2. Oldest(e, f)
    BY <1>6 DEF IInv, HeldIsOldest
  <2>3. PendingOf(e)' = PendingOf(e)
    BY <2>1, <1>2, <1>3 DEF PendingOf
  <2> QED
    BY <2>2, <2>3 DEF Oldest
<1> QED
  BY <1>5, <1>6

\* A firing that enters is younger than all that wait.
LEMMA EnqueueKeeps ==
  ASSUME IInv, NEW th \in RouterThreads, Enqueue(th)
  PROVE  LockHeld' /\ HeldIsOldest' /\ FifoPerEntity'
<1> DEFINE new == [task |-> auto[th].task, trigger |-> auto[th].trigger,
                   status |-> "pending", reason |-> "none", run |-> 0]
<1>1. CASE Duplicate(auto[th].task, auto[th].trigger)
  BY <1>1, QueueFrame DEF Enqueue, IInv
<1>2. CASE ~Duplicate(auto[th].task, auto[th].trigger)
  <2>1. firings' = Append(firings, new) /\ UNCHANGED <<lock, drain>>
    BY <1>2 DEF Enqueue
  <2>2. new \in Firing
    BY DEF IInv, TypeOK, AutoLocals, Firing
  <2>3. new.status = "pending"
    OBVIOUS
  <2> HIDE DEF new
  <2> DEFINE n == Len(firings)
  <2>4. n \in Nat /\ DOMAIN firings = 1..n
    BY LenProperties DEF IInv, TypeOK
  <2>5. /\ DOMAIN firings' = 1..n + 1
        /\ \A f \in 1..n : firings'[f] = firings[f]
        /\ firings'[n + 1] = new
    BY <2>1, <2>2, AppendProperties, LenProperties DEF IInv, TypeOK
  <2> HIDE DEF n
  <2>6. FifoPerEntity'
    <3> SUFFICES ASSUME NEW f \in 1..n + 1, NEW g \in 1..n + 1, f < g,
                        FiringEntity(f)' = FiringEntity(g)', Pending(f)'
                 PROVE  Pending(g)'
      BY <2>5 DEF FifoPerEntity
    <3>1. CASE g = n + 1
      BY <2>3, <2>5, <3>1 DEF Pending
    <3>2. CASE g # n + 1
      <4>1. f \in 1..n /\ g \in 1..n
        BY <2>4, <3>2
      <4> QED
        BY <2>4, <2>5, <4>1 DEF IInv, FifoPerEntity, Pending, FiringEntity
    <3> QED
      BY <3>1, <3>2
  <2>7. ASSUME NEW d \in DrainThreads, Holding(d)
        PROVE  Oldest(drain[d].ent, drain[d].firing)'
    <3>1. Oldest(drain[d].ent, drain[d].firing)
      BY <2>7 DEF IInv, HeldIsOldest
    <3>2. drain[d].firing \in 1..n
      BY <2>4, <3>1 DEF Oldest, PendingOf
    <3>3. drain'[d] = drain[d]
      BY <2>1
    <3>4. drain[d].firing \in PendingOf(drain[d].ent)'
      BY <2>4, <2>5, <3>1, <3>2, <3>3 DEF Oldest, PendingOf, Pending, FiringEntity
    <3>5. ASSUME NEW g \in PendingOf(drain[d].ent)'
          PROVE  drain[d].firing <= g
      <4>1. g \in 1..n + 1
        BY <2>5 DEF PendingOf
      <4>2. CASE g = n + 1
        BY <2>4, <3>2, <4>2
      <4>3. CASE g # n + 1
        <5>1. g \in 1..n
          BY <2>4, <4>1, <4>3
        <5>2. g \in PendingOf(drain[d].ent)
          BY <2>4, <2>5, <3>3, <5>1 DEF PendingOf, Pending, FiringEntity
        <5> QED
          BY <3>1, <5>2 DEF Oldest
      <4> QED
        BY <4>2, <4>3
    <3> QED
      BY <3>3, <3>4, <3>5 DEF Oldest
  <2>8. HeldIsOldest'
    BY <2>1, <2>7 DEF HeldIsOldest, Holding
  <2>9. LockHeld'
    BY <2>1 DEF IInv, LockHeld, InLoop, Holding
  <2> QED
    BY <2>6, <2>8, <2>9
<1> QED
  BY <1>1, <1>2

\* Leaving the loop: the mutex is the drain's own.
LEMMA ReturnKeeps ==
  ASSUME IInv, NEW d \in DrainThreads, InLoop(d), DrainReturn(d)
  PROVE  /\ ~InLoop(d)'
         /\ \A x \in DrainThreads \ {d} : drain'[x] = drain[x]
         /\ \A e \in Entities : lock[e] # d /\ lock[e] # Nobody => lock'[e] = lock[e]
<1>1. drain'[d].pc \in {"idle", "sweep"}
  BY DEF DrainReturn, DrainIdle, IInv, TypeOK
<1>2. lock[drain[d].ent] = d
  BY DEF IInv, LockHeld
<1> QED
  BY <1>1, <1>2 DEF DrainReturn, InLoop, Holding, IInv, TypeOK

\* Leaving the loop without touching the queue.
LEMMA ReturnQueue ==
  ASSUME IInv, NEW d \in DrainThreads, InLoop(d), DrainReturn(d), UNCHANGED firings
  PROVE  LockHeld' /\ HeldIsOldest' /\ FifoPerEntity'
<1>1. ~InLoop(d)' /\ ~Holding(d)'
  BY ReturnKeeps DEF InLoop
<1> QED
  BY <1>1, ReturnKeeps, DrainFrame DEF IInv

\* Moving on inside the loop with the same entity and firing.
LEMMA GotoQueue ==
  ASSUME IInv, NEW d \in DrainThreads, UNCHANGED <<firings, lock>>, Holding(d),
         NEW row, drain' = [drain EXCEPT ![d] = row],
         row.ent = drain[d].ent, row.firing = drain[d].firing
  PROVE  LockHeld' /\ HeldIsOldest' /\ FifoPerEntity'
<1>1. drain'[d] = row /\ \A x \in DrainThreads \ {d} : drain'[x] = drain[x]
  BY DEF IInv, TypeOK
<1>2. lock[drain[d].ent] = d /\ Oldest(drain[d].ent, drain[d].firing)
  BY DEF IInv, LockHeld, HeldIsOldest, InLoop
<1> QED
  BY <1>1, <1>2, DrainFrame DEF IInv

\* The drain loop: take the mutex, pop, validate, fire, settle.
LEMMA DrainQueue ==
  ASSUME IInv, NEW d \in DrainThreads, DrainStep(d)
  PROVE  LockHeld' /\ HeldIsOldest' /\ FifoPerEntity'
<1>1. drain[d] \in DrainLocals
  BY DEF IInv, TypeOK
<1>2. CASE DrainLock(d)
  <2>1. /\ drain'[d].pc = "pop"
        /\ drain'[d].ent = drain[d].ent
        /\ \A x \in DrainThreads \ {d} : drain'[x] = drain[x]
    BY <1>1, <1>2 DEF DrainLock, DrainGoto, IInv, TypeOK, DrainLocals
  <2>2. /\ lock[drain[d].ent] = Nobody
        /\ lock' = [lock EXCEPT ![drain[d].ent] = d]
        /\ UNCHANGED firings
    BY <1>2 DEF DrainLock, MutexFree
  <2>3. lock'[drain'[d].ent] = d
    BY <1>1, <2>1, <2>2 DEF IInv, TypeOK, DrainLocals
  <2>4. \A e \in Entities : lock[e] # d /\ lock[e] # Nobody => lock'[e] = lock[e]
    BY <2>2 DEF IInv, TypeOK
  <2>5. ~Holding(d)'
    BY <2>1 DEF Holding
  <2> QED
    BY <2>1, <2>2, <2>3, <2>4, <2>5, DrainFrame DEF IInv
<1>3. CASE DrainPop(d)
  <2>1. InLoop(d) /\ lock[drain[d].ent] = d
    BY <1>3 DEF DrainPop, InLoop, IInv, LockHeld
  <2>2. CASE PendingOf(drain[d].ent) = {}
    BY <1>3, <2>1, <2>2, ReturnQueue DEF DrainPop
  <2>3. CASE PendingOf(drain[d].ent) # {}
    <3> PICK f \in DOMAIN firings :
          /\ Oldest(drain[d].ent, f)
          /\ drain' = [drain EXCEPT ![d].pc = "task", ![d].firing = f]
      BY <1>3, <2>3 DEF DrainPop
    <3>1. /\ drain'[d].ent = drain[d].ent
          /\ drain'[d].firing = f
          /\ \A x \in DrainThreads \ {d} : drain'[x] = drain[x]
      BY <1>1 DEF IInv, TypeOK, DrainLocals
    <3>2. UNCHANGED <<firings, lock>>
      BY <1>3, <2>3 DEF DrainPop
    <3> QED
      BY <2>1, <3>1, <3>2, DrainFrame DEF IInv
  <2> QED
    BY <2>2, <2>3
<1>4. CASE DrainCheckTask(d) \/ DrainCheckTrigger(d) \/ DrainFire(d) \/ DrainRollback(d)
  <2>1. Holding(d) /\ UNCHANGED <<firings, lock>>
    BY <1>4 DEF DrainCheckTask, DrainCheckTrigger, DrainFire, DrainRollback, Holding
  <2>2. ASSUME NEW pc, DrainGoto(d, pc)
        PROVE  LockHeld' /\ HeldIsOldest' /\ FifoPerEntity'
    <3>1. drain' = [drain EXCEPT ![d] = [drain[d] EXCEPT !.pc = pc]]
      BY <2>2 DEF DrainGoto
    <3>2. /\ [drain[d] EXCEPT !.pc = pc].ent = drain[d].ent
          /\ [drain[d] EXCEPT !.pc = pc].firing = drain[d].firing
      BY <1>1 DEF DrainLocals
    <3> QED
      BY <2>1, <3>1, <3>2, GotoQueue
  <2>3. ASSUME NEW why, SkipWith(d, why)
        PROVE  LockHeld' /\ HeldIsOldest' /\ FifoPerEntity'
    <3>1. drain' = [drain EXCEPT ![d] = [drain[d] EXCEPT !.pc = "skip", !.reason = why]]
      BY <2>3 DEF SkipWith
    <3>2. /\ [drain[d] EXCEPT !.pc = "skip", !.reason = why].ent = drain[d].ent
          /\ [drain[d] EXCEPT !.pc = "skip", !.reason = why].firing = drain[d].firing
      BY <1>1 DEF DrainLocals
    <3> QED
      BY <2>1, <3>1, <3>2, GotoQueue
  <2>4. CASE DrainCheckTask(d)
    BY <2>2, <2>3, <2>4 DEF DrainCheckTask
  <2>5. CASE DrainCheckTrigger(d)
    BY <2>2, <2>3, <2>5 DEF DrainCheckTrigger
  <2>6. CASE DrainRollback(d)
    BY <2>2, <2>6 DEF DrainRollback
  <2>7. CASE DrainFire(d)
    <3> DEFINE row == [drain[d] EXCEPT !.pc = "mark", !.run = Len(runs) + 1]
    <3>1. drain' = [drain EXCEPT ![d] = row]
      BY <2>7 DEF DrainFire
    <3>2. row.ent = drain[d].ent /\ row.firing = drain[d].firing
      BY <1>1 DEF DrainLocals
    <3> QED
      BY <2>1, <3>1, <3>2, GotoQueue
  <2> QED
    BY <1>4, <2>4, <2>5, <2>6, <2>7
<1>5. CASE DrainRevert(d) \/ DrainError(d)
  <2>1. InLoop(d) /\ DrainReturn(d) /\ UNCHANGED firings
    BY <1>5 DEF DrainRevert, DrainError, InLoop, Holding
  <2> QED
    BY <2>1, ReturnQueue
<1>6. CASE DrainMarkFired(d) \/ DrainMarkSkipped(d)
  <2> DEFINE h == drain[d].firing
  <2>1. Holding(d) /\ InLoop(d)
    BY <1>6 DEF DrainMarkFired, DrainMarkSkipped, Holding, InLoop
  <2>2. \E status \in {"fired", "skipped"}, r \in Nat : \E why : Settle(h, status, why, r)
    <3>1. CASE DrainMarkFired(d)
      BY <1>1, <3>1 DEF DrainMarkFired, DrainLocals
    <3>2. CASE DrainMarkSkipped(d)
      BY <3>2 DEF DrainMarkSkipped
    <3> QED
      BY <1>6, <3>1, <3>2
  <2>3. /\ FifoPerEntity'
        /\ \A x \in DrainThreads \ {d}, e \in Entities, f \in DOMAIN firings :
             Holding(x) /\ drain[x].ent = e /\ drain[x].firing = f => Oldest(e, f)'
    BY <2>1, <2>2, SettleKeeps
  <2>4. \A x \in DrainThreads \ {d} : drain'[x] = drain[x]
    BY <1>6, <2>1, ReturnKeeps DEF DrainMarkFired, DrainMarkSkipped, IInv, TypeOK
  <2>5. ~Holding(d)'
    <3>1. CASE DrainMarkFired(d)
      BY <2>1, <3>1, ReturnKeeps DEF DrainMarkFired, InLoop
    <3>2. CASE DrainMarkSkipped(d)
      <4>1. drain'[d].pc = "pop"
        BY <3>2 DEF DrainMarkSkipped, DrainIdle, IInv, TypeOK
      <4> QED
        BY <4>1 DEF Holding
    <3> QED
      BY <1>6, <3>1, <3>2
  <2>6. ASSUME NEW x \in DrainThreads, NEW e, NEW f,
               Holding(x)', drain'[x].ent = e, drain'[x].firing = f
        PROVE  Oldest(e, f)'
    <3>1. x # d /\ drain'[x] = drain[x]
      BY <2>4, <2>5, <2>6
    <3>2. Holding(x) /\ drain[x].ent = e /\ drain[x].firing = f
      BY <2>6, <3>1 DEF Holding
    <3>3. e \in Entities /\ f \in DOMAIN firings
      BY <3>2 DEF IInv, TypeOK, DrainLocals, HeldIsOldest, Oldest, PendingOf
    <3> QED
      BY <2>3, <3>1, <3>2, <3>3
  <2>7. HeldIsOldest'
    BY <2>6 DEF HeldIsOldest, Oldest, PendingOf, Pending, FiringEntity
  <2>8. LockHeld'
    <3>1. CASE DrainMarkFired(d)
      <4>1. /\ ~InLoop(d)'
            /\ \A e \in Entities : lock[e] # d /\ lock[e] # Nobody => lock'[e] = lock[e]
        BY <2>1, <3>1, ReturnKeeps DEF DrainMarkFired
      <4>2. ASSUME NEW x \in DrainThreads \ {d}, InLoop(x)'
            PROVE  lock'[drain'[x].ent] = x
        <5>1. InLoop(x) /\ drain'[x].ent = drain[x].ent
          BY <2>4, <4>2 DEF InLoop, Holding
        <5>2. lock[drain[x].ent] = x /\ x # Nobody /\ drain[x].ent \in Entities
          BY <5>1, ThreadAssumption DEF IInv, LockHeld, TypeOK, DrainLocals
        <5> QED
          BY <4>1, <5>1, <5>2
      <4> QED
        BY <4>1, <4>2 DEF LockHeld
    <3>2. CASE DrainMarkSkipped(d)
      <4>1. lock' = lock /\ drain'[d].ent = drain[d].ent
        BY <1>1, <3>2, Defaults DEF DrainMarkSkipped, IInv, TypeOK, DrainLocals
      <4> QED
        BY <2>1, <2>4, <4>1 DEF IInv, LockHeld, InLoop, Holding
    <3> QED
      BY <1>6, <3>1, <3>2
  <2> QED
    BY <2>3, <2>7, <2>8
<1> QED
  BY <1>2, <1>3, <1>4, <1>5, <1>6 DEF DrainStep

\* A drain or a sweep that starts is not in the loop yet.
LEMMA StartQueue ==
  ASSUME IInv,
         \/ \E d \in Drainers, e \in Entities : DrainStart(d, e)
         \/ SweepStep
  PROVE  LockHeld' /\ HeldIsOldest' /\ FifoPerEntity'
<1>1. PICK d \in DrainThreads :
        /\ drain'[d].pc \in {"idle", "sweep", "lock"}
        /\ \A x \in DrainThreads \ {d} : drain'[x] = drain[x]
        /\ UNCHANGED <<firings, lock>>
  <2>1. CASE \E d \in Drainers, e \in Entities : DrainStart(d, e)
    <3> PICK d \in Drainers, e \in Entities : DrainStart(d, e)
      BY <2>1
    <3>1. d \in DrainThreads
      BY DEF DrainThreads
    <3>2. drain'[d].pc = "lock" /\ \A x \in DrainThreads \ {d} : drain'[x] = drain[x]
      BY <3>1 DEF DrainStart, DrainIdle, IInv, TypeOK
    <3>3. UNCHANGED <<firings, lock>>
      BY DEF DrainStart
    <3> QED
      BY <3>1, <3>2, <3>3
  <2>2. CASE SweepList
    BY <2>2 DEF SweepList, DrainThreads, DrainIdle, IInv, TypeOK
  <2>3. CASE \E e \in Entities : SweepNext(e)
    <3> PICK e \in Entities : SweepNext(e)
      BY <2>3
    <3>1. Sweeper \in DrainThreads
      BY DEF DrainThreads
    <3>2. \E pc \in {"idle", "sweep", "lock"} : \E x :
            drain' = [drain EXCEPT ![Sweeper] =
              [DrainIdle EXCEPT !.pc = pc, !.ent = x, !.todo = drain[Sweeper].todo \ {e}]]
      BY DEF SweepNext
    <3> PICK pc \in {"idle", "sweep", "lock"} :
               \E x : drain' = [drain EXCEPT ![Sweeper] =
                 [DrainIdle EXCEPT !.pc = pc, !.ent = x, !.todo = drain[Sweeper].todo \ {e}]]
      BY <3>2
    <3>3. drain'[Sweeper].pc = pc /\ \A y \in DrainThreads \ {Sweeper} : drain'[y] = drain[y]
      BY <3>1 DEF DrainIdle, IInv, TypeOK
    <3>4. UNCHANGED <<firings, lock>>
      BY DEF SweepNext
    <3> QED
      BY <3>1, <3>3, <3>4
  <2> QED
    BY <2>1, <2>2, <2>3 DEF SweepStep
<1>2. ~InLoop(d)' /\ ~Holding(d)'
  BY <1>1 DEF InLoop, Holding
<1> QED
  BY <1>1, <1>2, DrainFrame DEF IInv

\* A restart leaves nobody in the loop.
LEMMA CrashQueue ==
  ASSUME IInv, Crash
  PROVE  LockHeld' /\ HeldIsOldest' /\ FifoPerEntity'
<1>1. \A d \in DrainThreads : drain'[d].pc = "idle"
  BY DEF Crash, DrainIdle
<1>2. \A d \in DrainThreads : ~InLoop(d)' /\ ~Holding(d)'
  BY <1>1 DEF InLoop, Holding
<1>3. FifoPerEntity'
  BY DEF IInv, Crash, FifoPerEntity, Pending, FiringEntity
<1> QED
  BY <1>2, <1>3 DEF LockHeld, HeldIsOldest

\* Every step keeps the types and the three facts about the queue.
LEMMA StepInv == IInv /\ [Next]_vars => IInv'
<1> SUFFICES ASSUME IInv, [Next]_vars PROVE IInv'
  OBVIOUS
<1> DEFINE Queue == LockHeld /\ HeldIsOldest /\ FifoPerEntity
<1> USE DEF IInv
<1>1. CASE \E t \in Tasks, M \in SUBSET Triggers :
             HandleEvent(t, M) \/ \E th \in Derivers : ReDerive(th, t, M)
  <2>1. UNCHANGED <<firings, lock, drain>>
    BY <1>1 DEF HandleEvent, ReDerive
  <2> QED
    BY <1>1, <2>1, EventType, QueueFrame
<1>2. CASE \E t \in Tasks : CloseTask(t) \/ CloseEntity(t)
  <2>1. UNCHANGED <<firings, lock, drain>>
    BY <1>2 DEF CloseTask, CloseEntity
  <2>2. {} \in SUBSET Triggers
    OBVIOUS
  <2> QED
    BY <1>2, <2>1, <2>2, EventType, QueueFrame
<1>3. CASE \E t \in Tasks, u \in Users : UserRequest(u, t)
  <2>1. UNCHANGED <<firings, lock, drain>>
    BY <1>3 DEF UserRequest, UserClaims, UserDelegates, UserCloses, UserSnoozes, UserRequeues
  <2> QED
    BY <1>3, <2>1, UserRequestType, QueueFrame
<1>4. CASE \E r \in DOMAIN runs : RunStep(r) \/ Resume(r)
  <2>1. UNCHANGED <<firings, lock, drain>>
    BY <1>4 DEF RunStep, RunReturns, MirrorReads, MirrorWrites, RunExits, Resume
  <2> QED
    BY <1>4, <2>1, RunType, QueueFrame
<1>5. CASE \E g \in Triggers : ToggleTrigger(g)
  <2>1. UNCHANGED <<firings, lock, drain>>
    BY <1>5 DEF ToggleTrigger
  <2> QED
    BY <1>5, <2>1, AdminType, QueueFrame
<1>6. CASE Crash
  BY <1>6, AdminType, CrashQueue
<1>7. CASE FinishClose
  <2>1. UNCHANGED <<firings, lock, drain>>
    BY <1>7 DEF FinishClose
  <2> QED
    BY <1>7, <2>1, FinishCloseType, QueueFrame
<1>8. CASE \E th \in RouterThreads : RouterStep(th)
  <2> PICK th \in RouterThreads : RouterStep(th)
    BY <1>8
  <2>1. Enqueue(th) \/ UNCHANGED <<firings, lock, drain>>
    BY DEF RouterStep, CheckActive, CheckQueue, FireDirect, StampAgentClaim, AutoError
  <2> QED
    BY <2>1, RouterType, EnqueueKeeps, QueueFrame
<1>9. CASE \E d \in DrainThreads : DrainStep(d)
  BY <1>9, DrainType, DrainQueue
<1>10. CASE (\E d \in Drainers, e \in Entities : DrainStart(d, e)) \/ SweepStep
  BY <1>10, StartType, StartQueue
<1>11. CASE \E u \in Users : UserStep(u)
  <2>1. UNCHANGED <<firings, lock, drain>>
    BY <1>11 DEF UserStep, UserCancels, UserDelegateRuns
  <2> QED
    BY <1>11, <2>1, UserType, QueueFrame
<1>12. CASE UNCHANGED vars
  <2>1. UNCHANGED <<firings, lock, drain>>
    BY <1>12 DEF vars
  <2>2. TypeOK'
    BY <1>12 DEF vars, TypeOK
  <2> QED
    BY <2>1, <2>2, QueueFrame
<1> QED
  BY <1>1, <1>2, <1>3, <1>4, <1>5, <1>6, <1>7, <1>8, <1>9, <1>10, <1>11, <1>12
     DEF Next, Input

\* The inductive invariant holds in every reachable state.
THEOREM InductiveInvariant == Spec => []IInv
<1> QED
  BY InitInv, StepInv, PTL DEF Spec

\* Every variable keeps its type, whatever the goroutines do.
THEOREM TypeCorrect == Spec => []TypeOK
<1>1. IInv => TypeOK
  BY DEF IInv
<1> QED
  BY <1>1, InductiveInvariant, PTL

\* What a drain settles is what it validated: from its pop to its settling the
\* firing stays the oldest pending one of the entity (DrainEntity and its
\* per-entity mutex).
THEOREM DrainHoldsOldest == Spec => []HeldIsOldest
<1>1. IInv => HeldIsOldest
  BY DEF IInv
<1> QED
  BY <1>1, InductiveInvariant, PTL

\* Firings of an entity leave pending_firings in the order they entered it.
THEOREM QueueIsFifo == Spec => []FifoPerEntity
<1>1. IInv => FifoPerEntity
  BY DEF IInv
<1> QED
  BY <1>1, InductiveInvariant, PTL

\* A user who claims a task before the bot's stamp keeps it, and a task that is
\* closed by then stays closed, but for a user's request, a drain that rolls back
\* and a run that mirrors its stage into a task it read before: of everything
\* that writes the row, the stamp alone sets a claim, and it looks at the row
\* again (router.go stampAgentClaim).
THEOREM UserAlwaysWins == Spec => UserWins
<1> DEFINE Kept == \A t \in Tasks : Respected(t)
<1>1. IInv /\ [Next]_vars => Kept
  <2> SUFFICES ASSUME IInv, [Next]_vars
               PROVE  Kept
    OBVIOUS
  <2>t. task \in [Tasks -> TaskRow]
    BY DEF IInv, TypeOK
  <2>1. ASSUME NEW t \in Tasks, NEW M \in SUBSET Triggers, HandleEvent(t, M)
        PROVE  Kept
    BY <2>1, <2>t DEF HandleEvent, TaskRow, Respected
  <2>2. ASSUME NEW u \in Users, NEW t \in Tasks, UserRequest(u, t)
        PROVE  Kept
    <3>1. \A s \in Tasks \ {t} : task'[s] = task[s]
      BY <2>2, <2>t
      DEF UserRequest, UserClaims, UserDelegates, UserCloses, UserSnoozes, UserRequeues
    <3> QED
      BY <2>2, <3>1 DEF Respected
  <2>c. \A t \in Tasks : /\ ClosedRow(t).claim = task[t].claim
                         /\ task[t].status = "closed" => ClosedRow(t) = task[t]
    BY <2>t DEF ClosedRow, TaskRow
  <2>3. CASE FinishClose
    <3>1. \A t \in Tasks : task'[t] \in {task[t], ClosedRow(t)}
      BY <2>3, <2>t DEF FinishClose
    <3> QED
      BY <3>1, <2>c DEF Respected
  <2>4. ASSUME NEW r \in DOMAIN runs, RunExits(r)
         PROVE  Kept
    <3>1. \/ task' = task
          \/ task' = [task EXCEPT ![runs[r].task] = ClosedRow(runs[r].task)]
      BY <2>4 DEF RunExits
    <3>2. \A t \in Tasks : task'[t] \in {task[t], ClosedRow(t)}
      BY <3>1, <2>t
    <3> QED
      BY <3>2, <2>c DEF Respected
  <2>5. ASSUME NEW d \in DrainThreads, DrainRevert(d)
         PROVE  Kept
    <3>1. \/ task' = task
          \/ task' = [task EXCEPT ![firings[drain[d].firing].task].status = "open"]
      BY <2>5 DEF DrainRevert
    <3>2. ASSUME NEW t \in Tasks
          PROVE  /\ task'[t].claim = task[t].claim
                 /\ t # firings[drain[d].firing].task => task'[t] = task[t]
      BY <3>1, <2>t DEF TaskRow
    <3> QED
      BY <3>2, <2>5 DEF Respected
  <2>17. ASSUME NEW r \in DOMAIN runs, MirrorWrites(r)
         PROVE  Kept
    <3>1. task' = [task EXCEPT ![runs[r].task].status = "open"]
      BY <2>17 DEF MirrorWrites
    <3>2. ASSUME NEW t \in Tasks
          PROVE  /\ task'[t].claim = task[t].claim
                 /\ t # runs[r].task => task'[t] = task[t]
      BY <3>1, <2>t DEF TaskRow
    <3> QED
      BY <3>2, <2>17 DEF Respected
  <2>6. ASSUME NEW th \in RouterThreads, StampAgentClaim(th)
        PROVE  Kept
    <3>1. CASE task[auto[th].task].claim = "none" /\ task[auto[th].task].status # "closed"
      <4>1. \A t \in Tasks \ {auto[th].task} : task'[t] = task[t]
        BY <2>6, <3>1, <2>t DEF StampAgentClaim
      <4> QED
        BY <3>1, <4>1 DEF Respected
    <3>2. CASE ~(task[auto[th].task].claim = "none" /\ task[auto[th].task].status # "closed")
      BY <2>6, <3>2 DEF StampAgentClaim, Respected
    <3> QED
      BY <3>1, <3>2
  <2>7. CASE UNCHANGED task
    BY <2>7 DEF Respected
  <2>8. ASSUME NEW th \in RouterThreads, RouterStep(th)
        PROVE  StampAgentClaim(th) \/ UNCHANGED task
    BY <2>8 DEF RouterStep, CheckActive, CheckQueue, Enqueue, FireDirect, AutoError
  <2>9. ASSUME NEW d \in DrainThreads, DrainStep(d)
        PROVE  DrainRevert(d) \/ UNCHANGED task
    <3>1. DrainLock(d) \/ DrainPop(d) => UNCHANGED task
      BY DEF DrainLock, DrainPop
    <3>2. DrainCheckTask(d) \/ DrainCheckTrigger(d) => UNCHANGED task
      BY DEF DrainCheckTask, DrainCheckTrigger
    <3>3. DrainFire(d) => UNCHANGED task
      BY DEF DrainFire
    <3>4. DrainMarkFired(d) \/ DrainRollback(d) => UNCHANGED task
      BY DEF DrainMarkFired, DrainRollback
    <3>5. DrainMarkSkipped(d) \/ DrainError(d) => UNCHANGED task
      BY DEF DrainMarkSkipped, DrainError
    <3> QED
      BY <2>9, <3>1, <3>2, <3>3, <3>4, <3>5 DEF DrainStep
  <2>10. (\E d \in Drainers, e \in Entities : DrainStart(d, e)) \/ SweepStep => UNCHANGED task
    BY DEF DrainStart, SweepStep, SweepList, SweepNext
  <2>11. ASSUME NEW r \in DOMAIN runs, RunStep(r) \/ Resume(r)
        PROVE  RunExits(r) \/ MirrorWrites(r) \/ UNCHANGED task
    <3>1. ASSUME NEW status \in RunStatuses, RunReturns(r, status)
          PROVE  UNCHANGED task
      BY <3>1 DEF RunReturns
    <3>2. Resume(r) \/ MirrorReads(r) => UNCHANGED task
      BY DEF Resume, MirrorReads
    <3> QED
      BY <2>11, <3>1, <3>2 DEF RunStep
  <2>12. (\E u \in Users : UserStep(u)) => UNCHANGED task
    BY DEF UserStep, UserCancels, UserDelegateRuns
  <2>13. ASSUME NEW t \in Tasks, CloseTask(t) \/ CloseEntity(t)
         PROVE  UNCHANGED task
    BY <2>13 DEF CloseTask, CloseEntity
  <2>14. ASSUME NEW th \in Derivers, NEW t \in Tasks, NEW M \in SUBSET Triggers, ReDerive(th, t, M)
         PROVE  UNCHANGED task
    BY <2>14 DEF ReDerive
  <2>15. (\E g \in Triggers : ToggleTrigger(g)) \/ Crash => UNCHANGED task
    BY DEF ToggleTrigger, Crash
  <2>16. UNCHANGED vars => UNCHANGED task
    BY DEF vars
  <2> QED
    BY <2>1, <2>2, <2>3, <2>4, <2>5, <2>6, <2>7, <2>8, <2>9, <2>10, <2>11, <2>12, <2>13, <2>14,
       <2>15, <2>16, <2>17
    DEF Next, Input
<1> QED
  BY <1>1, InductiveInvariant, PTL DEF Spec, UserWins

-----------------------------------------------------------------------------
(***************************************************************************)
(* The queue implements the abstract log: only Enqueue, MarkFired and      *)
(* MarkSkipped write pending_firings, and each is a step of the log.       *)
(***************************************************************************)
FiringKey(f) == [task |-> firings[f].task, trigger |-> firings[f].trigger]

LogEntry == [key : [task : Tasks, trigger : Triggers], status : {"pending", "fired", "skipped"}]

\* The log of the abstract specification, as the queue's image.
LEMMA LogType ==
  ASSUME TypeOK
  PROVE  /\ LogOf(firings) \in Seq(LogEntry)
         /\ DOMAIN LogOf(firings) = DOMAIN firings
         /\ \A f \in DOMAIN firings :
              LogOf(firings)[f] = [key |-> FiringKey(f),
                                   status |-> firings[f].status]
<1>1. \A f \in DOMAIN firings : firings[f] \in Firing
  BY ElementOfSeq, LenProperties DEF TypeOK
<1>2. /\ DOMAIN LogOf(firings) = DOMAIN firings
      /\ \A f \in DOMAIN firings :
           LogOf(firings)[f] = [key |-> FiringKey(f),
                                status |-> firings[f].status]
      /\ LogOf(firings) = [f \in DOMAIN firings |-> LogOf(firings)[f]]
  BY DEF LogOf, FiringKey
<1>3. \A f \in DOMAIN firings : LogOf(firings)[f] \in LogEntry
  BY <1>1, <1>2 DEF LogEntry, Firing, FiringKey
<1>4. firings \in Seq(Firing)
  BY DEF TypeOK
<1> QED
  BY <1>2, <1>3, <1>4, SeqMap

\* The lane of a firing is its entity.
LaneMap == [k \in [task : Tasks, trigger : Triggers] |-> EntityOf[k.task]]

\* The lane of a key is the entity of its task.
LEMMA LaneOfFiring ==
  ASSUME TypeOK, NEW f \in DOMAIN firings
  PROVE  FiringKey(f) \in [task : Tasks, trigger : Triggers] /\ LaneMap[FiringKey(f)] = FiringEntity(f)
<1>1. firings[f] \in Firing
  BY ElementOfSeq, LenProperties DEF TypeOK
<1>2. firings[f].task \in Tasks /\ firings[f].trigger \in Triggers
  BY <1>1 DEF Firing
<1>3. FiringKey(f) \in [task : Tasks, trigger : Triggers] /\ FiringKey(f).task = firings[f].task
  BY <1>2 DEF FiringKey
<1>4. LaneMap[FiringKey(f)] = EntityOf[FiringKey(f).task]
  BY <1>3 DEF LaneMap
<1> QED
  BY <1>3, <1>4 DEF FiringEntity

\* What the abstract log sees of a firing.
LEMMA LogView ==
  ASSUME TypeOK, NEW f \in DOMAIN firings
  PROVE  /\ Log!Waiting(f) <=> Pending(f)
         /\ LogOf(firings)[f].key = FiringKey(f)
         /\ Log!InLane(FiringEntity(f)) = PendingOf(FiringEntity(f))
<1>1. \A g \in DOMAIN firings :
        /\ LogOf(firings)[g].key = FiringKey(g)
        /\ Log!Waiting(g) <=> Pending(g)
  BY LogType DEF Log!Waiting, Pending
<1>2. \A g \in DOMAIN firings : LaneMap[LogOf(firings)[g].key] = FiringEntity(g)
  BY <1>1, LaneOfFiring
<1>3. Log!InLane(FiringEntity(f))
        = {g \in DOMAIN LogOf(firings) :
             Log!Waiting(g) /\ LaneMap[LogOf(firings)[g].key] = FiringEntity(f)}
  BY DEF Log!InLane, LaneMap
<1>4. Log!InLane(FiringEntity(f)) = PendingOf(FiringEntity(f))
  BY <1>1, <1>2, <1>3, LogType DEF PendingOf
<1> QED
  BY <1>1, <1>4

\* An empty queue is an empty log.
LEMMA LogInit == Init => Log!Init
<1> SUFFICES ASSUME Init PROVE LogOf(firings) = <<>>
  BY DEF Log!Init
<1>1. TypeOK
  BY InitInv DEF IInv
<1>2. DOMAIN LogOf(firings) = {} /\ LogOf(firings) \in Seq(LogEntry)
  BY <1>1, LogType DEF Init
<1> QED
  BY <1>2, LenProperties, EmptySeq

\* Settling the held firing is the abstract step that settles a head.
LEMMA LogSettle ==
  ASSUME IInv, IInv', NEW d \in DrainThreads, Holding(d),
         NEW h, h = drain[d].firing,
         NEW status \in {"fired", "skipped"}, NEW why, NEW r,
         Settle(h, status, why, r)
  PROVE  Log!SettleHead(h, status)
<1>1. h \in DOMAIN firings /\ Pending(h) /\ FiringEntity(h) = drain[d].ent
  BY DEF IInv, HeldIsOldest, Oldest, PendingOf
<1>2. \A g \in PendingOf(FiringEntity(h)) : h <= g
  BY <1>1 DEF IInv, HeldIsOldest, Oldest
<1> DEFINE row == [firings[h] EXCEPT !.status = status, !.reason = why, !.run = r]
<1>3. firings[h] \in Firing
  BY <1>1, ElementOfSeq, LenProperties DEF IInv, TypeOK
<1>4. row.status = status /\ row.task = firings[h].task /\ row.trigger = firings[h].trigger
  BY <1>3 DEF Firing
<1>5. firings' = [firings EXCEPT ![h] = row]
  BY <1>1 DEF Settle, Pending
<1> HIDE DEF row
<1>6. LogOf(firings)' = [LogOf(firings) EXCEPT ![h] =
        [key |-> FiringKey(h), status |-> status]]
  <2>1. firings'[h] = row /\ DOMAIN firings' = DOMAIN firings
    BY <1>1, <1>5
  <2>2. \A f \in DOMAIN firings : f # h => firings'[f] = firings[f]
    BY <1>5
  <2>3. /\ DOMAIN LogOf(firings)' = DOMAIN firings
        /\ \A f \in DOMAIN firings : f # h => LogOf(firings)'[f] = LogOf(firings)[f]
        /\ LogOf(firings)'[h] = [key |-> FiringKey(h), status |-> status]
        /\ LogOf(firings)' = [f \in DOMAIN firings |-> LogOf(firings)'[f]]
    BY <1>1, <1>4, <2>1, <2>2 DEF LogOf, FiringKey
  <2>4. /\ DOMAIN LogOf(firings) = DOMAIN firings
        /\ LogOf(firings) = [f \in DOMAIN firings |-> LogOf(firings)[f]]
    BY DEF LogOf
  <2> QED
    BY <1>1, <2>3, <2>4
<1>7. [LogOf(firings)[h] EXCEPT !.status = status]
        = [key |-> FiringKey(h), status |-> status]
  BY <1>1, LogType DEF IInv
<1>8. LaneMap[LogOf(firings)[h].key] = FiringEntity(h)
  BY <1>1, LaneOfFiring, LogType DEF IInv
<1>9. h \in DOMAIN LogOf(firings) /\ Log!Waiting(h)
  BY <1>1, LogType, LogView DEF IInv
<1>10. \A g \in Log!InLane(FiringEntity(h)) : h <= g
  BY <1>1, <1>2, LogView DEF IInv
<1> QED
  BY <1>6, <1>7, <1>8, <1>9, <1>10 DEF Log!SettleHead, LaneMap

\* Enqueue is the abstract step that appends, or changes nothing.
LEMMA LogEnqueue ==
  ASSUME IInv, NEW th \in RouterThreads, Enqueue(th)
  PROVE  UNCHANGED firings \/ \E k \in [task : Tasks, trigger : Triggers] : Log!Append1(k)
<1> DEFINE t == auto[th].task
<1> DEFINE g == auto[th].trigger
<1> DEFINE new == [task |-> t, trigger |-> g, status |-> "pending", reason |-> "none", run |-> 0]
<1>1. CASE Duplicate(t, g)
  BY <1>1 DEF Enqueue
<1>2. CASE ~Duplicate(t, g)
  <2>1. firings' = Append(firings, new)
    BY <1>2 DEF Enqueue
  <2>2. t \in Tasks /\ g \in Triggers
    BY DEF IInv, TypeOK, AutoLocals
  <2>3. new \in Firing /\ new.task = t /\ new.trigger = g /\ new.status = "pending"
    BY <2>2 DEF Firing
  <2> HIDE DEF new
  <2> DEFINE n == Len(firings)
  <2>4. n \in Nat /\ DOMAIN firings = 1..n /\ firings \in Seq(Firing)
    BY LenProperties DEF IInv, TypeOK
  <2>5. /\ DOMAIN firings' = 1..n + 1
        /\ \A f \in 1..n : firings'[f] = firings[f]
        /\ firings'[n + 1] = new
    BY <2>1, <2>3, <2>4, AppendProperties, LenProperties
  <2> DEFINE entry == [key |-> [task |-> t, trigger |-> g], status |-> "pending"]
  <2>6. LogOf(firings) \in Seq(LogEntry) /\ entry \in LogEntry
    BY <2>2, LogType DEF IInv, LogEntry
  <2>7. Len(LogOf(firings)) = n /\ DOMAIN LogOf(firings) = 1..n
    BY <2>4, <2>6, LogType, LenProperties DEF IInv
  <2>8. /\ Append(LogOf(firings), entry) \in Seq(LogEntry)
        /\ DOMAIN Append(LogOf(firings), entry) = 1..n + 1
        /\ \A f \in 1..n : Append(LogOf(firings), entry)[f] = LogOf(firings)[f]
        /\ Append(LogOf(firings), entry)[n + 1] = entry
    BY <2>6, <2>7, AppendProperties, LenProperties
  <2>9. LogOf(firings)' = Append(LogOf(firings), entry)
    <3> DEFINE after == [f \in 1..n + 1 |-> IF f = n + 1 THEN entry ELSE LogOf(firings)[f]]
    <3>1. \A f \in 1..n + 1 : f # n + 1 => f \in 1..n
      BY <2>4
    <3>2. \A f \in 1..n : LogOf(firings)'[f] = LogOf(firings)[f]
      BY <2>4, <2>5 DEF LogOf
    <3>3. /\ LogOf(firings)'[n + 1] = [key |-> [task |-> t, trigger |-> g], status |-> "pending"]
          /\ LogOf(firings)' = [f \in 1..n + 1 |-> LogOf(firings)'[f]]
      BY <2>3, <2>4, <2>5 DEF LogOf
    <3>4. LogOf(firings)' = after
      BY <3>1, <3>2, <3>3
    <3>5. Append(LogOf(firings), entry) = after
      <4>1. Append(LogOf(firings), entry)
              = [f \in 1..n + 1 |-> Append(LogOf(firings), entry)[f]]
        BY <2>8, LenProperties
      <4> QED
        BY <2>8, <3>1, <4>1
    <3> QED
      BY <3>4, <3>5
  <2>10. \A f \in DOMAIN LogOf(firings) : Log!Waiting(f) => LogOf(firings)[f].key # [task |-> t, trigger |-> g]
    <3> SUFFICES ASSUME NEW f \in DOMAIN firings, Log!Waiting(f)
                 PROVE  LogOf(firings)[f].key # [task |-> t, trigger |-> g]
      BY <2>4, <2>7
    <3>1. Pending(f) /\ LogOf(firings)[f].key = FiringKey(f)
      BY LogView DEF IInv
    <3>2. firings[f].task # t \/ firings[f].trigger # g
      BY <1>2, <3>1 DEF Duplicate
    <3> QED
      BY <3>1, <3>2 DEF FiringKey
  <2> QED
    BY <2>2, <2>9, <2>10 DEF Log!Append1
<1> QED
  BY <1>1, <1>2

\* Every step of the program is a step of the log or leaves it alone.
LEMMA LogStep == IInv /\ IInv' /\ [Next]_vars => [Log!Next]_(LogOf(firings))
<1> SUFFICES ASSUME IInv, IInv', [Next]_vars
             PROVE  Log!Next \/ UNCHANGED LogOf(firings)
  OBVIOUS
<1>1. CASE \E th \in RouterThreads : RouterStep(th)
  <2> PICK th \in RouterThreads : RouterStep(th)
    BY <1>1
  <2>1. Enqueue(th) \/ UNCHANGED firings
    BY DEF RouterStep, CheckActive, CheckQueue, FireDirect, StampAgentClaim, AutoError
  <2>2. UNCHANGED firings \/ \E k \in [task : Tasks, trigger : Triggers] : Log!Append1(k)
    BY <2>1, LogEnqueue
  <2> QED
    BY <2>2 DEF Log!Next
<1>2. CASE \E d \in DrainThreads : DrainStep(d)
  <2> PICK d \in DrainThreads : DrainStep(d)
    BY <1>2
  <2> DEFINE h == drain[d].firing
  <2>1. CASE DrainMarkFired(d)
    <3>1. Holding(d) /\ Settle(h, "fired", "none", drain[d].run)
      BY <2>1 DEF DrainMarkFired, Holding
    <3>2. Log!SettleHead(h, "fired")
      BY <3>1, LogSettle
    <3>3. h \in DOMAIN LogOf(firings)
      BY <3>2 DEF Log!SettleHead
    <3> QED
      BY <3>2, <3>3 DEF Log!Next
  <2>2. CASE DrainMarkSkipped(d)
    <3>1. Holding(d) /\ Settle(h, "skipped", drain[d].reason, 0)
      BY <2>2 DEF DrainMarkSkipped, Holding
    <3>2. Log!SettleHead(h, "skipped")
      BY <3>1, LogSettle
    <3>3. h \in DOMAIN LogOf(firings)
      BY <3>2 DEF Log!SettleHead
    <3> QED
      BY <3>2, <3>3 DEF Log!Next
  <2>3. CASE ~DrainMarkFired(d) /\ ~DrainMarkSkipped(d)
    <3>1. UNCHANGED firings
      BY <2>3 DEF DrainStep, DrainLock, DrainPop, DrainCheckTask, DrainCheckTrigger, DrainFire,
                  DrainRollback, DrainRevert, DrainError
    <3> QED
      BY <3>1
  <2> QED
    BY <2>1, <2>2, <2>3
<1>3. CASE \/ \E t \in Tasks, M \in SUBSET Triggers :
                HandleEvent(t, M) \/ \E th \in Derivers : ReDerive(th, t, M)
           \/ \E t \in Tasks : CloseTask(t) \/ CloseEntity(t)
           \/ \E r \in DOMAIN runs : RunStep(r) \/ Resume(r)
           \/ FinishClose
           \/ (\E d \in Drainers, e \in Entities : DrainStart(d, e)) \/ SweepStep
  <2>1. UNCHANGED firings
    BY <1>3 DEF HandleEvent, ReDerive, CloseTask, CloseEntity, RunStep, RunReturns,
                MirrorReads, MirrorWrites, RunExits, Resume, FinishClose, DrainStart, SweepStep, SweepList, SweepNext
  <2> QED
    BY <2>1
<1>4. CASE \/ \E t \in Tasks, u \in Users : UserRequest(u, t)
           \/ \E u \in Users : UserStep(u)
           \/ \E g \in Triggers : ToggleTrigger(g)
           \/ Crash
           \/ UNCHANGED vars
  <2>1. UNCHANGED firings
    BY <1>4 DEF UserRequest, UserClaims, UserDelegates, UserCloses, UserSnoozes, UserRequeues,
                UserStep, UserCancels, UserDelegateRuns, ToggleTrigger, Crash, vars
  <2> QED
    BY <2>1
<1> QED
  BY <1>1, <1>2, <1>3, <1>4 DEF Next, Input

\* pending_firings, written by unsynchronised goroutines, behaves like the
\* log of FiringLog: no duplicate waits, an entity's firings are settled in
\* order, a settled one never changes (router.go DrainEntity, Enqueue).
THEOREM QueueImplementsLog == Spec => ImplementsFiringLog
<1>1. Init => Log!Init
  BY LogInit
<1>2. IInv /\ IInv' /\ [Next]_vars => [Log!Next]_(LogOf(firings))
  BY LogStep
<1> QED
  BY <1>1, <1>2, InductiveInvariant, PTL DEF Spec, ImplementsFiringLog, Log!Spec

-----------------------------------------------------------------------------
(***************************************************************************)
(* While the process does not crash, every drained run is accounted for.   *)
(***************************************************************************)
Wanted(r) == Active(r) /\ ~runs[r].signal /\ ~runs[r].lost

Owned ==
  /\ budget["crash"] = 0
  /\ \A r \in DOMAIN runs : runs[r].src # 0 => runs[r].src \in DOMAIN firings
  /\ FiringOwnsItsRun

\* Runs keep their source, none becomes wanted again, new ones have no source.
RunsKept ==
  /\ \A r \in DOMAIN runs : /\ r \in DOMAIN runs'
                            /\ runs'[r].src = runs[r].src
                            /\ Wanted(r)' => Wanted(r)
  /\ \A r \in DOMAIN runs' \ DOMAIN runs : runs'[r].src = 0

FiringsKept == \A f \in DOMAIN firings : f \in DOMAIN firings' /\ firings'[f] = firings[f]

MarksKept == \A d \in DrainThreads : drain[d].pc = "mark" => drain'[d] = drain[d]

\* Ownership survives a step that keeps firings, drains and old runs.
LEMMA OwnedFrame ==
  ASSUME Owned, RunsKept, FiringsKept, MarksKept, budget'["crash"] = budget["crash"]
  PROVE  Owned'
<1>1. \A r \in DOMAIN runs' : runs'[r].src # 0 => r \in DOMAIN runs
  BY DEF RunsKept
<1>2. \A r \in DOMAIN runs' : runs'[r].src # 0 => runs'[r].src \in DOMAIN firings'
  BY <1>1 DEF Owned, RunsKept, FiringsKept
<1>3. ASSUME NEW r \in DOMAIN runs', runs'[r].src # 0, Wanted(r)'
      PROVE  \/ firings'[runs'[r].src].status = "fired" /\ firings'[runs'[r].src].run = r
             \/ \E d \in DrainThreads : /\ drain'[d].pc = "mark"
                                        /\ drain'[d].run = r
                                        /\ drain'[d].firing = runs'[r].src
  <2>1. r \in DOMAIN runs /\ runs'[r].src = runs[r].src /\ Wanted(r)
    BY <1>1, <1>3 DEF RunsKept
  <2>2. CASE firings[runs[r].src].status = "fired" /\ firings[runs[r].src].run = r
    BY <1>3, <2>1, <2>2 DEF Owned, FiringsKept
  <2>3. CASE \E d \in DrainThreads : /\ drain[d].pc = "mark"
                                     /\ drain[d].run = r
                                     /\ drain[d].firing = runs[r].src
    BY <2>1, <2>3 DEF MarksKept
  <2> QED
    BY <1>3, <2>1, <2>2, <2>3 DEF Owned, FiringOwnsItsRun, Wanted
<1>4. FiringOwnsItsRun'
  BY <1>3 DEF FiringOwnsItsRun, Wanted
<1> QED
  BY <1>2, <1>4 DEF Owned

\* What the rows of runs are.
LEMMA RunRows ==
  ASSUME TypeOK
  PROVE  /\ \A r \in DOMAIN runs : runs[r] \in Run
         /\ DOMAIN runs = 1..Len(runs) /\ Len(runs) \in Nat
BY ElementOfSeq, LenProperties DEF TypeOK

\* No change of runs.
LEMMA RunsSame == ASSUME UNCHANGED runs PROVE RunsKept
BY DEF RunsKept, Wanted, Active

\* Cancel adds no run and revives none.
LEMMA CancelKeepsRuns ==
  ASSUME TypeOK, NEW R, CancelAll(R)
  PROVE  RunsKept
<1>1. DOMAIN runs' = DOMAIN runs
  BY DEF CancelAll
<1>2. ASSUME NEW r \in DOMAIN runs
      PROVE  runs'[r].src = runs[r].src /\ (Wanted(r)' => Wanted(r))
  <2>1. runs[r] \in Run
    BY RunRows
  <2>2. runs'[r] = runs[r] \/ runs'[r] = CancelledRow(r)
    BY DEF CancelAll
  <2> QED
    BY <2>1, <2>2 DEF CancelledRow, Wanted, Active, Run
<1> QED
  BY <1>1, <1>2 DEF RunsKept

\* The runs a Cancel names are not wanted afterwards.
LEMMA CancelUnwants ==
  ASSUME TypeOK, NEW r \in DOMAIN runs, CancelAll({r})
  PROVE  ~Wanted(r)'
<1>1. runs[r] \in Run
  BY RunRows
<1>2. runs'[r] = CancelledRow(r)
  BY DEF CancelAll
<1> QED
  BY <1>1, <1>2 DEF CancelledRow, Wanted, Active, Run

\* The row that Delegate appends.
LEMMA DelegatedRows ==
  ASSUME TypeOK, NEW t, NEW g, NEW origin, NEW src, runs' = Delegated(t, g, origin, src)
  PROVE  /\ DOMAIN runs' = DOMAIN runs \cup {Len(runs) + 1}
         /\ \A r \in DOMAIN runs : runs'[r] = runs[r]
         /\ runs'[Len(runs) + 1].src = src
<1> DEFINE new == [task |-> t, trigger |-> g, origin |-> origin, status |-> "active",
                   live |-> TRUE, signal |-> FALSE, mirror |-> FALSE,
                   src |-> src, lost |-> FALSE]
<1> DEFINE Any == Run \cup {new}
<1>1. runs \in Seq(Any) /\ new \in Any /\ new.src = src
  <2>1. \A r \in DOMAIN runs : runs[r] \in Any
    BY RunRows
  <2>2. runs = [r \in DOMAIN runs |-> runs[r]] /\ runs \in Seq(Run)
    BY DEF TypeOK
  <2> QED
    BY <2>1, <2>2, SeqMap
<1>2. runs' = Append(runs, new)
  BY DEF Delegated
<1> HIDE DEF new, Any
<1> QED
  BY <1>1, <1>2, RunRows, AppendProperties, LenProperties

\* A run that no drain started has no firing to belong to.
LEMMA DirectKeepsRuns ==
  ASSUME TypeOK, NEW t, NEW g, NEW origin, runs' = Delegated(t, g, origin, 0)
  PROVE  RunsKept
BY DelegatedRows DEF RunsKept, Wanted, Active

\* Other inputs leave the budget of restarts alone.
LEMMA SpendKeepsCrash ==
  ASSUME TypeOK, NEW input \in Inputs \ {"crash"}, NEW n, SpendSome(input, n)
  PROVE  budget'["crash"] = budget["crash"]
BY DEF SpendSome, TypeOK

\* Two drains never hold the same firing.
LEMMA HoldsAlone ==
  ASSUME IInv, NEW d \in DrainThreads, NEW x \in DrainThreads, Holding(d), Holding(x),
         drain[d].firing = drain[x].firing
  PROVE  d = x
<1>1. FiringEntity(drain[d].firing) = drain[d].ent /\ FiringEntity(drain[x].firing) = drain[x].ent
  BY DEF IInv, HeldIsOldest, Oldest, PendingOf
<1>2. lock[drain[d].ent] = d /\ lock[drain[x].ent] = x
  BY DEF IInv, LockHeld, Holding, InLoop
<1> QED
  BY <1>1, <1>2

\* What an entry of the queue says of the runs of its firing.
Accounts(r) ==
  \/ firings[runs[r].src].status = "fired" /\ firings[runs[r].src].run = r
  \/ \E d \in DrainThreads : /\ drain[d].pc = "mark"
                             /\ drain[d].run = r
                             /\ drain[d].firing = runs[r].src

\* Settling the held firing, which owns at most the run at hand.
LEMMA SettleOwned ==
  ASSUME IInv, Owned, NEW d \in DrainThreads, DrainMarkFired(d) \/ DrainMarkSkipped(d)
  PROVE  Owned'
<1> DEFINE h == drain[d].firing
<1>1. PICK status, why, n : Settle(h, status, why, n)
  BY DEF DrainMarkFired, DrainMarkSkipped
<1>2. Holding(d)
  BY DEF DrainMarkFired, DrainMarkSkipped, Holding
<1>3. h \in DOMAIN firings /\ Pending(h)
  BY <1>2 DEF IInv, HeldIsOldest, Oldest, PendingOf
<1>4. /\ DOMAIN firings' = DOMAIN firings
      /\ \A f \in DOMAIN firings : f # h => firings'[f] = firings[f]
  BY <1>1 DEF Settle
<1>5. UNCHANGED runs /\ UNCHANGED budget /\ \A x \in DrainThreads \ {d} : drain'[x] = drain[x]
  BY DEF DrainMarkFired, DrainMarkSkipped, DrainReturn, IInv, TypeOK
<1>6. ASSUME NEW r \in DOMAIN runs, runs[r].src # 0, Wanted(r)
      PROVE  Accounts(r)'
  <2>1. runs[r].src \in DOMAIN firings
    BY <1>6 DEF Owned
  <2>2. CASE firings[runs[r].src].status = "fired" /\ firings[runs[r].src].run = r
    BY <1>3, <1>4, <1>5, <2>1, <2>2 DEF Accounts, Pending
  <2>3. CASE \E x \in DrainThreads : /\ drain[x].pc = "mark"
                                     /\ drain[x].run = r
                                     /\ drain[x].firing = runs[r].src
    <3> PICK x \in DrainThreads : /\ drain[x].pc = "mark"
                                  /\ drain[x].run = r
                                  /\ drain[x].firing = runs[r].src
      BY <2>3
    <3>1. CASE x # d
      BY <1>5, <3>1 DEF Accounts
    <3>2. CASE x = d
      <4>1. DrainMarkFired(d)
        BY <3>2 DEF DrainMarkSkipped
      <4>2. Settle(h, "fired", "none", r)
        BY <3>2, <4>1 DEF DrainMarkFired
      <4>3. firings[h] \in Firing
        BY <1>3, ElementOfSeq, LenProperties DEF IInv, TypeOK
      <4>4. firings'[h].status = "fired" /\ firings'[h].run = r
        BY <1>3, <4>2, <4>3 DEF Settle, Pending, Firing
      <4> QED
        BY <1>5, <3>2, <4>4 DEF Accounts
    <3> QED
      BY <3>1, <3>2
  <2> QED
    BY <1>6, <2>2, <2>3 DEF Owned, FiringOwnsItsRun, Wanted
<1>7. FiringOwnsItsRun'
  BY <1>5, <1>6 DEF FiringOwnsItsRun, Accounts, Wanted, Active
<1> QED
  BY <1>4, <1>5, <1>7 DEF Owned

\* The drain that starts a run is about to record it.
LEMMA FireOwned ==
  ASSUME IInv, Owned, NEW d \in DrainThreads, DrainFire(d)
  PROVE  Owned'
<1> DEFINE f == drain[d].firing
<1> DEFINE new == Len(runs) + 1
<1>1. f \in DOMAIN firings
  BY DEF DrainFire, IInv, HeldIsOldest, Holding, Oldest, PendingOf
<1>2. /\ DOMAIN runs' = DOMAIN runs \cup {new}
      /\ \A r \in DOMAIN runs : runs'[r] = runs[r]
      /\ runs'[new].src = f
  BY DelegatedRows DEF DrainFire, IInv
<1>3. drain'[d].pc = "mark" /\ drain'[d].run = new /\ drain'[d].firing = f
  BY DEF DrainFire, IInv, TypeOK, DrainLocals
<1>4. \A x \in DrainThreads : drain[x].pc = "mark" => drain'[x] = drain[x]
  BY DEF DrainFire, IInv, TypeOK
<1>5. UNCHANGED <<firings, budget>>
  BY DEF DrainFire
<1>6. ASSUME NEW r \in DOMAIN runs', runs'[r].src # 0, Wanted(r)'
      PROVE  Accounts(r)'
  <2>1. CASE r = new
    BY <1>2, <1>3, <2>1 DEF Accounts
  <2>2. CASE r \in DOMAIN runs
    <3>1. runs'[r] = runs[r] /\ Wanted(r)
      BY <1>2, <1>6, <2>2 DEF Wanted, Active
    <3>2. Accounts(r)
      BY <1>6, <2>2, <3>1 DEF Owned, FiringOwnsItsRun, Wanted, Accounts
    <3> QED
      BY <1>4, <1>5, <3>1, <3>2 DEF Accounts
  <2> QED
    BY <1>2, <2>1, <2>2
<1>7. FiringOwnsItsRun'
  BY <1>6 DEF FiringOwnsItsRun, Accounts, Wanted
<1>8. \A r \in DOMAIN runs' : runs'[r].src # 0 => runs'[r].src \in DOMAIN firings'
  BY <1>1, <1>2, <1>5 DEF Owned
<1> QED
  BY <1>5, <1>7, <1>8 DEF Owned

\* A run that could not be cancelled is not wanted either.
LEMMA LostUnwants ==
  ASSUME TypeOK, NEW r, runs' = LosingRun(r)
  PROVE  /\ RunsKept
         /\ DOMAIN runs' = DOMAIN runs
         /\ r \in DOMAIN runs => ~Wanted(r)'
<1>1. \A x \in DOMAIN runs : runs[x] \in Run
  BY RunRows
<1>2. DOMAIN runs' = DOMAIN runs /\ \A x \in DOMAIN runs \ {r} : runs'[x] = runs[x]
  BY DEF LosingRun
<1>3. r \in DOMAIN runs => /\ runs'[r].src = runs[r].src
                           /\ runs'[r].lost
  BY <1>1 DEF LosingRun, Run
<1> QED
  BY <1>2, <1>3 DEF RunsKept, Wanted, Active

\* The rollback cancels the run before it lets go of it, or loses it.
LEMMA RollbackOwned ==
  ASSUME IInv, Owned, NEW d \in DrainThreads, DrainRollback(d)
  PROVE  Owned'
<1>1. UNCHANGED firings
  BY DEF DrainRollback
<1>t. TypeOK
  BY DEF IInv
<1> DEFINE started == drain[d].run
<1>c. CancelAll({started}) \/ runs' = LosingRun(started)
  BY DEF DrainRollback
<1> HIDE DEF started
<1>2. /\ RunsKept
      /\ DOMAIN runs' = DOMAIN runs
      /\ \A r \in DOMAIN runs : r = started => ~Wanted(r)'
  <2>1. CASE CancelAll({started})
    <3>1. RunsKept
      BY <1>t, <2>1, CancelKeepsRuns
    <3>2. \A r \in DOMAIN runs : r = started => ~Wanted(r)'
      BY <1>t, <2>1, CancelUnwants
    <3>3. DOMAIN runs' = DOMAIN runs
      BY <2>1 DEF CancelAll
    <3> QED
      BY <3>1, <3>2, <3>3
  <2>2. CASE runs' = LosingRun(started)
    BY <1>t, <2>2, LostUnwants
  <2> QED
    BY <1>c, <2>1, <2>2
<1>3. \A x \in DrainThreads \ {d} : drain'[x] = drain[x]
  BY DEF DrainRollback, DrainGoto, IInv, TypeOK
<1>4. budget'["crash"] = 0
  BY SpendKeepsCrash DEF DrainRollback, Spend, Inputs, IInv, Owned
<1>5. DOMAIN runs' = DOMAIN runs
  BY <1>2
<1>6. ASSUME NEW r \in DOMAIN runs, runs'[r].src # 0, Wanted(r)'
      PROVE  Accounts(r)'
  <2>1. runs'[r].src = runs[r].src /\ Wanted(r)
    BY <1>2, <1>6 DEF RunsKept
  <2>2. r # drain[d].run
    BY <1>2, <1>6 DEF started
  <2>3. Accounts(r)
    BY <1>6, <2>1 DEF Owned, FiringOwnsItsRun, Wanted, Accounts
  <2> QED
    BY <1>1, <1>3, <2>1, <2>2, <2>3 DEF Accounts
<1>7. FiringOwnsItsRun'
  BY <1>5, <1>6 DEF FiringOwnsItsRun, Accounts, Wanted
<1>8. \A r \in DOMAIN runs' : runs'[r].src # 0 => runs'[r].src \in DOMAIN firings'
  BY <1>1, <1>2, <1>5 DEF Owned, RunsKept
<1> QED
  BY <1>4, <1>7, <1>8 DEF Owned

\* The drain loop keeps ownership.
LEMMA DrainOwned ==
  ASSUME IInv, Owned, NEW d \in DrainThreads, DrainStep(d)
  PROVE  Owned'
<1>1. CASE DrainMarkFired(d) \/ DrainMarkSkipped(d)
  BY <1>1, SettleOwned
<1>2. CASE DrainFire(d)
  BY <1>2, FireOwned
<1>3. CASE DrainRollback(d)
  BY <1>3, RollbackOwned
<1>4. CASE \/ DrainLock(d) \/ DrainPop(d) \/ DrainCheckTask(d) \/ DrainCheckTrigger(d)
           \/ DrainRevert(d) \/ DrainError(d)
  <2>1. UNCHANGED <<firings, runs>>
    BY <1>4 DEF DrainLock, DrainPop, DrainCheckTask, DrainCheckTrigger, DrainRevert, DrainError
  <2>2. drain[d].pc # "mark"
    BY <1>4 DEF DrainLock, DrainPop, DrainCheckTask, DrainCheckTrigger, DrainRevert, DrainError
  <2>3. \A x \in DrainThreads \ {d} : drain'[x] = drain[x]
    <3>1. PICK v : drain' = [drain EXCEPT ![d] = v]
      <4>1. drain' = [drain EXCEPT ![d] = drain'[d]]
        BY <1>4 DEF DrainLock, DrainPop, DrainCheckTask, DrainCheckTrigger, DrainRevert, DrainError,
                    DrainGoto, DrainReturn, SkipWith, IInv, TypeOK
      <4> QED
        BY <4>1
    <3> QED
      BY <3>1 DEF IInv, TypeOK
  <2>4. budget'["crash"] = budget["crash"]
    <3>1. UNCHANGED budget \/ Spend("fault")
      BY <1>4 DEF DrainLock, DrainPop, DrainCheckTask, DrainCheckTrigger, DrainRevert, DrainError
    <3> QED
      BY <3>1, SpendKeepsCrash DEF Spend, Inputs, IInv
  <2>5. MarksKept
    BY <2>2, <2>3 DEF MarksKept
  <2> QED
    BY <2>1, <2>4, <2>5, RunsSame, OwnedFrame DEF FiringsKept
<1> QED
  BY <1>1, <1>2, <1>3, <1>4 DEF DrainStep

\* Steps of the router, the runs, the users and the sweeper's list.
LEMMA OtherOwned ==
  ASSUME IInv, Owned, NEW input \in Inputs \ {"crash"}, NEW n,
         UNCHANGED budget \/ SpendSome(input, n), MarksKept, FiringsKept,
         \/ UNCHANGED runs
         \/ \E R : CancelAll(R)
         \/ \E t, g, origin : runs' = Delegated(t, g, origin, 0)
  PROVE  Owned'
<1>1. RunsKept
  BY RunsSame, CancelKeepsRuns, DirectKeepsRuns DEF IInv
<1>2. budget'["crash"] = budget["crash"]
  BY SpendKeepsCrash DEF IInv
<1> QED
  BY <1>1, <1>2, OwnedFrame

\* Every step keeps ownership.
LEMMA OwnedStep == IInv /\ Owned /\ [Next]_vars => Owned'
<1> SUFFICES ASSUME IInv, Owned, [Next]_vars PROVE Owned'
  OBVIOUS
<1> DEFINE Same == UNCHANGED firings /\ UNCHANGED drain
<1>a. Same => FiringsKept /\ MarksKept
  BY DEF FiringsKept, MarksKept
<1>b. \A input \in {"event", "score", "user", "admin", "outcome", "mirror", "fault"} : input \in Inputs \ {"crash"}
  BY DEF Inputs
<1>1. CASE \E t \in Tasks, M \in SUBSET Triggers :
             HandleEvent(t, M) \/ \E th \in Derivers : ReDerive(th, t, M)
  <2> PICK t \in Tasks, M \in SUBSET Triggers :
             HandleEvent(t, M) \/ \E th \in Derivers : ReDerive(th, t, M)
    BY <1>1
  <2>1. CASE HandleEvent(t, M)
    <3>1. Same /\ UNCHANGED runs /\ SpendSome("event", 1 + Cardinality(M))
      BY <2>1 DEF HandleEvent
    <3> QED
      BY <1>a, <1>b, <3>1, OtherOwned
  <2>2. CASE \E th \in Derivers : ReDerive(th, t, M)
    <3>1. Same /\ UNCHANGED runs /\ SpendSome("score", 1)
      BY <2>2 DEF ReDerive, Spend
    <3> QED
      BY <1>a, <1>b, <3>1, OtherOwned
  <2> QED
    BY <2>1, <2>2
<1>2. CASE \E t \in Tasks : CloseTask(t) \/ CloseEntity(t)
  <2>1. Same /\ SpendSome("event", 1) /\ \E R : CancelAll(R)
    BY <1>2 DEF CloseTask, CloseEntity, Spend
  <2> QED
    BY <1>a, <1>b, <2>1, OtherOwned
<1>3. CASE \E t \in Tasks, u \in Users : UserRequest(u, t)
  <2>1. Same /\ UNCHANGED runs /\ SpendSome("user", 1)
    BY <1>3 DEF UserRequest, UserClaims, UserDelegates, UserCloses, UserSnoozes, UserRequeues,
                UserStarts, Spend
  <2> QED
    BY <1>a, <1>b, <2>1, OtherOwned
<1>4. CASE \E r \in DOMAIN runs : RunStep(r) \/ Resume(r)
  <2> PICK r \in DOMAIN runs : RunStep(r) \/ Resume(r)
    BY <1>4
  <2>1. Same /\ (UNCHANGED budget \/ SpendSome("outcome", 1) \/ SpendSome("mirror", 1))
    BY DEF RunStep, RunReturns, MirrorReads, MirrorWrites, RunExits, Resume, Spend
  <2>2. runs[r] \in Run
    BY RunRows DEF IInv
  <2>3. /\ DOMAIN runs' = DOMAIN runs
        /\ \A s \in DOMAIN runs : s # r => runs'[s] = runs[s]
        /\ runs'[r].src = runs[r].src /\ runs'[r].signal = runs[r].signal
        /\ runs'[r].lost = runs[r].lost
        /\ Active(r)' => Active(r)
    BY <2>2 DEF RunStep, RunReturns, MirrorReads, MirrorWrites, RunExits, Resume, Active, Run
  <2>4. RunsKept
    BY <2>3 DEF RunsKept, Wanted, Active
  <2>5. budget'["crash"] = budget["crash"]
    BY <1>b, <2>1, SpendKeepsCrash DEF IInv
  <2>6. FiringsKept /\ MarksKept
    BY <1>a, <2>1
  <2> QED
    BY <2>4, <2>5, <2>6, OwnedFrame
<1>5. CASE \E g \in Triggers : ToggleTrigger(g)
  <2>1. Same /\ UNCHANGED runs /\ SpendSome("admin", 1)
    BY <1>5 DEF ToggleTrigger, Spend
  <2> QED
    BY <1>a, <1>b, <2>1, OtherOwned
<1>6. CASE Crash
  <2>1. SpendSome("crash", 1)
    BY <1>6 DEF Crash, Spend
  <2>2. budget["crash"] >= 1
    BY <2>1 DEF SpendSome
  <2>3. budget["crash"] = 0
    BY DEF Owned
  <2> QED
    BY <2>2, <2>3
<1>7. CASE FinishClose
  <2>1. Same /\ UNCHANGED runs /\ UNCHANGED budget
    BY <1>7 DEF FinishClose
  <2> QED
    BY <1>a, <1>b, <2>1, OtherOwned
<1>8. CASE \E th \in RouterThreads : RouterStep(th)
  <2> PICK th \in RouterThreads : RouterStep(th)
    BY <1>8
  <2>1. UNCHANGED drain /\ (UNCHANGED budget \/ SpendSome("fault", 1))
    BY DEF RouterStep, CheckActive, CheckQueue, Enqueue, FireDirect, StampAgentClaim, AutoError, Spend
  <2>2. UNCHANGED runs \/ \E t, g, origin : runs' = Delegated(t, g, origin, 0)
    BY DEF RouterStep, CheckActive, CheckQueue, Enqueue, FireDirect, StampAgentClaim, AutoError
  <2>3. FiringsKept
    <3>1. UNCHANGED firings \/ \E x \in Firing : firings' = Append(firings, x)
      <4>1. CASE Enqueue(th)
        <5>1. auto[th].task \in Tasks /\ auto[th].trigger \in Triggers
          BY DEF IInv, TypeOK, AutoLocals
        <5> QED
          BY <4>1, <5>1 DEF Enqueue, Firing
      <4>2. CASE ~Enqueue(th)
        BY <4>2 DEF RouterStep, CheckActive, CheckQueue, FireDirect, StampAgentClaim, AutoError
      <4> QED
        BY <4>1, <4>2
    <3>2. firings \in Seq(Firing)
      BY DEF IInv, TypeOK
    <3> QED
      BY <3>1, <3>2, AppendProperties, LenProperties DEF FiringsKept
  <2> QED
    BY <1>b, <2>1, <2>2, <2>3, OtherOwned DEF MarksKept
<1>9. CASE \E d \in DrainThreads : DrainStep(d)
  BY <1>9, DrainOwned
<1>10. CASE (\E d \in Drainers, e \in Entities : DrainStart(d, e)) \/ SweepStep
  <2>1. UNCHANGED <<firings, runs, budget>>
    BY <1>10 DEF DrainStart, SweepStep, SweepList, SweepNext
  <2>2. MarksKept
    BY <1>10 DEF DrainStart, SweepStep, SweepList, SweepNext, MarksKept, IInv, TypeOK
  <2> QED
    BY <1>b, <2>1, <2>2, OtherOwned DEF FiringsKept
<1>11. CASE \E u \in Users : UserStep(u)
  <2>1. Same /\ UNCHANGED budget
    BY <1>11 DEF UserStep, UserCancels, UserDelegateRuns
  <2>2. (\E R : CancelAll(R)) \/ \E t, g, origin : runs' = Delegated(t, g, origin, 0)
    BY <1>11 DEF UserStep, UserCancels, UserDelegateRuns
  <2> QED
    BY <1>a, <1>b, <2>1, <2>2, OtherOwned
<1>12. CASE UNCHANGED vars
  BY <1>12, RunsSame, OwnedFrame DEF vars, FiringsKept, MarksKept
<1> QED
  BY <1>1, <1>2, <1>3, <1>4, <1>5, <1>6, <1>7, <1>8, <1>9, <1>10, <1>11, <1>12
     DEF Next, Input

\* While the process stays up, a run a drain started is recorded by its
\* firing, about to be recorded, cancelled by the rollback, or one whose
\* cancellation failed there: but for the last, no firing has two live runs and
\* no skipped one has any (router.go attemptDrainOne).
THEOREM DrainedRunsAreOwned ==
  ASSUME Budget["crash"] = 0
  PROVE  Spec => []FiringOwnsItsRun
<1>1. Init => Owned
  BY DEF Init, Owned, FiringOwnsItsRun
<1>2. IInv /\ Owned /\ [Next]_vars => Owned'
  BY OwnedStep
<1>3. Owned => FiringOwnsItsRun
  BY DEF Owned
<1> QED
  BY <1>1, <1>2, <1>3, InductiveInvariant, PTL DEF Spec
=============================================================================
