-------------------------- MODULE CuratorQueueProofs --------------------------
(***************************************************************************)
(* Theorems about CuratorQueue, for any number of messages and goroutines, *)
(* any bound of the queue and any budget.                                  *)
(***************************************************************************)
EXTENDS CuratorQueue, FiniteSetTheorems, SequenceTheorems, WellFoundedInduction, TLAPS

Places == {"unborn", "idle", "begin", "mark", "consume", "spawn", "agent",
           "talk", "write", "finalize", "revert", "gone"}
Statuses == Ended \cup Active \cup {"absent", "deleted"}

\* The types the first argument needs.
Types ==
  /\ req \in [Requests -> Statuses]
  /\ current \in Goroutines \cup {0}
  /\ queue \in [Goroutines -> Seq(Requests)]
  /\ wpc \in [Goroutines -> Places]
  /\ item \in [Goroutines -> Requests \cup {0}]
  /\ outcome \in [Goroutines -> Ended \cup {"none"}]
  /\ cancel = [pc |-> cancel.pc, r |-> cancel.r, running |-> cancel.running]
  /\ del = [pc |-> del.pc, g |-> del.g]

Alive(g) == wpc[g] \notin {"unborn", "gone"}

\* Only the goroutine of the map is alive, until the project's deletion takes
\* it out.
OnlyCurrent == del.pc = "idle" => \A g \in Goroutines : Alive(g) => g = current

\* A goroutine that dispatches has a message in hand, one that is to write a
\* status has that status.
Holding ==
  \A g \in Goroutines :
    /\ wpc[g] \notin {"unborn", "idle", "gone"} => item[g] \in Requests
    /\ wpc[g] = "write" => outcome[g] \in Ended

\* What a cancel saw running is not queued again ...
SeenRunning ==
  cancel.pc # "idle" /\ cancel.running /\ cancel.r \in Requests =>
    req[cancel.r] \notin {"absent", "queued"}

Working(g) == wpc[g] \in {"consume", "spawn", "agent", "talk"}

\* ... so that the goroutine that works on it when its context is cancelled is
\* the only one that ever will.
KilledWorks ==
  cancel.pc = "mark" /\ cancel.running /\ del.pc = "idle" =>
    \A g \in Goroutines : item[g] = cancel.r /\ Working(g) => Signalled(g)

IInv == Types /\ OnlyCurrent /\ Holding /\ SeenRunning /\ KilledWorks

-----------------------------------------------------------------------------
(***************************************************************************)
(* The second invariant, about the setting and what the agent was told.    *)
(***************************************************************************)
\* The types of the settings.
Settings ==
  /\ project \in BOOLEAN /\ value \in Values /\ sid \in Sessions
  /\ pend \subseteq [sid : Sessions, base : Values, by : Requests \cup {0}]
  /\ known \in [Sessions -> Values \cup {0}]
  /\ snap \in [Goroutines -> [value : Values \cup {0}, sid : Sessions]]
  /\ patch \in [pc : {"idle", "update", "queue"},
                before : [value : Values \cup {0}, sid : Sessions],
                after : Values \cup {0}]

\* The handler that changes the setting has read the one it replaces.
Patching ==
  /\ patch.pc = "update" => patch.before.value = value /\ patch.after \in Values
  /\ patch.pc = "queue" => /\ patch.before.value \in Values /\ patch.after = value
                           /\ patch.before.sid # 0

\* A goroutine that has not read the project knows nothing of it.
Before == {"unborn", "idle", "begin", "mark", "consume", "gone"}
Blank == \A g \in Goroutines : wpc[g] \in Before => snap[g] = NoProject

\* Every session met anywhere was once told a value, and a turn that may tell
\* one has read it.
Heard(s) == s # 0 => known[s] # 0
Known ==
  /\ Heard(sid)
  /\ patch.pc # "idle" => Heard(patch.before.sid)
  /\ \A p \in pend : p.sid # 0 /\ Heard(p.sid)
  /\ \A g \in Goroutines : Heard(snap[g].sid)
  /\ \A g \in Goroutines :
       wpc[g] \in {"spawn", "agent", "talk"} \/ (wpc[g] = "write" /\ outcome[g] = "done") =>
         snap[g].value \in Values

\* A message is on its way to its agent in one goroutine at most ...
Early(g) == wpc[g] \in {"consume", "spawn", "agent"}
OnItsWay ==
  \A g \in Goroutines : Early(g) =>
    /\ req[item[g]] \notin {"absent", "queued"}
    /\ \A h \in Goroutines : Early(h) /\ item[h] = item[g] => h = g

\* ... so that there are no more sessions than messages that got past it, and
\* the one a project may have to begin with.
Spoken == {r \in Requests : /\ req[r] \notin {"absent", "queued"}
                            /\ \A g \in Goroutines : Early(g) => item[g] # r}
Sessioned == {s \in Sessions \ {0} : known[s] # 0}
Few == Cardinality(Sessioned) <= 1 + Cardinality(Spoken)

\* No lapse has occurred and the project is not being deleted.
Calm == lapses = {} /\ del.pc = "idle"
Kept == Calm => project

\* What a turn has claimed is what it claimed of the session it resumes.
Claimed ==
  Calm => \A p \in pend : p.by # 0 =>
            \E g \in Goroutines : item[g] = p.by /\ snap[g].sid = p.sid

\* A turn that is to begin a session read what the project still has.
FirstTurn ==
  Calm => \A g \in Goroutines :
            wpc[g] \in {"spawn", "agent"} /\ snap[g].sid = 0 => sid = 0 /\ value = snap[g].value

\* The rows of the project's session no turn has claimed, and those one has.
Waiting == {p \in pend : p.sid = sid /\ p.by = 0}
Taken == {p \in pend : p.sid = sid /\ p.by # 0}

\* The setting, as far as the rows go: a change is queued after it is made.
Recorded == IF patch.pc = "queue" /\ patch.before.sid = sid THEN patch.before.value ELSE value

\* The rows that wait record the changes since v.
Since(v) == /\ \A p \in Waiting : p.base = v
            /\ Waiting = {} => Recorded = v

\* Between turns the rows record what changed since the session was last told;
\* during one, those it claimed record what changed before it read the project
\* and the others what changed since.
Deltas ==
  Calm /\ sid # 0 =>
    /\ (\A g \in Goroutines : snap[g].sid # sid) => Since(known[sid])
    /\ \A g \in Goroutines : snap[g].sid = sid =>
         /\ Since(snap[g].value)
         /\ wpc[g] # "finalize" => \A p \in Taken : p.base = known[sid]
         /\ Taken = {} \/ wpc[g] = "finalize" => known[sid] = snap[g].value

SInv ==
  /\ Settings /\ Patching /\ Blank /\ Known /\ OnItsWay /\ Few
  /\ Kept /\ Claimed /\ FirstTurn /\ Deltas

-----------------------------------------------------------------------------
\* Zero, which stands for none, is neither a message nor a goroutine.
LEMMA NotZero == 0 \notin Goroutines /\ 0 \notin Requests
<1>1. Cardinality(Goroutines) \in Nat /\ Cardinality(Requests) \in Nat
  BY CuratorAssumption, FS_CardinalityType
<1>2. \A n \in Nat : 0 \notin 1 .. n
  OBVIOUS
<1> QED
  BY <1>1, <1>2, CuratorAssumption

LEMMA InitIInv == Init => IInv
<1> SUFFICES ASSUME Init PROVE IInv
  OBVIOUS
<1>1. Types
  BY DEF Init, Types, Places, Statuses, Idle
<1>2. OnlyCurrent /\ Holding /\ SeenRunning /\ KilledWorks
  BY DEF Init, OnlyCurrent, Holding, SeenRunning, KilledWorks, Alive, Idle
<1> QED
  BY <1>1, <1>2 DEF IInv

-----------------------------------------------------------------------------
\* Later statuses of the messages: nothing that ran is queued again.
Later(next) ==
  /\ next \in [Requests -> Statuses]
  /\ \A r \in Requests : req[r] \notin {"absent", "queued"} => next[r] \notin {"absent", "queued"}

\* Closing a message is such a step.
LEMMA ClosedLater ==
  ASSUME req \in [Requests -> Statuses], NEW r, NEW status \in Ended
  PROVE  Later(Closed(r, status))
BY DEF Later, Closed, Statuses, Ended, Active

\* A step that leaves goroutines, cancel and deletion alone and queues nothing
\* that ran keeps the invariant.
LEMMA Frame ==
  ASSUME IInv, Later(req'), queue' \in [Goroutines -> Seq(Requests)],
         UNCHANGED <<current, wpc, item, outcome, killed, stopped, cancel, del>>
  PROVE  IInv'
BY DEF IInv, Types, OnlyCurrent, Holding, SeenRunning, KilledWorks, Alive, Working, Signalled, Later

\* A goroutine that goes to write a status has taken it in hand.
Outcome(g, next) ==
  IF next = "write" THEN \E status \in Ended : outcome' = [outcome EXCEPT ![g] = status]
                    ELSE outcome' = outcome \/ outcome' = [outcome EXCEPT ![g] = "none"]

\* A step of one living goroutine that neither takes a message nor marks one
\* running, and keeps the signals of those that work.
LEMMA StepOn ==
  ASSUME IInv, Later(req'), NEW g \in Goroutines, Alive(g), NEW next \in Places,
         wpc' = [wpc EXCEPT ![g] = next],
         next \in {"unborn", "idle", "gone"} \/ wpc[g] \notin {"unborn", "idle", "gone"},
         next \in {"consume", "spawn", "agent", "talk"} => Working(g) /\ killed' = killed,
         item' = item \/ (next = "idle" /\ item' = [item EXCEPT ![g] = 0]),
         killed' = killed \/ killed' = killed \ {g},
         Outcome(g, next),
         UNCHANGED <<current, queue, stopped, cancel, del>>
  PROVE  IInv'
<1> USE DEF IInv, Types, Places, Alive
<1>1. Types' /\ OnlyCurrent' /\ Holding'
  BY DEF OnlyCurrent, Holding, Later, Outcome
<1>2. SeenRunning'
  BY DEF SeenRunning, Later
<1>3. KilledWorks'
  <2> SUFFICES ASSUME cancel.pc = "mark", cancel.running, del.pc = "idle",
                      NEW h \in Goroutines, item'[h] = cancel.r, Working(h)'
               PROVE  Signalled(h)'
    BY DEF KilledWorks
  <2>1. CASE h = g
    BY <2>1 DEF KilledWorks, Working, Signalled
  <2>2. CASE h # g
    BY <2>2 DEF KilledWorks, Working, Signalled
  <2> QED
    BY <2>1, <2>2
<1> QED
  BY <1>1, <1>2, <1>3

-----------------------------------------------------------------------------
(***************************************************************************)
(* One lemma per kind of actor.                                            *)
(***************************************************************************)
\* What a message's handler preserves.
LEMMA SenderStep ==
  ASSUME IInv, NEW r \in Requests, CreateRequest(r) \/ SendStep(r)
  PROVE  IInv'
<1> USE DEF IInv, Types
<1>1. CASE CreateRequest(r)
  <2>1. Later(req')
    BY <1>1 DEF CreateRequest, Later, Statuses, Active
  <2> QED
    BY <1>1, <2>1, Frame DEF CreateRequest, runtime
<1>2. CASE GetOrStart(r)
  <2>1. PICK g \in Goroutines :
          /\ \/ g = current /\ UNCHANGED wpc
             \/ current = 0 /\ wpc[g] = "unborn" /\ wpc' = [wpc EXCEPT ![g] = "idle"]
          /\ current' = g
    BY <1>2 DEF GetOrStart, Goto
  <2>2. UNCHANGED <<rows, queue, item, outcome, killed, stopped, cancel, del>>
    BY <1>2 DEF GetOrStart
  <2>3. Types' /\ Holding'
    BY <2>1, <2>2 DEF rows, Places, Holding
  <2>4. OnlyCurrent'
    BY <2>1, <2>2, NotZero DEF OnlyCurrent, Alive, Places, Outcome
  <2>5. SeenRunning' /\ KilledWorks'
    BY <2>1, <2>2 DEF rows, Places, SeenRunning, KilledWorks, Working, Signalled
  <2> QED
    BY <2>3, <2>4, <2>5
<1>3. CASE Enqueue(r)
  <2>1. Later(req') /\ UNCHANGED <<current, wpc, item, outcome, killed, stopped, cancel, del>>
    BY <1>3, ClosedLater DEF Enqueue, Later, Ended
  <2>2. \A g \in Goroutines : Append(queue[g], r) \in Seq(Requests)
    OBVIOUS
  <2>3. queue' = queue \/ queue' = [queue EXCEPT ![sender[r].g] = Append(queue[sender[r].g], r)]
    BY <1>3 DEF Enqueue
  <2>4. queue' \in [Goroutines -> Seq(Requests)]
    <3>1. CASE sender[r].g \in Goroutines
      BY <2>2, <2>3, <3>1
    <3>2. CASE sender[r].g \notin Goroutines
      BY <2>3, <3>2
    <3> QED
      BY <3>1, <3>2
  <2> QED
    BY <2>1, <2>4, Frame
<1> QED
  BY <1>1, <1>2, <1>3 DEF SendStep

\* What a session goroutine preserves.
LEMMA DispatchStep ==
  ASSUME IInv, NEW g \in Goroutines, Dispatch(g)
  PROVE  IInv'
<1> USE DEF IInv, Types
<1>r. Later(req)
  BY DEF Later
<1>1. CASE Take(g)
  <2>1. /\ wpc[g] = "idle" /\ wpc' = [wpc EXCEPT ![g] = "begin"]
        /\ item' = [item EXCEPT ![g] = Head(queue[g])]
        /\ queue' = [queue EXCEPT ![g] = Tail(@)]
        /\ UNCHANGED <<rows, current, outcome, killed, stopped, cancel, del>>
    BY <1>1 DEF Take, Goto, handlers
  <2>2. Head(queue[g]) \in Requests /\ Tail(queue[g]) \in Seq(Requests)
    BY <1>1 DEF Take
  <2>3. Types' /\ Holding' /\ OnlyCurrent'
    BY <2>1, <2>2 DEF rows, Places, Holding, OnlyCurrent, Alive
  <2>4. SeenRunning' /\ KilledWorks'
    BY <2>1 DEF rows, SeenRunning, KilledWorks, Working, Signalled
  <2> QED
    BY <2>3, <2>4
<1>2. CASE Exit(g)
  BY <1>2, <1>r, StepOn DEF Exit, Goto, rows, handlers, Alive, Places, Outcome
<1>3. CASE Begin(g)
  <2>1. PICK next \in {"write", "mark"} : wpc' = [wpc EXCEPT ![g] = next] /\ Outcome(g, next)
    BY <1>3 DEF Begin, EndWith, Goto, Ended, Outcome
  <2> QED
    BY <1>3, <2>1, <1>r, StepOn DEF Begin, rows, handlers, Alive, Places
<1>4. CASE MarkRunning(g)
  <2>1. CASE req[item[g]] = "queued"
    <3>1. /\ wpc[g] = "mark" /\ wpc' = [wpc EXCEPT ![g] = "consume"]
          /\ req' = [req EXCEPT ![item[g]] = "running"]
          /\ UNCHANGED <<current, queue, item, outcome, killed, stopped, cancel, del>>
      BY <1>4, <2>1 DEF MarkRunning, Goto, handlers
    <3>2. item[g] \in Requests /\ Later(req')
      BY <3>1 DEF Holding, Later, Statuses, Active
    <3>3. Types' /\ OnlyCurrent' /\ Holding' /\ SeenRunning'
      BY <3>1, <3>2 DEF Places, OnlyCurrent, Alive, Holding, SeenRunning, Later
    <3>4. ASSUME cancel.pc = "mark", cancel.running, del.pc = "idle",
                 NEW h \in Goroutines, item[h] = cancel.r, Working(h)'
          PROVE  Signalled(h)'
      <4>1. h # g
        BY <3>2, <3>4, <2>1 DEF SeenRunning
      <4> QED
        BY <4>1, <3>1, <3>4 DEF KilledWorks, Working, Signalled
    <3> QED
      BY <3>1, <3>3, <3>4 DEF KilledWorks
  <2>2. CASE req[item[g]] # "queued"
    BY <1>4, <2>2, <1>r, StepOn DEF MarkRunning, Return, Goto, handlers, Alive, Places, Outcome
  <2> QED
    BY <2>1, <2>2
<1>5. CASE Consume(g)
  <2>1. PICK next \in {"write", "spawn"} : wpc' = [wpc EXCEPT ![g] = next] /\ Outcome(g, next)
    BY <1>5 DEF Consume, EndWith, Goto, Ended, Outcome
  <2> QED
    BY <1>5, <2>1, <1>r, StepOn DEF Consume, handlers, Alive, Working, Places
<1>6. CASE Spawn(g)
  <2>1. PICK next \in {"write", "agent"} : wpc' = [wpc EXCEPT ![g] = next] /\ Outcome(g, next)
    BY <1>6 DEF Spawn, EndWith, Goto, Ended, Outcome
  <2> QED
    BY <1>6, <2>1, <1>r, StepOn DEF Spawn, rows, handlers, Alive, Working, Places
<1>7. CASE OnSession(g)
  BY <1>7, <1>r, StepOn DEF OnSession, Goto, handlers, Alive, Working, Places, Outcome
<1>8. CASE AgentReturns(g)
  <2>1. wpc' = [wpc EXCEPT ![g] = "write"] /\ Outcome(g, "write")
    BY <1>8 DEF AgentReturns, EndWith, Goto, Ended, Outcome
  <2> QED
    BY <1>8, <2>1, <1>r, StepOn DEF AgentReturns, rows, handlers, Alive, Places
<1>9. CASE Write(g)
  <2>1. PICK next \in {"finalize", "revert"} : wpc' = [wpc EXCEPT ![g] = next]
    BY <1>9 DEF Write, Goto
  <2>2. Later(req')
    BY <1>9, ClosedLater DEF Write, Holding
  <2> QED
    BY <1>9, <2>1, <2>2, StepOn DEF Write, handlers, Alive, Places, Outcome
<1>10. CASE Finalize(g) \/ Revert(g)
  BY <1>10, <1>r, StepOn DEF Finalize, Revert, Return, Goto, handlers, Alive, Places, Outcome
<1> QED
  BY <1>1, <1>2, <1>3, <1>4, <1>5, <1>6, <1>7, <1>8, <1>9, <1>10 DEF Dispatch

\* What the cancel button preserves: its signal reaches the goroutine of the
\* map, and no other is alive.
LEMMA CancelPreserves ==
  ASSUME IInv, CancelReads \/ CancelStep
  PROVE  IInv'
<1> USE DEF IInv, Types
<1>1. CASE CancelReads
  <2>1. UNCHANGED <<rows, runtime, del>> /\ cancel'.pc = "fire"
        /\ cancel' = [pc |-> "fire", r |-> InFlight, running |-> req[InFlight] = "running"]
    BY <1>1 DEF CancelReads
  <2>2. Types' /\ OnlyCurrent' /\ Holding'
    BY <2>1 DEF rows, runtime, OnlyCurrent, Alive, Holding
  <2>3. SeenRunning' /\ KilledWorks'
    BY <2>1 DEF rows, SeenRunning, KilledWorks
  <2> QED
    BY <2>2, <2>3
<1>2. CASE CancelFires
  <2>1. /\ killed' = killed \cup {g \in Goroutines : g = current /\ Armed(g)}
        /\ cancel.pc = "fire" /\ cancel' = [cancel EXCEPT !.pc = "mark"]
        /\ UNCHANGED <<rows, current, queue, wpc, item, outcome, stopped, del>>
    BY <1>2 DEF CancelFires
  <2>2. Types' /\ OnlyCurrent' /\ Holding' /\ SeenRunning'
    BY <2>1 DEF rows, OnlyCurrent, Alive, Holding, SeenRunning
  <2>3. KilledWorks'
    BY <2>1 DEF KilledWorks, OnlyCurrent, Alive, Working, Armed, Signalled
  <2> QED
    BY <2>2, <2>3
<1>3. CASE CancelMarks
  <2>1. Later(req')
    BY <1>3, ClosedLater DEF CancelMarks, Ended
  <2>2. cancel' = Idle /\ UNCHANGED <<runtime, del>>
    BY <1>3 DEF CancelMarks
  <2> QED
    BY <2>1, <2>2
    DEF Idle, runtime, Later, OnlyCurrent, Alive, Holding, SeenRunning, KilledWorks
<1> QED
  BY <1>1, <1>2, <1>3 DEF CancelStep

\* What the reset button and the settings handler preserve.
LEMMA SettingsPreserve ==
  ASSUME IInv, Reset \/ PatchReads \/ PatchStep
  PROVE  IInv'
<1> USE DEF IInv, Types
<1>1. Later(req')
  BY DEF Later, Statuses, Reset, PatchReads, PatchStep, PatchUpdates, PatchQueues, QueueFails, rows
<1>2. UNCHANGED <<current, queue, wpc, item, outcome, killed, stopped, cancel, del>>
  BY DEF Reset, PatchReads, PatchStep, PatchUpdates, PatchQueues, QueueFails, runtime, handlers
<1> QED
  BY <1>1, <1>2, Frame

\* What the deletion of the project preserves: once it has begun, only the
\* statuses matter.
LEMMA DeletePreserves ==
  ASSUME IInv, DeleteTakes \/ DeleteStep
  PROVE  IInv'
<1> USE DEF IInv, Types
<1>1. Later(req')
  <2>1. CASE DeleteTakes \/ DeleteWaits
    BY <2>1 DEF Later, DeleteTakes, DeleteWaits, rows
  <2>2. CASE DeleteStops
    BY <2>2, ClosedLater DEF DeleteStops, Later, Ended
  <2>3. CASE DeleteSweeps \/ DeleteRow
    BY <2>3 DEF Later, DeleteSweeps, DeleteRow, Statuses, Ended
  <2> QED
    BY <2>1, <2>2, <2>3 DEF DeleteStep
<1>2. /\ UNCHANGED <<queue, wpc, item, outcome, cancel>>
      /\ current' \in {0, current}
      /\ del' = [pc |-> del'.pc, g |-> del'.g] /\ del'.pc # "idle"
  BY DEF DeleteTakes, DeleteStep, DeleteStops, DeleteWaits, DeleteSweeps, DeleteRow, runtime
<1> QED
  BY <1>1, <1>2 DEF Later, OnlyCurrent, Holding, SeenRunning, KilledWorks

\* What a crash preserves: it leaves no goroutine alive.
LEMMA CrashPreserves ==
  ASSUME IInv, Crash
  PROVE  IInv'
<1> USE DEF IInv, Types
<1>1. /\ cancel' = Idle /\ current' = 0 /\ del' = [pc |-> "idle", g |-> 0]
      /\ req' = [r \in Requests |-> IF req[r] \in Active THEN "cancelled" ELSE req[r]]
      /\ queue' = [g \in Goroutines |-> <<>>]
      /\ wpc' = [g \in Goroutines |-> IF wpc[g] = "unborn" THEN "unborn" ELSE "gone"]
      /\ item' = [g \in Goroutines |-> 0]
      /\ outcome' = [g \in Goroutines |-> "none"]
  BY DEF Crash
<1>2. Types'
  BY <1>1 DEF Idle, Places, Statuses, Ended
<1>3. OnlyCurrent' /\ Holding' /\ SeenRunning' /\ KilledWorks'
  BY <1>1 DEF OnlyCurrent, Alive, Holding, SeenRunning, KilledWorks, Idle
<1> QED
  BY <1>2, <1>3

-----------------------------------------------------------------------------
\* The invariant is inductive.
LEMMA StepIInv ==
  ASSUME IInv, [Next]_vars
  PROVE  IInv'
<1>1. CASE UNCHANGED vars
  <2>1. UNCHANGED <<req, current, queue, wpc, item, outcome, killed, stopped, cancel, del>>
    BY <1>1 DEF vars, rows, runtime, handlers
  <2> QED
    BY <2>1, Frame DEF Later, IInv, Types
<1> QED
  BY <1>1, SenderStep, DispatchStep, CancelPreserves, SettingsPreserve, DeletePreserves,
     CrashPreserves DEF Next

\* It implies that at most one agent talks ...
LEMMA AloneAgent == IInv => OneAgent
<1> SUFFICES ASSUME IInv, project, del.pc = "idle"
             PROVE  Cardinality({g \in Goroutines : Talking(g)}) <= 1
  BY DEF OneAgent
<1>1. {g \in Goroutines : Talking(g)} \subseteq {current}
  BY DEF IInv, OnlyCurrent, Alive, Talking
<1>2. IsFiniteSet({current}) /\ Cardinality({current}) = 1
  BY FS_Singleton
<1> QED
  BY <1>1, <1>2, FS_Subset, FS_CardinalityType

\* ... and that a cancel reaches the goroutine of its request.
LEMMA ReachedCancel == IInv => CancelOfRunning
BY DEF IInv, KilledWorks, CancelOfRunning, Talking, Working

-----------------------------------------------------------------------------
\* Whatever the number of messages, goroutines and settings changes and however
\* sends, cancels, resets and restarts interleave, at most one agent works in
\* the directory of a project that is not being deleted (session.go, run).
THEOREM CuratorOneAgent == Spec => []OneAgent
<1>1. Init => IInv
  BY InitIInv
<1>2. IInv /\ [Next]_vars => IInv'
  BY StepIInv
<1>3. IInv => OneAgent
  BY AloneAgent
<1> QED
  BY <1>1, <1>2, <1>3, PTL DEF Spec

\* For every number of messages: a cancel that read its request as running has,
\* by the time it marks the row, signalled the goroutine whose agent works on
\* it (session.go, "Cancel ordering").
THEOREM CuratorCancelOfRunning == Spec => []CancelOfRunning
<1>1. Init => IInv
  BY InitIInv
<1>2. IInv /\ [Next]_vars => IInv'
  BY StepIInv
<1>3. IInv => CancelOfRunning
  BY ReachedCancel
<1> QED
  BY <1>1, <1>2, <1>3, PTL DEF Spec
-----------------------------------------------------------------------------
(***************************************************************************)
(* Lemmas for the second invariant.                                        *)
(***************************************************************************)
\* A set of naturals that is not empty has its minimum.
LEMMA LeastExists ==
  ASSUME NEW S, S \subseteq Nat, S # {}
  PROVE  Min(S) \in S
<1> DEFINE Less == {ss \in Nat \X Nat : ss[1] < ss[2]}
<1>1. IsWellFoundedOn(Less, Nat)
  BY NatLessThanWellFounded, Zenon DEF OpToRel
<1>2. PICK x \in S : \A y \in S : <<y, x>> \notin Less
  <2> HIDE DEF Less
  <2> QED
    BY <1>1, WFMin
<1>3. ASSUME NEW y \in S
      PROVE  x =< y
  <2>1. ~(<<y, x>>[1] < <<y, x>>[2])
    BY <1>2, <1>3
  <2> QED
    BY <2>1
<1> QED
  BY <1>3 DEF Min

\* The sessions that were told something, and the messages that got past their
\* agent, are finitely many.
LEMMA Finite ==
  /\ IsFiniteSet(Sessions \ {0})
  /\ Cardinality(Sessions \ {0}) = 1 + Cardinality(Requests)
  /\ Cardinality(Requests) \in Nat
<1> DEFINE n == Cardinality(Requests)
<1>1. n \in Nat
  BY CuratorAssumption, FS_CardinalityType
<1>2. Sessions \ {0} = 1 .. n + 1
  BY <1>1 DEF Sessions
<1>3. IsFiniteSet(1 .. n + 1) /\ Cardinality(1 .. n + 1) = n + 1
  <2> HIDE DEF n
  <2> QED
    BY <1>1, FS_Interval
<1>4. IsFiniteSet(Sessions \ {0}) /\ Cardinality(Sessions \ {0}) = n + 1
  BY <1>2, <1>3, Zenon
<1> QED
  BY <1>1, <1>4

LEMMA SpokenFinite ==
  /\ IsFiniteSet(Sessioned) /\ Cardinality(Sessioned) \in Nat
  /\ IsFiniteSet(Spoken) /\ Cardinality(Spoken) \in Nat
<1>1. Sessioned \in SUBSET (Sessions \ {0}) /\ Spoken \in SUBSET Requests
  BY DEF Sessioned, Spoken
<1>2. IsFiniteSet(Requests)
  BY CuratorAssumption
<1> QED
  BY <1>1, <1>2, Finite, FS_Subset, FS_CardinalityType

\* Few holds after a step that tells no session its first value and loses no
\* message that got past its agent.
LEMMA FewFrame ==
  ASSUME Few, Sessioned' = Sessioned, Spoken \subseteq Spoken'
  PROVE  Few'
<1>1. IsFiniteSet(Spoken') /\ Cardinality(Spoken') \in Nat
  <2>1. Spoken' \in SUBSET Requests /\ IsFiniteSet(Requests)
    BY CuratorAssumption DEF Spoken
  <2> QED
    BY <2>1, FS_Subset, FS_CardinalityType
<1>2. Cardinality(Spoken) <= Cardinality(Spoken')
  BY <1>1, FS_Subset
<1>3. Cardinality(Sessioned) \in Nat /\ Cardinality(Spoken) \in Nat
  BY SpokenFinite
<1> QED
  BY <1>1, <1>2, <1>3 DEF Few

\* A step that takes no message to its agent, and queues none that ran.
LEMMA NoneBegun ==
  ASSUME IInv, OnItsWay, Later(req'),
         \A g \in Goroutines : Early(g)' => Early(g) /\ item'[g] = item[g]
  PROVE  OnItsWay' /\ Spoken \subseteq Spoken'
<1>1. OnItsWay'
  <2> SUFFICES ASSUME NEW g \in Goroutines, Early(g)'
               PROVE  /\ req'[item'[g]] \notin {"absent", "queued"}
                      /\ \A h \in Goroutines : Early(h)' /\ item'[h] = item'[g] => h = g
    BY DEF OnItsWay
  <2>1. req[item[g]] \notin {"absent", "queued"} /\ item'[g] = item[g]
    BY DEF OnItsWay
  <2>2. item[g] \in Requests
    BY DEF IInv, Holding, Early
  <2>3. ASSUME NEW h \in Goroutines, Early(h)', item'[h] = item'[g]
        PROVE  h = g
    <3>1. Early(h) /\ Early(g) /\ item[h] = item[g]
      BY <2>3
    <3> QED
      BY <3>1 DEF OnItsWay
  <2> QED
    BY <2>1, <2>2, <2>3 DEF Later
<1> QED
  BY <1>1 DEF Spoken, Later

\* What a step of a goroutine may do to it and not disturb the settings.
Moves(g) ==
  /\ wpc'[g] \in Before => wpc[g] \in Before
  /\ wpc'[g] \in {"spawn", "agent"} => wpc[g] \in {"spawn", "agent"}
  /\ wpc'[g] = "talk" => wpc[g] = "talk"
  /\ wpc'[g] = "write" /\ outcome'[g] = "done" =>
       wpc[g] = "talk" \/ (wpc[g] = "write" /\ outcome[g] = "done")
  /\ wpc'[g] = "finalize" <=> wpc[g] = "finalize"
  /\ item'[g] = item[g] \/ wpc[g] \in Before

\* A step that leaves the settings alone keeps what is known of them.
LEMMA Light ==
  ASSUME IInv, SInv, UNCHANGED <<project, value, sid, pend, known, snap, patch>>,
         Calm' => Calm, \A g \in Goroutines : Moves(g), OnItsWay', Spoken \subseteq Spoken'
  PROVE  SInv'
<1> USE DEF SInv
<1>1. Settings' /\ Patching' /\ Kept'
  BY DEF Settings, Patching, Kept
<1>2. Blank'
  BY DEF Blank, Moves
<1>3. Known'
  BY DEF Known, Heard, Moves
<1>4. Few'
  BY FewFrame DEF Sessioned
<1>5. Claimed'
  <2> SUFFICES ASSUME Calm', NEW p \in pend, p.by # 0
               PROVE  \E g \in Goroutines : item'[g] = p.by /\ snap[g].sid = p.sid
    BY DEF Claimed
  <2>1. PICK g \in Goroutines : item[g] = p.by /\ snap[g].sid = p.sid
    BY DEF Claimed
  <2>2. snap[g] # NoProject
    BY <2>1 DEF Known, NoProject
  <2>3. item'[g] = item[g]
    BY <2>2 DEF Blank, Moves
  <2> QED
    BY <2>1, <2>3
<1>6. FirstTurn'
  BY DEF FirstTurn, Moves
<1>7. Deltas'
  <2>1. Waiting' = Waiting /\ Taken' = Taken /\ Recorded' = Recorded
    BY DEF Waiting, Taken, Recorded
  <2>2. \A v : Since(v)' <=> Since(v)
    BY <2>1 DEF Since
  <2> HIDE DEF SInv
  <2> QED
    BY <2>1, <2>2 DEF SInv, Deltas, Moves
<1> QED
  BY <1>1, <1>2, <1>3, <1>4, <1>5, <1>6, <1>7

\* The same, of a step that moves no goroutine.
LEMMA Still ==
  ASSUME IInv, SInv, UNCHANGED <<project, value, sid, pend, known, snap, patch>>,
         UNCHANGED <<wpc, item, outcome>>, Calm' => Calm, Later(req')
  PROVE  SInv'
<1>1. \A g \in Goroutines : Moves(g)
  BY DEF Moves
<1>2. OnItsWay' /\ Spoken \subseteq Spoken'
  BY NoneBegun DEF SInv, Early
<1> QED
  BY <1>1, <1>2, Light

\* The same, of a step of one goroutine that takes no message to its agent.
LEMMA Walk ==
  ASSUME IInv, SInv, UNCHANGED <<project, value, sid, pend, known, snap, patch>>,
         Calm' => Calm, Later(req'),
         NEW g \in Goroutines, Moves(g), Early(g)' => Early(g) /\ item'[g] = item[g],
         \A h \in Goroutines \ {g} : wpc'[h] = wpc[h] /\ item'[h] = item[h] /\ outcome'[h] = outcome[h]
  PROVE  SInv'
<1>1. \A h \in Goroutines : Moves(h)
  BY DEF Moves
<1>2. OnItsWay' /\ Spoken \subseteq Spoken'
  BY NoneBegun DEF SInv, Early
<1> QED
  BY <1>1, <1>2, Light

-----------------------------------------------------------------------------
(***************************************************************************)
(* The second invariant is inductive: one lemma per kind of actor.         *)
(***************************************************************************)
LEMMA InitSInv == Init => SInv
<1> SUFFICES ASSUME Init PROVE SInv
  OBVIOUS
<1>1. value \in Values
  BY CuratorAssumption DEF Init
<1>2. {0, 1} \subseteq Sessions
  <2>1. Cardinality(Requests) \in Nat
    BY Finite
  <2> QED
    BY <2>1 DEF Sessions
<1>3. value # 0 /\ sid \in {0, 1}
  BY <1>1, CuratorAssumption DEF Init
<1>4. known \in [Sessions -> Values \cup {0}] /\ Heard(sid)
  BY <1>1, <1>2, <1>3 DEF Init, Heard
<1>5. Settings /\ Patching /\ Kept /\ Blank
  BY <1>1, <1>2, <1>4 DEF Init, Settings, Patching, Kept, Blank, NoProject
<1>6. Known /\ OnItsWay
  BY <1>4 DEF Init, Known, Heard, OnItsWay, Early, NoProject
<1>7. Few
  <2>1. Sessioned \in SUBSET {1} /\ IsFiniteSet({1}) /\ Cardinality({1}) = 1
    BY FS_Singleton DEF Init, Sessioned
  <2>2. Cardinality(Sessioned) <= 1
    BY <2>1, FS_Subset
  <2> QED
    BY <2>2, SpokenFinite DEF Few
<1>8. Claimed /\ FirstTurn
  BY DEF Init, Claimed, FirstTurn
<1>9. Deltas
  <2> SUFFICES ASSUME sid # 0
               PROVE  /\ Since(known[sid])
                      /\ \A g \in Goroutines : snap[g].sid # sid
    BY DEF Deltas
  <2>1. known[sid] = value /\ Waiting = {} /\ Recorded = value
    BY <1>2, <1>3 DEF Init, Waiting, Recorded
  <2> QED
    BY <2>1 DEF Since, Init, NoProject
<1> QED
  BY <1>5, <1>6, <1>7, <1>8, <1>9 DEF SInv

\* What a message's handler preserves.
LEMMA SenderSettings ==
  ASSUME IInv, SInv, NEW r \in Requests, CreateRequest(r) \/ SendStep(r)
  PROVE  SInv'
<1>1. CASE CreateRequest(r)
  <2>1. Later(req')
    BY <1>1 DEF CreateRequest, Later, Statuses, Active, IInv, Types
  <2> QED
    BY <1>1, <2>1, Still DEF CreateRequest, runtime, Calm
<1>2. CASE GetOrStart(r)
  <2>1. PICK g \in Goroutines :
          UNCHANGED wpc \/ (wpc[g] = "unborn" /\ wpc' = [wpc EXCEPT ![g] = "idle"])
    BY <1>2 DEF GetOrStart, Goto
  <2>2. Moves(g) /\ (Early(g)' => Early(g)) /\ \A h \in Goroutines \ {g} : wpc'[h] = wpc[h]
    BY <1>2, <2>1 DEF GetOrStart, Moves, Before, Early, IInv, Types
  <2>3. Later(req')
    BY <1>2 DEF GetOrStart, rows, Later, IInv, Types
  <2> QED
    BY <1>2, <2>2, <2>3, Walk DEF GetOrStart, rows, Calm
<1>3. CASE Enqueue(r)
  <2>1. Later(req')
    BY <1>3, ClosedLater DEF Enqueue, Later, Ended, IInv, Types
  <2> QED
    BY <1>3, <2>1, Still DEF Enqueue, Calm
<1> QED
  BY <1>1, <1>2, <1>3 DEF SendStep

\* What the cancel button preserves.
LEMMA CancelSettings ==
  ASSUME IInv, SInv, CancelReads \/ CancelStep
  PROVE  SInv'
<1>1. Later(req')
  BY ClosedLater DEF CancelReads, CancelStep, CancelFires, CancelMarks, rows, Later, Ended, IInv, Types
<1> QED
  BY <1>1, Still DEF CancelReads, CancelStep, CancelFires, CancelMarks, rows, runtime, Calm

\* What the deletion preserves up to its last step, which takes the rows.
LEMMA DeleteSettings ==
  ASSUME IInv, SInv, DeleteTakes \/ DeleteStep
  PROVE  SInv'
<1>1. Later(req')
  <2>1. CASE DeleteTakes \/ DeleteWaits
    BY <2>1 DEF Later, DeleteTakes, DeleteWaits, rows, IInv, Types
  <2>2. CASE DeleteStops
    BY <2>2, ClosedLater DEF DeleteStops, Later, Ended, IInv, Types
  <2>3. CASE DeleteSweeps \/ DeleteRow
    BY <2>3 DEF Later, DeleteSweeps, DeleteRow, Statuses, Ended, IInv, Types
  <2> QED
    BY <2>1, <2>2, <2>3 DEF DeleteStep
<1>2. del'.pc # "idle" /\ UNCHANGED <<wpc, item, outcome>>
  BY DEF DeleteTakes, DeleteStep, DeleteStops, DeleteWaits, DeleteSweeps, DeleteRow, runtime, IInv, Types
<1>3. CASE ~DeleteRow
  BY <1>1, <1>2, <1>3, Still
  DEF DeleteTakes, DeleteStep, DeleteStops, DeleteWaits, DeleteSweeps, rows, runtime, Calm
<1>4. CASE DeleteRow
  <2>1. project' = FALSE /\ pend' = {} /\ UNCHANGED <<value, sid, known, snap, patch>>
    BY <1>4 DEF DeleteRow, runtime
  <2>2. Settings' /\ Patching' /\ Blank' /\ Known'
    BY <1>2, <2>1 DEF SInv, Settings, Patching, Blank, Known, Heard
  <2>3. OnItsWay' /\ Few'
    BY <1>1, <1>2, <2>1, NoneBegun, FewFrame DEF SInv, Early, Sessioned
  <2>4. Kept' /\ Claimed' /\ FirstTurn' /\ Deltas'
    BY <1>2 DEF Calm, Kept, Claimed, FirstTurn, Deltas
  <2> QED
    BY <2>2, <2>3, <2>4 DEF SInv
<1> QED
  BY <1>3, <1>4

\* What a crash preserves: a lapse, after which little is left to keep.
LEMMA CrashSettings ==
  ASSUME IInv, SInv, Crash
  PROVE  SInv'
<1>1. ~Calm'
  BY DEF Crash, Calm
<1>2. /\ wpc' = [g \in Goroutines |-> IF wpc[g] = "unborn" THEN "unborn" ELSE "gone"]
      /\ snap' = [g \in Goroutines |-> NoProject]
      /\ patch' = [pc |-> "idle", before |-> NoProject, after |-> 0]
      /\ UNCHANGED <<project, value, sid, pend, known>>
  BY DEF Crash
<1>3. 0 \in Sessions
  <2>1. Cardinality(Requests) \in Nat
    BY Finite
  <2> QED
    BY <2>1 DEF Sessions
<1>4. Settings' /\ Patching' /\ Blank' /\ Known'
  BY <1>2, <1>3 DEF SInv, Settings, Patching, Blank, Known, Heard, NoProject
<1>5. Later(req') /\ \A g \in Goroutines : ~Early(g)'
  BY <1>2 DEF Crash, Later, Statuses, Ended, Early, IInv, Types
<1>6. OnItsWay' /\ Few'
  BY <1>2, <1>5, NoneBegun, FewFrame DEF SInv, Sessioned
<1> QED
  BY <1>1, <1>4, <1>6 DEF SInv, Kept, Claimed, FirstTurn, Deltas

\* What the reset button preserves: it takes the session and all its rows.
LEMMA ResetSettings ==
  ASSUME IInv, SInv, Reset
  PROVE  SInv'
<1>1. /\ sid' = 0 /\ pend' = {}
      /\ UNCHANGED <<project, value, known, runtime, patch, del, lapses>>
  BY DEF Reset, handlers
<1>2. UNCHANGED <<wpc, item, snap, outcome>>
  BY <1>1 DEF runtime
<1>3. Later(req')
  BY DEF Reset, Later, Statuses, IInv, Types
<1>4. 0 \in Sessions
  <2>1. Cardinality(Requests) \in Nat
    BY Finite
  <2> QED
    BY <2>1 DEF Sessions
<1>5. Settings' /\ Patching' /\ Blank' /\ Known'
  BY <1>1, <1>2, <1>4 DEF SInv, Settings, Patching, Blank, Known, Heard
<1>6. OnItsWay' /\ Few'
  BY <1>1, <1>2, <1>3, NoneBegun, FewFrame DEF SInv, Early, Sessioned
<1>7. Kept' /\ Claimed' /\ FirstTurn' /\ Deltas'
  BY <1>1, <1>2 DEF SInv, Calm, Kept, Claimed, FirstTurn, Deltas
<1> QED
  BY <1>5, <1>6, <1>7 DEF SInv

\* What the settings handler preserves.
LEMMA PatchSettings ==
  ASSUME IInv, SInv, PatchReads \/ PatchStep
  PROVE  SInv'
<1>1. CASE PatchReads
  <2>1. PICK new \in Values :
          patch' = [pc |-> "update", before |-> [value |-> value, sid |-> sid], after |-> new]
    BY <1>1 DEF PatchReads
  <2>2. /\ patch.pc = "idle"
        /\ UNCHANGED <<project, value, sid, req, pend, known, wpc, item, snap, outcome, del, lapses>>
    BY <1>1 DEF PatchReads, rows, runtime
  <2>3. Settings' /\ Patching' /\ Blank' /\ Known'
    BY <2>1, <2>2 DEF SInv, Settings, Patching, Blank, Known, Heard
  <2>4. OnItsWay' /\ Few'
    BY <2>2, NoneBegun, FewFrame DEF SInv, Early, Sessioned, Later, IInv, Types
  <2>5. Kept' /\ Claimed' /\ FirstTurn'
    BY <2>2 DEF SInv, Calm, Kept, Claimed, FirstTurn
  <2>6. Deltas'
    <3>1. Recorded' = Recorded /\ Waiting' = Waiting /\ Taken' = Taken /\ (Calm' <=> Calm)
      BY <2>1, <2>2 DEF Recorded, Waiting, Taken, Calm
    <3>2. \A v : Since(v)' <=> Since(v)
      BY <3>1 DEF Since
    <3> QED
      BY <2>2, <3>1, <3>2 DEF SInv, Deltas
  <2> QED
    BY <2>3, <2>4, <2>5, <2>6 DEF SInv
<1>2. CASE PatchUpdates
  <2>1. /\ patch.pc = "update"
        /\ value' = patch.after /\ sid' = patch.before.sid
        /\ patch' = [patch EXCEPT !.pc = IF patch.before.sid = 0 THEN "idle" ELSE "queue"]
        /\ UNCHANGED <<project, req, pend, known, wpc, item, snap, outcome, del>>
    BY <1>2 DEF PatchUpdates, runtime
  <2>2. Calm' => /\ Calm /\ sid' = sid
                 /\ sid = 0 /\ value # value' =>
                      \A g \in Goroutines : wpc[g] \in {"spawn", "agent"} => snap[g].sid # 0
    BY <1>2, <2>1 DEF PatchUpdates, Calm, SInv, Patching
  <2>3. Settings' /\ Patching' /\ Blank' /\ Known'
    BY <2>1 DEF SInv, Settings, Patching, Blank, Known, Heard
  <2>4. OnItsWay' /\ Few'
    BY <2>1, NoneBegun, FewFrame DEF SInv, Early, Sessioned, Later, IInv, Types
  <2>5. Kept' /\ Claimed' /\ FirstTurn'
    BY <2>1, <2>2 DEF SInv, Kept, Claimed, FirstTurn
  <2>6. Deltas'
    <3> SUFFICES ASSUME Calm', sid' # 0
                 PROVE  Deltas'
      BY DEF Deltas
    <3>1. Calm /\ sid' = sid /\ Waiting' = Waiting /\ Taken' = Taken
      BY <2>1, <2>2 DEF Waiting, Taken
    <3>2. Recorded' = Recorded
      BY <2>1, <3>1 DEF Recorded, SInv, Settings, Patching
    <3>3. \A v : Since(v)' <=> Since(v)
      BY <3>1, <3>2 DEF Since
    <3> QED
      BY <2>1, <3>1, <3>3 DEF SInv, Deltas
  <2> QED
    BY <2>3, <2>4, <2>5, <2>6 DEF SInv
<1>3. CASE PatchQueues
  <2> DEFINE row == [sid |-> patch.before.sid, base |-> patch.before.value, by |-> 0]
             taken == \E p \in pend : p.by = 0 /\ p.sid = patch.before.sid
  <2>1. /\ patch.pc = "queue"
        /\ pend' = IF patch.before.value = patch.after \/ taken THEN pend ELSE pend \cup {row}
        /\ patch' = [patch EXCEPT !.pc = "idle"]
        /\ UNCHANGED <<project, value, sid, req, known, wpc, item, snap, outcome, del, lapses>>
    BY <1>3 DEF PatchQueues, runtime
  <2>2. Settings' /\ Patching' /\ Blank'
    BY <2>1 DEF SInv, Settings, Patching, Blank
  <2>3. Known'
    BY <2>1 DEF SInv, Known, Patching, Heard
  <2>4. OnItsWay' /\ Few'
    BY <2>1, NoneBegun, FewFrame DEF SInv, Early, Sessioned, Later, IInv, Types
  <2>5. Kept' /\ Claimed' /\ FirstTurn'
    BY <2>1 DEF SInv, Calm, Kept, Claimed, FirstTurn
  <2>6. Deltas'
    <3>1. Taken' = Taken
      BY <2>1 DEF Taken
    <3>2. ASSUME NEW v, Since(v)
          PROVE  Since(v)'
      <4>1. Recorded' = value /\ patch.after = value
        BY <2>1 DEF Recorded, SInv, Patching, Settings
      <4>2. CASE patch.before.sid # sid
        BY <2>1, <3>2, <4>1, <4>2 DEF Since, Waiting, Recorded
      <4>3. CASE patch.before.sid = sid
        <5>1. Recorded = patch.before.value
          BY <2>1, <4>3 DEF Recorded
        <5>2. CASE taken \/ patch.before.value = patch.after
          BY <2>1, <3>2, <4>1, <4>3, <5>1, <5>2 DEF Since, Waiting
        <5>3. CASE ~taken /\ patch.before.value # patch.after
          <6>1. Waiting = {} /\ Waiting' = {row}
            BY <2>1, <4>3, <5>3 DEF Waiting
          <6>2. v = patch.before.value
            BY <3>2, <5>1, <6>1 DEF Since
          <6>3. row.base = v /\ Waiting' # {} /\ \A p \in Waiting' : p = row
            BY <6>1, <6>2
          <6> QED
            BY <6>3 DEF Since
        <5> QED
          BY <5>2, <5>3
      <4> QED
        BY <4>2, <4>3
    <3> QED
      BY <2>1, <3>1, <3>2 DEF SInv, Deltas, Calm
  <2> QED
    BY <2>2, <2>3, <2>4, <2>5, <2>6 DEF SInv
<1>4. CASE QueueFails
  <2>1. /\ patch.pc = "queue"
        /\ patch' = [patch EXCEPT !.pc = "idle"]
        /\ lapses' = lapses \cup (IF patch.before.value # patch.after THEN {"untold"} ELSE {})
        /\ UNCHANGED <<project, value, sid, req, pend, known, wpc, item, snap, outcome, del>>
    BY <1>4 DEF QueueFails, rows, runtime
  <2>2. Settings' /\ Patching' /\ Blank'
    BY <2>1 DEF SInv, Settings, Patching, Blank
  <2>3. Known'
    BY <2>1 DEF SInv, Known, Patching, Heard
  <2>4. OnItsWay' /\ Few'
    BY <2>1, NoneBegun, FewFrame DEF SInv, Early, Sessioned, Later, IInv, Types
  <2>5. Calm' => Calm /\ patch.before.value = value
    BY <2>1 DEF Calm, SInv, Patching
  <2>6. Kept' /\ Claimed' /\ FirstTurn'
    BY <2>1, <2>5 DEF SInv, Kept, Claimed, FirstTurn
  <2>7. Deltas'
    <3>1. Taken' = Taken /\ Waiting' = Waiting
      BY <2>1 DEF Taken, Waiting
    <3>2. Calm' => Recorded' = Recorded
      BY <2>1, <2>5 DEF Recorded
    <3> QED
      BY <2>1, <2>5, <3>1, <3>2 DEF SInv, Deltas, Since
  <2> QED
    BY <2>2, <2>3, <2>4, <2>6, <2>7 DEF SInv
<1> QED
  BY <1>1, <1>2, <1>3, <1>4 DEF PatchStep

\* What a session goroutine preserves while the settings do not matter to it.
LEMMA WalkSettings ==
  ASSUME IInv, SInv, NEW g \in Goroutines,
         \/ Take(g) \/ Begin(g) \/ MarkRunning(g) \/ Spawn(g) \/ AgentReturns(g) \/ Exit(g)
  PROVE  SInv'
<1>1. CASE Take(g) \/ Begin(g) \/ Spawn(g) \/ AgentReturns(g) \/ Exit(g)
  <2>1. Moves(g) /\ (Early(g)' => Early(g) /\ item'[g] = item[g])
    BY <1>1 DEF Take, Begin, Spawn, AgentReturns, Exit, EndWith, Goto, Moves, Before, Early, IInv, Types
  <2>2. \A h \in Goroutines \ {g} : wpc'[h] = wpc[h] /\ item'[h] = item[h] /\ outcome'[h] = outcome[h]
    BY <1>1 DEF Take, Begin, Spawn, AgentReturns, Exit, EndWith, Goto, IInv, Types
  <2>3. UNCHANGED <<rows, known, snap, patch, del, lapses>>
    BY <1>1 DEF Take, Begin, Spawn, AgentReturns, Exit, handlers
  <2>4. Later(req')
    BY <2>3 DEF rows, Later, IInv, Types
  <2> QED
    BY <2>1, <2>2, <2>3, <2>4, Walk DEF rows, Calm
<1>2. CASE MarkRunning(g)
  <2>1. /\ wpc[g] = "mark"
        /\ UNCHANGED <<project, value, sid, pend, known, patch, del, lapses>>
    BY <1>2 DEF MarkRunning, handlers
  <2>2. CASE req[item[g]] = "queued"
    <3>1. /\ wpc' = [wpc EXCEPT ![g] = "consume"]
          /\ req' = [req EXCEPT ![item[g]] = "running"]
          /\ UNCHANGED <<item, snap, outcome>>
      BY <1>2, <2>2 DEF MarkRunning, Goto
    <3>2. item[g] \in Requests /\ Later(req')
      BY <2>1, <3>1 DEF IInv, Types, Holding, Later, Statuses, Active
    <3>3. \A h \in Goroutines : Moves(h)
      BY <2>1, <3>1 DEF Moves, Before, IInv, Types
    <3>4. OnItsWay'
      BY <2>2, <3>1, <3>2 DEF SInv, OnItsWay, Early, IInv, Types, Holding, Later
    <3>5. Spoken \subseteq Spoken'
      BY <2>2, <3>1, <3>2 DEF Spoken, Early, IInv, Types, Later
    <3> QED
      BY <2>1, <3>1, <3>3, <3>4, <3>5, Light DEF Calm
  <2>3. CASE req[item[g]] # "queued"
    <3>1. /\ wpc' = [wpc EXCEPT ![g] = "idle"] /\ item' = [item EXCEPT ![g] = 0]
          /\ snap' = [snap EXCEPT ![g] = NoProject] /\ outcome' = [outcome EXCEPT ![g] = "none"]
          /\ UNCHANGED req
      BY <1>2, <2>3 DEF MarkRunning, Return, Goto
    <3>2. snap' = snap
      BY <2>1, <3>1 DEF SInv, Settings, Blank, Before
    <3>3. Moves(g) /\ ~Early(g)'
      BY <2>1, <3>1 DEF Moves, Before, Early, IInv, Types
    <3>4. \A h \in Goroutines \ {g} : wpc'[h] = wpc[h] /\ item'[h] = item[h] /\ outcome'[h] = outcome[h]
      BY <3>1 DEF IInv, Types
    <3>5. Later(req')
      BY <3>1 DEF Later, IInv, Types
    <3> QED
      BY <2>1, <3>2, <3>3, <3>4, <3>5, Walk DEF Calm
  <2> QED
    BY <2>2, <2>3
<1> QED
  BY <1>1, <1>2

\* Without a lapse, a goroutine that is alive is the only one that knows of
\* the project, and all that is claimed is claimed by its message.
LEMMA Only ==
  ASSUME IInv, SInv, Calm, NEW g \in Goroutines, Alive(g)
  PROVE  /\ \A h \in Goroutines : h # g => snap[h] = NoProject
         /\ \A p \in pend : p.by # 0 => item[g] = p.by /\ snap[g].sid = p.sid
<1>1. ASSUME NEW h \in Goroutines, h # g
      PROVE  snap[h] = NoProject
  BY <1>1 DEF Calm, IInv, OnlyCurrent, Alive, SInv, Blank, Before
<1>2. ASSUME NEW p \in pend, p.by # 0
      PROVE  item[g] = p.by /\ snap[g].sid = p.sid
  <2>1. PICK h \in Goroutines : item[h] = p.by /\ snap[h].sid = p.sid
    BY <1>2 DEF SInv, Claimed
  <2> QED
    BY <1>1, <2>1 DEF SInv, Known, NoProject
<1> QED
  BY <1>1, <1>2

\* What claiming the rows of the session preserves.
LEMMA ConsumeSettings ==
  ASSUME IInv, SInv, NEW g \in Goroutines, Consume(g)
  PROVE  SInv'
<1>1. /\ wpc[g] = "consume" /\ snap[g] = NoProject /\ item[g] \in Requests /\ Alive(g)
      /\ UNCHANGED <<project, value, sid, req, known, item, patch, del>>
      /\ lapses \subseteq lapses'
  BY DEF Consume, handlers, SInv, Blank, Before, Alive, IInv, Holding
<1>2. Calm' => Calm /\ Recorded = value
  BY <1>1 DEF Consume, Calm, Recorded, SInv, Patching
<1>3. Later(req')
  BY <1>1 DEF Later, IInv, Types
<1>4. CASE Signalled(g) \/ ~project
  <2>1. PICK s \in {"cancelled", "failed"} :
          wpc' = [wpc EXCEPT ![g] = "write"] /\ outcome' = [outcome EXCEPT ![g] = s]
    BY <1>4 DEF Consume, EndWith, Goto
  <2>2. UNCHANGED <<pend, snap>>
    BY <1>4 DEF Consume
  <2>3. Moves(g) /\ ~Early(g)'
    BY <1>1, <2>1 DEF Moves, Before, Early, IInv, Types
  <2>4. \A h \in Goroutines \ {g} : wpc'[h] = wpc[h] /\ item'[h] = item[h] /\ outcome'[h] = outcome[h]
    BY <1>1, <2>1 DEF IInv, Types
  <2> QED
    BY <1>1, <1>2, <1>3, <2>2, <2>3, <2>4, Walk
<1>5. CASE ~Signalled(g) /\ project
  <2> DEFINE claim(p) == IF p.sid = sid /\ p.by = 0 THEN [p EXCEPT !.by = item[g]] ELSE p
  <2>1. /\ pend' = {claim(p) : p \in pend}
        /\ snap' = [snap EXCEPT ![g] = [value |-> value, sid |-> sid]]
        /\ wpc' = [wpc EXCEPT ![g] = "spawn"] /\ outcome' = outcome
    BY <1>5 DEF Consume, Goto
  <2>2. \A p \in pend : /\ claim(p) \in [sid : Sessions, base : Values, by : Requests \cup {0}]
                        /\ claim(p).sid = p.sid /\ claim(p).base = p.base
                        /\ claim(p).by = IF p.sid = sid /\ p.by = 0 THEN item[g] ELSE p.by
    BY <1>1 DEF SInv, Settings
  <2>3. Settings' /\ Patching'
    BY <1>1, <2>1, <2>2 DEF SInv, Settings, Patching
  <2>4. Blank' /\ Known'
    BY <1>1, <2>1, <2>2 DEF SInv, Settings, Blank, Before, Known, Heard, IInv, Types
  <2>5. OnItsWay' /\ Few'
    <3>1. \A h \in Goroutines : Early(h)' => Early(h) /\ item'[h] = item[h]
      BY <1>1, <2>1 DEF Early, IInv, Types
    <3> QED
      BY <1>1, <1>3, <3>1, NoneBegun, FewFrame DEF SInv, Sessioned
  <2>6. Kept'
    BY <1>1, <1>5 DEF Kept
  <2>7. ASSUME Calm'
        PROVE  /\ \A h \in Goroutines : h # g => snap'[h] = NoProject
               /\ snap'[g] = [value |-> value, sid |-> sid]
               /\ \A p \in pend : p.by = 0
    BY <1>1, <1>2, <2>1, <2>7, Only DEF SInv, Settings, Known, NoProject
  <2>8. Claimed'
    BY <1>1, <2>1, <2>2, <2>7 DEF Claimed
  <2>9. FirstTurn'
    BY <1>1, <1>2, <2>1, <2>7 DEF SInv, FirstTurn, IInv, Types
  <2>10. Deltas'
    <3> SUFFICES ASSUME Calm', sid # 0
                 PROVE  /\ Since(snap[g].value)'
                        /\ \A p \in Taken' : p.base = known[sid]
                        /\ Taken' = {} => known[sid] = value
      <4>1. \A h \in Goroutines : snap'[h].sid = sid' /\ sid # 0 /\ Calm' => h = g
        BY <1>1, <2>7 DEF NoProject
      <4>2. Calm' => snap'[g].sid = sid /\ snap'[g].value = value
        BY <2>7
      <4>3. wpc'[g] # "finalize" /\ sid' = sid /\ known' = known
        BY <1>1, <2>1 DEF IInv, Types
      <4> QED
        BY <4>1, <4>2, <4>3 DEF Deltas
    <3>1. Since(known[sid])
      BY <1>1, <1>2, <2>1, <2>7, Only DEF SInv, Deltas, NoProject
    <3>2. Waiting' = {} /\ Recorded' = value
      BY <1>1, <1>2, <2>1, <2>2, <2>7, NotZero DEF Waiting, Recorded
    <3>3. \A p \in Taken' : \E q \in Waiting : p.base = q.base
      BY <1>1, <2>1, <2>2, <2>7 DEF Taken, Waiting
    <3>4. Taken' = {} => Waiting = {}
      BY <1>1, <2>1, <2>2, NotZero DEF Taken, Waiting
    <3>5. Since(snap[g].value)'
      BY <2>7, <3>2 DEF Since
    <3> QED
      BY <1>2, <3>1, <3>3, <3>4, <3>5 DEF Since
  <2> QED
    BY <2>3, <2>4, <2>5, <2>6, <2>8, <2>9, <2>10 DEF SInv
<1> QED
  BY <1>4, <1>5

\* What the agent's session id preserves: there is one left for a new session,
\* and without a lapse it is the project's.
LEMMA OnSessionSettings ==
  ASSUME IInv, SInv, NEW g \in Goroutines, OnSession(g)
  PROVE  SInv'
<1> DEFINE free == {s \in Sessions \ {0} : known[s] = 0}
           new == IF snap[g].sid = 0 THEN Min(free) ELSE snap[g].sid
<1>1. /\ wpc[g] = "agent" /\ Alive(g) /\ Early(g) /\ item[g] \in Requests
      /\ known' = [known EXCEPT ![new] = IF @ = 0 THEN snap[g].value ELSE @]
      /\ snap' = [snap EXCEPT ![g].sid = new]
      /\ sid' = IF project THEN new ELSE sid
      /\ wpc' = [wpc EXCEPT ![g] = "talk"]
      /\ UNCHANGED <<project, value, req, pend, item, outcome, patch, del>>
  BY DEF OnSession, Goto, handlers, Alive, Early, IInv, Holding
<1>2. Calm' => /\ Calm
               /\ sid # new => snap[g].sid = 0
  BY <1>1 DEF OnSession, Calm, SInv, Kept
<1>3. g \in Goroutines /\ item[g] \notin Spoken /\ Spoken' = Spoken \cup {item[g]}
  BY <1>1 DEF Spoken, Early, SInv, OnItsWay, IInv, Types
<1>4. /\ Cardinality(Spoken \cup {item[g]}) = Cardinality(Spoken) + 1
      /\ IsFiniteSet(Spoken \cup {item[g]})
      /\ Cardinality(Spoken \cup {item[g]}) <= Cardinality(Requests)
  <2>1. IsFiniteSet(Requests) /\ Spoken \cup {item[g]} \in SUBSET Requests
    BY <1>1, CuratorAssumption DEF Spoken
  <2> QED
    BY <1>3, <2>1, SpokenFinite, FS_AddElement, FS_Subset
<1>5. snap[g].sid = 0 => new \in free
  <2>1. free # {}
    <3>1. free = {} => Sessioned = Sessions \ {0}
      BY DEF Sessioned
    <3> HIDE DEF free
    <3> QED
      BY <1>4, <3>1, Finite, SpokenFinite DEF SInv, Few
  <2>2. free \subseteq Nat
    BY Finite DEF Sessions
  <2> HIDE DEF free
  <2> QED
    BY <2>1, <2>2, LeastExists
<1>6. new \in Sessions \ {0} /\ snap[g].value \in Values /\ snap[g].value # 0
  <2>1. snap[g].sid \in Sessions
    BY DEF SInv, Settings
  <2>2. new \in Sessions \ {0}
    BY <1>5, <2>1
  <2> QED
    BY <1>1, <2>2, CuratorAssumption DEF SInv, Known
<1>7. /\ snap[g].sid = 0 => known[new] = 0 /\ known'[new] = snap[g].value
      /\ snap[g].sid # 0 => known' = known
      /\ \A s \in Sessions : s # new => known'[s] = known[s]
  <2> HIDE DEF new
  <2>1. known \in [Sessions -> Values \cup {0}]
    BY DEF SInv, Settings
  <2>2. snap[g].sid = 0 => known[new] = 0
    BY <1>5
  <2>3. snap[g].sid # 0 => known[new] # 0
    BY DEF new, SInv, Known, Heard
  <2> QED
    BY <1>1, <1>6, <2>1, <2>2, <2>3
<1> HIDE DEF new, free
<1>8. snap'[g].sid = new /\ snap'[g].value = snap[g].value /\ known'[new] # 0
      /\ \A h \in Goroutines : h # g => snap'[h] = snap[h] /\ wpc'[h] = wpc[h]
  BY <1>1, <1>6, <1>7 DEF SInv, Settings, IInv, Types, Known, Heard, new
<1>9. \A s \in Sessions : known[s] # 0 => known'[s] # 0
  BY <1>7, <1>6
<1>10. Settings' /\ Patching' /\ Blank'
  BY <1>1, <1>6, <1>8 DEF SInv, Settings, Patching, Blank, Before, IInv, Types
<1>11. Known'
  BY <1>1, <1>6, <1>8, <1>9 DEF SInv, Settings, Known, Heard, IInv, Types
<1>12. OnItsWay'
  BY <1>1, NoneBegun DEF SInv, Early, Later, IInv, Types
<1>13. Few'
  <2>1. Sessioned' \in SUBSET (Sessioned \cup {new})
    BY <1>7 DEF Sessioned
  <2>2. IsFiniteSet(Sessioned \cup {new}) /\ Cardinality(Sessioned \cup {new}) <= Cardinality(Sessioned) + 1
    <3>1. IsFiniteSet(Sessioned) /\ Cardinality(Sessioned) \in Nat
      BY SpokenFinite
    <3>2. /\ IsFiniteSet(Sessioned \cup {new})
          /\ Cardinality(Sessioned \cup {new}) =
               IF new \in Sessioned THEN Cardinality(Sessioned) ELSE Cardinality(Sessioned) + 1
      BY <3>1, FS_AddElement, Zenon
    <3> QED
      BY <3>1, <3>2
  <2>3. Cardinality(Sessioned') <= Cardinality(Sessioned \cup {new}) /\ Cardinality(Sessioned') \in Nat
        /\ Cardinality(Sessioned \cup {new}) \in Nat
    BY <2>1, <2>2, FS_Subset, FS_CardinalityType
  <2> QED
    BY <1>3, <1>4, <2>2, <2>3, SpokenFinite DEF SInv, Few
<1>14. Kept'
  BY <1>1, <1>2 DEF SInv, Kept
<1>15. Claimed'
  BY <1>1, <1>2, <1>8, Only DEF Claimed, SInv, Known, new
<1>16. FirstTurn'
  BY <1>1, <1>2, <1>8, Only DEF FirstTurn, NoProject, SInv, Blank, IInv, Types, OnlyCurrent, Alive, Calm
<1>17. Deltas'
  <2> SUFFICES ASSUME Calm' PROVE Deltas'
    BY DEF Deltas
  <2>1. Calm /\ sid' = new
    BY <1>1, <1>2 DEF SInv, Kept
  <2>2. CASE snap[g].sid = 0
    <3>1. value = snap[g].value /\ known[new] = 0 /\ known'[new] = snap[g].value /\ new # 0
      BY <1>1, <1>6, <1>7, <2>1, <2>2 DEF SInv, FirstTurn
    <3>2. Waiting' = {} /\ Taken' = {}
      BY <1>1, <2>1, <3>1 DEF Waiting, Taken, SInv, Known, Heard
    <3>3. Recorded' = value
      BY <1>1, <2>1, <3>1 DEF Recorded, SInv, Known, Heard, Patching
    <3>4. Since(snap[g].value)'
      BY <1>8, <3>1, <3>2, <3>3 DEF Since
    <3>5. \A h \in Goroutines : snap'[h].sid = sid' => h = g
      BY <1>8, <2>1, <3>1 DEF SInv, Known, Heard
    <3> QED
      BY <1>1, <1>8, <2>1, <3>1, <3>2, <3>4, <3>5 DEF Deltas, IInv, Types
  <2>3. CASE snap[g].sid # 0
    <3>1. sid' = sid /\ known' = known /\ snap' = snap
      BY <1>1, <1>2, <1>7, <2>1, <2>3 DEF new, SInv, Settings
    <3>2. Waiting' = Waiting /\ Taken' = Taken /\ Recorded' = Recorded
      BY <1>1, <3>1 DEF Waiting, Taken, Recorded
    <3>3. \A v : Since(v)' <=> Since(v)
      BY <3>2 DEF Since
    <3>4. \A h \in Goroutines : wpc'[h] = "finalize" <=> wpc[h] = "finalize"
      BY <1>1 DEF IInv, Types
    <3> QED
      BY <2>1, <3>1, <3>2, <3>3, <3>4 DEF SInv, Deltas
  <2> QED
    BY <2>2, <2>3
<1> QED
  BY <1>10, <1>11, <1>12, <1>13, <1>14, <1>15, <1>16, <1>17 DEF SInv

\* What the end of a turn preserves: a message that ends done leaves its
\* session told what the turn read.
LEMMA WriteSettings ==
  ASSUME IInv, SInv, NEW g \in Goroutines, Write(g)
  PROVE  SInv'
<1> DEFINE absorbed == outcome[g] = "done" /\ req[item[g]] \in Active
<1>1. /\ wpc[g] = "write" /\ Alive(g) /\ outcome[g] \in Ended
      /\ req' = Closed(item[g], outcome[g])
      /\ known' = [known EXCEPT ![snap[g].sid] = IF absorbed /\ Told(g) THEN snap[g].value ELSE @]
      /\ wpc' = [wpc EXCEPT ![g] = IF absorbed THEN "finalize" ELSE "revert"]
      /\ UNCHANGED <<project, value, sid, pend, item, snap, outcome, patch, del, lapses>>
  BY DEF Write, Goto, handlers, Alive, IInv, Holding
<1>2. Later(req')
  BY <1>1, ClosedLater DEF IInv, Types
<1>3. /\ snap[g].sid \in Sessions /\ known \in [Sessions -> Values \cup {0}]
      /\ absorbed => snap[g].value \in Values /\ snap[g].value # 0
  BY <1>1, CuratorAssumption DEF SInv, Settings, Known
<1>4. /\ known' \in [Sessions -> Values \cup {0}]
      /\ \A s \in Sessions : s # 0 => (known'[s] # 0 <=> known[s] # 0)
      /\ \A s \in Sessions : s # snap[g].sid => known'[s] = known[s]
      /\ known'[snap[g].sid] = IF absorbed /\ Told(g) THEN snap[g].value ELSE known[snap[g].sid]
  <2> HIDE DEF absorbed
  <2> QED
    BY <1>1, <1>3 DEF SInv, Known, Heard
<1> HIDE DEF absorbed
<1>5. Settings' /\ Patching' /\ Blank'
  BY <1>1, <1>4 DEF SInv, Settings, Patching, Blank, Before, IInv, Types
<1>6. Known'
  BY <1>1, <1>4 DEF SInv, Settings, Known, Heard, IInv, Types
<1>7. OnItsWay' /\ Few'
  <2>1. \A h \in Goroutines : Early(h)' => Early(h) /\ item'[h] = item[h]
    BY <1>1 DEF Early, IInv, Types
  <2>2. Sessioned' = Sessioned
    BY <1>4 DEF Sessioned
  <2> QED
    BY <1>2, <2>1, <2>2, NoneBegun, FewFrame DEF SInv
<1>8. Kept' /\ Claimed' /\ FirstTurn'
  BY <1>1 DEF SInv, Kept, Claimed, FirstTurn, Calm, IInv, Types
<1>9. Deltas'
  <2> SUFFICES ASSUME Calm, sid # 0
               PROVE  Deltas'
    BY <1>1 DEF Deltas, Calm
  <2>1. \A v : Since(v)' <=> Since(v)
    BY <1>1 DEF Since, Waiting, Recorded
  <2>2. Taken' = Taken /\ \A h \in Goroutines : h # g => snap[h].sid # sid
    BY <1>1, Only DEF Taken, NoProject
  <2>3. sid \in Sessions
    BY DEF SInv, Settings
  <2>4. CASE snap[g].sid # sid
    <3>1. known'[sid] = known[sid] /\ Since(known[sid])
      BY <1>4, <2>2, <2>3, <2>4 DEF SInv, Deltas
    <3> QED
      BY <1>1, <2>1, <2>2, <2>4, <3>1 DEF Deltas
  <2>5. CASE snap[g].sid = sid
    <3>1. /\ Since(snap[g].value)
          /\ \A p \in Taken : p.base = known[sid]
          /\ Taken = {} => known[sid] = snap[g].value
      BY <1>1, <2>5 DEF SInv, Deltas
    <3>2. CASE absorbed
      <4>1. wpc'[g] = "finalize"
        BY <1>1, <3>2 DEF IInv, Types
      <4>2. ~Told(g) => \A p \in Taken : p.base = snap[g].value
        BY <1>1, Only DEF Told, Taken
      <4>3. known'[sid] = snap[g].value
        BY <1>4, <2>5, <3>1, <3>2, <4>2
      <4> QED
        BY <1>1, <2>1, <2>2, <2>5, <3>1, <4>1, <4>3 DEF Deltas
    <3>3. CASE ~absorbed
      <4>1. wpc'[g] = "revert" /\ known'[sid] = known[sid]
        BY <1>1, <1>4, <2>5, <3>3 DEF IInv, Types
      <4> QED
        BY <1>1, <2>1, <2>2, <2>5, <3>1, <4>1 DEF Deltas
    <3> QED
      BY <3>2, <3>3
  <2> QED
    BY <2>4, <2>5
<1> QED
  BY <1>5, <1>6, <1>7, <1>8, <1>9 DEF SInv

\* What FinalizePendingContext and RevertPendingContext have in common.
PutAside(g, left) ==
  /\ wpc[g] \in {"finalize", "revert"}
  /\ pend' = left /\ wpc' = [wpc EXCEPT ![g] = "idle"]
  /\ item' = [item EXCEPT ![g] = 0] /\ snap' = [snap EXCEPT ![g] = NoProject]
  /\ outcome' = [outcome EXCEPT ![g] = "none"]
  /\ UNCHANGED <<project, value, sid, req, known, patch, del, lapses>>

\* A goroutine that puts what it claimed aside keeps all but the deltas, if
\* the rows it leaves are rows there were, claimed no more.
LEMMA PutAsideKeeps ==
  ASSUME IInv, SInv, NEW g \in Goroutines, NEW next, PutAside(g, next),
         next \subseteq [sid : Sessions, base : Values, by : Requests \cup {0}],
         \A p \in next : \E q \in pend : p.sid = q.sid /\ (p.by # 0 => p.by = q.by /\ q.by # item[g]),
         Calm /\ sid # 0 /\ snap[g].sid # sid =>
           \A p : p \in next /\ p.sid = sid <=> p \in pend /\ p.sid = sid,
         Calm /\ sid # 0 /\ snap[g].sid = sid => Since(known[sid])'
  PROVE  SInv'
<1> USE DEF PutAside
<1>1. Alive(g) /\ item[g] \in Requests
  BY DEF Alive, IInv, Holding
<1>2. Settings' /\ Patching' /\ Blank' /\ Kept'
  <2>1. NoProject \in [value : Values \cup {0}, sid : Sessions]
    BY Finite DEF NoProject, Sessions
  <2> QED
    BY <2>1 DEF SInv, Settings, Patching, Blank, Kept, Calm, IInv, Types
<1>3. Known'
  <2>1. \A p \in pend' : p.sid # 0 /\ Heard(p.sid)'
    BY DEF SInv, Known, Heard
  <2>2. \A h \in Goroutines : Heard(snap[h].sid)'
    BY DEF SInv, Settings, Known, Heard, NoProject
  <2>3. \A h \in Goroutines \ {g} : wpc'[h] = wpc[h] /\ snap'[h] = snap[h] /\ outcome'[h] = outcome[h]
    BY DEF IInv, Types, SInv, Settings
  <2>4. wpc'[g] = "idle"
    BY DEF IInv, Types
  <2> QED
    BY <2>1, <2>2, <2>3, <2>4 DEF SInv, Known, Heard
<1>4. OnItsWay' /\ Few'
  <2>1. \A h \in Goroutines : Early(h)' => Early(h) /\ item'[h] = item[h]
    BY DEF Early, IInv, Types
  <2>2. Later(req')
    BY DEF Later, IInv, Types
  <2> QED
    BY <2>1, <2>2, NoneBegun, FewFrame DEF SInv, Sessioned
<1>5. Calm' => Calm
  BY DEF Calm
<1>6. ASSUME Calm
      PROVE  /\ \A p \in next : p.by = 0
             /\ \A h \in Goroutines : snap'[h] = NoProject
  <2>1. /\ \A h \in Goroutines : h # g => snap[h] = NoProject
        /\ \A p \in pend : p.by # 0 => item[g] = p.by
    BY <1>1, <1>6, Only
  <2>2. \A p \in next : p.by = 0
    BY <2>1
  <2>3. \A h \in Goroutines : snap'[h] = NoProject
    BY <2>1 DEF SInv, Settings
  <2> QED
    BY <2>2, <2>3
<1>7. Claimed'
  BY <1>5, <1>6 DEF Claimed
<1>8. FirstTurn'
  BY DEF SInv, FirstTurn, Calm, IInv, Types, Settings
<1>9. Deltas'
  <2> SUFFICES ASSUME Calm, sid # 0
               PROVE  Since(known[sid])'
    BY <1>5, <1>6 DEF Deltas, NoProject
  <2>1. CASE snap[g].sid # sid
    <3>1. Since(known[sid])
      BY <1>1, <2>1, Only DEF SInv, Deltas, NoProject
    <3>2. Waiting' = Waiting /\ Recorded' = Recorded
      BY <2>1 DEF Waiting, Recorded
    <3> QED
      BY <3>1, <3>2 DEF Since
  <2> QED
    BY <2>1
<1> QED
  BY <1>2, <1>3, <1>4, <1>7, <1>8, <1>9 DEF SInv

\* What retiring the claimed rows preserves.
LEMMA FinalizeSettings ==
  ASSUME IInv, SInv, NEW g \in Goroutines, Finalize(g)
  PROVE  SInv'
<1> DEFINE next == {p \in pend : p.by # item[g]}
<1>1. PutAside(g, next) /\ wpc[g] = "finalize" /\ Alive(g) /\ item[g] # 0
  BY NotZero DEF Finalize, Return, Goto, PutAside, handlers, Alive, IInv, Holding
<1>2. next \subseteq [sid : Sessions, base : Values, by : Requests \cup {0}]
  BY DEF SInv, Settings
<1>3. \A p \in next :
        \E q \in pend : p.sid = q.sid /\ (p.by # 0 => p.by = q.by /\ q.by # item[g])
  OBVIOUS
<1>4. ASSUME Calm, sid # 0, snap[g].sid # sid
      PROVE  \A p : p \in next /\ p.sid = sid <=> p \in pend /\ p.sid = sid
  BY <1>1, <1>4, Only
<1>5. ASSUME Calm, sid # 0, snap[g].sid = sid
      PROVE  Since(known[sid])'
  <2>1. Since(snap[g].value) /\ known[sid] = snap[g].value
    BY <1>1, <1>5 DEF SInv, Deltas
  <2>2. Waiting' = Waiting /\ Recorded' = Recorded /\ known'[sid'] = known[sid]
    BY <1>1 DEF Waiting, Recorded, PutAside
  <2> QED
    BY <2>1, <2>2 DEF Since
<1> HIDE DEF next
<1> QED
  BY <1>1, <1>2, <1>3, <1>4, <1>5, PutAsideKeeps

\* What giving the claimed rows back preserves: their baselines are older.
LEMMA RevertSettings ==
  ASSUME IInv, SInv, NEW g \in Goroutines, Revert(g)
  PROVE  SInv'
<1> DEFINE mine == {p \in pend : p.by = item[g]}
           newer == {p \in pend : p.by = 0 /\ \E q \in mine : q.sid = p.sid}
           next == (pend \ (mine \cup newer)) \cup {[p EXCEPT !.by = 0] : p \in mine}
<1>1. PutAside(g, next) /\ wpc[g] = "revert" /\ Alive(g) /\ item[g] # 0
  BY NotZero DEF Revert, Return, Goto, PutAside, handlers, Alive, IInv, Holding
<1>2. \A p \in pend : p \in [sid : Sessions, base : Values, by : Requests \cup {0}]
  BY DEF SInv, Settings
<1>3. \A p \in mine : /\ [p EXCEPT !.by = 0] \in [sid : Sessions, base : Values, by : Requests \cup {0}]
                      /\ [p EXCEPT !.by = 0].sid = p.sid /\ [p EXCEPT !.by = 0].base = p.base
                      /\ [p EXCEPT !.by = 0].by = 0
  BY <1>2
<1>4. next \subseteq [sid : Sessions, base : Values, by : Requests \cup {0}]
  BY <1>2, <1>3
<1>5. \A p \in next :
        \E q \in pend : p.sid = q.sid /\ (p.by # 0 => p.by = q.by /\ q.by # item[g])
  BY <1>3
<1>6. ASSUME Calm, sid # 0, snap[g].sid # sid
      PROVE  \A p : p \in next /\ p.sid = sid <=> p \in pend /\ p.sid = sid
  <2>1. \A p \in mine : p.sid = snap[g].sid
    BY <1>1, <1>6, Only
  <2> QED
    BY <1>3, <1>6, <2>1
<1>7. ASSUME Calm, sid # 0, snap[g].sid = sid
      PROVE  Since(known[sid])'
  <2>1. /\ Since(snap[g].value)
        /\ \A p \in Taken : p.base = known[sid]
        /\ Taken = {} => known[sid] = snap[g].value
    BY <1>1, <1>7 DEF SInv, Deltas
  <2>2. Taken = mine
    BY <1>1, <1>7, Only DEF Taken
  <2>3. pend' = next /\ sid' = sid /\ known'[sid'] = known[sid] /\ Recorded' = Recorded
    BY <1>1 DEF PutAside, Recorded
  <2>4. CASE mine = {}
    <3>1. Waiting' = Waiting
      BY <2>3, <2>4 DEF Waiting
    <3> QED
      BY <2>1, <2>2, <2>3, <2>4, <3>1 DEF Since
  <2>5. CASE mine # {}
    <3>1. PICK q \in mine : TRUE
      BY <2>5
    <3>2. [q EXCEPT !.by = 0] \in Waiting'
      BY <1>3, <2>2, <2>3, <3>1 DEF Waiting, Taken
    <3>3. ASSUME NEW p \in Waiting'
          PROVE  p.base = known[sid]
      <4>1. p \in next /\ p.sid = sid /\ p.by = 0
        BY <2>3, <3>3 DEF Waiting
      <4>2. CASE p \in pend \ (mine \cup newer)
        BY <2>2, <3>1, <4>1, <4>2 DEF Taken
      <4>3. CASE p \in {[r EXCEPT !.by = 0] : r \in mine}
        BY <1>3, <2>1, <2>2, <4>3
      <4> QED
        BY <4>1, <4>2, <4>3
    <3> QED
      BY <2>3, <3>2, <3>3 DEF Since
  <2> QED
    BY <2>4, <2>5
<1> HIDE DEF next
<1> QED
  BY <1>1, <1>4, <1>5, <1>6, <1>7, PutAsideKeeps

-----------------------------------------------------------------------------
\* The second invariant is inductive under the first.
LEMMA StepSInv ==
  ASSUME IInv, SInv, [Next]_vars
  PROVE  SInv'
<1>1. CASE UNCHANGED vars
  <2>1. /\ UNCHANGED <<project, value, sid, pend, known, snap, patch>>
        /\ UNCHANGED <<wpc, item, outcome, req, lapses, del>>
    BY <1>1 DEF vars, rows, runtime, handlers
  <2> QED
    BY <2>1, Still DEF Later, Calm, IInv, Types
<1>2. ASSUME NEW g \in Goroutines, Dispatch(g)
      PROVE  SInv'
  BY <1>2, WalkSettings, ConsumeSettings, OnSessionSettings, WriteSettings,
     FinalizeSettings, RevertSettings DEF Dispatch
<1> QED
  BY <1>1, <1>2, SenderSettings, CancelSettings, ResetSettings, PatchSettings, DeleteSettings,
     CrashSettings DEF Next

\* A change the session was not told of is in the rows ...
LEMMA KeptDelta == IInv /\ SInv => DeltaKeptWithoutLapse
<1> SUFFICES ASSUME IInv, SInv, Calm, patch.pc = "idle", sid # 0, value # known[sid]
             PROVE  \E p \in pend : /\ p.sid = sid
                                    /\ p.by # 0 => \E g \in Goroutines : item[g] = p.by
  BY DEF DeltaKeptWithoutLapse, DeltaKept, Calm
<1>1. Recorded = value
  BY DEF Recorded
<1>2. Waiting # {} \/ Taken # {}
  BY <1>1 DEF SInv, Deltas, Since
<1> QED
  BY <1>2 DEF Waiting, Taken, SInv, Claimed

\* ... and a row that waits between turns has what it knows as its baseline.
LEMMA KnownBaseline == IInv /\ SInv => BaselineIsKnown
<1> SUFFICES ASSUME IInv, SInv, Calm, sid # 0,
                    NEW p \in pend, p.sid = sid, p.by = 0,
                    \A q \in pend : q.sid = sid => q.by = 0
             PROVE  p.base = known[sid]
  BY DEF BaselineIsKnown, Calm
<1>1. p \in Waiting /\ Taken = {}
  BY DEF Waiting, Taken
<1> QED
  BY <1>1 DEF SInv, Deltas, Since

-----------------------------------------------------------------------------
\* For every number of messages, changes of the setting and restarts, in every
\* behaviour without one of the named lapses: while no change is under way, a
\* value of the setting the session was not told of is in a row that waits or
\* in one a turn that still has to end has claimed (session.go, "Two-phase
\* consume"; RevertPendingContext).
THEOREM CuratorDeltaKept == Spec => []DeltaKeptWithoutLapse
<1>1. Init => IInv /\ SInv
  BY InitIInv, InitSInv
<1>2. IInv /\ SInv /\ [Next]_vars => IInv' /\ SInv'
  BY StepIInv, StepSInv
<1>3. IInv /\ SInv => DeltaKeptWithoutLapse
  BY KeptDelta
<1> QED
  BY <1>1, <1>2, <1>3, PTL DEF Spec

\* Under the same hypothesis the baseline of a row that waits between turns is
\* what the session was last told, so that a change taken back is left out of
\* the note only if the session never heard of it (db/sqlite/curator.go,
\* InsertPendingContext and RevertPendingContext).
THEOREM CuratorBaselineIsKnown == Spec => []BaselineIsKnown
<1>1. Init => IInv /\ SInv
  BY InitIInv, InitSInv
<1>2. IInv /\ SInv /\ [Next]_vars => IInv' /\ SInv'
  BY StepIInv, StepSInv
<1>3. IInv /\ SInv => BaselineIsKnown
  BY KnownBaseline
<1> QED
  BY <1>1, <1>2, <1>3, PTL DEF Spec

-----------------------------------------------------------------------------
(***************************************************************************)
(* The third invariant, under which the queue implements the chat.         *)
(***************************************************************************)
Open == project /\ del.pc = "idle"

Handlers ==
  /\ project \in BOOLEAN
  /\ sender \in [Requests -> [pc : {"idle", "session", "send", "end"}, g : Goroutines \cup {0}]]

\* A goroutine that is not started yet is nobody's.
Fresh ==
  \A g \in Goroutines : wpc[g] = "unborn" =>
    queue[g] = <<>> /\ g # current /\ g \notin stopped /\ g # del.g

\* What stops goroutines has taken them out of the map before.
Standing == current # 0 => current \notin stopped /\ (del.pc = "stop" => current # del.g)

\* A handler sends to the goroutine of the map, as long as the project stays.
Sending ==
  \A r \in Requests : sender[r].pc = "send" =>
    /\ sender[r].g \in Goroutines /\ wpc[sender[r].g] # "unborn"
    /\ Open => sender[r].g = current

\* A message that is running is in the hands of the goroutine of the map ...
Turns ==
  Open => \A r \in Requests : req[r] = "running" =>
    current # 0 /\ item[current] = r /\ wpc[current] \in Turn

\* ... and one that a goroutine works on was marked running before.
Begun ==
  \A g \in Goroutines :
    wpc[g] \in Turn \ {"write"} \/ (wpc[g] = "write" /\ outcome[g] # "cancelled") =>
      req[item[g]] \notin {"absent", "queued"}

Deleted == ~project => \A r \in Requests : req[r] \in {"absent", "deleted"}

CInv == Handlers /\ Fresh /\ Standing /\ Sending /\ Turns /\ Begun /\ Deleted

LEMMA InitCInv == Init => CInv
BY NotZero DEF Init, CInv, Open, Turn, Handlers, Fresh, Standing, Sending, Turns, Begun, Deleted

\* A step that leaves the goroutines, the map and the deletion alone, and
\* neither queues again nor starts a message.
LEMMA ChatQuiet ==
  ASSUME IInv, CInv, Later(req'), \A r \in Requests : req'[r] = "running" => req[r] = "running",
         Deleted',
         UNCHANGED <<project, sender, current, queue, wpc, item, outcome, stopped, del>>
  PROVE  CInv'
<1> USE DEF CInv, IInv, Types
<1>1. Handlers' /\ Fresh' /\ Standing'
  BY DEF Handlers, Fresh, Standing
<1>2. Sending' /\ Turns'
  BY DEF Sending, Turns, Open
<1>3. Begun'
  BY DEF Begun, Turn, Later, Holding
<1> QED
  BY <1>1, <1>2, <1>3

\* A step of one goroutine that leaves the messages alone. It ends no turn
\* but one whose message is not running any more.
LEMMA ChatWalk ==
  ASSUME IInv, CInv, NEW g \in Goroutines, Alive(g), NEW next \in Places, next # "unborn",
         wpc' = [wpc EXCEPT ![g] = next],
         wpc[g] \in Turn => next \in Turn,
         next \in Turn \ {"write"} => wpc[g] \in Turn \ {"write"},
         next = "write" => outcome'[g] = "cancelled" \/ wpc[g] \in Turn \ {"write"},
         item' = item \/ (wpc[g] \notin Turn /\ next \notin Turn),
         \A h \in Goroutines \ {g} : item'[h] = item[h] /\ queue'[h] = queue[h]
                                     /\ outcome'[h] = outcome[h],
         UNCHANGED <<project, req, sender, current, stopped, del>>
  PROVE  CInv'
<1> USE DEF CInv, IInv, Types, Alive
<1>1. Handlers' /\ Standing' /\ Deleted'
  BY DEF Handlers, Standing, Deleted
<1>2. Fresh'
  BY DEF Fresh
<1>3. Sending'
  BY DEF Sending, Open
<1>4. Turns'
  <2> SUFFICES ASSUME Open, NEW r \in Requests, req[r] = "running"
               PROVE  current # 0 /\ item'[current] = r /\ wpc'[current] \in Turn
    BY DEF Turns, Open
  <2>1. current # 0 /\ item[current] = r /\ wpc[current] \in Turn /\ current \in Goroutines
    BY DEF Turns
  <2>2. CASE g = current
    BY <2>1, <2>2
  <2>3. CASE g # current
    BY <2>1, <2>3
  <2> QED
    BY <2>2, <2>3
<1>5. Begun'
  <2> SUFFICES ASSUME NEW h \in Goroutines,
                      \/ wpc'[h] \in Turn \ {"write"}
                      \/ wpc'[h] = "write" /\ outcome'[h] # "cancelled"
               PROVE  req[item'[h]] \notin {"absent", "queued"}
    BY DEF Begun
  <2>1. CASE h # g
    BY <2>1 DEF Begun
  <2>2. CASE h = g
    <3>1. wpc[g] \in Turn \ {"write"}
      BY <2>2
    <3> QED
      BY <3>1, <2>2 DEF Begun, Turn
  <2> QED
    BY <2>1, <2>2
<1> QED
  BY <1>1, <1>2, <1>3, <1>4, <1>5

\* What a message's handler preserves.
LEMMA ChatSender ==
  ASSUME IInv, CInv, NEW r \in Requests, CreateRequest(r) \/ SendStep(r)
  PROVE  CInv'
<1> USE DEF CInv, IInv, Types, Handlers
<1>1. CASE CreateRequest(r)
  <2>1. /\ req[r] = "absent" /\ project /\ req' = [req EXCEPT ![r] = "queued"]
        /\ sender' = [sender EXCEPT ![r].pc = "session"]
        /\ UNCHANGED <<project, current, queue, wpc, item, outcome, stopped, del>>
    BY <1>1 DEF CreateRequest, runtime
  <2>2. Handlers' /\ Deleted'
    BY <2>1 DEF Deleted
  <2>3. Fresh' /\ Standing' /\ Sending'
    BY <2>1 DEF Fresh, Standing, Sending, Open
  <2>4. Turns'
    BY <2>1 DEF Turns, Open
  <2>5. Begun'
    <3> SUFFICES ASSUME NEW h \in Goroutines,
                        \/ wpc[h] \in Turn \ {"write"}
                        \/ wpc[h] = "write" /\ outcome[h] # "cancelled"
                 PROVE  req'[item[h]] \notin {"absent", "queued"}
      BY <2>1 DEF Begun
    <3>1. item[h] \in Requests
      BY DEF Holding, Turn
    <3> QED
      BY <2>1, <3>1 DEF Begun
  <2> QED
    BY <2>2, <2>3, <2>4, <2>5
<1>2. CASE GetOrStart(r)
  <2>1. PICK g \in Goroutines :
          /\ \/ g = current /\ UNCHANGED wpc
             \/ current = 0 /\ wpc[g] = "unborn" /\ wpc' = [wpc EXCEPT ![g] = "idle"]
          /\ current' = g
          /\ sender' = [sender EXCEPT ![r] = [pc |-> "send", g |-> g]]
    BY <1>2 DEF GetOrStart, Goto
  <2>2. UNCHANGED <<project, req, queue, item, outcome, stopped, del>> /\ sender[r].pc = "session"
    BY <1>2 DEF GetOrStart, rows
  <2>3. Handlers' /\ Deleted'
    BY <2>1, <2>2 DEF Deleted
  <2>4. Fresh' /\ Standing'
    BY <2>1, <2>2, NotZero DEF Fresh, Standing
  <2>5. Sending'
    <3> SUFFICES ASSUME NEW q \in Requests, sender'[q].pc = "send"
                 PROVE  /\ sender'[q].g \in Goroutines /\ wpc'[sender'[q].g] # "unborn"
                        /\ Open => sender'[q].g = g
      BY <2>1, <2>2 DEF Sending, Open
    <3>1. CASE q = r
      BY <2>1, <3>1 DEF Fresh
    <3>2. CASE q # r
      BY <2>1, <3>2, NotZero DEF Sending
    <3> QED
      BY <3>1, <3>2
  <2>6. Turns' /\ Begun'
    BY <2>1, <2>2 DEF Turns, Open, Begun, Turn
  <2> QED
    BY <2>3, <2>4, <2>5, <2>6
<1>3. CASE Enqueue(r)
  <2>1. /\ sender[r].pc = "send" /\ sender' = [sender EXCEPT ![r].pc = "end"]
        /\ UNCHANGED <<project, current, wpc, item, outcome, stopped, del>>
        /\ \/ /\ queue' = [queue EXCEPT ![sender[r].g] = Append(@, r)]
              /\ req' = req
           \/ queue' = queue /\ req' = Closed(r, "failed")
    BY <1>3 DEF Enqueue
  <2>2. Later(req') /\ \A q \in Requests : req'[q] = "running" => req[q] = "running"
    <3>1. Later(req)
      BY DEF Later
    <3>2. Later(Closed(r, "failed"))
      BY ClosedLater DEF Ended
    <3>3. \A q \in Requests : Closed(r, "failed")[q] = "running" => req[q] = "running"
      BY DEF Closed
    <3> QED
      BY <2>1, <3>1, <3>2, <3>3
  <2>3. Handlers' /\ Standing' /\ Deleted'
    BY <2>1 DEF Standing, Deleted, Closed, Active
  <2>4. Fresh'
    BY <2>1 DEF Fresh, Sending
  <2>5. Sending' /\ Turns'
    BY <2>1, <2>2 DEF Sending, Turns, Open
  <2>6. Begun'
    BY <2>1, <2>2 DEF Begun, Turn, Later, Holding
  <2> QED
    BY <2>3, <2>4, <2>5, <2>6
<1> QED
  BY <1>1, <1>2, <1>3 DEF SendStep

\* What a session goroutine preserves.
LEMMA ChatDispatch ==
  ASSUME IInv, CInv, NEW g \in Goroutines, Dispatch(g)
  PROVE  CInv'
<1> USE DEF CInv, IInv, Types, Alive, Turn, Places
<1>1. CASE Take(g) \/ Exit(g)
  BY <1>1, ChatWalk DEF Take, Exit, Goto, rows, handlers
<1>2. CASE Begin(g)
  <2>1. PICK next \in {"write", "mark"} : wpc' = [wpc EXCEPT ![g] = next]
          /\ (next = "write" => outcome'[g] = "cancelled")
          /\ \A h \in Goroutines \ {g} : outcome'[h] = outcome[h]
    BY <1>2 DEF Begin, EndWith, Goto
  <2> QED
    BY <1>2, <2>1, ChatWalk DEF Begin, rows, handlers
<1>3. CASE MarkRunning(g)
  <2>1. CASE req[item[g]] = "queued"
    <3>1. /\ wpc[g] = "mark" /\ wpc' = [wpc EXCEPT ![g] = "consume"]
          /\ req' = [req EXCEPT ![item[g]] = "running"]
          /\ UNCHANGED <<project, sender, current, queue, item, outcome, stopped, del>>
      BY <1>3, <2>1 DEF MarkRunning, Goto, handlers
    <3>2. item[g] \in Requests
      BY <3>1 DEF Holding
    <3>3. Handlers' /\ Fresh' /\ Standing' /\ Sending'
      BY <3>1 DEF Handlers, Fresh, Standing, Sending, Open
    <3>4. Deleted'
      BY <3>1, <3>2, <2>1 DEF Deleted
    <3>5. Turns'
      BY <3>1, <3>2, NotZero DEF Turns, Open, OnlyCurrent
    <3>6. Begun'
      BY <3>1, <3>2 DEF Begun, Holding
    <3> QED
      BY <3>3, <3>4, <3>5, <3>6
  <2>2. CASE req[item[g]] # "queued"
    BY <1>3, <2>2, ChatWalk DEF MarkRunning, Return, Goto, handlers
  <2> QED
    BY <2>1, <2>2
<1>4. CASE Consume(g)
  <2>1. PICK next \in {"write", "spawn"} : wpc' = [wpc EXCEPT ![g] = next]
          /\ \A h \in Goroutines \ {g} : outcome'[h] = outcome[h]
    BY <1>4 DEF Consume, EndWith, Goto
  <2> QED
    BY <1>4, <2>1, ChatWalk DEF Consume, handlers
<1>5. CASE Spawn(g)
  <2>1. PICK next \in {"write", "agent"} : wpc' = [wpc EXCEPT ![g] = next]
          /\ \A h \in Goroutines \ {g} : outcome'[h] = outcome[h]
    BY <1>5 DEF Spawn, EndWith, Goto
  <2> QED
    BY <1>5, <2>1, ChatWalk DEF Spawn, rows, handlers
<1>6. CASE OnSession(g)
  BY <1>6, ChatWalk DEF OnSession, Goto, handlers
<1>7. CASE AgentReturns(g)
  <2>1. wpc' = [wpc EXCEPT ![g] = "write"] /\ \A h \in Goroutines \ {g} : outcome'[h] = outcome[h]
    BY <1>7 DEF AgentReturns, EndWith, Goto
  <2> QED
    BY <1>7, <2>1, ChatWalk DEF AgentReturns, rows, handlers
<1>8. CASE Write(g)
  <2>1. PICK next \in {"finalize", "revert"} :
          /\ wpc[g] = "write" /\ wpc' = [wpc EXCEPT ![g] = next]
          /\ req' = Closed(item[g], outcome[g])
          /\ UNCHANGED <<project, sender, current, queue, item, outcome, stopped, del>>
    BY <1>8 DEF Write, Goto, handlers
  <2>2. item[g] \in Requests /\ outcome[g] \in Ended
    BY <2>1 DEF Holding
  <2>3. /\ Later(req') /\ req'[item[g]] # "running"
        /\ \A q \in Requests : req'[q] = "running" => req[q] = "running"
        /\ \A q \in Requests : req[q] \in {"absent", "deleted"} => req'[q] = req[q]
    BY <2>1, <2>2, ClosedLater DEF Later, Closed, Ended, Active
  <2>4. Handlers' /\ Fresh' /\ Standing' /\ Sending' /\ Deleted'
    BY <2>1, <2>3 DEF Handlers, Fresh, Standing, Sending, Open, Deleted
  <2>5. Turns'
    BY <2>1, <2>2, <2>3, NotZero DEF Turns, Open, OnlyCurrent
  <2>6. Begun'
    BY <2>1, <2>3 DEF Begun, Later, Holding
  <2> QED
    BY <2>4, <2>5, <2>6
<1>9. CASE Finalize(g) \/ Revert(g)
  BY <1>9, ChatWalk DEF Finalize, Revert, Return, Goto, handlers
<1> QED
  BY <1>1, <1>2, <1>3, <1>4, <1>5, <1>6, <1>7, <1>8, <1>9 DEF Dispatch

\* What the buttons, the settings and the deletion preserve.
LEMMA ChatButtons ==
  ASSUME IInv, CInv, CancelReads \/ CancelStep \/ Reset \/ PatchReads \/ PatchStep
  PROVE  CInv'
<1> USE DEF CInv, IInv, Types
<1>1. UNCHANGED <<project, sender, current, queue, wpc, item, outcome, stopped, del>>
  BY DEF CancelReads, CancelStep, CancelFires, CancelMarks, Reset, PatchReads, PatchStep,
         PatchUpdates, PatchQueues, QueueFails, rows, runtime, handlers
<1>2. /\ Later(req') /\ \A r \in Requests : req'[r] = "running" => req[r] = "running"
      /\ \A r \in Requests : req[r] \in {"absent", "deleted"} => req'[r] \in {"absent", "deleted"}
  <2>1. CASE CancelMarks
    BY <2>1, ClosedLater DEF CancelMarks, Later, Closed, Ended, Active
  <2>2. CASE Reset
    BY <2>2 DEF Reset, Later, Statuses
  <2>3. CASE ~CancelMarks /\ ~Reset
    <3>1. req' = req
      BY <2>3 DEF CancelReads, CancelStep, CancelFires, PatchReads, PatchStep,
                  PatchUpdates, PatchQueues, QueueFails, rows
    <3> QED
      BY <3>1 DEF Later
  <2> QED
    BY <2>1, <2>2, <2>3
<1>3. Deleted'
  BY <1>1, <1>2 DEF Deleted
<1> QED
  BY <1>1, <1>2, <1>3, ChatQuiet

LEMMA ChatDeletion ==
  ASSUME IInv, CInv, DeleteTakes \/ DeleteStep
  PROVE  CInv'
<1> USE DEF CInv, IInv, Types
<1>r. Later(req')
  <2>1. CASE DeleteTakes \/ DeleteWaits
    BY <2>1 DEF Later, DeleteTakes, DeleteWaits, rows
  <2>2. CASE DeleteStops
    <3>1. Later(req) /\ Later(Closed(item[del.g], "cancelled"))
      BY ClosedLater DEF Later, Ended
    <3> QED
      BY <2>2, <3>1 DEF DeleteStops
  <2>3. CASE DeleteSweeps \/ DeleteRow
    BY <2>3 DEF Later, DeleteSweeps, DeleteRow, Statuses, Ended
  <2> QED
    BY <2>1, <2>2, <2>3 DEF DeleteStep
<1>1. /\ UNCHANGED <<sender, queue, wpc, item, outcome>>
      /\ \/ current' = current /\ del'.g = del.g
         \/ current' = 0 /\ del'.g = current
      /\ del'.pc # "idle"
  <2>1. CASE DeleteTakes
    BY <2>1 DEF DeleteTakes
  <2>2. CASE DeleteStep
    BY <2>2 DEF DeleteStep, DeleteStops, DeleteWaits, DeleteSweeps, DeleteRow, runtime
  <2> QED
    BY <2>1, <2>2
<1>o. ~Open' /\ Handlers'
  <2>1. project' = project \/ project' = FALSE
    BY DEF DeleteTakes, DeleteStep, DeleteStops, DeleteWaits, DeleteSweeps, DeleteRow, rows
  <2> QED
    BY <1>1, <2>1 DEF Open, Handlers
<1>2. stopped' = stopped \/ (DeleteStops /\ stopped' = stopped \cup {del.g} /\ del.pc = "stop")
  BY DEF DeleteTakes, DeleteStep, DeleteStops, DeleteWaits, DeleteSweeps, DeleteRow, runtime
<1>3. Fresh'
  BY <1>1, <1>2, NotZero DEF Fresh
<1>4. Standing'
  <2>1. CASE DeleteStops
    BY <2>1 DEF DeleteStops, Standing
  <2>2. CASE ~DeleteStops
    BY <2>2, <1>2 DEF DeleteTakes, DeleteStep, DeleteWaits, DeleteSweeps, DeleteRow, runtime, Standing
  <2> QED
    BY <2>1, <2>2
<1>5. Sending' /\ Turns'
  BY <1>1, <1>o DEF Sending, Turns
<1>6. Begun'
  BY <1>1, <1>r DEF Begun, Turn, Later, Holding
<1>7. Deleted'
  <2>1. CASE DeleteRow
    BY <2>1 DEF DeleteRow, Deleted
  <2>2. CASE ~DeleteRow
    BY <2>2 DEF DeleteTakes, DeleteStep, DeleteStops, DeleteWaits, DeleteSweeps, rows, Deleted,
                Closed, Active
  <2> QED
    BY <2>1, <2>2
<1> QED
  BY <1>o, <1>3, <1>4, <1>5, <1>6, <1>7

\* What a crash preserves.
LEMMA ChatCrash ==
  ASSUME IInv, CInv, Crash
  PROVE  CInv'
<1> USE DEF CInv, IInv, Types
<1>1. /\ current' = 0 /\ del' = [pc |-> "idle", g |-> 0] /\ stopped' = {} /\ project' = project
      /\ req' = [r \in Requests |-> IF req[r] \in Active THEN "cancelled" ELSE req[r]]
      /\ queue' = [g \in Goroutines |-> <<>>]
      /\ wpc' = [g \in Goroutines |-> IF wpc[g] = "unborn" THEN "unborn" ELSE "gone"]
      /\ sender' = [r \in Requests |-> IF sender[r].pc = "idle" THEN sender[r]
                                                                ELSE [pc |-> "end", g |-> 0]]
  BY DEF Crash
<1>2. Handlers' /\ Deleted'
  BY <1>1 DEF Handlers, Deleted, Active
<1>3. Fresh' /\ Standing'
  BY <1>1, NotZero DEF Fresh, Standing
<1>4. Sending' /\ Turns' /\ Begun'
  BY <1>1 DEF Sending, Turns, Begun, Turn, Active
<1> QED
  BY <1>2, <1>3, <1>4

LEMMA StepCInv ==
  ASSUME IInv, CInv, [Next]_vars
  PROVE  CInv'
<1>1. CASE UNCHANGED vars
  <2>1. UNCHANGED <<project, req, sender, current, queue, wpc, item, outcome, stopped, del>>
    BY <1>1 DEF vars, rows, runtime, handlers
  <2> QED
    BY <2>1, ChatQuiet DEF Later, IInv, CInv, Types, Deleted
<1> QED
  BY <1>1, ChatSender, ChatDispatch, ChatButtons, ChatDeletion, ChatCrash DEF Next

-----------------------------------------------------------------------------
(***************************************************************************)
(* Under the invariants, every step is one of the chat, or none.           *)
(***************************************************************************)
ChatStep == TheChat!Next \/ UNCHANGED TheChat!vars

\* Two facts on sequences: what is appended comes after what is in front, and
\* a head put back in front of the tail.
LEMMA InFront ==
  ASSUME NEW S, NEW a \in S, NEW t \in Seq(S)
  PROVE  /\ <<a>> \o t \in Seq(S) /\ Len(<<a>> \o t) = 1 + Len(t)
         /\ (<<a>> \o t)[1] = a
         /\ \A i \in 2 .. 1 + Len(t) : (<<a>> \o t)[i] = t[i - 1]
<1>1. <<a>> \in Seq(S) /\ Len(<<a>>) = 1 /\ <<a>>[1] = a
  OBVIOUS
<1>2. Len(t) \in Nat
  BY LenProperties
<1> DEFINE h == <<a>>
<1> HIDE DEF h
<1>3. /\ h \o t \in Seq(S) /\ Len(h \o t) = Len(h) + Len(t)
      /\ \A i \in 1 .. Len(h) + Len(t) :
           (h \o t)[i] = IF i <= Len(h) THEN h[i] ELSE t[i - Len(h)]
  BY <1>1, ConcatProperties DEF h
<1>4. Len(h) = 1 /\ h[1] = a
  BY <1>1 DEF h
<1>5. /\ Len(h \o t) = 1 + Len(t) /\ (h \o t)[1] = a
      /\ \A i \in 2 .. 1 + Len(t) : (h \o t)[i] = t[i - 1]
  BY <1>2, <1>3, <1>4
<1> QED
  BY <1>3, <1>5 DEF h

LEMMA AppendBehind ==
  ASSUME NEW S, NEW a \in S, NEW r \in S, NEW q \in Seq(S)
  PROVE  Append(<<a>> \o q, r) = <<a>> \o Append(q, r)
<1> DEFINE s == <<a>> \o q
           l == Append(s, r)
           m == <<a>> \o Append(q, r)
<1>1. /\ s \in Seq(S) /\ Len(s) = 1 + Len(q) /\ Len(q) \in Nat
      /\ s[1] = a /\ \A i \in 2 .. 1 + Len(q) : s[i] = q[i - 1]
  BY InFront, LenProperties
<1>2. /\ Append(q, r) \in Seq(S) /\ Len(Append(q, r)) = Len(q) + 1
      /\ \A i \in 1 .. Len(q) : Append(q, r)[i] = q[i]
      /\ Append(q, r)[Len(q) + 1] = r
  OBVIOUS
<1>3. /\ m \in Seq(S) /\ Len(m) = 2 + Len(q) /\ m[1] = a
      /\ \A i \in 2 .. 2 + Len(q) : m[i] = Append(q, r)[i - 1]
  BY <1>1, <1>2, InFront
<1> HIDE DEF s, m
<1>4. /\ l \in Seq(S) /\ Len(l) = 2 + Len(q)
      /\ \A i \in 1 .. 1 + Len(q) : l[i] = s[i]
      /\ l[2 + Len(q)] = r
  BY <1>1
<1> HIDE DEF l
<1>5. \A i \in 1 .. Len(l) : l[i] = m[i]
  <2> TAKE i \in 1 .. Len(l)
  <2>1. CASE i = 1
    BY <1>1, <1>3, <1>4, <2>1
  <2>2. CASE i \in 2 .. 1 + Len(q)
    <3>1. l[i] = q[i - 1] /\ m[i] = Append(q, r)[i - 1] /\ i - 1 \in 1 .. Len(q)
      BY <1>1, <1>3, <1>4, <2>2
    <3> QED
      BY <1>2, <3>1
  <2>3. CASE i = 2 + Len(q)
    <3>1. m[i] = Append(q, r)[Len(q) + 1]
      BY <1>1, <1>3, <2>3
    <3> QED
      BY <1>2, <1>4, <2>3, <3>1
  <2> QED
    BY <1>1, <1>4, <2>1, <2>2, <2>3
<1>6. l = m
  BY <1>3, <1>4, <1>5, SeqEqual
<1> QED
  BY <1>6 DEF s, l, m

LEMMA HeadBack ==
  ASSUME NEW S, NEW q \in Seq(S), q # <<>>
  PROVE  <<Head(q)>> \o Tail(q) = q
<1> DEFINE t == Tail(q)
           m == <<Head(q)>> \o t
<1>1. /\ Head(q) \in S /\ t \in Seq(S) /\ Len(t) = Len(q) - 1 /\ Len(q) \in Nat \ {0}
      /\ Head(q) = q[1] /\ \A i \in 1 .. Len(t) : t[i] = q[i + 1]
  BY HeadTailProperties, EmptySeq, LenProperties
<1> HIDE DEF t
<1>2. /\ m \in Seq(S) /\ Len(m) = Len(q) /\ m[1] = q[1]
      /\ \A i \in 2 .. Len(q) : m[i] = t[i - 1]
  BY <1>1, InFront
<1> HIDE DEF m
<1>3. \A i \in 1 .. Len(m) : m[i] = q[i]
  BY <1>1, <1>2
<1>4. m = q
  BY <1>2, <1>3, SeqEqual
<1> QED
  BY <1>4 DEF m, t

LEMMA ChatInit == Init => TheChat!Init
BY DEF Init, TheChat!Init, Phase, AtDoor, Line

LEMMA PhaseOpen == CInv => (Phase = "open" <=> Open) /\ (Phase = "closed" <=> ~project)
BY DEF Phase, Open, CInv, Handlers

\* The line of an open project with a goroutine in the map.
LEMMA OpenLine ==
  ASSUME IInv, CInv, Open, current # 0
  PROVE  /\ current \in Goroutines /\ queue[current] \in Seq(Requests)
         /\ wpc[current] \in {"begin", "mark"} =>
              item[current] \in Requests /\ Line = <<item[current]>> \o queue[current]
         /\ wpc[current] \notin {"begin", "mark"} => Line = queue[current]
         /\ Line \in Seq(Requests)
<1>1. current \in Goroutines /\ queue[current] \in Seq(Requests)
  BY DEF IInv, Types
<1>2. Phase = "open"
  BY PhaseOpen
<1>3. CASE wpc[current] \in {"begin", "mark"}
  <2>1. item[current] \in Requests
    BY <1>1, <1>3 DEF IInv, Holding
  <2>2. Line = <<item[current]>> \o queue[current]
    BY <1>2, <1>3 DEF Line
  <2>3. <<item[current]>> \in Seq(Requests)
    BY <2>1
  <2> QED
    BY <1>1, <1>3, <2>1, <2>2, <2>3, ConcatProperties
<1>4. CASE wpc[current] \notin {"begin", "mark"}
  <2>1. Line = <<>> \o queue[current]
    BY <1>2, <1>4 DEF Line
  <2> QED
    BY <1>1, <1>4, <2>1, ConcatEmptySeq
<1> QED
  BY <1>1, <1>3, <1>4

LEMMA NoLine == (CInv /\ ~Open) \/ current = 0 => Line = <<>>
BY PhaseOpen DEF Line

\* Steps that neither change a status nor touch the line.
LEMMA ChatStill ==
  ASSUME IInv, CInv,
         UNCHANGED <<req, project, del, current, sender, queue>>,
         \/ UNCHANGED <<wpc, item>>
         \/ \E g \in Goroutines, next \in Places :
              /\ wpc' = [wpc EXCEPT ![g] = next]
              /\ wpc[g] \notin {"begin", "mark"} /\ next \notin {"begin", "mark"}
              /\ \A h \in Goroutines \ {g} : item'[h] = item[h]
  PROVE  UNCHANGED TheChat!vars
<1>1. Phase' = Phase /\ AtDoor' = AtDoor
  BY DEF Phase, AtDoor
<1>2. current = 0 => Line' = Line
  BY <1>1 DEF Line
<1>3. CASE current # 0
  <2>1. current \in Goroutines /\ wpc \in [Goroutines -> Places]
    BY <1>3 DEF IInv, Types
  <2>2. \/ wpc'[current] = wpc[current] /\ item'[current] = item[current]
        \/ wpc[current] \notin {"begin", "mark"} /\ wpc'[current] \notin {"begin", "mark"}
    BY <2>1
  <2>3. Line' = Line
    BY <1>1, <2>2 DEF Line
  <2> QED
    BY <1>1, <2>3 DEF TheChat!vars
<1> QED
  BY <1>1, <1>2, <1>3 DEF TheChat!vars

LEMMA ChatCreates ==
  ASSUME IInv, CInv, NEW r \in Requests, CreateRequest(r)
  PROVE  ChatStep
<1>1. /\ req[r] = "absent" /\ project /\ req' = [req EXCEPT ![r] = "queued"]
      /\ sender[r].pc = "idle" /\ sender' = [sender EXCEPT ![r].pc = "session"]
      /\ UNCHANGED <<project, del, current, queue, wpc, item>>
  BY DEF CreateRequest, runtime
<1>2. Phase' = Phase /\ Phase # "closed"
  BY <1>1, PhaseOpen DEF Phase
<1>3. Line' = Line
  BY <1>1, <1>2 DEF Line
<1>4. AtDoor' = AtDoor \cup {r}
  BY <1>1 DEF AtDoor, CInv, Handlers
<1>5. req' = [m \in Requests |-> IF m \in {r} THEN "queued" ELSE req[m]]
  BY <1>1 DEF IInv, Types
<1>6. TheChat!Send(r)
  BY <1>1, <1>2, <1>3, <1>4, <1>5 DEF TheChat!Send, TheChat!Put
<1> QED
  BY <1>6 DEF ChatStep, TheChat!Next

\* A new goroutine starts with an empty channel.
LEMMA ChatStarts ==
  ASSUME IInv, CInv, NEW r \in Requests, GetOrStart(r)
  PROVE  ChatStep
<1>1. PICK g \in Goroutines :
        /\ \/ g = current /\ UNCHANGED wpc
           \/ current = 0 /\ wpc[g] = "unborn" /\ wpc' = [wpc EXCEPT ![g] = "idle"]
        /\ current' = g
        /\ sender[r].pc = "session" /\ sender' = [sender EXCEPT ![r] = [pc |-> "send", g |-> g]]
        /\ UNCHANGED <<req, project, del, queue, item>>
  BY DEF GetOrStart, Goto, rows
<1>2. Phase' = Phase
  BY <1>1 DEF Phase
<1>3. AtDoor' = AtDoor
  BY <1>1 DEF AtDoor, CInv, Handlers
<1>4. Line' = Line
  <2>1. CASE g = current
    BY <1>1, <1>2, <2>1, NotZero DEF Line
  <2>2. CASE g # current
    <3>1. queue[g] = <<>> /\ wpc'[g] = "idle" /\ current = 0
      BY <1>1, <2>2 DEF CInv, Fresh, IInv, Types
    <3>2. Line = <<>>
      BY <3>1 DEF Line
    <3>3. <<>> \o queue'[g] = <<>>
      <4>1. queue'[g] \in Seq(Requests) /\ queue'[g] = <<>>
        BY <1>1, <3>1 DEF IInv, Types
      <4> QED
        BY <4>1, ConcatEmptySeq
    <3> QED
      BY <1>1, <1>2, <3>1, <3>2, <3>3 DEF Line
  <2> QED
    BY <2>1, <2>2
<1> QED
  BY <1>1, <1>2, <1>3, <1>4 DEF ChatStep, TheChat!vars

\* The channel has room for Depth, and one message is in hand.
LEMMA ChatEnqueues ==
  ASSUME IInv, CInv, NEW r \in Requests, Enqueue(r)
  PROVE  ChatStep
<1> DEFINE g == sender[r].g
<1>1. /\ sender[r].pc = "send" /\ sender' = [sender EXCEPT ![r].pc = "end"]
      /\ UNCHANGED <<project, del, current, wpc, item>>
      /\ IF Len(queue[g]) < Depth
         THEN queue' = [queue EXCEPT ![g] = Append(queue[g], r)] /\ req' = req
         ELSE req' = Closed(r, "failed") /\ queue' = queue
  BY DEF Enqueue
<1>2. Phase' = Phase
  BY <1>1 DEF Phase
<1>3. r \in AtDoor /\ AtDoor' = AtDoor \ {r}
  BY <1>1 DEF AtDoor, CInv, Handlers
<1>4. g \in Goroutines /\ (Open => current = g /\ current # 0)
  BY <1>1, NotZero DEF CInv, Sending
<1>5. queue[g] \in Seq(Requests) /\ Len(queue[g]) \in Nat /\ Depth \in Nat
  BY <1>4, CuratorAssumption DEF IInv, Types
<1>6. CASE Len(queue[g]) < Depth
  <2>1. /\ queue' = [queue EXCEPT ![g] = Append(queue[g], r)] /\ req' = req
        /\ queue'[g] = Append(queue[g], r)
    BY <1>1, <1>4, <1>6 DEF IInv, Types
  <2>2. CASE Open
    <3>1. Phase = "open" /\ Phase' = "open"
      BY <1>2, <2>2, PhaseOpen
    <3>2. CASE wpc[g] \in {"begin", "mark"}
      <4>1. Line = <<item[g]>> \o queue[g] /\ item[g] \in Requests
        BY <1>4, <2>2, <3>2, OpenLine
      <4>2. Line' = <<item[g]>> \o Append(queue[g], r)
        BY <1>1, <1>4, <2>1, <2>2, <3>1, <3>2 DEF Line
      <4>r. Append(<<item[g]>> \o queue[g], r) = <<item[g]>> \o Append(queue[g], r)
        BY <1>5, <4>1, AppendBehind
      <4>l. Len(<<item[g]>> \o queue[g]) = 1 + Len(queue[g])
        BY <1>5, <4>1, InFront
      <4>3. Line' = Append(Line, r) /\ Len(Line) = 1 + Len(queue[g])
        BY <4>1, <4>2, <4>r, <4>l
      <4> QED
        BY <1>2, <1>3, <1>5, <1>6, <2>1, <3>1, <4>3 DEF ChatStep, TheChat!Next, TheChat!LetIn
    <3>3. CASE wpc[g] \notin {"begin", "mark"}
      <4>1. Line = queue[g]
        BY <1>4, <2>2, <3>3, OpenLine
      <4>2. Line' = <<>> \o Append(queue[g], r)
        BY <1>1, <1>4, <2>1, <2>2, <3>1, <3>3 DEF Line
      <4>3. Line' = Append(Line, r) /\ Len(Line) = Len(queue[g])
        BY <1>5, <4>1, <4>2
      <4> QED
        BY <1>2, <1>3, <1>5, <1>6, <2>1, <3>1, <4>3 DEF ChatStep, TheChat!Next, TheChat!LetIn
    <3> QED
      BY <3>2, <3>3
  <2>3. CASE ~Open
    <3>1. Phase # "open" /\ Phase' # "open"
      BY <1>2, <2>3, PhaseOpen
    <3>2. Line' = Line
      BY <3>1 DEF Line
    <3> QED
      BY <1>2, <1>3, <2>1, <3>1, <3>2 DEF ChatStep, TheChat!Next, TheChat!LetIn
  <2> QED
    BY <2>2, <2>3
<1>7. CASE ~(Len(queue[g]) < Depth)
  <2>1. req' = Closed(r, "failed") /\ queue' = queue
    BY <1>1, <1>7
  <2>2. Line' = Line
    BY <1>1, <1>2, <2>1 DEF Line
  <2>3. Phase = "open" => Len(Line) >= Depth
    <3> SUFFICES ASSUME Open PROVE Len(Line) >= Depth
      BY PhaseOpen
    <3>1. CASE wpc[g] \in {"begin", "mark"}
      <4>1. Line = <<item[g]>> \o queue[g] /\ item[g] \in Requests
        BY <1>4, <3>1, OpenLine
      <4> QED
        BY <1>5, <1>7, <4>1
    <3>2. CASE wpc[g] \notin {"begin", "mark"}
      <4>1. Line = queue[g]
        BY <1>4, <3>2, OpenLine
      <4> QED
        BY <1>5, <1>7, <4>1
    <3> QED
      BY <3>1, <3>2
  <2>4. req' = [m \in Requests |-> IF m \in {x \in {r} : req[x] \in {"queued", "running"}}
                                    THEN "failed" ELSE req[m]]
    BY <2>1 DEF Closed, Active, IInv, Types
  <2>5. TheChat!TurnAway(r)
    BY <1>2, <1>3, <2>2, <2>3, <2>4 DEF TheChat!TurnAway, TheChat!Put, TheChat!Going
  <2> QED
    BY <2>5 DEF ChatStep, TheChat!Next
<1> QED
  BY <1>6, <1>7

\* What is taken out of the channel stays in the line ...
LEMMA ChatTakes ==
  ASSUME IInv, CInv, NEW g \in Goroutines, Take(g)
  PROVE  ChatStep
<1>1. /\ wpc[g] = "idle" /\ queue[g] # <<>> /\ wpc' = [wpc EXCEPT ![g] = "begin"]
      /\ item' = [item EXCEPT ![g] = Head(queue[g])]
      /\ queue' = [queue EXCEPT ![g] = Tail(queue[g])]
      /\ UNCHANGED <<req, project, del, current, sender>>
  BY DEF Take, Goto, rows, handlers
<1>2. Phase' = Phase /\ AtDoor' = AtDoor
  BY <1>1 DEF Phase, AtDoor
<1>3. Line' = Line
  <2>1. CASE Open /\ g = current
    <3>1. Line = queue[g] /\ queue[g] \in Seq(Requests)
      BY <1>1, <2>1, NotZero, OpenLine
    <3>2. Phase' = "open" /\ current' # 0 /\ current' = g
      BY <1>1, <1>2, <2>1, NotZero, PhaseOpen
    <3>3. wpc'[g] = "begin" /\ item'[g] = Head(queue[g]) /\ queue'[g] = Tail(queue[g])
      BY <1>1 DEF IInv, Types
    <3>4. Line' = <<Head(queue[g])>> \o Tail(queue[g])
      BY <3>2, <3>3 DEF Line
    <3>5. <<Head(queue[g])>> \o Tail(queue[g]) = queue[g]
      BY <1>1, <3>1, HeadBack
    <3> QED
      BY <3>1, <3>4, <3>5
  <2>2. CASE Open /\ g # current /\ current # 0
    <3>1. current \in Goroutines
      BY <2>2 DEF IInv, Types
    <3> QED
      BY <1>1, <1>2, <2>2, <3>1 DEF Line, IInv, Types
  <2>3. CASE ~Open \/ current = 0
    BY <1>1, <1>2, <2>3, PhaseOpen DEF Line
  <2> QED
    BY <2>1, <2>2, <2>3
<1> QED
  BY <1>1, <1>2, <1>3 DEF ChatStep, TheChat!vars

\* ... until it is marked running, or found ended.
LEMMA ChatBegins ==
  ASSUME IInv, CInv, NEW g \in Goroutines, MarkRunning(g)
  PROVE  ChatStep
<1>1. /\ wpc[g] = "mark" /\ item[g] \in Requests
      /\ UNCHANGED <<project, del, current, sender, queue>>
  BY DEF MarkRunning, Return, Goto, handlers, IInv, Holding
<1>2. Phase' = Phase /\ AtDoor' = AtDoor
  BY <1>1 DEF Phase, AtDoor
<1>3. PICK next \in {"consume", "idle"} :
        /\ wpc' = [wpc EXCEPT ![g] = next]
        /\ \A h \in Goroutines \ {g} : item'[h] = item[h]
        /\ next = "consume" => req[item[g]] = "queued" /\ req' = [req EXCEPT ![item[g]] = "running"]
        /\ next = "idle" => req[item[g]] # "queued" /\ req' = req
  BY DEF MarkRunning, Return, Goto, IInv, Types
<1>4. Open => g = current /\ current # 0
  BY <1>1, NotZero DEF Open, IInv, OnlyCurrent, Alive
<1>5. Open => /\ Line # <<>> /\ Head(Line) = item[g] /\ Line' = Tail(Line)
  <2> SUFFICES ASSUME Open PROVE Line # <<>> /\ Head(Line) = item[g] /\ Line' = Tail(Line)
    OBVIOUS
  <2>1. Line = <<item[g]>> \o queue[g] /\ queue[g] \in Seq(Requests)
    BY <1>1, <1>4, OpenLine
  <2>2. wpc'[g] \notin {"begin", "mark"} /\ Phase' = "open" /\ queue'[g] = queue[g]
    BY <1>1, <1>2, <1>3, PhaseOpen DEF IInv, Types
  <2>3. Line' = <<>> \o queue[g]
    BY <1>1, <1>4, <2>2 DEF Line
  <2>4. Line' = queue[g]
    BY <2>1, <2>3, ConcatEmptySeq
  <2>5. <<item[g]>> \o queue[g] # <<>> /\ Head(<<item[g]>> \o queue[g]) = item[g]
        /\ Tail(<<item[g]>> \o queue[g]) = queue[g]
    BY <1>1, <2>1
  <2> QED
    BY <2>1, <2>4, <2>5
<1>6. ~Open => Line' = Line
  BY <1>2, PhaseOpen DEF Line
<1>7. CASE next = "consume"
  <2>1. Open => \A x \in Requests : req[x] # "running"
    BY <1>1, <1>4 DEF CInv, Turns, Turn
  <2>2. req' = [m \in Requests |-> IF m \in {item[g]} THEN "running" ELSE req[m]]
    BY <1>1, <1>3, <1>7 DEF IInv, Types
  <2>3. TheChat!Begin(item[g])
    BY <1>2, <1>3, <1>5, <1>6, <1>7, <2>1, <2>2, PhaseOpen DEF TheChat!Begin, TheChat!Put
  <2> QED
    BY <1>1, <2>3 DEF ChatStep, TheChat!Next
<1>8. CASE next = "idle"
  <2>1. Open => TheChat!PassOver
    BY <1>2, <1>3, <1>5, <1>8 DEF TheChat!PassOver
  <2>2. ~Open => UNCHANGED TheChat!vars
    BY <1>2, <1>3, <1>6, <1>8 DEF TheChat!vars
  <2> QED
    BY <2>1, <2>2 DEF ChatStep, TheChat!Next
<1> QED
  BY <1>7, <1>8

\* A turn ends once; what was cancelled under it stays cancelled.
LEMMA ChatEnds ==
  ASSUME IInv, CInv, NEW g \in Goroutines, Write(g)
  PROVE  ChatStep
<1>1. PICK next \in {"finalize", "revert"} :
        /\ wpc[g] = "write" /\ wpc' = [wpc EXCEPT ![g] = next]
        /\ req' = Closed(item[g], outcome[g])
        /\ UNCHANGED <<project, del, current, sender, queue, item>>
  BY DEF Write, Goto, handlers
<1>2. item[g] \in Requests /\ outcome[g] \in Ended
  BY <1>1 DEF IInv, Holding
<1>3. Phase' = Phase /\ AtDoor' = AtDoor
  BY <1>1 DEF Phase, AtDoor
<1>4. Line' = Line
  <2>1. CASE current \in Goroutines
    BY <1>1, <1>3, <2>1 DEF Line, IInv, Types
  <2>2. CASE current \notin Goroutines
    BY <1>1, <1>3, <2>2 DEF Line, IInv, Types
  <2> QED
    BY <2>1, <2>2
<1>5. req' = [m \in Requests |-> IF m \in {x \in {item[g]} : req[x] \in Active}
                                  THEN outcome[g] ELSE req[m]]
  BY <1>1, <1>2 DEF Closed, IInv, Types
<1>6. CASE req[item[g]] \notin Active
  <2>1. req' = req
    BY <1>5, <1>6 DEF IInv, Types
  <2> QED
    BY <1>3, <1>4, <2>1 DEF ChatStep, TheChat!vars
<1>7. CASE req[item[g]] \in Active /\ outcome[g] = "cancelled"
  <2>1. req' = [m \in Requests |-> IF m \in {item[g]} THEN "cancelled" ELSE req[m]]
    BY <1>5, <1>7
  <2>2. TheChat!Cancel({item[g]})
    BY <1>3, <1>4, <1>7, <2>1 DEF TheChat!Cancel, TheChat!Put, TheChat!Going, Active
  <2> QED
    BY <1>2, <2>2 DEF ChatStep, TheChat!Next
<1>8. CASE req[item[g]] \in Active /\ outcome[g] # "cancelled"
  <2>1. req' = [m \in Requests |-> IF m \in {item[g]} THEN outcome[g] ELSE req[m]]
    BY <1>5, <1>8
  <2>2. req[item[g]] = "running" /\ outcome[g] \in {"done", "failed"}
    BY <1>1, <1>2, <1>8 DEF CInv, Begun, Active, Ended
  <2>3. TheChat!EndTurn(item[g], outcome[g])
    BY <1>3, <1>4, <2>1, <2>2 DEF TheChat!EndTurn, TheChat!Put
  <2> QED
    BY <1>2, <2>2, <2>3 DEF ChatStep, TheChat!Next
<1> QED
  BY <1>6, <1>7, <1>8

\* All other steps of a goroutine are its own affair.
LEMMA ChatWorks ==
  ASSUME IInv, CInv, NEW g \in Goroutines, Dispatch(g)
  PROVE  ChatStep
<1> USE DEF Places
<1>1. CASE Begin(g)
  <2>1. /\ wpc[g] = "begin" /\ item' = item /\ UNCHANGED <<req, project, del, current, sender, queue>>
        /\ g \in stopped \/ wpc' = [wpc EXCEPT ![g] = "mark"]
        /\ \A h \in Goroutines \ {g} : wpc'[h] = wpc[h]
    BY <1>1 DEF Begin, EndWith, Goto, rows, handlers, IInv, Types
  <2>2. Phase' = Phase /\ AtDoor' = AtDoor
    BY <2>1 DEF Phase, AtDoor
  <2>3. CASE Open /\ current # 0
    <3>1. current \in Goroutines /\ current \notin stopped
      BY <2>3 DEF IInv, Types, CInv, Standing
    <3>2. \/ wpc'[current] = wpc[current]
          \/ wpc[current] = "begin" /\ wpc'[current] = "mark"
      BY <2>1, <3>1 DEF IInv, Types
    <3>3. Line' = Line
      BY <2>1, <2>2, <3>2 DEF Line
    <3> QED
      BY <2>1, <2>2, <3>3 DEF ChatStep, TheChat!vars
  <2>4. CASE ~(Open /\ current # 0)
    <3>1. Line' = Line
      BY <2>1, <2>2, <2>4, PhaseOpen DEF Line
    <3> QED
      BY <2>1, <2>2, <3>1 DEF ChatStep, TheChat!vars
  <2> QED
    BY <2>3, <2>4
<1>2. CASE Consume(g)
  <2>1. PICK next \in {"write", "spawn"} : wpc' = [wpc EXCEPT ![g] = next]
    BY <1>2 DEF Consume, EndWith, Goto
  <2> QED
    BY <1>2, <2>1, ChatStill DEF Consume, handlers, ChatStep
<1>3. CASE Spawn(g)
  <2>1. PICK next \in {"write", "agent"} : wpc' = [wpc EXCEPT ![g] = next]
    BY <1>3 DEF Spawn, EndWith, Goto
  <2> QED
    BY <1>3, <2>1, ChatStill DEF Spawn, rows, handlers, ChatStep
<1>4. CASE OnSession(g)
  BY <1>4, ChatStill DEF OnSession, Goto, handlers, ChatStep
<1>5. CASE AgentReturns(g)
  <2>1. wpc' = [wpc EXCEPT ![g] = "write"]
    BY <1>5 DEF AgentReturns, EndWith, Goto
  <2> QED
    BY <1>5, <2>1, ChatStill DEF AgentReturns, rows, handlers, ChatStep
<1>6. CASE Exit(g)
  BY <1>6, ChatStill DEF Exit, Goto, rows, handlers, ChatStep
<1>7. CASE Finalize(g) \/ Revert(g)
  <2>1. /\ wpc[g] \notin {"begin", "mark"} /\ wpc' = [wpc EXCEPT ![g] = "idle"]
        /\ UNCHANGED <<req, project, del, current, sender, queue>>
        /\ \A h \in Goroutines \ {g} : item'[h] = item[h]
    BY <1>7 DEF Finalize, Revert, Return, Goto, handlers, IInv, Types
  <2> QED
    BY <2>1, ChatStill DEF ChatStep
<1> QED
  BY <1>1, <1>2, <1>3, <1>4, <1>5, <1>6, <1>7, ChatTakes, ChatBegins, ChatEnds DEF Dispatch

\* The buttons.
LEMMA ChatPressed ==
  ASSUME IInv, CInv, CancelReads \/ CancelStep \/ Reset \/ PatchReads \/ PatchStep
  PROVE  ChatStep
<1>1. UNCHANGED <<project, del, current, sender, queue, wpc, item>>
  BY DEF CancelReads, CancelStep, CancelFires, CancelMarks, Reset, PatchReads, PatchStep,
         PatchUpdates, PatchQueues, QueueFails, rows, runtime, handlers
<1>2. Phase' = Phase /\ AtDoor' = AtDoor
  BY <1>1 DEF Phase, AtDoor
<1>3. Line' = Line
  BY <1>1, <1>2 DEF Line
<1>4. CASE CancelMarks
  <2> DEFINE S == {x \in Requests : x = cancel.r /\ req[x] \in {"queued", "running"}}
  <2>1. req' = [m \in Requests |-> IF m \in S THEN "cancelled" ELSE req[m]]
    BY <1>4 DEF CancelMarks, Closed, Active, IInv, Types
  <2>2. TheChat!Cancel(S)
    BY <1>2, <1>3, <2>1 DEF TheChat!Cancel, TheChat!Put, TheChat!Going
  <2>3. S \in SUBSET Requests
    OBVIOUS
  <2> HIDE DEF S
  <2> QED
    BY <2>2, <2>3 DEF ChatStep, TheChat!Next
<1>5. CASE Reset
  <2>1. TheChat!Clear
    BY <1>2, <1>3, <1>5
    DEF Reset, TheChat!Clear, TheChat!Put, TheChat!Going, TheChat!Sent, Active, IInv, Types
  <2> QED
    BY <2>1 DEF ChatStep, TheChat!Next
<1>6. CASE ~CancelMarks /\ ~Reset
  <2>1. req' = req
    BY <1>6 DEF CancelReads, CancelStep, CancelFires, PatchReads, PatchStep,
                PatchUpdates, PatchQueues, QueueFails, rows
  <2> QED
    BY <1>1, <2>1, ChatStill DEF ChatStep
<1> QED
  BY <1>4, <1>5, <1>6

\* The deletion of the project.
LEMMA ChatDeletes ==
  ASSUME IInv, CInv, DeleteTakes \/ DeleteStep
  PROVE  ChatStep
<1> USE DEF IInv, Types
<1>1. CASE DeleteTakes
  <2>1. project /\ del.pc = "idle" /\ project' = project /\ del'.pc # "idle"
        /\ UNCHANGED <<req, sender>>
    BY <1>1 DEF DeleteTakes, rows
  <2>2. Phase = "open" /\ Phase' = "closing" /\ AtDoor' = AtDoor
    BY <2>1 DEF Phase, AtDoor
  <2>3. Line' = <<>>
    BY <2>2 DEF Line
  <2> QED
    BY <2>1, <2>2, <2>3 DEF ChatStep, TheChat!Next, TheChat!StartDeletion
<1>2. CASE DeleteStep
  <2>1. /\ del.pc # "idle" /\ del'.pc # "idle" /\ sender' = sender
        /\ ~DeleteRow => project' = project
    BY <1>2 DEF DeleteStep, DeleteStops, DeleteWaits, DeleteSweeps, DeleteRow, rows, runtime
  <2>2. AtDoor' = AtDoor /\ Line = <<>> /\ Line' = <<>>
    BY <2>1 DEF AtDoor, Line, Phase
  <2>3. ~DeleteRow => Phase' = Phase
    BY <2>1 DEF Phase
  <2>4. CASE DeleteStops
    <3> DEFINE S == {x \in Requests : Armed(del.g) /\ x = item[del.g]
                                      /\ req[x] \in {"queued", "running"}}
    <3>1. req' = [m \in Requests |-> IF m \in S THEN "cancelled" ELSE req[m]]
      <4>1. CASE Armed(del.g)
        BY <2>4, <4>1 DEF DeleteStops, Closed, Active
      <4>2. CASE ~Armed(del.g)
        BY <2>4, <4>2 DEF DeleteStops
      <4> QED
        BY <4>1, <4>2
    <3>2. Phase' = Phase
      BY <2>1, <2>4 DEF DeleteStops, Phase
    <3>3. TheChat!Cancel(S)
      BY <2>2, <3>1, <3>2 DEF TheChat!Cancel, TheChat!Put, TheChat!Going
    <3>4. S \in SUBSET Requests
      OBVIOUS
    <3> HIDE DEF S
    <3> QED
      BY <3>3, <3>4 DEF ChatStep, TheChat!Next
  <2>5. CASE DeleteWaits
    <3>1. UNCHANGED <<req, project>>
      BY <2>5 DEF DeleteWaits, rows
    <3> QED
      BY <2>1, <2>2, <3>1 DEF ChatStep, TheChat!vars, Phase
  <2>6. CASE DeleteSweeps
    <3> DEFINE S == {x \in Requests : req[x] = "queued"}
    <3>1. req' = [m \in Requests |-> IF m \in S THEN "cancelled" ELSE req[m]]
      BY <2>6 DEF DeleteSweeps
    <3>2. Phase' = Phase
      BY <2>1, <2>6 DEF DeleteSweeps, Phase
    <3>3. TheChat!Cancel(S)
      BY <2>2, <3>1, <3>2 DEF TheChat!Cancel, TheChat!Put, TheChat!Going
    <3>4. S \in SUBSET Requests
      OBVIOUS
    <3> HIDE DEF S
    <3> QED
      BY <3>3, <3>4 DEF ChatStep, TheChat!Next
  <2>7. CASE DeleteRow
    <3>1. project' = FALSE /\ req' = [r \in Requests |-> IF req[r] = "absent" THEN "absent" ELSE "deleted"]
      BY <2>7 DEF DeleteRow
    <3>2. req' = [m \in Requests |-> IF m \in {x \in Requests : req[x] # "absent"}
                                      THEN "deleted" ELSE req[m]]
      BY <3>1
    <3>3. CASE project
      <4>1. Phase = "closing" /\ Phase' = "closed"
        BY <2>1, <3>1, <3>3 DEF Phase
      <4>2. TheChat!Delete
        BY <2>2, <3>2, <4>1 DEF TheChat!Delete, TheChat!Put, TheChat!Sent
      <4> QED
        BY <4>2 DEF ChatStep, TheChat!Next
    <3>4. CASE ~project
      <4>1. Phase = "closed" /\ Phase' = "closed"
        BY <3>1, <3>4 DEF Phase
      <4>2. req' = req
        BY <3>2, <3>4 DEF CInv, Deleted
      <4> QED
        BY <2>2, <4>1, <4>2 DEF ChatStep, TheChat!vars
    <3> QED
      BY <3>3, <3>4 DEF CInv, Handlers
  <2> QED
    BY <1>2, <2>4, <2>5, <2>6, <2>7 DEF DeleteStep
<1> QED
  BY <1>1, <1>2

LEMMA ChatRestarts ==
  ASSUME IInv, CInv, Crash
  PROVE  ChatStep
<1>1. /\ current' = 0 /\ del' = [pc |-> "idle", g |-> 0] /\ project' = project
      /\ req' = [r \in Requests |-> IF req[r] \in Active THEN "cancelled" ELSE req[r]]
      /\ sender' = [r \in Requests |-> IF sender[r].pc = "idle" THEN sender[r]
                                                                ELSE [pc |-> "end", g |-> 0]]
  BY DEF Crash
<1>2. Phase' = IF Phase = "closing" THEN "open" ELSE Phase
  BY <1>1 DEF Phase
<1>3. Line' = <<>> /\ AtDoor' = {}
  BY <1>1 DEF Line, AtDoor
<1>4. req' = [m \in Requests |-> IF m \in {x \in Requests : req[x] \in {"queued", "running"}}
                                  THEN "cancelled" ELSE req[m]]
  BY <1>1 DEF Active
<1>5. TheChat!Restart
  BY <1>2, <1>3, <1>4 DEF TheChat!Restart, TheChat!Put, TheChat!Going
<1> QED
  BY <1>5 DEF ChatStep, TheChat!Next

LEMMA StepChat == IInv /\ CInv /\ [Next]_vars => [TheChat!Next]_(TheChat!vars)
<1> SUFFICES ASSUME IInv, CInv, [Next]_vars
             PROVE  ChatStep
  BY DEF ChatStep
<1>1. CASE UNCHANGED vars
  BY <1>1, ChatStill DEF vars, rows, runtime, handlers, ChatStep
<1>2. CASE \E r \in Requests : CreateRequest(r) \/ SendStep(r)
  BY <1>2, ChatCreates, ChatStarts, ChatEnqueues DEF SendStep
<1> QED
  BY <1>1, <1>2, ChatWorks, ChatPressed, ChatDeletes, ChatRestarts DEF Next

LEMMA ChatInvariant == Spec => [](IInv /\ CInv)
<1>1. Init => IInv /\ CInv
  BY InitIInv, InitCInv
<1>2. IInv /\ CInv /\ [Next]_vars => IInv' /\ CInv'
  BY StepIInv, StepCInv
<1> QED
  BY <1>1, <1>2, PTL DEF Spec

\* The goroutines, channels and buttons of the curator implement the chat, for
\* any number of messages and any bound of the channel: messages are begun in
\* the order they were let in, one at a time, and end once (session.go, run and
\* dispatch; curator.go, SendMessage, Cancel, CancelProject).
THEOREM CuratorImplementsChat == Spec => ImplementsChat
<1>1. Init => TheChat!Init
  BY ChatInit
<1>2. IInv /\ CInv /\ [Next]_vars => [TheChat!Next]_(TheChat!vars)
  BY StepChat
<1> QED
  BY <1>1, <1>2, ChatInvariant, PTL DEF Spec, ImplementsChat, TheChat!Spec

-----------------------------------------------------------------------------
(***************************************************************************)
(* What the chat's steps keep, and hence the curator's.                    *)
(***************************************************************************)
LEMMA LineIsSeq == IInv /\ CInv => Line \in Seq(Requests)
<1> SUFFICES ASSUME IInv, CInv PROVE Line \in Seq(Requests)
  OBVIOUS
<1>1. CASE Open /\ current # 0
  BY <1>1, OpenLine
<1>2. CASE ~(Open /\ current # 0)
  BY <1>2, NoLine, EmptySeq
<1> QED
  BY <1>1, <1>2

\* Who is queued and not at the door stands in the line.
Held(m, at, l) == m \in at \/ \E i \in DOMAIN l : l[i] = m

LEMMA NoneLeft ==
  ASSUME Line \in Seq(Requests), req \in [Requests -> Statuses],
         TheChat!NoneForgotten, ChatStep
  PROVE  TheChat!NoneForgotten'
<1> SUFFICES ASSUME Phase' = "open", NEW m \in Requests, req'[m] = "queued"
             PROVE  Held(m, AtDoor', Line')
  BY DEF TheChat!NoneForgotten, Held
<1> USE DEF TheChat!Put
<1>1. Phase = "open" /\ req[m] = "queued" => Held(m, AtDoor, Line)
  BY DEF TheChat!NoneForgotten, Held
<1>2. ASSUME NEW x \in Requests, TheChat!Send(x)
      PROVE  Held(m, AtDoor', Line')
  BY <1>1, <1>2 DEF TheChat!Send, Held
<1>3. ASSUME NEW x \in Requests, TheChat!LetIn(x)
      PROVE  Held(m, AtDoor', Line')
  <2>1. Line' = Append(Line, x) /\ AtDoor' = AtDoor \ {x} /\ Held(m, AtDoor, Line)
    BY <1>1, <1>3 DEF TheChat!LetIn
  <2>2. /\ DOMAIN Line = 1 .. Len(Line) /\ Len(Line) \in Nat
        /\ DOMAIN Append(Line, x) = 1 .. Len(Line) + 1
        /\ \A i \in 1 .. Len(Line) : Append(Line, x)[i] = Line[i]
        /\ Append(Line, x)[Len(Line) + 1] = x
    OBVIOUS
  <2> QED
    BY <2>1, <2>2 DEF Held
<1>4. ASSUME NEW x \in Requests, TheChat!TurnAway(x)
      PROVE  Held(m, AtDoor', Line')
  BY <1>1, <1>4 DEF TheChat!TurnAway, TheChat!Going, Held
<1>t. ASSUME Line # <<>>, Line' = Tail(Line), m # Head(Line), Held(m, AtDoor, Line), AtDoor' = AtDoor
      PROVE  Held(m, AtDoor', Line')
  <2>1. /\ DOMAIN Line = 1 .. Len(Line) /\ Len(Line) \in Nat /\ Head(Line) = Line[1]
        /\ Tail(Line) \in Seq(Requests) /\ Len(Tail(Line)) = Len(Line) - 1
        /\ \A i \in 1 .. Len(Tail(Line)) : Tail(Line)[i] = Line[i + 1]
    BY <1>t, HeadTailProperties, LenProperties
  <2>2. DOMAIN Tail(Line) = 1 .. Len(Tail(Line))
    BY <2>1, LenProperties
  <2>3. CASE m \in AtDoor
    BY <1>t, <2>3 DEF Held
  <2>4. ASSUME NEW i \in DOMAIN Line, Line[i] = m
        PROVE  Held(m, AtDoor', Line')
    <3>1. i - 1 \in DOMAIN Tail(Line) /\ Tail(Line)[i - 1] = m
      BY <1>t, <2>1, <2>2, <2>4
    <3> QED
      BY <1>t, <3>1 DEF Held
  <2> QED
    BY <1>t, <2>3, <2>4 DEF Held
<1>5. ASSUME NEW x \in Requests, TheChat!Begin(x)
      PROVE  Held(m, AtDoor', Line')
  BY <1>1, <1>5, <1>t DEF TheChat!Begin
<1>6. CASE TheChat!PassOver
  BY <1>1, <1>6, <1>t DEF TheChat!PassOver
<1>7. ASSUME NEW x \in Requests, NEW s \in {"done", "failed"}, TheChat!EndTurn(x, s)
      PROVE  Held(m, AtDoor', Line')
  BY <1>1, <1>7 DEF TheChat!EndTurn, Held
<1>8. ASSUME NEW S \in SUBSET Requests, TheChat!Cancel(S)
      PROVE  Held(m, AtDoor', Line')
  BY <1>1, <1>8 DEF TheChat!Cancel, Held
<1>9. CASE TheChat!Clear
  BY <1>1, <1>9 DEF TheChat!Clear, TheChat!Going, Held
<1>10. CASE TheChat!StartDeletion \/ TheChat!Delete
  BY <1>10 DEF TheChat!StartDeletion, TheChat!Delete
<1>11. CASE TheChat!Restart
  BY <1>11 DEF TheChat!Restart, TheChat!Going
<1>12. CASE UNCHANGED TheChat!vars
  BY <1>1, <1>12 DEF TheChat!vars, Held
<1> QED
  BY <1>2, <1>3, <1>4, <1>5, <1>6, <1>7, <1>8, <1>9, <1>10, <1>11, <1>12
  DEF ChatStep, TheChat!Next

\* No message is left in a channel that nobody reads, or in none: one that is
\* queued stands in the line, whatever was cancelled, reset, deleted or
\* restarted (curator.go, SendMessage).
THEOREM CuratorQueuedIsRead == Spec => []QueuedIsRead
<1>1. Init => TheChat!NoneForgotten
  BY DEF Init, TheChat!NoneForgotten
<1>2. IInv /\ CInv /\ TheChat!NoneForgotten /\ [Next]_vars => TheChat!NoneForgotten'
  <2> SUFFICES ASSUME IInv, CInv, TheChat!NoneForgotten, [Next]_vars
               PROVE  TheChat!NoneForgotten'
    OBVIOUS
  <2>1. ChatStep
    BY StepChat DEF ChatStep
  <2>2. Line \in Seq(Requests) /\ req \in [Requests -> Statuses]
    BY LineIsSeq DEF IInv, Types
  <2> QED
    BY <2>1, <2>2, NoneLeft
<1> QED
  BY <1>1, <1>2, ChatInvariant, PTL DEF Spec, QueuedIsRead

\* A message that is running is in somebody's hands, deletion or not. This is
\* inductive under Types alone: a goroutine lets go of a message only after
\* the update that ends it.
InHand ==
  \A r \in Requests : req[r] = "running" =>
    \E g \in Goroutines : item[g] = r /\ wpc[g] \in Turn

\* A step after which every running message was running before, and no
\* goroutine at work on a message that stays running has left it.
LEMMA HandsKeep ==
  ASSUME InHand,
         \A r \in Requests : req'[r] = "running" =>
           /\ req[r] = "running"
           /\ \A g \in Goroutines : item[g] = r /\ wpc[g] \in Turn =>
                item'[g] = r /\ wpc'[g] \in Turn
  PROVE  InHand'
BY DEF InHand

LEMMA StepInHand == IInv /\ InHand /\ [Next]_vars => InHand'
<1> SUFFICES ASSUME IInv, InHand, [Next]_vars
             PROVE  InHand'
  OBVIOUS
<1> USE DEF IInv, Types
<1>1. ASSUME NEW r \in Requests, CreateRequest(r) \/ SendStep(r)
      PROVE  InHand'
  <2>1. CASE CreateRequest(r)
    BY <2>1, HandsKeep DEF CreateRequest, runtime
  <2>2. CASE GetOrStart(r)
    BY <2>2, HandsKeep DEF GetOrStart, Goto, rows, Turn
  <2>3. CASE Enqueue(r)
    BY <2>3, HandsKeep DEF Enqueue, Closed
  <2> QED
    BY <1>1, <2>1, <2>2, <2>3 DEF SendStep
<1>2. ASSUME NEW g \in Goroutines, Dispatch(g)
      PROVE  InHand'
  <2>1. CASE Take(g) \/ Exit(g)
    BY <2>1, HandsKeep DEF Take, Exit, Goto, rows, Turn
  <2>2. CASE Begin(g)
    BY <2>2, HandsKeep DEF Begin, EndWith, Goto, rows, Turn
  <2>3. CASE MarkRunning(g)
    <3>1. CASE req[item[g]] = "queued"
      <4>1. /\ req' = [req EXCEPT ![item[g]] = "running"]
            /\ wpc' = [wpc EXCEPT ![g] = "consume"] /\ item' = item /\ wpc[g] = "mark"
        BY <2>3, <3>1 DEF MarkRunning, Goto
      <4> SUFFICES ASSUME NEW r \in Requests, req'[r] = "running"
                   PROVE  \E h \in Goroutines : item'[h] = r /\ wpc'[h] \in Turn
        BY DEF InHand
      <4>2. CASE r = item[g]
        BY <4>1, <4>2 DEF Turn
      <4>3. CASE r # item[g]
        <5>1. PICK h \in Goroutines : item[h] = r /\ wpc[h] \in Turn
          BY <4>1, <4>3 DEF InHand
        <5> QED
          BY <4>1, <5>1 DEF Turn
      <4> QED
        BY <4>2, <4>3
    <3>2. CASE req[item[g]] # "queued"
      BY <2>3, <3>2, HandsKeep DEF MarkRunning, Return, Goto, Turn
    <3> QED
      BY <3>1, <3>2
  <2>4. CASE Consume(g) \/ Spawn(g) \/ AgentReturns(g)
    BY <2>4, HandsKeep DEF Consume, Spawn, AgentReturns, EndWith, Goto, rows, Turn
  <2>5. CASE OnSession(g)
    BY <2>5, HandsKeep DEF OnSession, Goto, Turn
  <2>6. CASE Write(g)
    <3>1. /\ wpc[g] = "write" /\ item' = item
          /\ req' = Closed(item[g], outcome[g])
          /\ \A h \in Goroutines \ {g} : wpc'[h] = wpc[h]
      BY <2>6 DEF Write, Goto
    <3>2. item[g] \in Requests /\ outcome[g] \in Ended
      BY <3>1 DEF Holding
    <3> QED
      BY <3>1, <3>2, HandsKeep DEF Closed, Active, Ended
  <2>7. CASE Finalize(g) \/ Revert(g)
    BY <2>7, HandsKeep DEF Finalize, Revert, Return, Goto, Turn
  <2> QED
    BY <1>2, <2>1, <2>2, <2>3, <2>4, <2>5, <2>6, <2>7 DEF Dispatch
<1>3. CASE CancelReads \/ CancelStep
  BY <1>3, HandsKeep DEF CancelReads, CancelStep, CancelFires, CancelMarks, rows, runtime, Closed
<1>4. CASE Reset
  BY <1>4, HandsKeep DEF Reset, runtime
<1>5. CASE PatchReads \/ PatchStep
  BY <1>5, HandsKeep DEF PatchReads, PatchStep, PatchUpdates, PatchQueues, QueueFails, rows, runtime
<1>6. CASE DeleteTakes \/ DeleteStep
  BY <1>6, HandsKeep
  DEF DeleteTakes, DeleteStep, DeleteStops, DeleteWaits, DeleteSweeps, DeleteRow, rows, runtime,
      Closed
<1>7. CASE Crash
  BY <1>7, HandsKeep DEF Crash, Active
<1>8. CASE UNCHANGED vars
  BY <1>8, HandsKeep DEF vars, rows, runtime
<1> QED
  BY <1>1, <1>2, <1>3, <1>4, <1>5, <1>6, <1>7, <1>8 DEF Next

\* A message that is running is in the hands of a goroutine that has yet to
\* write how its turn ended, and of the one that a cancel reaches as long as
\* the project is not being deleted (session.go, dispatch).
THEOREM CuratorRunningIsWorkedOn == Spec => []RunningIsWorkedOn
<1>1. Init => InHand
  BY DEF Init, InHand
<1>2. IInv /\ CInv /\ InHand => RunningIsWorkedOn
  <2> SUFFICES ASSUME IInv, CInv, InHand, NEW r \in Requests, req[r] = "running"
               PROVE  \E g \in Goroutines :
                        /\ item[g] = r /\ wpc[g] \in Turn
                        /\ project /\ del.pc = "idle" => g = current
    BY DEF RunningIsWorkedOn
  <2>1. CASE Open
    BY <2>1 DEF CInv, Turns, IInv, Types
  <2>2. CASE ~(project /\ del.pc = "idle")
    BY <2>2 DEF InHand
  <2> QED
    BY <2>1, <2>2 DEF Open
<1> QED
  BY <1>1, <1>2, StepInHand, ChatInvariant, PTL DEF Spec

-----------------------------------------------------------------------------
(***************************************************************************)
(* What is left of the types: the bound of the queue, the contexts that    *)
(* were cancelled, the buttons and the budget.                             *)
(***************************************************************************)
Bounded ==
  /\ \A g \in Goroutines : Len(queue[g]) <= Depth
  /\ killed \cup stopped \subseteq Goroutines
  /\ cancel \in [pc : {"idle", "fire", "mark"}, r : Requests \cup {0}, running : BOOLEAN]
  /\ del \in [pc : {"idle", "stop", "wait", "sweep", "row", "end"}, g : Goroutines \cup {0}]
  /\ del.pc = "stop" => del.g \in Goroutines
  /\ budget \in [Inputs -> Nat]

LEMMA InitBounded == Init => Bounded
BY CuratorAssumption DEF Init, Bounded, Idle

LEMMA SpendBounded ==
  ASSUME budget \in [Inputs -> Nat], NEW input \in Inputs, Spend(input)
  PROVE  budget' \in [Inputs -> Nat]
BY DEF Spend

\* The request that a cancel finds is one.
LEMMA InFlightRequest == InFlight \in Requests \cup {0}
<1> DEFINE S(status) == {r \in Requests : req[r] = status}
<1>1. Requests \subseteq Nat
  BY CuratorAssumption, FS_CardinalityType
<1>2. \A status : S(status) # {} => Min(S(status)) \in S(status)
  BY <1>1, LeastExists
<1> QED
  BY <1>2 DEF InFlight

\* What a handler and a session goroutine leave of it: only a handler sends,
\* and only to a queue that is not full.
LEMMA ActorsBounded ==
  ASSUME IInv, Bounded,
         \/ \E r \in Requests : CreateRequest(r) \/ SendStep(r)
         \/ \E g \in Goroutines : Dispatch(g)
  PROVE  Bounded'
<1> USE DEF Bounded, IInv, Types
<1>1. ASSUME NEW r \in Requests, CreateRequest(r) \/ GetOrStart(r)
      PROVE  Bounded'
  BY <1>1 DEF CreateRequest, GetOrStart, runtime
<1>2. ASSUME NEW r \in Requests, Enqueue(r)
      PROVE  Bounded'
  <2>1. UNCHANGED <<killed, stopped, cancel, del, budget>>
    BY <1>2 DEF Enqueue
  <2>2. ASSUME NEW g \in Goroutines PROVE Len(queue'[g]) <= Depth
    <3>1. CASE queue'[g] = queue[g]
      BY <3>1
    <3>2. CASE queue'[g] # queue[g]
      <4>1. Len(queue[g]) < Depth /\ queue'[g] = Append(queue[g], r)
        BY <1>2, <3>2 DEF Enqueue
      <4>2. Len(queue'[g]) = Len(queue[g]) + 1 /\ Len(queue[g]) \in Nat
        BY <4>1
      <4> QED
        BY <4>1, <4>2, CuratorAssumption
    <3> QED
      BY <3>1, <3>2
  <2> QED
    BY <2>1, <2>2
<1>3. ASSUME NEW g \in Goroutines, Take(g)
      PROVE  Bounded'
  <2>1. /\ queue[g] # <<>> /\ queue' = [queue EXCEPT ![g] = Tail(@)]
        /\ UNCHANGED <<killed, stopped, cancel, del, budget>>
    BY <1>3 DEF Take, handlers
  <2>2. Len(Tail(queue[g])) <= Depth
    <3>1. Len(Tail(queue[g])) = Len(queue[g]) - 1 /\ Len(queue[g]) \in Nat
      BY <2>1
    <3> QED
      BY <3>1, CuratorAssumption
  <2> QED
    BY <2>1, <2>2
<1>4. ASSUME NEW g \in Goroutines, Spawn(g) \/ AgentReturns(g)
      PROVE  Bounded'
  <2>1. UNCHANGED <<queue, killed, stopped, cancel, del>>
    BY <1>4 DEF Spawn, AgentReturns, handlers
  <2>2. budget' \in [Inputs -> Nat]
    BY <1>4, SpendBounded DEF Spawn, AgentReturns, Inputs
  <2> QED
    BY <2>1, <2>2
<1>5. ASSUME NEW g \in Goroutines,
             \/ Begin(g) \/ MarkRunning(g) \/ Consume(g) \/ OnSession(g) \/ Write(g)
             \/ Finalize(g) \/ Revert(g) \/ Exit(g)
      PROVE  Bounded'
  <2>1. UNCHANGED <<queue, stopped, cancel, del, budget>> /\ killed' \subseteq killed
    BY <1>5 DEF Begin, MarkRunning, Consume, OnSession, Write, Finalize, Revert, Exit, Return,
                handlers
  <2> QED
    BY <2>1
<1> QED
  BY <1>1, <1>2, <1>3, <1>4, <1>5 DEF SendStep, Dispatch

\* What the buttons, the settings, the deletion and a crash leave of it.
LEMMA ButtonsBounded ==
  ASSUME IInv, Bounded,
         \/ CancelReads \/ CancelStep \/ Reset \/ PatchReads \/ PatchStep
         \/ DeleteTakes \/ DeleteStep \/ Crash
  PROVE  Bounded'
<1> USE DEF Bounded, IInv, Types
<1>1. budget' \in [Inputs -> Nat]
  BY SpendBounded DEF CancelReads, CancelStep, CancelFires, CancelMarks, Reset, PatchReads,
     PatchStep, PatchUpdates, PatchQueues, QueueFails, DeleteTakes, DeleteStep, DeleteStops,
     DeleteWaits,
     DeleteSweeps, DeleteRow, Crash, Inputs
<1>2. CASE CancelReads
  <2>1. UNCHANGED <<runtime, del>>
        /\ cancel' = [pc |-> "fire", r |-> InFlight, running |-> req[InFlight] = "running"]
    BY <1>2 DEF CancelReads
  <2> QED
    BY <2>1, <1>1, InFlightRequest DEF runtime
<1>3. CASE CancelStep
  <2>1. UNCHANGED <<queue, stopped, del>>
    BY <1>3 DEF CancelStep, CancelFires, CancelMarks, runtime
  <2>2. killed' \subseteq Goroutines
    BY <1>3 DEF CancelStep, CancelFires, CancelMarks, runtime
  <2>3. CancelFires => cancel' = [cancel EXCEPT !.pc = "mark"]
    BY DEF CancelFires
  <2>4. CancelMarks => cancel' = Idle
    BY DEF CancelMarks
  <2>5. cancel' \in [pc : {"idle", "fire", "mark"}, r : Requests \cup {0}, running : BOOLEAN]
    <3>1. CASE CancelFires
      BY <3>1, <2>3
    <3>2. CASE CancelMarks
      <4>1. Idle \in [pc : {"idle", "fire", "mark"}, r : Requests \cup {0}, running : BOOLEAN]
        BY DEF Idle
      <4> QED
        BY <3>2, <2>4, <4>1
    <3> QED
      BY <1>3, <3>1, <3>2 DEF CancelStep
  <2> QED
    BY <2>1, <2>2, <2>5, <1>1
<1>4. CASE Reset \/ PatchReads \/ PatchStep
  <2>1. UNCHANGED <<queue, killed, stopped, cancel, del>>
    BY <1>4 DEF Reset, PatchReads, PatchStep, PatchUpdates, PatchQueues, QueueFails, runtime, handlers
  <2> QED
    BY <2>1, <1>1
<1>5. CASE DeleteTakes
  BY <1>5, <1>1 DEF DeleteTakes
<1>6. CASE DeleteStep
  BY <1>6, <1>1 DEF DeleteStep, DeleteStops, DeleteWaits, DeleteSweeps, DeleteRow, runtime
<1>7. CASE Crash
  BY <1>7, <1>1, CuratorAssumption DEF Crash, Idle
<1> QED
  BY <1>2, <1>3, <1>4, <1>5, <1>6, <1>7

LEMMA StepBounded == IInv /\ Bounded /\ [Next]_vars => Bounded'
<1> SUFFICES ASSUME IInv, Bounded, [Next]_vars PROVE Bounded'
  OBVIOUS
<1>1. CASE UNCHANGED vars
  BY <1>1 DEF vars, runtime, handlers, Bounded
<1> QED
  BY <1>1, ActorsBounded, ButtonsBounded DEF Next

LEMMA AllTyped == IInv /\ SInv /\ CInv /\ Bounded => TypeOK
BY DEF IInv, SInv, CInv, Bounded, Types, Settings, Handlers, TypeOK, Places, Statuses

\* For any number of messages and goroutines and any depth of the queue: every
\* row has a status of the schema, no channel holds more than its capacity
\* (session.go, sessionQueueDepth), and every goroutine is at a place of run or
\* dispatch.
THEOREM CuratorTypeOK == Spec => []TypeOK
<1>1. Init => IInv /\ SInv /\ CInv /\ Bounded
  BY InitIInv, InitSInv, InitCInv, InitBounded
<1>2. IInv /\ SInv /\ CInv /\ Bounded /\ [Next]_vars => (IInv /\ SInv /\ CInv /\ Bounded)'
  BY StepIInv, StepSInv, StepCInv, StepBounded
<1> QED
  BY <1>1, <1>2, AllTyped, PTL DEF Spec
=============================================================================
