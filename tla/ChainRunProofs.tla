---------------------------- MODULE ChainRunProofs ----------------------------
(***************************************************************************)
(* Theorems about ChainRun, for any number of steps, requests and inputs.  *)
(***************************************************************************)
EXTENDS ChainRun, TLAPS

-----------------------------------------------------------------------------
(***************************************************************************)
(* Types.                                                                  *)
(***************************************************************************)
RowStatuses == Active \cup Paused \cup Ended \cup {"absent"}
Rows == row \in [Steps -> RowStatuses] /\ verdict \in [Steps -> Verdicts]
Places ==
  /\ pc \in [Actors -> PCs]
  /\ ending \in [Actors -> ChainEnded \cup {"none"}]
  /\ at \in [Actors -> 0 .. StepCount + 1]

USE ActorsAssumption, StepCountAssumption DEF Actors, Steps, Chain, Ids

\* Moves of an actor, and writes of a step's row, keep the types.
LEMMA MoveTypes ==
  ASSUME Places, NEW a \in Actors
  PROVE  /\ \A next \in PCs : Goto(a, next) => Places'
         /\ \A next \in PCs, s \in 0 .. StepCount + 1 : GotoAt(a, next, s) => Places'
         /\ \A status \in ChainEnded : Terminate(a, status) => Places'
         /\ Leave(a) => Places'
BY DEF Places, Goto, GotoAt, Terminate, Leave, PCs

LEMMA RowTypes ==
  ASSUME Rows, NEW s, NEW next \in RowStatuses
  PROVE  /\ SetRow(s, next) => row' \in [Steps -> RowStatuses]
         /\ SetRowIfActive(s, next) => row' \in [Steps -> RowStatuses]
<1>1. SetRow(s, next) => row' \in [Steps -> RowStatuses]
  BY DEF Rows, SetRow
<1>2. CASE s \in Steps
  BY <1>1, <1>2 DEF Rows, SetRow, SetRowIfActive
<1>3. CASE s \notin Steps
  BY <1>1, <1>3 DEF Rows, SetRow, SetRowIfActive
<1> QED
  BY <1>1, <1>2, <1>3

\* A crash is an input; it is not forgotten.
Spent == budget \in [Inputs -> Nat] /\ budget["crash"] <= Budget["crash"]
LEMMA SpendTypes ==
  ASSUME Spent, NEW input \in Inputs, Spend(input)
  PROVE  Spent' /\ (Crashed => Crashed') /\ (input = "crash" => Crashed')
<1>1. Budget["crash"] \in Nat /\ budget["crash"] \in Nat /\ budget[input] \in Nat
  BY BudgetAssumption DEF Spent, Inputs
<1>2. budget' = [budget EXCEPT ![input] = budget[input] - 1] /\ budget[input] > 0
  BY DEF Spend
<1> QED
  BY <1>1, <1>2 DEF Spent, Crashed, Inputs
(***************************************************************************)
(* The inductive invariant.                                                *)
(***************************************************************************)
\* The orchestrator is on its way through the steps; where its step has a
\* cancel function, and where the agent has finished.
Walking == pc[Orch] \in {"loop", "register", "start", "agent", "record", "park", "yield",
                         "cancelled", "failed", "return", "read"}
Inside == pc[Orch] \in {"start", "agent", "record", "park", "yield", "cancelled", "failed",
                        "return"}
Over == pc[Orch] \in {"record", "park", "yield", "cancelled", "failed", "return", "read"}

\* The status that a termination carries is an end.
Endings == \A a \in Actors : At(a, "mark") => ending[a] \in ChainEnded

\* Before the first step there is nothing that a request could refer to.
Fresh ==
  pc[Orch] \in {"setup", "create"} =>
    /\ chain = "absent" /\ taken = {} /\ handles = {Chain} /\ at[Orch] = 1
    /\ wt = (IF At(Orch, "setup") THEN "none" ELSE "present")
    /\ \A s \in Steps : row[s] = "absent"
    /\ \A a \in Actors \ {Orch} : At(a, "idle")

\* The steps before the orchestrator's have completed and said --advance, those
\* after it have no row.
Order ==
  Walking =>
    /\ at[Orch] \in 1 .. StepCount + 1
    /\ ~At(Orch, "loop") => at[Orch] \in Steps /\ row[at[Orch]] # "absent"
    /\ \A s \in Steps : s < at[Orch] => row[s] = "completed" /\ verdict[s] = "advance"
    /\ \A s \in Steps : s > at[Orch] \/ (s = at[Orch] /\ At(Orch, "loop")) => row[s] = "absent"
    /\ At(Orch, "register") => row[at[Orch]] # "awaiting_input"

\* A cancel finds the orchestrator, and its step while the agent is at work.
Registered ==
  /\ ~At(Orch, "idle") => Chain \in handles
  /\ Inside => at[Orch] \in handles

\* A step is resumed when the orchestrator has left it, or is about to find
\* that it has not completed.
Alone ==
  pc[Resumer] # "idle" =>
    /\ at[Resumer] \in Steps /\ row[at[Resumer]] # "absent"
    /\ Walking => /\ At(Orch, "read") /\ at[Resumer] = at[Orch]
                  /\ pc[Resumer] \in {"flip", "agent", "cancelled", "failed", "return"}
                  /\ row[at[Orch]] \notin {"completed", "pending_approval"}

\* What is pending, and what an approval is under way of, is of a step that has
\* been started.
Approvals ==
  /\ \A s \in pending : row[s] # "absent"
  /\ \A q \in Requests :
       pc[q] \in {"approve", "approved"} => at[q] \in Steps /\ row[at[q]] # "absent"

\* A chain is ended under its orchestrator only when the agent has finished and
\* its verdict ends the chain.
Terminal == {"mark", "close", "clean", "notify"}
Undisturbed == chain = "running" /\ \A q \in Requests : pc[q] \notin Terminal
Final == Over /\ verdict[at[Orch]] = "final"
Ordered == lapses \cap {"steps", "early"} = {}
EndedLast == Walking /\ Ordered => Undisturbed \/ Final

\* The worktree goes with a takeover or with the last step.
Takeovers == \A q \in Requests : At(q, "take") => at[q] \in taken
Back == pc[Orch] \in {"return", "read"}
Files ==
  Walking /\ taken = {} /\ Ordered =>
    wt = "present" \/ Final \/ (Back /\ row[at[Orch]] = "cancelled")

\* Whoever has ended the chain is about to clean up, or has.
Cleaning == \E a \in Actors : pc[a] \in {"close", "clean"}
Cleaned ==
  chain \in ChainEnded /\ ~Cleaning /\ lapses \cap {"task", "kept", "rootless"} = {} =>
    wt # "present"

\* The orchestrator has called the drainer when it leaves.
Drained ==
  pc[Orch] \in {"exit", "idle"} /\ ~Crashed /\ lapses \cap {"parked", "unmarked", "entity"} = {}
    => drained

IInv ==
  /\ TypeOK /\ Spent /\ Endings /\ Fresh /\ Order /\ Registered /\ Alone
  /\ Approvals /\ EndedLast /\ Takeovers /\ Files /\ Cleaned /\ Drained

-----------------------------------------------------------------------------
\* What the orchestrator preserves between the steps' agents: above all that it
\* goes on only from a step that has completed and said --advance.
LEMMA OrchPreserves ==
  ASSUME IInv, OrchStep
  PROVE  IInv'
<1> USE DEF IInv, TypeOK, At
<1>1. CASE SetupWorks
  <2>1. Places'
    BY <1>1, MoveTypes DEF SetupWorks, ChainEnded, PCs, maps, marks, rows, Places
  <2>2. TypeOK' /\ Spent'
    BY <1>1, <2>1 DEF SetupWorks, Active, ChainEnded, Ended, PCs, Paused, RowStatuses,
        Verdicts, maps, marks, rows, Places, Rows, Spent
  <2>3. Endings' /\ Fresh' /\ Registered' /\ Takeovers'
    BY <1>1 DEF SetupWorks, Alone, Endings, Fresh, Order, Registered, Takeovers, ChainEnded,
        Goto, Inside, Walking, maps, marks, rows
  <2>4. Order' /\ Alone'
    BY <1>1 DEF SetupWorks, Alone, Fresh, Order, Registered, Back, Goto, Inside, Walking,
        maps, marks, rows
  <2>5. Approvals' /\ EndedLast'
    BY <1>1 DEF SetupWorks, Alone, Approvals, EndedLast, Fresh, Order, Registered, Back,
        Final, Goto, Inside, Undisturbed, Walking, maps, marks, rows, Over, Ordered,
        Terminal
  <2>6. Files' /\ Cleaned' /\ Drained'
    BY <1>1 DEF SetupWorks, Alone, Approvals, Cleaned, EndedLast, Endings, Files, Fresh,
        Order, Registered, Takeovers, Back, ChainEnded, Cleaning, Final, Goto, Inside,
        Undisturbed, Walking, maps, marks, rows, Crashed, Over, Ordered, Terminal, Drained
  <2> QED
    BY <2>2, <2>3, <2>4, <2>5, <2>6
<1>2. CASE SetupFails
  <2>1. Places'
    BY <1>2, MoveTypes DEF SetupFails, ChainEnded, PCs, maps, Places
  <2>2. Spent' /\ (Crashed => Crashed')
    BY <1>2, SpendTypes DEF SetupFails, Inputs, Crashed, Spent
  <2>3. TypeOK' /\ Spent'
    BY <1>2, <2>1, <2>2 DEF SetupFails, Active, ChainEnded, Ended, PCs, Paused, RowStatuses,
        Verdicts, maps, marks, Places, Rows, Spent
  <2>4. Endings' /\ Fresh' /\ Registered' /\ Takeovers'
    BY <1>2, <2>2 DEF SetupFails, Alone, Endings, Fresh, Order, Registered, Takeovers,
        ChainEnded, Goto, Inside, Walking, maps
  <2>5. Order' /\ Alone'
    BY <1>2, <2>2 DEF SetupFails, Alone, Fresh, Order, Registered, Back, Goto, Inside,
        Walking, maps
  <2>6. Approvals' /\ EndedLast'
    BY <1>2, <2>2 DEF SetupFails, Alone, Approvals, EndedLast, Fresh, Order, Registered,
        Back, Final, Goto, Inside, Undisturbed, Walking, maps, Over, Ordered, Terminal
  <2>7. Files' /\ Cleaned' /\ Drained'
    BY <1>2, <2>2 DEF SetupFails, Alone, Approvals, Cleaned, EndedLast, Endings, Files,
        Fresh, Order, Registered, Takeovers, Back, ChainEnded, Cleaning, Final, Goto,
        Inside, Undisturbed, Walking, maps, Over, Ordered, Terminal, Drained, Crashed
  <2> QED
    BY <2>3, <2>4, <2>5, <2>6, <2>7
<1>3. CASE Create
  <2>1. Places'
    BY <1>3, MoveTypes DEF Create, ChainEnded, PCs, maps, Places
  <2>2. Spent' /\ (Crashed => Crashed')
    BY <1>3, SpendTypes DEF Create, Inputs, Crashed, Spent
  <2>3. TypeOK' /\ Spent'
    BY <1>3, <2>1, <2>2 DEF Create, Active, ChainEnded, Ended, PCs, Paused, RowStatuses,
        Verdicts, maps, marks, Places, Rows, Spent
  <2>4. Endings' /\ Fresh' /\ Registered' /\ Takeovers'
    BY <1>3, <2>2 DEF Create, Alone, Endings, Fresh, Order, Registered, Takeovers,
        ChainEnded, Goto, Inside, Walking, maps
  <2>5. Order' /\ Alone'
    BY <1>3, <2>2 DEF Create, Alone, Fresh, Order, Registered, Back, Goto, Inside, Walking,
        maps
  <2>6. Approvals' /\ EndedLast'
    BY <1>3, <2>2 DEF Create, Alone, Approvals, EndedLast, Fresh, Order, Registered, Back,
        Final, Goto, Inside, Undisturbed, Walking, maps, Over, Ordered, Terminal
  <2>7. Files' /\ Cleaned' /\ Drained'
    BY <1>3, <2>2 DEF Create, Alone, Approvals, Cleaned, EndedLast, Endings, Files, Fresh,
        Order, Registered, Takeovers, Back, ChainEnded, Cleaning, Final, Goto, Inside,
        Undisturbed, Walking, maps, Over, Ordered, Terminal, Drained, Crashed
  <2> QED
    BY <2>3, <2>4, <2>5, <2>6, <2>7
<1>4. CASE StepStarts
  <2>1. Places'
    BY <1>4, MoveTypes DEF StepStarts, ChainEnded, PCs, maps, marks, Places
  <2>2. Rows'
    BY <1>4, RowTypes DEF StepStarts, Order, Active, Ended, Paused, RowStatuses, Verdicts,
        Walking, maps, marks, Rows
  <2>3. Spent' /\ (Crashed => Crashed')
    BY <1>4, SpendTypes DEF StepStarts, Inputs, Crashed, Spent
  <2>4. TypeOK' /\ Spent'
    BY <1>4, <2>1, <2>2, <2>3 DEF StepStarts, Active, ChainEnded, Ended, PCs, Paused,
        RowStatuses, Verdicts, maps, marks, Places, Rows, Spent
  <2>5. Endings' /\ Fresh' /\ Registered' /\ Takeovers'
    BY <1>4, <2>3 DEF StepStarts, Alone, Endings, Fresh, Order, Registered, Takeovers,
        ChainEnded, Goto, Inside, SetRow, Terminate, Walking, maps, marks
  <2>6. Order' /\ Alone'
    BY <1>4, <2>3 DEF StepStarts, Alone, Fresh, Order, Registered, Back, Goto, Inside,
        SetRow, Terminate, Walking, maps, marks
  <2>7. Approvals' /\ EndedLast'
    BY <1>4, <2>3 DEF StepStarts, Alone, Approvals, EndedLast, Fresh, Order, Registered,
        Back, Final, Goto, Inside, SetRow, Terminate, Undisturbed, Walking, maps, marks,
        Over, Ordered, Terminal
  <2>8. Files' /\ Cleaned' /\ Drained'
    BY <1>4, <2>3 DEF StepStarts, Alone, Approvals, Cleaned, EndedLast, Endings, Files,
        Fresh, Order, Registered, Takeovers, Back, ChainEnded, Cleaning, Final, Goto,
        Inside, SetRow, Terminate, Undisturbed, Walking, maps, marks, Over, Ordered,
        Terminal, Drained, Crashed
  <2> QED
    BY <2>4, <2>5, <2>6, <2>7, <2>8
<1>5. CASE StepRegisters
  <2>1. Places'
    BY <1>5, MoveTypes DEF StepRegisters, ChainEnded, PCs, marks, rows, Places
  <2>2. TypeOK' /\ Spent'
    <3>1. at[Orch] \in Ids
      BY <1>5 DEF StepRegisters, Order, Walking
    <3> QED
      BY <1>5, <3>1, <2>1 DEF StepRegisters, Places, Spent, marks, rows
  <2>3. Endings' /\ Fresh' /\ Registered' /\ Takeovers'
    BY <1>5 DEF StepRegisters, Alone, Endings, Fresh, Order, Registered, Takeovers,
        ChainEnded, Goto, Inside, Walking, marks, rows
  <2>4. Order' /\ Alone'
    BY <1>5 DEF StepRegisters, Alone, Fresh, Order, Registered, Back, Goto, Inside, Walking,
        marks, rows
  <2>5. Approvals' /\ EndedLast'
    BY <1>5 DEF StepRegisters, Alone, Approvals, EndedLast, Fresh, Order, Registered, Back,
        Final, Goto, Inside, Undisturbed, Walking, marks, rows, Over, Ordered, Terminal
  <2>6. Files' /\ Cleaned' /\ Drained'
    BY <1>5 DEF StepRegisters, Alone, Approvals, Cleaned, EndedLast, Endings, Files, Fresh,
        Order, Registered, Takeovers, Back, ChainEnded, Cleaning, Final, Goto, Inside,
        Undisturbed, Walking, marks, rows, Crashed, Over, Ordered, Terminal, Drained
  <2> QED
    BY <2>2, <2>3, <2>4, <2>5, <2>6
<1>6. CASE AgentStarts
  <2>1. Places'
    BY <1>6, MoveTypes DEF AgentStarts, ChainEnded, PCs, Signalled, maps, marks, Places
  <2>2. Rows'
    BY <1>6, RowTypes DEF AgentStarts, Active, Ended, Paused, RowStatuses, Signalled,
        Verdicts, maps, marks, Rows
  <2>3. TypeOK' /\ Spent'
    BY <1>6, <2>1, <2>2 DEF AgentStarts, Active, ChainEnded, Ended, PCs, Paused,
        RowStatuses, Signalled, Verdicts, maps, marks, Places, Rows, Spent
  <2>4. Endings' /\ Fresh' /\ Registered' /\ Takeovers'
    BY <1>6 DEF AgentStarts, Alone, Endings, Fresh, Order, Registered, Takeovers,
        ChainEnded, Goto, Inside, SetRow, Signalled, Walking, maps, marks
  <2>5. Order' /\ Alone'
    BY <1>6 DEF AgentStarts, Alone, Fresh, Order, Registered, Back, Goto, Inside, SetRow,
        Signalled, Walking, maps, marks
  <2>6. Approvals' /\ EndedLast'
    BY <1>6 DEF AgentStarts, Alone, Approvals, EndedLast, Fresh, Order, Registered, Back,
        Final, Goto, Inside, SetRow, Signalled, Undisturbed, Walking, maps, marks, Over,
        Ordered, Terminal
  <2>7. Files' /\ Cleaned' /\ Drained'
    BY <1>6 DEF AgentStarts, Alone, Approvals, Cleaned, EndedLast, Endings, Files, Fresh,
        Order, Registered, Takeovers, Back, ChainEnded, Cleaning, Final, Goto, Inside,
        SetRow, Signalled, Undisturbed, Walking, maps, marks, Crashed, Over, Ordered,
        Terminal, Drained
  <2> QED
    BY <2>3, <2>4, <2>5, <2>6, <2>7
<1>7. CASE Decide
  <2>1. Places'
    <3>1. at[Orch] \in Steps
      BY <1>7 DEF Decide, Order, Walking
    <3>2. at[Orch] + 1 \in 0 .. StepCount + 1 /\ Orch \in Actors
      BY <3>1
    <3>3. Verdict \in {"advance", "completed", "aborted"}
      BY DEF Verdict
    <3>4. Places
      BY DEF Places, PCs, ChainEnded
    <3>5. \/ Goto(Orch, "exit")
          \/ \E status \in ChainEnded : Terminate(Orch, status)
          \/ GotoAt(Orch, "loop", at[Orch] + 1)
      BY <1>7, <3>3 DEF Decide, ChainEnded
    <3> QED
      BY <3>2, <3>4, <3>5, MoveTypes DEF PCs
  <2>2. Rows'
    <3>1. \/ verdict' = verdict
          \/ verdict' = [verdict EXCEPT ![at[Orch]] = IF @ = "none" THEN "abort" ELSE @]
      BY <1>7 DEF Decide
    <3>2. verdict' \in [Steps -> Verdicts]
      BY <3>1 DEF Verdicts
    <3>3. UNCHANGED row
      BY <1>7 DEF Decide
    <3> QED
      BY <3>2, <3>3 DEF Rows, RowStatuses
  <2>3. Spent' /\ (Crashed => Crashed')
    BY <1>7, SpendTypes DEF Decide, Inputs, Crashed, Spent
  <2>4. TypeOK' /\ Spent'
    BY <1>7, <2>1, <2>2, <2>3 DEF Decide, Active, ChainEnded, Ended, PCs, Paused,
        RowStatuses, Verdict, Verdicts, maps, marks, Places, Rows, Spent, Lost, Lapses
  <2>5. Endings' /\ Fresh' /\ Registered' /\ Takeovers'
    BY <1>7, <2>3 DEF Decide, Alone, Endings, Fresh, Order, Registered, Takeovers,
        ChainEnded, Goto, GotoAt, Inside, Paused, Terminate, Verdict, Walking, maps, marks
  <2>6. Order'
    BY <1>7, <2>3 DEF Decide, Alone, Approvals, Fresh, Order, Back, Goto, GotoAt, Paused,
        Terminate, Verdict, Walking, maps, marks
  <2>7. Alone'
    BY <1>7, <2>3 DEF Decide, Alone, Approvals, Fresh, Order, Registered, Back, Goto,
        GotoAt, Inside, Paused, Terminate, Verdict, Walking, maps, marks
  <2>8. Approvals' /\ EndedLast'
    BY <1>7, <2>3 DEF Decide, Alone, Approvals, EndedLast, Fresh, Order, Registered, Back,
        Final, Goto, GotoAt, Inside, Paused, Terminate, Undisturbed, Verdict, Walking, maps,
        marks, Over, Ordered, Terminal, Lost
  <2>9. Files'
    BY <1>7, <2>3 DEF Decide, Alone, Approvals, Cleaned, EndedLast, Endings, Files, Fresh,
        Order, Registered, Takeovers, Back, ChainEnded, Cleaning, Final, Goto, GotoAt,
        Inside, Paused, Terminate, Undisturbed, Verdict, Walking, maps, marks, Over,
        Ordered, Terminal, Drained, Crashed, Lost
  <2>10. Cleaned'
    BY <1>7, <2>3 DEF Decide, Alone, Approvals, Cleaned, EndedLast, Endings, Files, Fresh,
        Order, Registered, Takeovers, Back, ChainEnded, Cleaning, Final, Goto, GotoAt,
        Inside, Paused, Terminate, Undisturbed, Verdict, Walking, maps, marks, Over,
        Ordered, Terminal, Drained, Crashed, Lost
  <2>11. Drained'
    <3>1. pc' = [pc EXCEPT ![Orch] = pc'[Orch]] /\ pc'[Orch] \in {"exit", "mark", "loop"}
      BY <1>7 DEF Decide, Goto, GotoAt, Terminate
    <3>2. pc'[Orch] = "exit" => "parked" \in lapses'
      BY <1>7 DEF Decide, Lost
    <3> QED
      BY <3>1, <3>2 DEF Drained
  <2> QED
    BY <2>4, <2>5, <2>6, <2>7, <2>8, <2>9, <2>10, <2>11
<1>8. CASE OrchExits
  <2>1. Places'
    BY <1>8, MoveTypes DEF OrchExits, ChainEnded, PCs, marks, rows, Places
  <2>2. TypeOK' /\ Spent'
    BY <1>8, <2>1 DEF OrchExits, Active, ChainEnded, Ended, PCs, Paused, RowStatuses,
        Verdicts, marks, rows, Places, Rows, Spent
  <2>3. Endings' /\ Fresh' /\ Registered' /\ Takeovers'
    BY <1>8 DEF OrchExits, Alone, Endings, Fresh, Order, Registered, Takeovers, ChainEnded,
        Goto, Inside, Walking, marks, rows
  <2>4. Order' /\ Alone'
    BY <1>8 DEF OrchExits, Alone, Fresh, Order, Registered, Back, Goto, Inside, Walking,
        marks, rows
  <2>5. Approvals' /\ EndedLast'
    BY <1>8 DEF OrchExits, Alone, Approvals, EndedLast, Fresh, Order, Registered, Back,
        Final, Goto, Inside, Undisturbed, Walking, marks, rows, Over, Ordered, Terminal
  <2>6. Files' /\ Cleaned' /\ Drained'
    BY <1>8 DEF OrchExits, Alone, Approvals, Cleaned, EndedLast, Endings, Files, Fresh,
        Order, Registered, Takeovers, Back, ChainEnded, Cleaning, Final, Goto, Inside,
        Undisturbed, Walking, marks, rows, Crashed, Over, Ordered, Terminal, Drained
  <2> QED
    BY <2>2, <2>3, <2>4, <2>5, <2>6
<1> QED
  BY <1>1, <1>2, <1>3, <1>4, <1>5, <1>6, <1>7, <1>8 DEF OrchStep

\* What a step's run preserves, in either goroutine.
LEMMA AgentPreserves ==
  ASSUME IInv, NEW a \in {Orch, Resumer}, AgentWorks(a) \/ AgentStep(a)
  PROVE  IInv'
<1> USE DEF IInv, TypeOK, At
<1>1. CASE AgentReturns(a)
  <2>1. Places'
    BY <1>1, MoveTypes DEF AgentReturns, ChainEnded, PCs, Signalled, Verdicts, maps, marks,
        Places, Records, Says
  <2>2. Rows'
    BY <1>1, RowTypes DEF AgentReturns, Active, Ended, Paused, RowStatuses, Signalled,
        Verdicts, maps, marks, Rows, Records, Says
  <2>3. Spent' /\ (Crashed => Crashed')
    BY <1>1, SpendTypes DEF AgentReturns, Inputs, Crashed, Spent, Records, Says
  <2>4. TypeOK' /\ Spent'
    <3>1. at[a] \in Steps
      BY <1>1 DEF AgentReturns, Order, Alone, Walking
    <3>2. pending' \subseteq Steps
      BY <1>1, <3>1 DEF AgentReturns, Records, Says
    <3>3. UNCHANGED <<chain, row, task, jira, wt, handles, signals, taken, drained, lapses>>
      BY <1>1 DEF AgentReturns, maps, marks
    <3> QED
      BY <3>2, <3>3, <2>1, <2>2, <2>3 DEF Places, Rows, RowStatuses, Spent
  <2>5. Endings' /\ Fresh' /\ Registered' /\ Takeovers'
    BY <1>1, <2>3 DEF AgentReturns, Alone, Endings, Fresh, Order, Registered, Takeovers,
        ChainEnded, Goto, Inside, Signalled, Verdicts, Walking, maps, marks, Records, Says
  <2>6. Order'
    <3>1. CASE a = Orch
      BY <1>1, <3>1 DEF AgentReturns, Goto, Order, Walking, maps, marks, Records, Says
    <3>2. CASE a = Resumer
      <4>1. ~Walking /\ Resumer # Orch
        BY <1>1, <3>2 DEF AgentReturns, Alone, Records, Says
      <4>2. pc'[Orch] = pc[Orch]
        BY <1>1, <3>2 DEF AgentReturns, Goto, Records, Says
      <4> QED
        BY <4>1, <4>2 DEF Order, Walking, Records, Says
    <3> QED
      BY <3>1, <3>2
  <2>7. Alone'
    BY <1>1, <2>3 DEF AgentReturns, Alone, Approvals, Fresh, Order, Registered, Back, Goto,
        Inside, Signalled, Verdicts, Walking, maps, marks, Records, Says
  <2>8. Approvals'
    <3>1. row[at[a]] # "absent"
      BY <1>1 DEF AgentReturns, Order, Alone, Walking
    <3>2. pending' \subseteq pending \cup {at[a]} /\ UNCHANGED row
      BY <1>1 DEF AgentReturns, Records, Says
    <3>3. \A q \in Requests : pc'[q] = pc[q] /\ at'[q] = at[q]
      BY <1>1 DEF AgentReturns, Goto
    <3> QED
      BY <3>1, <3>2, <3>3 DEF Approvals
  <2>9. EndedLast'
    BY <1>1, <2>3 DEF AgentReturns, Alone, Approvals, EndedLast, Fresh, Order, Registered,
        Back, Final, Goto, Inside, Signalled, Undisturbed, Verdicts, Walking, maps, marks,
        Over, Ordered, Terminal, Records, Says
  <2>10. Files' /\ Cleaned' /\ Drained'
    BY <1>1, <2>3 DEF AgentReturns, Alone, Approvals, Cleaned, EndedLast, Endings, Files,
        Fresh, Order, Registered, Takeovers, Back, ChainEnded, Cleaning, Final, Goto,
        Inside, Signalled, Undisturbed, Verdicts, Walking, maps, marks, Over, Ordered,
        Terminal, Drained, Crashed, Records, Says
  <2> QED
    BY <2>4, <2>5, <2>6, <2>7, <2>8, <2>9, <2>10
<1>2. CASE Record(a)
  <2>1. Places'
    BY <1>2, MoveTypes DEF Record, ChainEnded, PCs, maps, marks, Places
  <2>2. Rows'
    BY <1>2, RowTypes DEF Record, Active, Ended, Paused, RowStatuses, Verdicts, maps, marks,
        Rows
  <2>3. TypeOK' /\ Spent'
    BY <1>2, <2>1, <2>2 DEF Record, Active, ChainEnded, Ended, PCs, Paused, RowStatuses,
        Verdicts, maps, marks, Places, Rows, Spent
  <2>4. Endings' /\ Fresh' /\ Registered' /\ Takeovers'
    BY <1>2 DEF Record, Alone, Endings, Fresh, Order, Registered, Takeovers, ChainEnded,
        Goto, Inside, SetRow, Walking, maps, marks
  <2>5. Order' /\ Alone'
    BY <1>2 DEF Record, Alone, Fresh, Order, Registered, Back, Goto, Inside, SetRow,
        Walking, maps, marks
  <2>6. Approvals' /\ EndedLast'
    BY <1>2 DEF Record, Alone, Approvals, EndedLast, Fresh, Order, Registered, Back, Final,
        Goto, Inside, SetRow, Undisturbed, Walking, maps, marks, Over, Ordered, Terminal
  <2>7. Files' /\ Cleaned' /\ Drained'
    BY <1>2 DEF Record, Alone, Approvals, Cleaned, EndedLast, Endings, Files, Fresh, Order,
        Registered, Takeovers, Back, ChainEnded, Cleaning, Final, Goto, Inside, SetRow,
        Undisturbed, Walking, maps, marks, Crashed, Over, Ordered, Terminal, Drained
  <2> QED
    BY <2>3, <2>4, <2>5, <2>6, <2>7
<1>3. CASE Park(a)
  <2>1. Places'
    BY <1>3, MoveTypes DEF Park, ChainEnded, PCs, maps, marks, Places
  <2>2. Rows'
    <3>1. verdict' \in [Steps -> Verdicts]
      BY <1>3 DEF Park, Verdicts
    <3>2. CASE at[a] \in Steps
      BY <1>3, <3>1, <3>2, RowTypes DEF Park, Rows, RowStatuses, Paused
    <3>3. CASE at[a] \notin Steps
      BY <1>3, <3>1, <3>3 DEF Park, SetRow, Rows, RowStatuses
    <3> QED
      BY <3>2, <3>3
  <2>3. TypeOK' /\ Spent'
    BY <1>3, <2>1, <2>2 DEF Park, Active, ChainEnded, Ended, PCs, Paused, RowStatuses,
        Verdicts, maps, marks, Places, Rows, Spent
  <2>4. Endings' /\ Fresh' /\ Registered' /\ Takeovers'
    BY <1>3 DEF Park, Alone, Endings, Fresh, Order, Registered, Takeovers, ChainEnded, Goto,
        Inside, SetRow, Walking, maps, marks
  <2>5. Order' /\ Alone'
    BY <1>3 DEF Park, Alone, Fresh, Order, Registered, Back, Goto, Inside, SetRow, Walking,
        maps, marks
  <2>6. Approvals' /\ EndedLast'
    BY <1>3 DEF Park, Alone, Approvals, EndedLast, Fresh, Order, Registered, Back, Final,
        Goto, Inside, SetRow, Undisturbed, Walking, maps, marks, Over, Ordered, Terminal
  <2>7. Files' /\ Cleaned' /\ Drained'
    BY <1>3 DEF Park, Alone, Approvals, Cleaned, EndedLast, Endings, Files, Fresh, Order,
        Registered, Takeovers, Back, ChainEnded, Cleaning, Final, Goto, Inside, SetRow,
        Undisturbed, Walking, maps, marks, Crashed, Over, Ordered, Terminal, Drained
  <2> QED
    BY <2>3, <2>4, <2>5, <2>6, <2>7
<1>4. CASE Yield(a)
  <2>1. Places'
    BY <1>4, MoveTypes DEF Yield, ChainEnded, PCs, maps, marks, Places
  <2>2. Rows'
    BY <1>4, RowTypes DEF Yield, Active, Ended, Paused, RowStatuses, Verdicts, maps, marks,
        Rows
  <2>3. TypeOK' /\ Spent'
    BY <1>4, <2>1, <2>2 DEF Yield, Active, ChainEnded, Ended, PCs, Paused, RowStatuses,
        Verdicts, maps, marks, Places, Rows, Spent
  <2>4. Endings' /\ Fresh' /\ Registered' /\ Takeovers'
    BY <1>4 DEF Yield, Alone, Endings, Fresh, Order, Registered, Takeovers, Active,
        ChainEnded, Goto, Inside, SetRow, SetRowIfActive, Walking, maps, marks
  <2>5. Order' /\ Alone'
    BY <1>4 DEF Yield, Alone, Fresh, Order, Registered, Active, Back, Goto, Inside, SetRow,
        SetRowIfActive, Walking, maps, marks
  <2>6. Approvals' /\ EndedLast'
    BY <1>4 DEF Yield, Alone, Approvals, EndedLast, Fresh, Order, Registered, Active, Back,
        Final, Goto, Inside, SetRow, SetRowIfActive, Undisturbed, Walking, maps, marks,
        Over, Ordered, Terminal
  <2>7. Files' /\ Cleaned' /\ Drained'
    BY <1>4 DEF Yield, Alone, Approvals, Cleaned, EndedLast, Endings, Files, Fresh, Order,
        Registered, Takeovers, Active, Back, ChainEnded, Cleaning, Final, Goto, Inside,
        SetRow, SetRowIfActive, Undisturbed, Walking, maps, marks, Crashed, Over, Ordered,
        Terminal, Drained
  <2> QED
    BY <2>3, <2>4, <2>5, <2>6, <2>7
<1>5. CASE WriteCancelled(a)
  <2>1. Places'
    BY <1>5, MoveTypes DEF WriteCancelled, ChainEnded, PCs, maps, marks, Places
  <2>2. Rows'
    BY <1>5, RowTypes DEF WriteCancelled, Active, Ended, Paused, RowStatuses, Verdicts,
        maps, marks, Rows
  <2>3. TypeOK' /\ Spent'
    BY <1>5, <2>1, <2>2 DEF WriteCancelled, Active, ChainEnded, Ended, PCs, Paused,
        RowStatuses, Verdicts, maps, marks, Places, Rows, Spent
  <2>4. Endings' /\ Fresh' /\ Registered' /\ Takeovers'
    BY <1>5 DEF WriteCancelled, Alone, Endings, Fresh, Order, Registered, Takeovers, Active,
        ChainEnded, Goto, Inside, SetRow, SetRowIfActive, Walking, maps, marks
  <2>5. Order' /\ Alone'
    BY <1>5 DEF WriteCancelled, Alone, Fresh, Order, Registered, Active, Back, Goto, Inside,
        SetRow, SetRowIfActive, Walking, maps, marks
  <2>6. Approvals' /\ EndedLast'
    BY <1>5 DEF WriteCancelled, Alone, Approvals, EndedLast, Fresh, Order, Registered,
        Active, Back, Final, Goto, Inside, SetRow, SetRowIfActive, Undisturbed, Walking,
        maps, marks, Over, Ordered, Terminal
  <2>7. Files' /\ Cleaned' /\ Drained'
    BY <1>5 DEF WriteCancelled, Alone, Approvals, Cleaned, EndedLast, Endings, Files, Fresh,
        Order, Registered, Takeovers, Active, Back, ChainEnded, Cleaning, Final, Goto,
        Inside, SetRow, SetRowIfActive, Undisturbed, Walking, maps, marks, Crashed, Over,
        Ordered, Terminal, Drained
  <2> QED
    BY <2>3, <2>4, <2>5, <2>6, <2>7
<1>6. CASE WriteFailed(a)
  <2>1. Places'
    BY <1>6, MoveTypes DEF WriteFailed, ChainEnded, PCs, maps, marks, Places
  <2>2. Rows'
    BY <1>6, RowTypes DEF WriteFailed, Active, Ended, Paused, RowStatuses, Verdicts, maps,
        marks, Rows
  <2>3. TypeOK' /\ Spent'
    BY <1>6, <2>1, <2>2 DEF WriteFailed, Active, ChainEnded, Ended, PCs, Paused,
        RowStatuses, Verdicts, maps, marks, Places, Rows, Spent
  <2>4. Endings' /\ Fresh' /\ Registered' /\ Takeovers'
    BY <1>6 DEF WriteFailed, Alone, Endings, Fresh, Order, Registered, Takeovers, Active,
        ChainEnded, Goto, Inside, SetRow, SetRowIfActive, Walking, maps, marks
  <2>5. Order' /\ Alone'
    BY <1>6 DEF WriteFailed, Alone, Fresh, Order, Registered, Active, Back, Goto, Inside,
        SetRow, SetRowIfActive, Walking, maps, marks
  <2>6. Approvals' /\ EndedLast'
    BY <1>6 DEF WriteFailed, Alone, Approvals, EndedLast, Fresh, Order, Registered, Active,
        Back, Final, Goto, Inside, SetRow, SetRowIfActive, Undisturbed, Walking, maps,
        marks, Over, Ordered, Terminal
  <2>7. Files' /\ Cleaned' /\ Drained'
    BY <1>6 DEF WriteFailed, Alone, Approvals, Cleaned, EndedLast, Endings, Files, Fresh,
        Order, Registered, Takeovers, Active, Back, ChainEnded, Cleaning, Final, Goto,
        Inside, SetRow, SetRowIfActive, Undisturbed, Walking, maps, marks, Crashed, Over,
        Ordered, Terminal, Drained
  <2> QED
    BY <2>3, <2>4, <2>5, <2>6, <2>7
<1>7. CASE StepReturns(a)
  <2>1. Places'
    BY <1>7, MoveTypes DEF StepReturns, ChainEnded, PCs, marks, rows, Places
  <2>2. TypeOK' /\ Spent'
    BY <1>7, <2>1 DEF StepReturns, Active, ChainEnded, Ended, PCs, Paused, RowStatuses,
        Verdicts, marks, rows, Places, Rows, Spent
  <2>3. Endings' /\ Fresh' /\ Registered' /\ Takeovers'
    BY <1>7 DEF StepReturns, Alone, Endings, Fresh, Order, Registered, Takeovers,
        ChainEnded, Goto, Inside, Leave, Walking, marks, rows
  <2>4. Order' /\ Alone'
    BY <1>7 DEF StepReturns, Alone, Fresh, Order, Registered, Back, Goto, Inside, Leave,
        Walking, marks, rows
  <2>5. Approvals' /\ EndedLast'
    BY <1>7 DEF StepReturns, Alone, Approvals, EndedLast, Fresh, Order, Registered, Back,
        Final, Goto, Inside, Leave, Undisturbed, Walking, marks, rows, Over, Ordered,
        Terminal
  <2>6. Files' /\ Cleaned' /\ Drained'
    BY <1>7 DEF StepReturns, Alone, Approvals, Cleaned, EndedLast, Endings, Files, Fresh,
        Order, Registered, Takeovers, Back, ChainEnded, Cleaning, Final, Goto, Inside,
        Leave, Undisturbed, Walking, marks, rows, Crashed, Over, Ordered, Terminal, Drained
  <2> QED
    BY <2>2, <2>3, <2>4, <2>5, <2>6
<1>8. CASE AgentWorks(a)
  <2>1. Places'
    BY <1>8, MoveTypes DEF AgentWorks, ChainEnded, PCs, Records, Says, go, marks, maps, Places
  <2>2. Spent' /\ (Crashed => Crashed')
    BY <1>8, SpendTypes DEF AgentWorks, Inputs, Crashed, Spent
  <2>3. Rows'
    <3>1. PICK v \in {verdict[at[a]]} \cup (Verdicts \ {"none"}) :
                 verdict' = [verdict EXCEPT ![at[a]] = v]
      BY <1>8 DEF AgentWorks, Records, Says
    <3>2. at[a] \in Steps /\ UNCHANGED row
      BY <1>8 DEF AgentWorks, Order, Alone, Walking
    <3>3. verdict' \in [Steps -> Verdicts]
      BY <3>1, <3>2
    <3> QED
      BY <3>2, <3>3 DEF Rows, RowStatuses
  <2>4. TypeOK' /\ Spent'
    <3>1. at[a] \in Steps
      BY <1>8 DEF AgentWorks, Order, Alone, Walking
    <3>2. pending' \subseteq Steps
      BY <1>8, <3>1 DEF AgentWorks, Records, Says
    <3>3. UNCHANGED <<chain, row, task, jira, wt, handles, signals, taken, drained, lapses>>
      BY <1>8 DEF AgentWorks, maps, marks
    <3> QED
      BY <3>2, <3>3, <2>1, <2>2, <2>3 DEF Places, Rows, RowStatuses, Spent
  <2>5. Endings' /\ Fresh' /\ Registered' /\ Takeovers'
    BY <1>8, <2>2 DEF AgentWorks, Alone, Endings, Fresh, Order, Registered, Takeovers,
        ChainEnded, Inside, Walking, Records, Says, go, marks, maps
  <2>6. Order' /\ Alone'
    BY <1>8, <2>2 DEF AgentWorks, Alone, Fresh, Order, Registered, Back, Inside, Walking,
        Records, Says, go, marks, maps
  <2>7. Approvals' /\ EndedLast'
    BY <1>8, <2>2 DEF AgentWorks, Alone, Approvals, EndedLast, Ordered, Fresh, Order,
        Registered, Over, Final, Inside, Terminal, Undisturbed, Walking, Records, Says, go, marks,
        maps
  <2>8. Files' /\ Cleaned' /\ Drained'
    BY <1>8, <2>2 DEF AgentWorks, Alone, Approvals, Cleaned, Drained, Crashed, EndedLast,
        Ordered, Endings, Files, Fresh, Order, Registered, Takeovers, Back, Over,
        ChainEnded, Cleaning, Final, Inside, Terminal, Undisturbed, Walking, Records, Says, go,
        marks, maps
  <2> QED
    BY <2>4, <2>5, <2>6, <2>7, <2>8
<1> QED
  BY <1>1, <1>2, <1>3, <1>4, <1>5, <1>6, <1>7, <1>8 DEF AgentStep

\* What terminateChain preserves, called by the orchestrator or by a request.
LEMMA TerminatePreserves ==
  ASSUME IInv, NEW a \in Requests \cup {Orch}, TerminateStep(a)
  PROVE  IInv'
<1> USE DEF IInv, TypeOK, At
<1>1. CASE Mark(a)
  <2>1. Places'
    BY <1>1, MoveTypes DEF Mark, ChainEnded, PCs, maps, marks, Places
  <2>2. Spent' /\ (Crashed => Crashed')
    BY <1>1, SpendTypes DEF Mark, Inputs, Crashed, Spent
  <2>3. TypeOK' /\ Spent'
    BY <1>1, <2>1, <2>2 DEF Mark, Endings, Active, ChainEnded, Ended, PCs, Paused,
        RowStatuses, Verdicts, maps, marks, Places, Rows, Spent, Lost, Lapses
  <2>4. Endings'
    BY <1>1, <2>2 DEF Mark, Endings, ChainEnded, Goto, Leave, maps, marks
  <2>5. Fresh'
    BY <1>1, <2>2 DEF Mark, Fresh, Goto, Leave, maps, marks
  <2>6. Registered'
    BY <1>1, <2>2 DEF Mark, Alone, Fresh, Order, Registered, Goto, Inside, Leave, Walking,
        maps, marks
  <2>7. Takeovers'
    BY <1>1, <2>2 DEF Mark, Takeovers, Goto, Leave, maps, marks
  <2>8. Order' /\ Alone'
    BY <1>1, <2>2 DEF Mark, Alone, Fresh, Order, Registered, Back, Goto, Inside, Leave,
        Walking, maps, marks
  <2>9. Approvals'
    BY <1>1, <2>2 DEF Mark, Alone, Approvals, Fresh, Order, Back, Goto, Leave, Walking,
        maps, marks
  <2>10. EndedLast'
    BY <1>1, <2>2 DEF Mark, Alone, Approvals, EndedLast, Fresh, Order, Registered, Back,
        Final, Goto, Inside, Leave, Undisturbed, Walking, maps, marks, Over, Ordered,
        Terminal, Lost
  <2>11. Files'
    BY <1>1, <2>2 DEF Mark, Alone, Approvals, Cleaned, EndedLast, Endings, Files, Fresh,
        Order, Registered, Takeovers, Back, ChainEnded, Cleaning, Final, Goto, Inside,
        Leave, Undisturbed, Walking, maps, marks, Over, Ordered, Terminal, Drained, Crashed,
        Lost
  <2>12. Cleaned'
    BY <1>1, <2>2 DEF Mark, Alone, Approvals, Cleaned, EndedLast, Endings, Files, Fresh,
        Order, Registered, Takeovers, Back, ChainEnded, Cleaning, Final, Goto, Inside,
        Leave, Undisturbed, Walking, maps, marks, Over, Ordered, Terminal, Drained, Crashed,
        Lost
  <2>13. Drained'
    BY <1>1, <2>2 DEF Mark, Alone, Approvals, Cleaned, EndedLast, Endings, Files, Fresh,
        Order, Registered, Takeovers, Back, ChainEnded, Cleaning, Final, Goto, Inside,
        Leave, Undisturbed, Walking, maps, marks, Over, Ordered, Terminal, Drained, Crashed,
        Lost
  <2> QED
    BY <2>3, <2>4, <2>5, <2>6, <2>7, <2>8, <2>9, <2>10, <2>11, <2>12, <2>13
<1>2. CASE CloseTask(a)
  <2>1. Places'
    BY <1>2, MoveTypes DEF CloseTask, ChainEnded, PCs, Goto, maps, marks, Places
  <2>2. Spent' /\ (Crashed => Crashed')
    BY <1>2, SpendTypes DEF CloseTask, Inputs, Crashed, Spent
  <2>3. TypeOK' /\ Spent'
    BY <1>2, <2>1, <2>2 DEF CloseTask, Active, ChainEnded, Ended, PCs, Paused, RowStatuses,
        Verdicts, Lapses, Places, Rows, Spent, Goto, maps, marks
  <2>4. Endings' /\ Fresh' /\ Registered' /\ Takeovers'
    BY <1>2, <2>2 DEF CloseTask, Alone, Endings, Fresh, Order, Registered, Takeovers,
        ChainEnded, Inside, Walking, Goto, maps, marks
  <2>5. Order' /\ Alone'
    BY <1>2, <2>2 DEF CloseTask, Alone, Fresh, Order, Registered, Back, Inside, Walking,
        Goto, maps, marks
  <2>6. Approvals' /\ EndedLast'
    BY <1>2, <2>2 DEF CloseTask, Alone, Approvals, EndedLast, Ordered, Fresh, Order,
        Registered, Over, Final, Inside, Terminal, Undisturbed, Walking, Goto, maps, marks
  <2>7. Files' /\ Cleaned' /\ Drained'
    BY <1>2, <2>2 DEF CloseTask, Alone, Approvals, Cleaned, Drained, Crashed, EndedLast,
        Ordered, Endings, Files, Fresh, Order, Registered, Takeovers, Back, Over,
        ChainEnded, Cleaning, Final, Inside, Terminal, Undisturbed, Walking, Goto, maps,
        marks
  <2> QED
    BY <2>3, <2>4, <2>5, <2>6, <2>7
<1>3. CASE Clean(a)
  <2>1. Places'
    BY <1>3, MoveTypes DEF Clean, ChainEnded, PCs, Goto, Lost, maps, rows, Places
  <2>2. Spent' /\ (Crashed => Crashed')
    BY <1>3, SpendTypes DEF Clean, Inputs, Crashed, Spent
  <2>3. TypeOK' /\ Spent'
    BY <1>3, <2>1, <2>2 DEF Clean, Active, ChainEnded, Ended, PCs, Paused, RowStatuses,
        Verdicts, Lapses, Places, Rows, Spent, Goto, Lost, maps, rows
  <2>4. Endings' /\ Fresh' /\ Registered' /\ Takeovers'
    BY <1>3, <2>2 DEF Clean, Alone, Endings, Fresh, Order, Registered, Takeovers,
        ChainEnded, Inside, Walking, Goto, Lost, maps, rows
  <2>5. Order' /\ Alone'
    BY <1>3, <2>2 DEF Clean, Alone, Fresh, Order, Registered, Back, Inside, Walking, Goto,
        Lost, maps, rows
  <2>6. Approvals' /\ EndedLast'
    BY <1>3, <2>2 DEF Clean, Alone, Approvals, EndedLast, Ordered, Fresh, Order, Registered,
        Over, Final, Inside, Terminal, Undisturbed, Walking, Goto, Lost, maps, rows
  <2>7. Files' /\ Cleaned' /\ Drained'
    BY <1>3, <2>2 DEF Clean, Alone, Approvals, Cleaned, Drained, Crashed, EndedLast,
        Ordered, Endings, Files, Fresh, Order, Registered, Takeovers, Back, Over,
        ChainEnded, Cleaning, Final, Inside, Terminal, Undisturbed, Walking, Goto, Lost,
        maps, rows
  <2> QED
    BY <2>3, <2>4, <2>5, <2>6, <2>7
<1>4. CASE Notify(a)
  <2>1. Places'
    BY <1>4, MoveTypes DEF Notify, ChainEnded, PCs, Leave, Lost, maps, rows, Places
  <2>2. Spent' /\ (Crashed => Crashed')
    BY <1>4, SpendTypes DEF Notify, Inputs, Crashed, Spent
  <2>3. TypeOK' /\ Spent'
    BY <1>4, <2>1, <2>2 DEF Notify, Active, ChainEnded, Ended, PCs, Paused, RowStatuses,
        Verdicts, Lapses, Places, Rows, Spent, Leave, Lost, maps, rows
  <2>4. Endings' /\ Fresh' /\ Registered' /\ Takeovers'
    BY <1>4, <2>2 DEF Notify, Alone, Endings, Fresh, Order, Registered, Takeovers,
        ChainEnded, Inside, Walking, Leave, Lost, maps, rows
  <2>5. Order' /\ Alone'
    BY <1>4, <2>2 DEF Notify, Alone, Fresh, Order, Registered, Back, Inside, Walking, Leave,
        Lost, maps, rows
  <2>6. Approvals' /\ EndedLast'
    BY <1>4, <2>2 DEF Notify, Alone, Approvals, EndedLast, Ordered, Fresh, Order,
        Registered, Over, Final, Inside, Terminal, Undisturbed, Walking, Leave, Lost, maps,
        rows
  <2>7. Files' /\ Cleaned' /\ Drained'
    BY <1>4, <2>2 DEF Notify, Alone, Approvals, Cleaned, Drained, Crashed, EndedLast,
        Ordered, Endings, Files, Fresh, Order, Registered, Takeovers, Back, Over,
        ChainEnded, Cleaning, Final, Inside, Terminal, Undisturbed, Walking, Leave, Lost,
        maps, rows
  <2> QED
    BY <2>3, <2>4, <2>5, <2>6, <2>7
<1> QED
  BY <1>1, <1>2, <1>3, <1>4 DEF TerminateStep

\* What a request preserves that has begun.
LEMMA RequestPreserves ==
  ASSUME IInv, NEW q \in Requests, RequestStep(q)
  PROVE  IInv'
<1> USE DEF IInv, TypeOK, At
<1>1. CASE CancelFires(q)
  <2>1. Places'
    BY <1>1, MoveTypes DEF CancelFires, ChainEnded, PCs, marks, rows, Places
  <2>2. TypeOK' /\ Spent'
    BY <1>1, <2>1 DEF CancelFires, Active, ChainEnded, Ended, PCs, Paused, RowStatuses,
        Verdicts, marks, rows, Places, Rows, Spent
  <2>3. Endings'
    BY <1>1 DEF CancelFires, Endings, ChainEnded, Leave, Terminate, marks, rows
  <2>4. Fresh'
    BY <1>1 DEF CancelFires, Fresh, Leave, Terminate, marks, rows
  <2>5. Registered'
    BY <1>1 DEF CancelFires, Alone, Fresh, Order, Registered, Inside, Leave, Terminate,
        Walking, marks, rows
  <2>6. Takeovers'
    BY <1>1 DEF CancelFires, Takeovers, Leave, Terminate, marks, rows
  <2>7. Order' /\ Alone'
    BY <1>1 DEF CancelFires, Alone, Fresh, Order, Registered, Back, Inside, Leave,
        Terminate, Walking, marks, rows
  <2>8. Approvals' /\ EndedLast'
    BY <1>1 DEF CancelFires, Alone, Approvals, EndedLast, Fresh, Order, Registered, Back,
        Final, Inside, Leave, Terminate, Undisturbed, Walking, marks, rows, Over, Ordered,
        Terminal
  <2>9. Files' /\ Cleaned' /\ Drained'
    BY <1>1 DEF CancelFires, Alone, Approvals, Cleaned, EndedLast, Endings, Files, Fresh,
        Order, Registered, Takeovers, Back, ChainEnded, Cleaning, Final, Inside, Leave,
        Terminate, Undisturbed, Walking, marks, rows, Crashed, Over, Ordered, Terminal,
        Drained
  <2> QED
    BY <2>2, <2>3, <2>4, <2>5, <2>6, <2>7, <2>8, <2>9
<1>2. CASE CancelMisreads(q)
  <2>1. Places'
    BY <1>2, MoveTypes DEF CancelMisreads, ChainEnded, PCs, maps, rows, Places
  <2>2. Spent' /\ (Crashed => Crashed')
    BY <1>2, SpendTypes DEF CancelMisreads, Inputs, Crashed, Spent
  <2>3. TypeOK' /\ Spent'
    BY <1>2, <2>1, <2>2 DEF CancelMisreads, Active, ChainEnded, Ended, PCs, Paused,
        RowStatuses, Verdicts, maps, rows, Places, Rows, Spent, Lost, Lapses
  <2>4. Endings' /\ Fresh' /\ Registered' /\ Takeovers'
    BY <1>2, <2>2 DEF CancelMisreads, Alone, Endings, Fresh, Order, Registered, Takeovers,
        ChainEnded, Inside, Terminate, Walking, maps, rows
  <2>5. Order' /\ Alone'
    BY <1>2, <2>2 DEF CancelMisreads, Alone, Fresh, Order, Registered, Back, Inside,
        Terminate, Walking, maps, rows
  <2>6. Approvals' /\ EndedLast'
    BY <1>2, <2>2 DEF CancelMisreads, Alone, Approvals, EndedLast, Fresh, Order, Registered,
        Back, Final, Inside, Terminate, Undisturbed, Walking, maps, rows, Over, Ordered,
        Terminal, Lost
  <2>7. Files' /\ Cleaned' /\ Drained'
    BY <1>2, <2>2 DEF CancelMisreads, Alone, Approvals, Cleaned, EndedLast, Endings, Files,
        Fresh, Order, Registered, Takeovers, Back, ChainEnded, Cleaning, Final, Inside,
        Terminate, Undisturbed, Walking, maps, rows, Over, Ordered, Terminal, Drained,
        Crashed, Lost
  <2> QED
    BY <2>3, <2>4, <2>5, <2>6, <2>7
<1>3. CASE CancelMarksOnly(q)
  <2>1. Places'
    BY <1>3, MoveTypes DEF CancelMarksOnly, ChainEnded, PCs, maps, Places
  <2>2. Spent' /\ (Crashed => Crashed')
    BY <1>3, SpendTypes DEF CancelMarksOnly, Inputs, Crashed, Spent
  <2>3. TypeOK' /\ Spent'
    BY <1>3, <2>1, <2>2 DEF CancelMarksOnly, Active, ChainEnded, Ended, PCs, Paused,
        RowStatuses, Verdicts, maps, Places, Rows, Spent, Lost, Lapses
  <2>4. Endings' /\ Fresh' /\ Registered' /\ Takeovers'
    BY <1>3, <2>2 DEF CancelMarksOnly, Alone, Endings, Fresh, Order, Registered, Takeovers,
        ChainEnded, Inside, Leave, Walking, maps
  <2>5. Order' /\ Alone'
    BY <1>3, <2>2 DEF CancelMarksOnly, Alone, Fresh, Order, Registered, Back, Inside, Leave,
        Walking, maps
  <2>6. Approvals' /\ EndedLast'
    BY <1>3, <2>2 DEF CancelMarksOnly, Alone, Approvals, EndedLast, Fresh, Order,
        Registered, Back, Final, Inside, Leave, Undisturbed, Walking, maps, Over, Ordered,
        Terminal, Lost
  <2>7. Files' /\ Cleaned' /\ Drained'
    BY <1>3, <2>2 DEF CancelMarksOnly, Alone, Approvals, Cleaned, EndedLast, Endings, Files,
        Fresh, Order, Registered, Takeovers, Back, ChainEnded, Cleaning, Final, Inside,
        Leave, Undisturbed, Walking, maps, Over, Ordered, Terminal, Drained, Crashed, Lost
  <2> QED
    BY <2>3, <2>4, <2>5, <2>6, <2>7
<1>4. CASE ApproveMarks(q)
  <2>1. Places'
    BY <1>4, MoveTypes DEF ApproveMarks, ChainEnded, PCs, Goto, Leave, maps, marks, Places
  <2>2. Spent' /\ (Crashed => Crashed')
    BY <1>4, SpendTypes DEF ApproveMarks, Inputs, Crashed, Spent
  <2>3. Rows'
    <3> DEFINE completed ==
          [row EXCEPT ![at[q]] = IF @ = "pending_approval" THEN "completed" ELSE @]
    <3>1. completed \in [Steps -> RowStatuses]
      BY DEF RowStatuses, Ended
    <3>2. row' \in {row, completed} /\ UNCHANGED verdict
      BY <1>4 DEF ApproveMarks
    <3> QED
      BY <3>1, <3>2 DEF Rows, RowStatuses
  <2>4. TypeOK' /\ Spent'
    BY <1>4, <2>1, <2>2, <2>3 DEF ApproveMarks, Active, ChainEnded, Ended, PCs, Paused,
        RowStatuses, Verdicts, Lapses, Places, Rows, Spent, Goto, Leave, maps, marks
  <2>5. Endings' /\ Fresh' /\ Registered' /\ Takeovers'
    BY <1>4, <2>2 DEF ApproveMarks, Alone, Endings, Fresh, Order, Registered, Takeovers,
        ChainEnded, Inside, Walking, Goto, Leave, maps, marks
  <2>6. Order' /\ Alone'
    BY <1>4, <2>2 DEF ApproveMarks, Alone, Fresh, Order, Registered, Back, Inside, Walking,
        Goto, Leave, maps, marks
  <2>7. Approvals'
    <3>1. pending' \subseteq pending /\ at[q] \in Steps
      BY <1>4 DEF ApproveMarks, Approvals
    <3>2. \A s \in Steps : row[s] # "absent" => row'[s] # "absent"
      BY <1>4 DEF ApproveMarks
    <3>3. \A r \in Requests :
            /\ pc'[r] \in {"approve", "approved"} => pc[r] \in {"approve", "approved"}
            /\ pc'[r] \in {"approve", "approved"} => at'[r] = at[r]
      BY <1>4 DEF ApproveMarks, Goto, Leave
    <3> QED
      BY <3>1, <3>2, <3>3 DEF Approvals
  <2>8. EndedLast'
    BY <1>4, <2>2 DEF ApproveMarks, Alone, Approvals, EndedLast, Ordered, Fresh, Order,
        Registered, Over, Final, Inside, Terminal, Undisturbed, Walking, Goto, Leave, maps,
        marks
  <2>9. Files' /\ Cleaned' /\ Drained'
    BY <1>4, <2>2 DEF ApproveMarks, Alone, Approvals, Cleaned, Drained, Crashed, EndedLast,
        Ordered, Endings, Files, Fresh, Order, Registered, Takeovers, Back, Over,
        ChainEnded, Cleaning, Final, Inside, Terminal, Undisturbed, Walking, Goto, Leave,
        maps, marks
  <2> QED
    BY <2>4, <2>5, <2>6, <2>7, <2>8, <2>9
<1>5. CASE ApproveResumes(q)
  <2>1. Places'
    BY <1>5, MoveTypes DEF ApproveResumes, ChainEnded, PCs, Leave, Terminate, Lost, maps,
        rows, Places
  <2>2. Spent' /\ (Crashed => Crashed')
    BY <1>5, SpendTypes DEF ApproveResumes, Inputs, Crashed, Spent
  <2>3. TypeOK' /\ Spent'
    <3>1. lapses' \subseteq Lapses
      BY <1>5 DEF ApproveResumes, Lost, Lapses
    <3>2. UNCHANGED <<chain, row, verdict, pending, task, jira, wt, handles, signals, taken>>
      BY <1>5 DEF ApproveResumes, maps, rows
    <3>3. UNCHANGED drained
      BY <1>5 DEF ApproveResumes
    <3> QED
      BY <3>1, <3>2, <3>3, <2>1, <2>2 DEF Places, Spent
  <2>4. Endings' /\ Fresh' /\ Registered' /\ Takeovers'
    BY <1>5, <2>2 DEF ApproveResumes, Alone, Endings, Fresh, Order, Registered, Takeovers,
        ChainEnded, Inside, Walking, Leave, Terminate, Lost, maps, rows
  <2>5. Order' /\ Alone'
    BY <1>5, <2>2 DEF ApproveResumes, Alone, Fresh, Order, Registered, Back, Inside,
        Walking, Leave, Terminate, Lost, maps, rows
  <2>6. Approvals'
    BY <1>5, <2>2 DEF ApproveResumes, Alone, Approvals, EndedLast, Ordered, Fresh, Order,
        Registered, Over, Final, Inside, Terminal, Undisturbed, Walking, Leave, Terminate,
        Lost, maps, rows
  <2>7. EndedLast'
    <3> SUFFICES ASSUME Walking', Ordered' PROVE Undisturbed' \/ Final'
      BY DEF EndedLast
    <3>1. /\ pc'[Orch] = pc[Orch] /\ at'[Orch] = at[Orch]
          /\ UNCHANGED <<chain, row, verdict>> /\ lapses \subseteq lapses'
      BY <1>5 DEF ApproveResumes, Leave, Terminate, Lost, rows
    <3>2. Walking /\ Ordered
      BY <3>1 DEF Walking, Ordered
    <3>3. CASE Final
      BY <3>1, <3>3 DEF Final, Over
    <3>4. CASE Undisturbed /\ pc'[q] # "mark"
      <4>1. pc'[q] = "idle" /\ \A r \in Requests \ {q} : pc'[r] = pc[r]
        BY <1>5, <3>4 DEF ApproveResumes, Leave, Terminate
      <4> QED
        BY <3>1, <3>4, <4>1 DEF Undisturbed, Terminal
    <3>5. CASE pc'[q] = "mark"
      <4>1. verdict[at[q]] = "final" /\ at[q] \in Steps /\ row[at[q]] # "absent"
        BY <1>5, <3>5 DEF ApproveResumes, Approvals, Leave
      <4>2. at[q] = at[Orch] /\ ~At(Orch, "loop")
        BY <4>1, <3>2 DEF Order
      <4>3. pc[Orch] \in {"register", "start", "agent"} => "early" \in lapses'
        BY <1>5, <3>5, <4>2 DEF ApproveResumes, Leave, Lost
      <4>4. pc[Orch] \notin {"register", "start", "agent"}
        BY <4>3 DEF Ordered
      <4> QED
        BY <3>1, <3>2, <4>1, <4>2, <4>4 DEF Final, Over, Walking
    <3> QED
      BY <3>2, <3>3, <3>4, <3>5 DEF EndedLast
  <2>8. Files' /\ Cleaned' /\ Drained'
    BY <1>5, <2>2 DEF ApproveResumes, Alone, Approvals, Cleaned, Drained, Crashed,
        EndedLast, Ordered, Endings, Files, Fresh, Order, Registered, Takeovers, Back, Over,
        ChainEnded, Cleaning, Final, Inside, Terminal, Undisturbed, Walking, Leave,
        Terminate, Lost, maps, rows
  <2> QED
    BY <2>3, <2>4, <2>5, <2>6, <2>7, <2>8
<1>6. CASE TakeoverEnds(q)
  <2>1. Places'
    BY <1>6, MoveTypes DEF TakeoverEnds, Active, ChainEnded, PCs, maps, marks, Places
  <2>2. Rows'
    BY <1>6, RowTypes DEF TakeoverEnds, Active, Ended, Paused, RowStatuses, Verdicts, maps,
        marks, Rows
  <2>3. Spent' /\ (Crashed => Crashed')
    BY <1>6, SpendTypes DEF TakeoverEnds, Inputs, Crashed, Spent
  <2>4. TypeOK' /\ Spent'
    BY <1>6, <2>1, <2>2, <2>3 DEF TakeoverEnds, Takeovers, Active, ChainEnded, Ended, PCs,
        Paused, RowStatuses, Verdicts, maps, marks, Places, Rows, Spent
  <2>5. Endings' /\ Fresh' /\ Registered' /\ Takeovers'
    BY <1>6, <2>3 DEF TakeoverEnds, Alone, Endings, Fresh, Order, Registered, Takeovers,
        Active, ChainEnded, Inside, Leave, SetRow, SetRowIfActive, Walking, maps, marks
  <2>6. Order' /\ Alone'
    BY <1>6, <2>3 DEF TakeoverEnds, Alone, Fresh, Order, Registered, Active, Back, Inside,
        Leave, SetRow, SetRowIfActive, Walking, maps, marks
  <2>7. Approvals' /\ EndedLast'
    BY <1>6, <2>3 DEF TakeoverEnds, Alone, Approvals, EndedLast, Fresh, Order, Registered,
        Active, Back, Final, Inside, Leave, SetRow, SetRowIfActive, Undisturbed, Walking,
        maps, marks, Over, Ordered, Terminal
  <2>8. Files' /\ Cleaned' /\ Drained'
    BY <1>6, <2>3 DEF TakeoverEnds, Alone, Approvals, Cleaned, EndedLast, Endings, Files,
        Fresh, Order, Registered, Takeovers, Active, Back, ChainEnded, Cleaning, Final,
        Inside, Leave, SetRow, SetRowIfActive, Undisturbed, Walking, maps, marks, Over,
        Ordered, Terminal, Drained, Crashed
  <2> QED
    BY <2>4, <2>5, <2>6, <2>7, <2>8
<1> QED
  BY <1>1, <1>2, <1>3, <1>4, <1>5, <1>6 DEF RequestStep

\* What the user's clicks on a step preserve: its cancel, the discard of what waits
\* for approval, the answer to a yield.
LEMMA InputPreserves ==
  ASSUME IInv, StopStep \/ Discard \/ Responds
  PROVE  IInv'
<1> USE DEF IInv, TypeOK, At
<1>1. CASE StopStep
  <2>1. Places'
    BY <1>1, MoveTypes DEF StopStep, ChainEnded, PCs, go, marks, Places
  <2>2. Rows'
    BY <1>1, RowTypes DEF StopStep, Active, Ended, Paused, RowStatuses, Verdicts, go, marks,
        Rows
  <2>3. Spent' /\ (Crashed => Crashed')
    BY <1>1, SpendTypes DEF StopStep, Inputs, Crashed, Spent
  <2>4. TypeOK' /\ Spent'
    <3>1. signals' \subseteq Ids
      <4>1. signals' = signals \/ \E s \in Steps : signals' = signals \cup {s}
        BY <1>1 DEF StopStep
      <4>2. Steps \subseteq Ids
        OBVIOUS
      <4> QED
        BY <4>1, <4>2, Zenon
    <3>2. UNCHANGED <<chain, verdict, pending, task, jira, wt, handles, taken, go, marks>>
      BY <1>1 DEF StopStep
    <3> QED
      BY <3>1, <3>2, <2>2, <2>3 DEF Rows, RowStatuses, Spent, go, marks
  <2>5. Endings' /\ Fresh' /\ Registered' /\ Takeovers'
    BY <1>1, <2>3 DEF StopStep, Alone, Endings, Fresh, Order, Registered, Takeovers, Active,
        ChainEnded, Inside, SetRow, SetRowIfActive, Walking, go, marks
  <2>6. Order' /\ Alone'
    BY <1>1, <2>3 DEF StopStep, Alone, Fresh, Order, Registered, Active, Back, Inside,
        SetRow, SetRowIfActive, Walking, go, marks
  <2>7. Approvals' /\ EndedLast'
    BY <1>1, <2>3 DEF StopStep, Alone, Approvals, EndedLast, Fresh, Order, Registered,
        Active, Back, Final, Inside, SetRow, SetRowIfActive, Undisturbed, Walking, go,
        marks, Over, Ordered, Terminal
  <2>8. Files' /\ Cleaned' /\ Drained'
    BY <1>1, <2>3 DEF StopStep, Alone, Approvals, Cleaned, EndedLast, Endings, Files, Fresh,
        Order, Registered, Takeovers, Active, Back, ChainEnded, Cleaning, Final, Inside,
        SetRow, SetRowIfActive, Undisturbed, Walking, go, marks, Over, Ordered, Terminal,
        Drained, Crashed
  <2> QED
    BY <2>4, <2>5, <2>6, <2>7, <2>8
<1>2. CASE Discard
  <2>1. Places'
    BY <1>2, MoveTypes DEF Discard, ChainEnded, PCs, go, maps, marks, Places
  <2>2. Rows'
    BY <1>2, RowTypes DEF Discard, Active, Ended, Paused, RowStatuses, Verdicts, go, maps,
        marks, Rows
  <2>3. Spent' /\ (Crashed => Crashed')
    BY <1>2, SpendTypes DEF Discard, Inputs, Crashed, Spent
  <2>4. TypeOK' /\ Spent'
    BY <1>2, <2>1, <2>2, <2>3 DEF Discard, Active, ChainEnded, Ended, PCs, Paused,
        RowStatuses, Verdicts, go, maps, marks, Places, Rows, Spent
  <2>5. Endings' /\ Fresh' /\ Registered' /\ Takeovers'
    BY <1>2, <2>3 DEF Discard, Alone, Endings, Fresh, Order, Registered, Takeovers,
        ChainEnded, Inside, SetRow, Walking, go, maps, marks
  <2>6. Order' /\ Alone'
    BY <1>2, <2>3 DEF Discard, Alone, Fresh, Order, Registered, Back, Inside, SetRow,
        Walking, go, maps, marks
  <2>7. Approvals' /\ EndedLast'
    BY <1>2, <2>3 DEF Discard, Alone, Approvals, EndedLast, Fresh, Order, Registered, Back,
        Final, Inside, SetRow, Undisturbed, Walking, go, maps, marks, Over, Ordered,
        Terminal
  <2>8. Files' /\ Cleaned' /\ Drained'
    BY <1>2, <2>3 DEF Discard, Alone, Approvals, Cleaned, EndedLast, Endings, Files, Fresh,
        Order, Registered, Takeovers, Back, ChainEnded, Cleaning, Final, Inside, SetRow,
        Undisturbed, Walking, go, maps, marks, Over, Ordered, Terminal, Drained, Crashed
  <2> QED
    BY <2>4, <2>5, <2>6, <2>7, <2>8
<1>3. CASE Responds
  <2>1. Places'
    <3>1. PICK s \in Steps : GotoAt(Resumer, "flip", s)
      BY <1>3 DEF Responds
    <3>2. s \in 0 .. StepCount + 1 /\ Resumer \in Actors /\ "flip" \in PCs
      BY DEF PCs
    <3> QED
      BY <3>1, <3>2, MoveTypes DEF Places
  <2>2. Spent' /\ (Crashed => Crashed')
    BY <1>3, SpendTypes DEF Responds, Inputs, Crashed, Spent
  <2>3. TypeOK' /\ Spent'
    BY <1>3, <2>1, <2>2 DEF Responds, Active, ChainEnded, Ended, PCs, Paused, RowStatuses,
        Verdicts, marks, rows, Places, Rows, Spent
  <2>4. Endings' /\ Fresh' /\ Registered' /\ Takeovers'
    BY <1>3, <2>2 DEF Responds, Alone, Endings, Fresh, Order, Registered, Takeovers,
        ChainEnded, GotoAt, Inside, Walking, marks, rows
  <2>5. Order'
    BY <1>3, <2>2 DEF Responds, Alone, Approvals, Fresh, Order, Back, GotoAt, Walking,
        marks, rows
  <2>6. Alone'
    BY <1>3, <2>2 DEF Responds, Alone, Approvals, Fresh, Order, Registered, Back, GotoAt,
        Inside, Walking, marks, rows
  <2>7. Approvals' /\ EndedLast'
    BY <1>3, <2>2 DEF Responds, Alone, Approvals, EndedLast, Fresh, Order, Registered, Back,
        Final, GotoAt, Inside, Undisturbed, Walking, marks, rows, Over, Ordered, Terminal
  <2>8. Files' /\ Cleaned' /\ Drained'
    BY <1>3, <2>2 DEF Responds, Alone, Approvals, Cleaned, EndedLast, Endings, Files, Fresh,
        Order, Registered, Takeovers, Back, ChainEnded, Cleaning, Final, GotoAt, Inside,
        Undisturbed, Walking, marks, rows, Over, Ordered, Terminal, Drained, Crashed
  <2> QED
    BY <2>3, <2>4, <2>5, <2>6, <2>7, <2>8
<1> QED
  BY <1>1, <1>2, <1>3

\* What the beginning of a request preserves.
LEMMA CallPreserves ==
  ASSUME IInv, NEW q \in Requests, CancelReads(q) \/ Approves(q) \/ TakeoverClaims(q)
  PROVE  IInv'
<1> USE DEF IInv, TypeOK, At
<1>1. CASE CancelReads(q)
  <2>1. Places'
    BY <1>1, MoveTypes DEF CancelReads, Active, ChainEnded, PCs, maps, marks, rows, Places
  <2>2. TypeOK' /\ Spent'
    BY <1>1, <2>1 DEF CancelReads, Active, ChainEnded, Ended, PCs, Paused, RowStatuses,
        Verdicts, maps, marks, rows, Places, Rows, Spent
  <2>3. Endings' /\ Fresh' /\ Registered' /\ Takeovers'
    BY <1>1 DEF CancelReads, Alone, Endings, Fresh, Order, Registered, Takeovers, Active,
        ChainEnded, GotoAt, Inside, Walking, maps, marks, rows
  <2>4. Order' /\ Alone'
    BY <1>1 DEF CancelReads, Alone, Fresh, Order, Registered, Active, Back, GotoAt, Inside,
        Walking, maps, marks, rows
  <2>5. Approvals' /\ EndedLast'
    BY <1>1 DEF CancelReads, Alone, Approvals, EndedLast, Fresh, Order, Registered, Active,
        Back, Final, GotoAt, Inside, Undisturbed, Walking, maps, marks, rows, Over, Ordered,
        Terminal
  <2>6. Files' /\ Cleaned' /\ Drained'
    BY <1>1 DEF CancelReads, Alone, Approvals, Cleaned, EndedLast, Endings, Files, Fresh,
        Order, Registered, Takeovers, Active, Back, ChainEnded, Cleaning, Final, GotoAt,
        Inside, Undisturbed, Walking, maps, marks, rows, Crashed, Over, Ordered, Terminal,
        Drained
  <2> QED
    BY <2>2, <2>3, <2>4, <2>5, <2>6
<1>2. CASE Approves(q)
  <2>1. Places'
    BY <1>2, MoveTypes DEF Approves, ChainEnded, PCs, maps, marks, rows, Places
  <2>2. TypeOK' /\ Spent'
    BY <1>2, <2>1 DEF Approves, Active, ChainEnded, Ended, PCs, Paused, RowStatuses,
        Verdicts, maps, marks, rows, Places, Rows, Spent
  <2>3. Endings' /\ Fresh' /\ Registered' /\ Takeovers'
    BY <1>2 DEF Approves, Approvals, Alone, Endings, Fresh, Order, Registered, Takeovers,
        ChainEnded, GotoAt, Inside, Walking, maps, marks, rows
  <2>4. Order' /\ Alone'
    BY <1>2 DEF Approves, Alone, Fresh, Order, Registered, Back, GotoAt, Inside, Walking,
        maps, marks, rows
  <2>5. Approvals' /\ EndedLast'
    BY <1>2 DEF Approves, Alone, Approvals, EndedLast, Fresh, Order, Registered, Back,
        Final, GotoAt, Inside, Undisturbed, Walking, maps, marks, rows, Over, Ordered,
        Terminal
  <2>6. Files' /\ Cleaned' /\ Drained'
    BY <1>2 DEF Approves, Alone, Approvals, Cleaned, EndedLast, Endings, Files, Fresh,
        Order, Registered, Takeovers, Back, ChainEnded, Cleaning, Final, GotoAt, Inside,
        Undisturbed, Walking, maps, marks, rows, Crashed, Over, Ordered, Terminal, Drained
  <2> QED
    BY <2>2, <2>3, <2>4, <2>5, <2>6
<1>3. CASE TakeoverClaims(q)
  <2>1. Places'
    BY <1>3, MoveTypes DEF TakeoverClaims, ChainEnded, PCs, marks, rows, Places
  <2>2. Spent' /\ (Crashed => Crashed')
    BY <1>3, SpendTypes DEF TakeoverClaims, Inputs, Crashed, Spent
  <2>3. TypeOK' /\ Spent'
    BY <1>3, <2>1, <2>2 DEF TakeoverClaims, Active, ChainEnded, Ended, PCs, Paused,
        RowStatuses, Verdicts, marks, rows, Places, Rows, Spent
  <2>4. Endings' /\ Fresh' /\ Registered' /\ Takeovers'
    BY <1>3, <2>2 DEF TakeoverClaims, Alone, Endings, Fresh, Order, Registered, Takeovers,
        ChainEnded, GotoAt, Inside, Walking, marks, rows
  <2>5. Order' /\ Alone'
    BY <1>3, <2>2 DEF TakeoverClaims, Alone, Fresh, Order, Registered, Back, GotoAt, Inside,
        Walking, marks, rows
  <2>6. Approvals' /\ EndedLast'
    BY <1>3, <2>2 DEF TakeoverClaims, Alone, Approvals, EndedLast, Fresh, Order, Registered,
        Back, Final, GotoAt, Inside, Undisturbed, Walking, marks, rows, Over, Ordered,
        Terminal
  <2>7. Files' /\ Cleaned' /\ Drained'
    BY <1>3, <2>2 DEF TakeoverClaims, Alone, Approvals, Cleaned, EndedLast, Endings, Files,
        Fresh, Order, Registered, Takeovers, Back, ChainEnded, Cleaning, Final, GotoAt,
        Inside, Undisturbed, Walking, marks, rows, Over, Ordered, Terminal, Drained, Crashed
  <2> QED
    BY <2>3, <2>4, <2>5, <2>6, <2>7
<1> QED
  BY <1>1, <1>2, <1>3

\* What the resumption of a step preserves, and a crash.
LEMMA ResumeOrCrashPreserves ==
  ASSUME IInv, Resumes \/ Crash
  PROVE  IInv'
<1> USE DEF IInv, TypeOK, At
<1>1. CASE Resumes
  <2>1. Places'
    BY <1>1, MoveTypes DEF Resumes, ChainEnded, PCs, Signalled, maps, marks, Places
  <2>2. Rows'
    BY <1>1, RowTypes DEF Resumes, Active, Ended, Paused, RowStatuses, Signalled, Verdicts,
        maps, marks, Rows
  <2>3. TypeOK' /\ Spent'
    BY <1>1, <2>1, <2>2 DEF Resumes, Active, ChainEnded, Ended, PCs, Paused, RowStatuses,
        Signalled, Verdicts, maps, marks, Places, Rows, Spent
  <2>4. Endings' /\ Fresh' /\ Registered' /\ Takeovers'
    BY <1>1 DEF Resumes, Alone, Endings, Fresh, Order, Registered, Takeovers, ChainEnded,
        Goto, Inside, SetRow, Signalled, Walking, maps, marks
  <2>5. Order' /\ Alone'
    BY <1>1 DEF Resumes, Alone, Fresh, Order, Registered, Back, Goto, Inside, SetRow,
        Signalled, Walking, maps, marks
  <2>6. Approvals' /\ EndedLast'
    BY <1>1 DEF Resumes, Alone, Approvals, EndedLast, Fresh, Order, Registered, Back, Final,
        Goto, Inside, SetRow, Signalled, Undisturbed, Walking, maps, marks, Over, Ordered,
        Terminal
  <2>7. Files' /\ Cleaned' /\ Drained'
    BY <1>1 DEF Resumes, Alone, Approvals, Cleaned, EndedLast, Endings, Files, Fresh, Order,
        Registered, Takeovers, Back, ChainEnded, Cleaning, Final, Goto, Inside, SetRow,
        Signalled, Undisturbed, Walking, maps, marks, Crashed, Over, Ordered, Terminal,
        Drained
  <2> QED
    BY <2>3, <2>4, <2>5, <2>6, <2>7
<1>2. CASE Crash
  <2>1. Places'
    BY <1>2 DEF Crash, ChainEnded, PCs, marks, rows, Places
  <2>2. Spent' /\ (Crashed => Crashed') /\ Crashed'
    BY <1>2, SpendTypes DEF Crash, Inputs, Crashed, Spent
  <2>3. TypeOK' /\ Spent'
    BY <1>2, <2>1, <2>2 DEF Crash, Active, ChainEnded, Ended, PCs, Paused, RowStatuses,
        Verdicts, marks, rows, Places, Rows, Spent
  <2>4. Endings' /\ Fresh' /\ Registered' /\ Takeovers'
    BY <1>2, <2>2 DEF Crash, Alone, Endings, Fresh, Order, Registered, Takeovers,
        ChainEnded, Inside, Walking, marks, rows
  <2>5. Order' /\ Alone'
    BY <1>2, <2>2 DEF Crash, Alone, Fresh, Order, Registered, Back, Inside, Walking, marks,
        rows
  <2>6. Approvals' /\ EndedLast'
    BY <1>2, <2>2 DEF Crash, Alone, Approvals, EndedLast, Fresh, Order, Registered, Back,
        Final, Inside, Undisturbed, Walking, marks, rows, Over, Ordered, Terminal
  <2>7. Files'
    BY <1>2, <2>2 DEF Crash, Alone, Approvals, EndedLast, Files, Fresh, Order, Registered,
        Takeovers, Back, Final, Inside, Undisturbed, Walking, marks, rows, Over, Ordered,
        Terminal
  <2>8. Cleaned' /\ Drained'
    BY <1>2, <2>2 DEF Crash, Cleaned, Endings, Fresh, ChainEnded, Cleaning, marks, rows,
        Drained, Crashed
  <2> QED
    BY <2>3, <2>4, <2>5, <2>6, <2>7, <2>8
<1> QED
  BY <1>1, <1>2
-----------------------------------------------------------------------------
\* The initial states satisfy the invariant.
LEMMA InitIInv == Init => IInv
<1> SUFFICES ASSUME Init PROVE IInv
  OBVIOUS
<1>1. /\ pc = [a \in Actors |-> IF a = Orch THEN "setup" ELSE "idle"]
      /\ Orch \in Actors /\ Resumer \in Actors /\ Orch # Resumer
  BY DEF Init
<1>2. pc[Orch] = "setup" /\ pc[Resumer] = "idle" /\ \A q \in Requests : pc[q] = "idle"
  BY <1>1
<1>3. TypeOK
  <2>1. pc \in [Actors -> PCs]
    BY <1>1 DEF PCs
  <2>2. at \in [Actors -> 0 .. StepCount + 1]
    BY DEF Init
  <2>3. ending \in [Actors -> ChainEnded \cup {"none"}] /\ verdict \in [Steps -> Verdicts]
    BY DEF Init, Verdicts
  <2>4. /\ row \in [Steps -> Active \cup Paused \cup Ended \cup {"absent"}]
        /\ budget \in [Inputs -> Nat]
    BY BudgetAssumption DEF Init
  <2>5. /\ chain \in ChainEnded \cup {"absent", "running"} /\ pending \subseteq Steps
        /\ task \in {"open", "done"} /\ wt \in {"none", "present", "user", "gone"}
        /\ drained \in BOOLEAN /\ lapses \subseteq Lapses /\ jira \in BOOLEAN
    BY DEF Init
  <2>6. handles \subseteq Ids /\ signals \subseteq Ids /\ taken \subseteq Steps
    BY DEF Init
  <2> QED
    BY <2>1, <2>2, <2>3, <2>4, <2>5, <2>6 DEF TypeOK
<1>4. Spent
  BY BudgetAssumption DEF Init, Spent, Inputs
<1>5. Endings /\ Fresh /\ Registered
  BY <1>2 DEF Init, Endings, Fresh, Registered, Inside, At
<1>6. ~Walking /\ pc[Resumer] = "idle" /\ \A q \in Requests : pc[q] = "idle"
  BY <1>2 DEF Walking
<1>7. Order /\ Alone /\ Approvals
  BY <1>6 DEF Init, Order, Alone, Approvals
<1>8. EndedLast /\ Files /\ Cleaned /\ Drained /\ Takeovers
  BY <1>2, <1>6 DEF Init, EndedLast, Files, Cleaned, Drained, Takeovers, ChainEnded, At
<1> QED
  BY <1>3, <1>4, <1>5, <1>7, <1>8 DEF IInv

\* Every step preserves it.
LEMMA StepIInv == IInv /\ [Next]_vars => IInv'
<1> SUFFICES ASSUME IInv, [Next]_vars PROVE IInv'
  OBVIOUS
<1>1. CASE OrchStep \/ Resumes \/ Crash
  BY <1>1, OrchPreserves, ResumeOrCrashPreserves
<1>2. ASSUME NEW a \in {Orch, Resumer}, AgentWorks(a) \/ AgentStep(a) PROVE IInv'
  BY <1>2, AgentPreserves
<1>3. ASSUME NEW a \in Requests \cup {Orch}, TerminateStep(a) PROVE IInv'
  BY <1>3, TerminatePreserves
<1>4. ASSUME NEW q \in Requests, RequestStep(q) PROVE IInv'
  BY <1>4, RequestPreserves
<1>5. CASE UserRequest
  BY <1>5, InputPreserves, CallPreserves DEF UserRequest
<1>6. CASE UNCHANGED vars
  <2>1. UNCHANGED <<rows, jira, wt, maps, go, marks, budget>>
    BY <1>6 DEF vars, rows, maps, go, marks
  <2>2. TypeOK' /\ Spent' /\ (Walking' <=> Walking)
    BY <2>1 DEF rows, maps, go, marks, IInv, TypeOK, Spent, Walking
  <2>3. Endings' /\ Fresh' /\ Registered' /\ Takeovers'
    BY <2>1 DEF rows, maps, go, marks, IInv, Endings, Fresh, Registered, Inside, Takeovers,
        At
  <2>4. Order' /\ Alone' /\ Approvals'
    BY <2>1, <2>2 DEF rows, maps, go, marks, IInv, Order, Alone, Approvals, At
  <2>5. EndedLast' /\ Files' /\ Cleaned' /\ Drained'
    BY <2>1, <2>2 DEF rows, maps, go, marks, IInv, EndedLast, Ordered, Undisturbed,
        Terminal,
       Final, Over, Back, Files, Cleaned, Cleaning, Drained, Crashed, At
  <2> QED
    BY <2>2, <2>3, <2>4, <2>5 DEF IInv
<1> QED
  BY <1>1, <1>2, <1>3, <1>4, <1>5, <1>6 DEF Next

\* Only the head of the loop gives a step its row.
LEMMA OnlyStepStarts ==
  ASSUME IInv, [Next]_vars, NEW s \in Steps, row[s] = "absent", row'[s] # "absent"
  PROVE  StepStarts /\ s = at[Orch]
<1> USE DEF SetRow, SetRowIfActive, Active
<1>1. row \in [Steps -> RowStatuses]
  BY DEF IInv, TypeOK, RowStatuses
<1>2. Walking /\ ~At(Orch, "loop") => row[at[Orch]] # "absent"
  BY DEF IInv, Order
<1>3. ~At(Resumer, "idle") => row[at[Resumer]] # "absent"
  BY DEF IInv, Alone, At
<1>4. ~StepStarts => ~OrchStep
  BY <1>1, <1>2 DEF OrchStep, SetupWorks, SetupFails, Create, StepRegisters, AgentStarts,
      Decide,
     OrchExits, Walking, At, rows
<1>5. ASSUME NEW a \in {Orch, Resumer}, AgentWorks(a) \/ AgentStep(a) PROVE FALSE
  <2>1. \/ row' = row
        \/ /\ Record(a) \/ Park(a) \/ Yield(a) \/ WriteCancelled(a) \/ WriteFailed(a)
           /\ \E next : row' = [row EXCEPT ![at[a]] = next]
    BY <1>5 DEF AgentStep, AgentWorks, AgentReturns, Record, Park, Yield, WriteCancelled,
        WriteFailed,
       StepReturns, rows
  <2>2. row[at[a]] # "absent" /\ s # at[a]
    BY <1>2, <1>3, <2>1 DEF Record, Park, Yield, WriteCancelled, WriteFailed, Walking, At
  <2> QED
    BY <1>1, <2>1, <2>2
<1>6. ASSUME NEW a \in Requests \cup {Orch}, TerminateStep(a) PROVE FALSE
  BY <1>6 DEF TerminateStep, Mark, CloseTask, Clean, Notify, rows
<1>7. ASSUME NEW q \in Requests, RequestStep(q) PROVE FALSE
  BY <1>1, <1>7 DEF RequestStep, CancelFires, CancelMisreads, CancelMarksOnly, ApproveMarks,
     ApproveResumes, TakeoverEnds, rows
<1>8. ~(Resumes \/ Crash \/ UNCHANGED vars)
  BY <1>1, <1>3 DEF Resumes, Crash, At, vars, rows
<1>9. ~UserRequest
  BY <1>1 DEF UserRequest, StopStep, Discard, Responds, CancelReads, Approves,
      TakeoverClaims, rows
<1>10. StepStarts
  BY <1>4, <1>5, <1>6, <1>7, <1>8, <1>9 DEF Next
<1> QED
  BY <1>1, <1>10 DEF StepStarts

-----------------------------------------------------------------------------
\* The variables keep their types (internal/delegate/chain.go:109-551).
THEOREM ChainRunTypeOK == Spec => []TypeOK
<1>1. IInv => TypeOK
  BY DEF IInv
<1> QED
  BY InitIInv, StepIInv, <1>1, PTL DEF Spec

\* However many requests arrive, none of them cleans up the shared worktree
\* under the agent of a step (internal/delegate/chain.go, CancelChain and
\* ResumeChainAfterApproval): a chain that one of them ends is one that its
\* orchestrator has left, or whose last step has its answer, but for a
\* CancelChain that could not read the active steps and an approval that came
\* while the agent that had said --final was still at work.
THEOREM ChainRunWorktreeUnderAgent == Spec => []WorktreeUnderAgent
<1>1. IInv => WorktreeUnderAgent
  BY DEF IInv, Files, Walking, Final, Over, Back, Ordered, At, WorktreeUnderAgent
<1> QED
  BY InitIInv, StepIInv, <1>1, PTL DEF Spec

\* A chain that has ended left no worktree behind, whoever ended it
\* (terminateChain in internal/delegate/chain.go), unless the removal failed, the
\* task of a parked chain could not be read, or a request ended a Jira chain,
\* whose root it does not know.
THEOREM ChainRunEndedIsClean == Spec => []EndedIsClean
<1>1. IInv => EndedIsClean
  BY DEF IInv, Cleaned, Cleaning, Quiet, At, EndedIsClean
<1> QED
  BY InitIInv, StepIInv, <1>1, PTL DEF Spec

\* The orchestrator has woken the drainer of the entity's queue when its chain
\* has ended (terminateChain and notifyDrainer), also when a request marked the
\* chain first; not when it left the chain parked, when its mark or the read of
\* the entity failed, or when the process died.
THEOREM ChainRunEndedIsDrained == Spec => []EndedIsDrained
<1>1. IInv => EndedIsDrained
  BY DEF IInv, Drained, Quiet, At, EndedIsDrained
<1> QED
  BY InitIInv, StepIInv, <1>1, PTL DEF Spec

\* In a chain of any length, a step is started only in a running chain, all of
\* whose earlier steps have completed and said --advance (runChain in
\* internal/delegate/chain.go).
THEOREM ChainRunStepsInOrder == Spec => StepsInOrder
<1> DEFINE Started(s) ==
      row[s] = "absent" /\ row'[s] # "absent" =>
        /\ chain = "running" \/ lapses \cap {"steps", "early"} # {}
        /\ \A r \in 1 .. s - 1 : row[r] = "completed" /\ verdict[r] = "advance"
<1>1. ASSUME IInv, [Next]_vars, NEW s \in Steps PROVE Started(s)
  <2> SUFFICES ASSUME row[s] = "absent", row'[s] # "absent"
               PROVE  /\ chain = "running" \/ lapses \cap {"steps", "early"} # {}
                      /\ \A r \in 1 .. s - 1 : row[r] = "completed" /\ verdict[r] = "advance"
    OBVIOUS
  <2>1. At(Orch, "loop") /\ s = at[Orch] /\ Walking
    BY <1>1, OnlyStepStarts DEF StepStarts, At, Walking
  <2>2. chain = "running" \/ lapses \cap {"steps", "early"} # {}
    BY <1>1, <2>1 DEF IInv, EndedLast, Ordered, Undisturbed, Final, Over, At
  <2> QED
    BY <1>1, <2>1, <2>2 DEF IInv, Order
<1>2. IInv /\ [Next]_vars => [\A s \in Steps : Started(s)]_vars
  BY <1>1
<1> QED
  BY InitIInv, StepIInv, <1>2, PTL DEF Spec, StepsInOrder
=============================================================================
