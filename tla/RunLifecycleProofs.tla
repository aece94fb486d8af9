------------------------- MODULE RunLifecycleProofs -------------------------
(***************************************************************************)
(* Theorems about RunLifecycle, for any number of runs and any budget.     *)
(***************************************************************************)
EXTENDS RunLifecycle, TLAPS

-----------------------------------------------------------------------------
(***************************************************************************)
(* The inductive invariant, in five parts.                                 *)
(***************************************************************************)
\* What Record is about to write is a status of a run.
ResultIsSet ==
  \A r \in Runs, k \in Kinds :
    pc[r][k] = "record" => result[r][k] \in {"completed", "failed"}

Typed == TypeOK /\ ResultIsSet

\* A run is answered, and can be taken over, only after its agent has started.
Early == {"none", "register", "setup", "start"}

StartsOnce ==
  \A r \in Runs :
    /\ row[r] = "absent" => pc[r]["run"] = "none"
    /\ pc[r]["run"] \in Early => r \notin session
    /\ pc[r]["resume"] # "none" => r \in session
    /\ r \in taken => r \in session

Handled == StartsOnce /\ HandleIsLive

\* What a takeover has moved at each of its steps, and that it is the only one.
TakeoverHolds ==
  \A r \in Runs :
    /\ row[r] = "taken_over" \/ takeover[r] # "idle" => r \in taken
    /\ takeover[r] \in {"copy", "session", "mark", "abort"} => row[r] # "taken_over"
    /\ takeover[r] \in {"session", "mark"} => wt[r] = "takeover"
    /\ takeover[r] = "mark" => jsonl[r] = "takeover"

Held == TakeoverHolds /\ TakenOverIsResumable

\* Who has to remove the worktree: a takeover once the flag is set, a takeover
\* once the goroutine has skipped or finished its defers, the goroutine before.
WorktreeHasOwner ==
  \A r \in Runs :
    wt[r] = "run" /\ (r \in taken \/ pc[r]["run"] \in {"exit", "done"})
      => takeover[r] \in {"copy", "abort"}

\* Who still writes a status for a run: a goroutine before its last write, or a
\* takeover that is going to mark the run or to roll back.
Silencing == {"copy", "session", "mark", "abort"}

RowHasWriter ==
  \A r \in Runs : row[r] \in {"initializing", "running"} =>
    \/ pc[r]["run"] \in {"register", "setup", "start", "agent", "yield", "record",
                         "cancelled", "failed"}
    \/ pc[r]["resume"] \in {"resume", "agent", "yield", "record", "failed", "mark"}
    \/ takeover[r] \in Silencing

\* A takeover that is over has left no active row behind: a goroutine that leaves
\* because of the flag leaves the row to a takeover under way.
TakenIsDecided == \A r \in taken : takeover[r] \in Silencing \/ row[r] \notin Active

Written == RowHasWriter /\ TakenIsDecided

IInv == Typed /\ Handled /\ Held /\ WorktreeHasOwner /\ Written

-----------------------------------------------------------------------------
(***************************************************************************)
(* The branching actions, branch by branch.                                *)
(***************************************************************************)
\* An answer is a yield or a terminal result to record.
LEMMA AnsweredMoves ==
  ASSUME NEW r, NEW k, NEW answer \in {"yield", "completed", "failed"},
         Answered(r, k, answer)
  PROVE  \/ Goto(r, k, "yield")
         \/ \E outcome \in {"completed", "failed"} :
              Jump(r, k, "record") /\ Hold(r, k, outcome)
BY DEF Answered

Returned(r, k, nexts) ==
  /\ At(r, k, "agent")
  /\ \/ \E next \in nexts : Goto(r, k, next)
     \/ \E outcome \in {"completed", "failed"} :
          Jump(r, k, "record") /\ Hold(r, k, outcome)
  /\ UNCHANGED budget \/ Spend("fault")
  /\ UNCHANGED <<rows, maps, files, cancel, takeover, swipe>>

\* Where runAgent continues when the agent process returned.
LEMMA RunReturnsMoves ==
  ASSUME NEW r, RunReturns(r)
  PROVE  Returned(r, "run", {"clean", "yield", "cancelled", "failed"})
BY AnsweredMoves DEF RunReturns, Returned

\* Where ResumeAfterYield continues when it did.
LEMMA ResumeReturnsMoves ==
  ASSUME NEW r, ResumeReturns(r)
  PROVE  Returned(r, "resume", {"exit", "mark", "yield", "failed"})
BY AnsweredMoves DEF ResumeReturns, Gated, End, Returned

Flipped(r) ==
  /\ At(r, "resume", "flip")
  /\ \/ SetRow(r, "running") /\ Goto(r, "resume", "resume")
     \/ UNCHANGED row /\ Goto(r, "resume", "exit")
  /\ UNCHANGED <<session, path, task, maps, files, cancel, takeover, swipe, budget>>

\* MarkResuming won, or the goroutine leaves.
LEMMA FlipMoves ==
  ASSUME NEW r, Flip(r)
  PROVE  Flipped(r)
BY DEF Flip, Flipped

-----------------------------------------------------------------------------
(***************************************************************************)
(* Types.                                                                  *)
(***************************************************************************)
\* Every step writes values of the right type.
LEMMA TypedStep ==
  ASSUME Typed, Next
  PROVE  Typed'
<1> USE DEF rows, task, maps, files, go, At, Typed, TypeOK, ResultIsSet, Goroutines,
        Kinds, PCs,
        Results, Active, Ended, Inputs
<1>1. ASSUME NEW r \in Runs, Register(r) PROVE Typed'
  BY <1>1 DEF Register, Goto, Jump
<1>2. ASSUME NEW r \in Runs, SetupWorks(r) PROVE Typed'
  BY <1>2 DEF SetupWorks, SetRow, Mirror, Goto, Jump
<1>3. ASSUME NEW r \in Runs, SetupFails(r) PROVE Typed'
  <2>1. row' \in [Runs -> Active \cup Ended \cup {"absent"}]
    BY <1>3 DEF SetupFails, SetRow
  <2>2. status' \in {"queued", "in_progress", "in_review", "done"} /\ UNCHANGED claim
    BY <1>3 DEF SetupFails, Mirror
  <2>3. pc' \in [Runs -> [Kinds -> PCs]] /\ UNCHANGED result /\ ResultIsSet'
    BY <1>3 DEF SetupFails, Goto, Jump, Gated, End
  <2>4. budget' \in [Inputs -> Nat]
    BY <1>3 DEF SetupFails, Spend
  <2> QED
    BY <1>3, <2>1, <2>2, <2>3, <2>4 DEF SetupFails
<1>4. ASSUME NEW r \in Runs, Start(r) PROVE Typed'
  BY <1>4 DEF Start, SetRow, Mirror, Goto, Jump, Gated, End
<1>5. ASSUME NEW r \in Runs, AgentSession(r) PROVE Typed'
  BY <1>5 DEF AgentSession
<1>6. ASSUME NEW r \in Runs, RunReturns(r) PROVE Typed'
  <2>1. Returned(r, "run", {"clean", "yield", "cancelled", "failed"})
    BY <1>6, RunReturnsMoves
  <2>2. budget' \in [Inputs -> Nat]
    BY <2>1 DEF Returned, Spend
  <2>3. /\ pc' \in [Runs -> [Kinds -> PCs]]
        /\ result' \in [Runs -> [Kinds -> Results]]
        /\ ResultIsSet'
    <3>1. CASE \E next \in {"clean", "yield", "cancelled", "failed"} : Goto(r, "run", next)
      BY <2>1, <3>1 DEF Goto, Jump
    <3>2. CASE \E outcome \in {"completed", "failed"} :
                  Jump(r, "run", "record") /\ Hold(r, "run", outcome)
      BY <2>1, <3>2 DEF Jump, Hold
    <3> QED
      BY <2>1, <3>1, <3>2 DEF Returned
  <2> QED
    BY <2>1, <2>2, <2>3 DEF Returned
<1>7. ASSUME NEW r \in Runs, WriteCancelled(r) PROVE Typed'
  BY <1>7 DEF WriteCancelled, SetRow, RemoveWorktree, Goto, Jump
<1>8. ASSUME NEW r \in Runs, CleanStart(r) PROVE Typed'
  BY <1>8 DEF CleanStart, Goto, Jump
<1>9. ASSUME NEW r \in Runs, CleanSession(r) PROVE Typed'
  BY <1>9 DEF CleanSession, RemoveSession, Goto, Jump
<1>10. ASSUME NEW r \in Runs, CleanWorktree(r) PROVE Typed'
  BY <1>10 DEF CleanWorktree, RemoveWorktree, Goto, Jump
<1>11. ASSUME NEW r \in Runs, Flip(r) PROVE Typed'
  <2>1. Flipped(r)
    BY <1>11, FlipMoves
  <2>2. CASE SetRow(r, "running") /\ Goto(r, "resume", "resume")
    BY <2>1, <2>2 DEF Flipped, SetRow, Goto, Jump
  <2>3. CASE UNCHANGED row /\ Goto(r, "resume", "exit")
    BY <2>1, <2>3 DEF Flipped, Goto, Jump
  <2> QED
    BY <2>1, <2>2, <2>3 DEF Flipped
<1>12. ASSUME NEW r \in Runs, Resume(r) PROVE Typed'
  BY <1>12 DEF Resume, Goto, Jump, Gated, End
<1>13. ASSUME NEW r \in Runs, ResumeReturns(r) PROVE Typed'
  <2>1. Returned(r, "resume", {"exit", "mark", "yield", "failed"})
    BY <1>13, ResumeReturnsMoves
  <2>2. budget' \in [Inputs -> Nat]
    BY <2>1 DEF Returned, Spend
  <2>3. /\ pc' \in [Runs -> [Kinds -> PCs]]
        /\ result' \in [Runs -> [Kinds -> Results]]
        /\ ResultIsSet'
    <3>1. CASE \E next \in {"exit", "mark", "yield", "failed"} : Goto(r, "resume", next)
      BY <2>1, <3>1 DEF Goto, Jump
    <3>2. CASE \E outcome \in {"completed", "failed"} :
                  Jump(r, "resume", "record") /\ Hold(r, "resume", outcome)
      BY <2>1, <3>2 DEF Jump, Hold
    <3> QED
      BY <2>1, <3>1, <3>2 DEF Returned
  <2> QED
    BY <2>1, <2>2, <2>3 DEF Returned
<1>14. ASSUME NEW r \in Runs, ResumeCancelled(r) PROVE Typed'
  BY <1>14 DEF ResumeCancelled, SetRowIfActive, SetRow, Goto, Jump
<1>15. ASSUME NEW r \in Runs, NEW k \in Kinds, Yield(r, k) PROVE Typed'
  BY <1>15 DEF Yield, SetRowIfActive, SetRow, Goto, Jump, End
<1>16. ASSUME NEW r \in Runs, NEW k \in Kinds, Record(r, k) PROVE Typed'
  BY <1>16 DEF Record, SetRow, Goto, Jump, End
<1>17. ASSUME NEW r \in Runs, NEW k \in Kinds, Park(r, k) PROVE Typed'
  <2>1. CASE Goto(r, k, "check") /\ UNCHANGED row
    BY <1>17, <2>1 DEF Park, Hold, SetRow, Goto, Jump
  <2>2. CASE SetRow(r, "pending_approval") /\ Jump(r, k, "advance") /\ Hold(r, k, "pending_approval")
    BY <1>17, <2>2 DEF Park, Hold, SetRow, Goto, Jump
  <2> QED
    BY <1>17, <2>1, <2>2 DEF Park, Hold, SetRow, Goto, Jump
<1>18. ASSUME NEW r \in Runs, NEW k \in Kinds, Check(r, k) PROVE Typed'
  BY <1>18 DEF Check, Goto, Jump
<1>19. ASSUME NEW r \in Runs, NEW k \in Kinds, Close(r, k) PROVE Typed'
  BY <1>19 DEF Close, Goto, Jump
<1>20. ASSUME NEW r \in Runs, NEW k \in Kinds, Advance(r, k) PROVE Typed'
  BY <1>20 DEF Advance, Mirror, Goto, Jump, End
<1>21. ASSUME NEW r \in Runs, NEW k \in Kinds, WriteFailed(r, k) PROVE Typed'
  BY <1>21 DEF WriteFailed, SetRowIfActive, SetRow, Goto, Jump, End
<1>22. ASSUME NEW r \in Runs, NEW k \in Kinds, Exit(r, k) PROVE Typed'
  BY <1>22 DEF Exit, Jump, Hold
<1>23. ASSUME NEW r \in Runs, CancelLookup(r) PROVE Typed'
  <2>1. signal' \subseteq Goroutines
    BY <1>23 DEF CancelLookup
  <2>2. cancel' \in [Runs -> {"idle", "lookup", "mark"}]
    BY <1>23 DEF CancelLookup
  <2> QED
    BY <1>23, <2>1, <2>2 DEF CancelLookup
<1>24. ASSUME NEW r \in Runs, CancelMark(r) PROVE Typed'
  BY <1>24 DEF CancelMark, SetRowIfActive, SetRow
<1>25. ASSUME NEW r \in Runs, TakeoverCopies(r) PROVE Typed'
  <2>1. CASE wt[r] = "run" /\ wt' = [wt EXCEPT ![r] = "takeover"]
    BY <1>25, <2>1 DEF TakeoverCopies, TakeoverFails, Spend
  <2>2. CASE TakeoverFails(r) /\ Spend("fault")
    BY <1>25, <2>2 DEF TakeoverCopies, TakeoverFails, Spend
  <2>3. CASE TakeoverFails(r) /\ UNCHANGED budget
    BY <1>25, <2>3 DEF TakeoverCopies, TakeoverFails, Spend
  <2> QED
    BY <1>25, <2>1, <2>2, <2>3 DEF TakeoverCopies, TakeoverFails, Spend
<1>26. ASSUME NEW r \in Runs, TakeoverMaterializes(r) PROVE Typed'
  <2>1. CASE jsonl' = [jsonl EXCEPT ![r] = "takeover"]
    BY <1>26, <2>1 DEF TakeoverMaterializes, TakeoverFails, Spend
  <2>2. CASE TakeoverFails(r) /\ Spend("fault")
    BY <1>26, <2>2 DEF TakeoverMaterializes, TakeoverFails, Spend
  <2>3. CASE TakeoverFails(r) /\ UNCHANGED budget
    BY <1>26, <2>3 DEF TakeoverMaterializes, TakeoverFails, Spend
  <2> QED
    BY <1>26, <2>1, <2>2, <2>3 DEF TakeoverMaterializes, TakeoverFails, Spend
<1>27. ASSUME NEW r \in Runs, TakeoverMarks(r) PROVE Typed'
  <2>1. row' \in [Runs -> Active \cup Ended \cup {"absent"}] /\ claim' \in {"none", "agent", "user"}
    BY <1>27 DEF TakeoverMarks, SetRow
  <2>2. takeover' \in [Runs -> {"idle", "copy", "session", "mark", "abort", "release"}]
    BY <1>27 DEF TakeoverMarks
  <2> QED
    BY <1>27, <2>1, <2>2 DEF TakeoverMarks
<1>28. ASSUME NEW r \in Runs, TakeoverAborts(r) PROVE Typed'
  BY <1>28 DEF TakeoverAborts, RemoveSession, SetRowIfActive, SetRow
<1>29. ASSUME NEW r \in Runs, ReleaseMarks(r) PROVE Typed'
  BY <1>29 DEF ReleaseMarks
<1>30. ASSUME SwipeDelegate PROVE Typed'
  BY <1>30 DEF SwipeDelegate, SwipeStarts, Spend
<1>31. ASSUME SwipeClaim PROVE Typed'
  BY <1>31 DEF SwipeClaim, SwipeStarts, Spend
<1>32. ASSUME SwipeClose PROVE Typed'
  BY <1>32 DEF SwipeClose, SwipeStarts, Spend
<1>33. ASSUME Requeue PROVE Typed'
  BY <1>33 DEF Requeue, SwipeStarts, Spend
<1>34. ASSUME NEW r \in Runs, UserCancels(r) PROVE Typed'
  BY <1>34 DEF UserCancels, Spend
<1>35. ASSUME NEW r \in Runs, Respond(r) PROVE Typed'
  BY <1>35 DEF Respond, Spend, Goto, Jump
<1>36. ASSUME NEW r \in Runs, TakeoverClaims(r) PROVE Typed'
  BY <1>36 DEF TakeoverClaims, Spend
<1>37. ASSUME NEW r \in Runs, Releases(r) PROVE Typed'
  BY <1>37 DEF Releases, Spend
<1>38. ASSUME SwipeCancels PROVE Typed'
  <2>1. CASE UNCHANGED row
    BY <1>38, <2>1 DEF SwipeCancels, SetRow
  <2>2. CASE \E q \in Runs : SetRow(q, "cancelled")
    BY <1>38, <2>2 DEF SwipeCancels, SetRow
  <2> QED
    BY <1>38, <2>1, <2>2 DEF SwipeCancels, SetRow
<1>39. ASSUME NEW r \in Runs, SwipeRuns(r) PROVE Typed'
  <2>1. row' \in [Runs -> Active \cup Ended \cup {"absent"}]
    BY <1>39 DEF SwipeRuns, SetRow
  <2>2. pc' \in [Runs -> [Kinds -> PCs]] /\ UNCHANGED result /\ ResultIsSet'
    BY <1>39 DEF SwipeRuns, Goto, Jump
  <2>3. /\ swipe' = "idle"
        /\ UNCHANGED <<session, path, task, maps, files, cancel, takeover, budget>>
    BY <1>39 DEF SwipeRuns
  <2> QED
    BY <2>1, <2>2, <2>3
<1> HIDE DEF rows, task, maps, files, go, At, Typed, TypeOK, ResultIsSet,
        Goroutines, Kinds, PCs, Results, Active, Ended, Inputs
<1> QED
  BY <1>1, <1>2, <1>3, <1>4, <1>5, <1>6, <1>7, <1>8, <1>9, <1>10, <1>11,
     <1>12, <1>13, <1>14, <1>15, <1>16, <1>17, <1>18, <1>19, <1>20, <1>21,
     <1>22, <1>23, <1>24, <1>25, <1>26, <1>27, <1>28, <1>29, <1>30, <1>31,
     <1>32, <1>33, <1>34, <1>35, <1>36, <1>37, <1>38, <1>39
     DEF Next, UserRequest, SwipeStep, RunStep, ResumeStep, CompletionStep,
         CancelStep, TakeoverStep

-----------------------------------------------------------------------------
(***************************************************************************)
(* Cancel functions.                                                       *)
(***************************************************************************)
\* Only Register and Respond register a function, Respond only when there is
\* none, and only the Exit of its own goroutine forgets it.
LEMMA HandledStep ==
  ASSUME Typed, Handled, Next
  PROVE  Handled'
<1> USE DEF rows, task, maps, files, go, At, Handled, StartsOnce, Early, HandleIsLive,
        Live, Typed, TypeOK, ResultIsSet, Kinds
<1>1. ASSUME NEW r \in Runs, Register(r) PROVE Handled'
  BY <1>1 DEF Register, Goto, Jump
<1>2. ASSUME NEW r \in Runs, SetupWorks(r) PROVE Handled'
  BY <1>2 DEF SetupWorks, SetRow, Mirror, Goto, Jump
<1>3. ASSUME NEW r \in Runs, SetupFails(r) PROVE Handled'
  <2>1. CASE <<r, "run">> \in signal
    BY <1>3, <2>1 DEF SetupFails, SetRow, Mirror, Goto, Jump, Gated, End, Spend
  <2>2. CASE <<r, "run">> \notin signal
    BY <1>3, <2>2 DEF SetupFails, SetRow, Mirror, Goto, Jump, Gated, End, Spend
  <2> QED
    BY <1>3, <2>1, <2>2 DEF SetupFails, SetRow, Mirror, Goto, Jump, Gated, End, Spend
<1>4. ASSUME NEW r \in Runs, Start(r) PROVE Handled'
  BY <1>4 DEF Start, SetRow, Mirror, Goto, Jump, Gated, End
<1>5. ASSUME NEW r \in Runs, AgentSession(r) PROVE Handled'
  BY <1>5 DEF AgentSession
<1>6. ASSUME NEW r \in Runs, RunReturns(r) PROVE Handled'
  <2>1. Returned(r, "run", {"clean", "yield", "cancelled", "failed"})
    BY <1>6, RunReturnsMoves
  <2>2. CASE \E next \in {"clean", "yield", "cancelled", "failed"} : Goto(r, "run", next)
    BY <2>1, <2>2 DEF Returned, Goto, Jump, Spend
  <2>3. CASE \E outcome \in {"completed", "failed"} :
                Jump(r, "run", "record") /\ Hold(r, "run", outcome)
    BY <2>1, <2>3 DEF Returned, Jump, Hold, Spend
  <2> QED
    BY <2>1, <2>2, <2>3 DEF Returned
<1>7. ASSUME NEW r \in Runs, WriteCancelled(r) PROVE Handled'
  BY <1>7 DEF WriteCancelled, SetRow, RemoveWorktree, Goto, Jump
<1>8. ASSUME NEW r \in Runs, CleanStart(r) PROVE Handled'
  BY <1>8 DEF CleanStart, Goto, Jump
<1>9. ASSUME NEW r \in Runs, CleanSession(r) PROVE Handled'
  BY <1>9 DEF CleanSession, RemoveSession, Goto, Jump
<1>10. ASSUME NEW r \in Runs, CleanWorktree(r) PROVE Handled'
  BY <1>10 DEF CleanWorktree, RemoveWorktree, Goto, Jump
<1>11. ASSUME NEW r \in Runs, Flip(r) PROVE Handled'
  <2>1. Flipped(r)
    BY <1>11, FlipMoves
  <2>2. CASE SetRow(r, "running") /\ Goto(r, "resume", "resume")
    BY <2>1, <2>2 DEF Flipped, SetRow, Goto, Jump
  <2>3. CASE UNCHANGED row /\ Goto(r, "resume", "exit")
    BY <2>1, <2>3 DEF Flipped, Goto, Jump
  <2> QED
    BY <2>1, <2>2, <2>3 DEF Flipped
<1>12. ASSUME NEW r \in Runs, Resume(r) PROVE Handled'
  BY <1>12 DEF Resume, Goto, Jump, Gated, End
<1>13. ASSUME NEW r \in Runs, ResumeReturns(r) PROVE Handled'
  <2>1. Returned(r, "resume", {"exit", "mark", "yield", "failed"})
    BY <1>13, ResumeReturnsMoves
  <2>2. CASE \E next \in {"exit", "mark", "yield", "failed"} : Goto(r, "resume", next)
    BY <2>1, <2>2 DEF Returned, Goto, Jump, Spend
  <2>3. CASE \E outcome \in {"completed", "failed"} :
                Jump(r, "resume", "record") /\ Hold(r, "resume", outcome)
    BY <2>1, <2>3 DEF Returned, Jump, Hold, Spend
  <2> QED
    BY <2>1, <2>2, <2>3 DEF Returned
<1>14. ASSUME NEW r \in Runs, ResumeCancelled(r) PROVE Handled'
  BY <1>14 DEF ResumeCancelled, SetRowIfActive, SetRow, Goto, Jump
<1>15. ASSUME NEW r \in Runs, NEW k \in Kinds, Yield(r, k) PROVE Handled'
  BY <1>15 DEF Yield, SetRowIfActive, SetRow, Goto, Jump, End
<1>16. ASSUME NEW r \in Runs, NEW k \in Kinds, Record(r, k) PROVE Handled'
  BY <1>16 DEF Record, SetRow, Goto, Jump, End
<1>17. ASSUME NEW r \in Runs, NEW k \in Kinds, Park(r, k) PROVE Handled'
  <2>1. CASE Goto(r, k, "check") /\ UNCHANGED row
    BY <1>17, <2>1 DEF Park, Hold, SetRow, Goto, Jump
  <2>2. CASE SetRow(r, "pending_approval") /\ Jump(r, k, "advance") /\ Hold(r, k, "pending_approval")
    BY <1>17, <2>2 DEF Park, Hold, SetRow, Goto, Jump
  <2> QED
    BY <1>17, <2>1, <2>2 DEF Park, Hold, SetRow, Goto, Jump
<1>18. ASSUME NEW r \in Runs, NEW k \in Kinds, Check(r, k) PROVE Handled'
  BY <1>18 DEF Check, Goto, Jump
<1>19. ASSUME NEW r \in Runs, NEW k \in Kinds, Close(r, k) PROVE Handled'
  BY <1>19 DEF Close, Goto, Jump
<1>20. ASSUME NEW r \in Runs, NEW k \in Kinds, Advance(r, k) PROVE Handled'
  BY <1>20 DEF Advance, Mirror, Goto, Jump, End
<1>21. ASSUME NEW r \in Runs, NEW k \in Kinds, WriteFailed(r, k) PROVE Handled'
  BY <1>21 DEF WriteFailed, SetRowIfActive, SetRow, Goto, Jump, End
<1>22. ASSUME NEW r \in Runs, NEW k \in Kinds, Exit(r, k) PROVE Handled'
  BY <1>22, RunsAssumption DEF Exit, Jump, Hold
<1>23. ASSUME NEW r \in Runs, CancelLookup(r) PROVE Handled'
  BY <1>23 DEF CancelLookup
<1>24. ASSUME NEW r \in Runs, CancelMark(r) PROVE Handled'
  BY <1>24 DEF CancelMark, SetRowIfActive, SetRow
<1>25. ASSUME NEW r \in Runs, TakeoverCopies(r) PROVE Handled'
  BY <1>25 DEF TakeoverCopies, TakeoverFails, Spend
<1>26. ASSUME NEW r \in Runs, TakeoverMaterializes(r) PROVE Handled'
  BY <1>26 DEF TakeoverMaterializes, TakeoverFails, Spend
<1>27. ASSUME NEW r \in Runs, TakeoverMarks(r) PROVE Handled'
  BY <1>27 DEF TakeoverMarks, SetRow
<1>28. ASSUME NEW r \in Runs, TakeoverAborts(r) PROVE Handled'
  BY <1>28 DEF TakeoverAborts, RemoveSession, SetRowIfActive, SetRow
<1>29. ASSUME NEW r \in Runs, ReleaseMarks(r) PROVE Handled'
  BY <1>29 DEF ReleaseMarks
<1>30. ASSUME SwipeDelegate PROVE Handled'
  BY <1>30 DEF SwipeDelegate, SwipeStarts, Spend
<1>31. ASSUME SwipeClaim PROVE Handled'
  BY <1>31 DEF SwipeClaim, SwipeStarts, Spend
<1>32. ASSUME SwipeClose PROVE Handled'
  BY <1>32 DEF SwipeClose, SwipeStarts, Spend
<1>33. ASSUME Requeue PROVE Handled'
  BY <1>33 DEF Requeue, SwipeStarts, Spend
<1>34. ASSUME NEW r \in Runs, UserCancels(r) PROVE Handled'
  BY <1>34 DEF UserCancels, Spend
<1>35. ASSUME NEW r \in Runs, Respond(r) PROVE Handled'
  BY <1>35, RunsAssumption DEF Respond, Spend, Goto, Jump
<1>36. ASSUME NEW r \in Runs, TakeoverClaims(r) PROVE Handled'
  BY <1>36 DEF TakeoverClaims, Spend
<1>37. ASSUME NEW r \in Runs, Releases(r) PROVE Handled'
  BY <1>37 DEF Releases, Spend
<1>38. ASSUME SwipeCancels PROVE Handled'
  BY <1>38 DEF SwipeCancels, SetRow
<1>39. ASSUME NEW r \in Runs, SwipeRuns(r) PROVE Handled'
  BY <1>39 DEF SwipeRuns, SetRow, Goto, Jump
<1> QED
  BY <1>1, <1>2, <1>3, <1>4, <1>5, <1>6, <1>7, <1>8, <1>9, <1>10, <1>11,
     <1>12, <1>13, <1>14, <1>15, <1>16, <1>17, <1>18, <1>19, <1>20, <1>21,
     <1>22, <1>23, <1>24, <1>25, <1>26, <1>27, <1>28, <1>29, <1>30, <1>31,
     <1>32, <1>33, <1>34, <1>35, <1>36, <1>37, <1>38, <1>39
     DEF Next, UserRequest, SwipeStep, RunStep, ResumeStep, CompletionStep,
         CancelStep, TakeoverStep

-----------------------------------------------------------------------------
(***************************************************************************)
(* Takeovers.                                                              *)
(***************************************************************************)
\* RemoveWorktree and RemoveSession find nothing of a takeover's, and no answer
\* or agent session creates anything under it.
LEMMA HeldStep ==
  ASSUME Typed, Handled, Held, Next
  PROVE  Held'
<1> USE DEF rows, task, maps, files, go, At, Held, TakeoverHolds,
        TakenOverIsResumable, Handled, StartsOnce, Early, Typed, TypeOK, ResultIsSet,
        Kinds, Active
<1>1. ASSUME NEW r \in Runs, Register(r) PROVE Held'
  BY <1>1 DEF Register, Goto, Jump
<1>2. ASSUME NEW r \in Runs, SetupWorks(r) PROVE Held'
  BY <1>2 DEF SetupWorks, SetRow, Mirror, Goto, Jump
<1>3. ASSUME NEW r \in Runs, SetupFails(r) PROVE Held'
  <2>1. CASE <<r, "run">> \in signal
    BY <1>3, <2>1 DEF SetupFails, SetRow, Mirror, Goto, Jump, Gated, End, Spend
  <2>2. CASE <<r, "run">> \notin signal
    BY <1>3, <2>2 DEF SetupFails, SetRow, Mirror, Goto, Jump, Gated, End, Spend
  <2> QED
    BY <1>3, <2>1, <2>2 DEF SetupFails, SetRow, Mirror, Goto, Jump, Gated, End, Spend
<1>4. ASSUME NEW r \in Runs, Start(r) PROVE Held'
  BY <1>4 DEF Start, SetRow, Mirror, Goto, Jump, Gated, End
<1>5. ASSUME NEW r \in Runs, AgentSession(r) PROVE Held'
  BY <1>5 DEF AgentSession
<1>6. ASSUME NEW r \in Runs, RunReturns(r) PROVE Held'
  <2>1. Returned(r, "run", {"clean", "yield", "cancelled", "failed"})
    BY <1>6, RunReturnsMoves
  <2>2. CASE \E next \in {"clean", "yield", "cancelled", "failed"} : Goto(r, "run", next)
    BY <2>1, <2>2 DEF Returned, Goto, Jump, Spend
  <2>3. CASE \E outcome \in {"completed", "failed"} :
                Jump(r, "run", "record") /\ Hold(r, "run", outcome)
    BY <2>1, <2>3 DEF Returned, Jump, Hold, Spend
  <2> QED
    BY <2>1, <2>2, <2>3 DEF Returned
<1>7. ASSUME NEW r \in Runs, WriteCancelled(r) PROVE Held'
  BY <1>7 DEF WriteCancelled, SetRow, RemoveWorktree, Goto, Jump
<1>8. ASSUME NEW r \in Runs, CleanStart(r) PROVE Held'
  BY <1>8 DEF CleanStart, Goto, Jump
<1>9. ASSUME NEW r \in Runs, CleanSession(r) PROVE Held'
  BY <1>9 DEF CleanSession, RemoveSession, Goto, Jump
<1>10. ASSUME NEW r \in Runs, CleanWorktree(r) PROVE Held'
  BY <1>10 DEF CleanWorktree, RemoveWorktree, Goto, Jump
<1>11. ASSUME NEW r \in Runs, Flip(r) PROVE Held'
  <2>1. Flipped(r)
    BY <1>11, FlipMoves
  <2>2. CASE SetRow(r, "running") /\ Goto(r, "resume", "resume")
    BY <2>1, <2>2 DEF Flipped, SetRow, Goto, Jump
  <2>3. CASE UNCHANGED row /\ Goto(r, "resume", "exit")
    BY <2>1, <2>3 DEF Flipped, Goto, Jump
  <2> QED
    BY <2>1, <2>2, <2>3 DEF Flipped
<1>12. ASSUME NEW r \in Runs, Resume(r) PROVE Held'
  BY <1>12 DEF Resume, Goto, Jump, Gated, End
<1>13. ASSUME NEW r \in Runs, ResumeReturns(r) PROVE Held'
  <2>1. Returned(r, "resume", {"exit", "mark", "yield", "failed"})
    BY <1>13, ResumeReturnsMoves
  <2>2. CASE \E next \in {"exit", "mark", "yield", "failed"} : Goto(r, "resume", next)
    BY <2>1, <2>2 DEF Returned, Goto, Jump, Spend
  <2>3. CASE \E outcome \in {"completed", "failed"} :
                Jump(r, "resume", "record") /\ Hold(r, "resume", outcome)
    BY <2>1, <2>3 DEF Returned, Jump, Hold, Spend
  <2> QED
    BY <2>1, <2>2, <2>3 DEF Returned
<1>14. ASSUME NEW r \in Runs, ResumeCancelled(r) PROVE Held'
  BY <1>14 DEF ResumeCancelled, SetRowIfActive, SetRow, Goto, Jump
<1>15. ASSUME NEW r \in Runs, NEW k \in Kinds, Yield(r, k) PROVE Held'
  BY <1>15 DEF Yield, SetRowIfActive, SetRow, Goto, Jump, End
<1>16. ASSUME NEW r \in Runs, NEW k \in Kinds, Record(r, k) PROVE Held'
  BY <1>16 DEF Record, SetRow, Goto, Jump, End
<1>17. ASSUME NEW r \in Runs, NEW k \in Kinds, Park(r, k) PROVE Held'
  <2>1. CASE Goto(r, k, "check") /\ UNCHANGED row
    BY <1>17, <2>1 DEF Park, Hold, SetRow, Goto, Jump
  <2>2. CASE SetRow(r, "pending_approval") /\ Jump(r, k, "advance") /\ Hold(r, k, "pending_approval")
    BY <1>17, <2>2 DEF Park, Hold, SetRow, Goto, Jump
  <2> QED
    BY <1>17, <2>1, <2>2 DEF Park, Hold, SetRow, Goto, Jump
<1>18. ASSUME NEW r \in Runs, NEW k \in Kinds, Check(r, k) PROVE Held'
  BY <1>18 DEF Check, Goto, Jump
<1>19. ASSUME NEW r \in Runs, NEW k \in Kinds, Close(r, k) PROVE Held'
  BY <1>19 DEF Close, Goto, Jump
<1>20. ASSUME NEW r \in Runs, NEW k \in Kinds, Advance(r, k) PROVE Held'
  BY <1>20 DEF Advance, Mirror, Goto, Jump, End
<1>21. ASSUME NEW r \in Runs, NEW k \in Kinds, WriteFailed(r, k) PROVE Held'
  BY <1>21 DEF WriteFailed, SetRowIfActive, SetRow, Goto, Jump, End
<1>22. ASSUME NEW r \in Runs, NEW k \in Kinds, Exit(r, k) PROVE Held'
  BY <1>22 DEF Exit, Jump, Hold
<1>23. ASSUME NEW r \in Runs, CancelLookup(r) PROVE Held'
  BY <1>23 DEF CancelLookup
<1>24. ASSUME NEW r \in Runs, CancelMark(r) PROVE Held'
  BY <1>24 DEF CancelMark, SetRowIfActive, SetRow
<1>25. ASSUME NEW r \in Runs, TakeoverCopies(r) PROVE Held'
  <2>1. CASE wt[r] = "run" /\ wt' = [wt EXCEPT ![r] = "takeover"]
    BY <1>25, <2>1 DEF TakeoverCopies, TakeoverFails, Spend
  <2>2. CASE TakeoverFails(r) /\ Spend("fault")
    BY <1>25, <2>2 DEF TakeoverCopies, TakeoverFails, Spend
  <2>3. CASE TakeoverFails(r) /\ UNCHANGED budget
    BY <1>25, <2>3 DEF TakeoverCopies, TakeoverFails, Spend
  <2> QED
    BY <1>25, <2>1, <2>2, <2>3 DEF TakeoverCopies, TakeoverFails, Spend
<1>26. ASSUME NEW r \in Runs, TakeoverMaterializes(r) PROVE Held'
  <2>1. CASE jsonl' = [jsonl EXCEPT ![r] = "takeover"]
    BY <1>26, <2>1 DEF TakeoverMaterializes, TakeoverFails, Spend
  <2>2. CASE TakeoverFails(r) /\ Spend("fault")
    BY <1>26, <2>2 DEF TakeoverMaterializes, TakeoverFails, Spend
  <2>3. CASE TakeoverFails(r) /\ UNCHANGED budget
    BY <1>26, <2>3 DEF TakeoverMaterializes, TakeoverFails, Spend
  <2> QED
    BY <1>26, <2>1, <2>2, <2>3 DEF TakeoverMaterializes, TakeoverFails, Spend
<1>27. ASSUME NEW r \in Runs, TakeoverMarks(r) PROVE Held'
  BY <1>27 DEF TakeoverMarks, SetRow
<1>28. ASSUME NEW r \in Runs, TakeoverAborts(r) PROVE Held'
  BY <1>28 DEF TakeoverAborts, RemoveSession, SetRowIfActive, SetRow
<1>29. ASSUME NEW r \in Runs, ReleaseMarks(r) PROVE Held'
  BY <1>29 DEF ReleaseMarks
<1>30. ASSUME SwipeDelegate PROVE Held'
  BY <1>30 DEF SwipeDelegate, SwipeStarts, Spend
<1>31. ASSUME SwipeClaim PROVE Held'
  BY <1>31 DEF SwipeClaim, SwipeStarts, Spend
<1>32. ASSUME SwipeClose PROVE Held'
  BY <1>32 DEF SwipeClose, SwipeStarts, Spend
<1>33. ASSUME Requeue PROVE Held'
  BY <1>33 DEF Requeue, SwipeStarts, Spend
<1>34. ASSUME NEW r \in Runs, UserCancels(r) PROVE Held'
  BY <1>34 DEF UserCancels, Spend
<1>35. ASSUME NEW r \in Runs, Respond(r) PROVE Held'
  BY <1>35 DEF Respond, Spend, Goto, Jump
<1>36. ASSUME NEW r \in Runs, TakeoverClaims(r) PROVE Held'
  BY <1>36 DEF TakeoverClaims, Spend
<1>37. ASSUME NEW r \in Runs, Releases(r) PROVE Held'
  BY <1>37 DEF Releases, Spend
<1>38. ASSUME SwipeCancels PROVE Held'
  <2>1. CASE UNCHANGED row
    BY <1>38, <2>1 DEF SwipeCancels, SetRow
  <2>2. CASE \E q \in Runs : SetRow(q, "cancelled")
    BY <1>38, <2>2 DEF SwipeCancels, SetRow
  <2> QED
    BY <1>38, <2>1, <2>2 DEF SwipeCancels, SetRow
<1>39. ASSUME NEW r \in Runs, SwipeRuns(r) PROVE Held'
  BY <1>39 DEF SwipeRuns, SetRow, Goto, Jump
<1> QED
  BY <1>1, <1>2, <1>3, <1>4, <1>5, <1>6, <1>7, <1>8, <1>9, <1>10, <1>11,
     <1>12, <1>13, <1>14, <1>15, <1>16, <1>17, <1>18, <1>19, <1>20, <1>21,
     <1>22, <1>23, <1>24, <1>25, <1>26, <1>27, <1>28, <1>29, <1>30, <1>31,
     <1>32, <1>33, <1>34, <1>35, <1>36, <1>37, <1>38, <1>39
     DEF Next, UserRequest, SwipeStep, RunStep, ResumeStep, CompletionStep,
         CancelStep, TakeoverStep

-----------------------------------------------------------------------------
(***************************************************************************)
(* Worktrees.                                                              *)
(***************************************************************************)
\* A goroutine that leaves a worktree behind left it to a takeover under way,
\* and that takeover ends by moving or removing it.
LEMMA OwnerStep ==
  ASSUME Typed, Handled, Held, WorktreeHasOwner, Next
  PROVE  WorktreeHasOwner'
<1> USE DEF rows, task, maps, files, go, At, WorktreeHasOwner, Held, TakeoverHolds,
        TakenOverIsResumable, Handled, StartsOnce, Early, Typed, TypeOK, Kinds, End
<1>1. ASSUME NEW r \in Runs, Register(r) PROVE WorktreeHasOwner'
  BY <1>1 DEF Register, Goto, Jump
<1>2. ASSUME NEW r \in Runs, SetupWorks(r) PROVE WorktreeHasOwner'
  BY <1>2 DEF SetupWorks, SetRow, Mirror, Goto, Jump
<1>3. ASSUME NEW r \in Runs, SetupFails(r) PROVE WorktreeHasOwner'
  <2>1. CASE <<r, "run">> \in signal
    BY <1>3, <2>1 DEF SetupFails, SetRow, Mirror, Goto, Jump, Gated, End, Spend
  <2>2. CASE <<r, "run">> \notin signal
    BY <1>3, <2>2 DEF SetupFails, SetRow, Mirror, Goto, Jump, Gated, End, Spend
  <2> QED
    BY <1>3, <2>1, <2>2 DEF SetupFails, SetRow, Mirror, Goto, Jump, Gated, End, Spend
<1>4. ASSUME NEW r \in Runs, Start(r) PROVE WorktreeHasOwner'
  BY <1>4 DEF Start, SetRow, Mirror, Goto, Jump, Gated, End
<1>5. ASSUME NEW r \in Runs, AgentSession(r) PROVE WorktreeHasOwner'
  BY <1>5 DEF AgentSession
<1>6. ASSUME NEW r \in Runs, RunReturns(r) PROVE WorktreeHasOwner'
  <2>1. Returned(r, "run", {"clean", "yield", "cancelled", "failed"})
    BY <1>6, RunReturnsMoves
  <2>2. CASE \E next \in {"clean", "yield", "cancelled", "failed"} : Goto(r, "run", next)
    BY <2>1, <2>2 DEF Returned, Goto, Jump, Spend
  <2>3. CASE \E outcome \in {"completed", "failed"} :
                Jump(r, "run", "record") /\ Hold(r, "run", outcome)
    BY <2>1, <2>3 DEF Returned, Jump, Hold, Spend
  <2> QED
    BY <2>1, <2>2, <2>3 DEF Returned
<1>7. ASSUME NEW r \in Runs, WriteCancelled(r) PROVE WorktreeHasOwner'
  BY <1>7 DEF WriteCancelled, SetRow, RemoveWorktree, Goto, Jump
<1>8. ASSUME NEW r \in Runs, CleanStart(r) PROVE WorktreeHasOwner'
  BY <1>8 DEF CleanStart, Goto, Jump
<1>9. ASSUME NEW r \in Runs, CleanSession(r) PROVE WorktreeHasOwner'
  BY <1>9 DEF CleanSession, RemoveSession, Goto, Jump
<1>10. ASSUME NEW r \in Runs, CleanWorktree(r) PROVE WorktreeHasOwner'
  BY <1>10 DEF CleanWorktree, RemoveWorktree, Goto, Jump
<1>11. ASSUME NEW r \in Runs, Flip(r) PROVE WorktreeHasOwner'
  <2>1. Flipped(r)
    BY <1>11, FlipMoves
  <2>2. CASE SetRow(r, "running") /\ Goto(r, "resume", "resume")
    BY <2>1, <2>2 DEF Flipped, SetRow, Goto, Jump
  <2>3. CASE UNCHANGED row /\ Goto(r, "resume", "exit")
    BY <2>1, <2>3 DEF Flipped, Goto, Jump
  <2> QED
    BY <2>1, <2>2, <2>3 DEF Flipped
<1>12. ASSUME NEW r \in Runs, Resume(r) PROVE WorktreeHasOwner'
  BY <1>12 DEF Resume, Goto, Jump, Gated, End
<1>13. ASSUME NEW r \in Runs, ResumeReturns(r) PROVE WorktreeHasOwner'
  <2>1. Returned(r, "resume", {"exit", "mark", "yield", "failed"})
    BY <1>13, ResumeReturnsMoves
  <2>2. CASE \E next \in {"exit", "mark", "yield", "failed"} : Goto(r, "resume", next)
    BY <2>1, <2>2 DEF Returned, Goto, Jump, Spend
  <2>3. CASE \E outcome \in {"completed", "failed"} :
                Jump(r, "resume", "record") /\ Hold(r, "resume", outcome)
    BY <2>1, <2>3 DEF Returned, Jump, Hold, Spend
  <2> QED
    BY <2>1, <2>2, <2>3 DEF Returned
<1>14. ASSUME NEW r \in Runs, ResumeCancelled(r) PROVE WorktreeHasOwner'
  BY <1>14 DEF ResumeCancelled, SetRowIfActive, SetRow, Goto, Jump
<1>15. ASSUME NEW r \in Runs, NEW k \in Kinds, Yield(r, k) PROVE WorktreeHasOwner'
  BY <1>15 DEF Yield, SetRowIfActive, SetRow, Goto, Jump, End
<1>16. ASSUME NEW r \in Runs, NEW k \in Kinds, Record(r, k) PROVE WorktreeHasOwner'
  BY <1>16 DEF Record, SetRow, Goto, Jump, End
<1>17. ASSUME NEW r \in Runs, NEW k \in Kinds, Park(r, k) PROVE WorktreeHasOwner'
  <2>1. CASE Goto(r, k, "check") /\ UNCHANGED row
    BY <1>17, <2>1 DEF Park, Hold, SetRow, Goto, Jump
  <2>2. CASE SetRow(r, "pending_approval") /\ Jump(r, k, "advance") /\ Hold(r, k, "pending_approval")
    BY <1>17, <2>2 DEF Park, Hold, SetRow, Goto, Jump
  <2> QED
    BY <1>17, <2>1, <2>2 DEF Park, Hold, SetRow, Goto, Jump
<1>18. ASSUME NEW r \in Runs, NEW k \in Kinds, Check(r, k) PROVE WorktreeHasOwner'
  BY <1>18 DEF Check, Goto, Jump
<1>19. ASSUME NEW r \in Runs, NEW k \in Kinds, Close(r, k) PROVE WorktreeHasOwner'
  BY <1>19 DEF Close, Goto, Jump
<1>20. ASSUME NEW r \in Runs, NEW k \in Kinds, Advance(r, k) PROVE WorktreeHasOwner'
  BY <1>20 DEF Advance, Mirror, Goto, Jump, End
<1>21. ASSUME NEW r \in Runs, NEW k \in Kinds, WriteFailed(r, k) PROVE WorktreeHasOwner'
  BY <1>21 DEF WriteFailed, SetRowIfActive, SetRow, Goto, Jump, End
<1>22. ASSUME NEW r \in Runs, NEW k \in Kinds, Exit(r, k) PROVE WorktreeHasOwner'
  BY <1>22 DEF Exit, Jump, Hold
<1>23. ASSUME NEW r \in Runs, CancelLookup(r) PROVE WorktreeHasOwner'
  BY <1>23 DEF CancelLookup
<1>24. ASSUME NEW r \in Runs, CancelMark(r) PROVE WorktreeHasOwner'
  BY <1>24 DEF CancelMark, SetRowIfActive, SetRow
<1>25. ASSUME NEW r \in Runs, TakeoverCopies(r) PROVE WorktreeHasOwner'
  <2>1. CASE wt[r] = "run" /\ wt' = [wt EXCEPT ![r] = "takeover"]
    BY <1>25, <2>1 DEF TakeoverCopies, TakeoverFails, Spend
  <2>2. CASE TakeoverFails(r) /\ Spend("fault")
    BY <1>25, <2>2 DEF TakeoverCopies, TakeoverFails, Spend
  <2>3. CASE TakeoverFails(r) /\ UNCHANGED budget
    BY <1>25, <2>3 DEF TakeoverCopies, TakeoverFails, Spend
  <2> QED
    BY <1>25, <2>1, <2>2, <2>3 DEF TakeoverCopies, TakeoverFails, Spend
<1>26. ASSUME NEW r \in Runs, TakeoverMaterializes(r) PROVE WorktreeHasOwner'
  <2>1. CASE jsonl' = [jsonl EXCEPT ![r] = "takeover"]
    BY <1>26, <2>1 DEF TakeoverMaterializes, TakeoverFails, Spend
  <2>2. CASE TakeoverFails(r) /\ Spend("fault")
    BY <1>26, <2>2 DEF TakeoverMaterializes, TakeoverFails, Spend
  <2>3. CASE TakeoverFails(r) /\ UNCHANGED budget
    BY <1>26, <2>3 DEF TakeoverMaterializes, TakeoverFails, Spend
  <2> QED
    BY <1>26, <2>1, <2>2, <2>3 DEF TakeoverMaterializes, TakeoverFails, Spend
<1>27. ASSUME NEW r \in Runs, TakeoverMarks(r) PROVE WorktreeHasOwner'
  BY <1>27 DEF TakeoverMarks, SetRow
<1>28. ASSUME NEW r \in Runs, TakeoverAborts(r) PROVE WorktreeHasOwner'
  BY <1>28 DEF TakeoverAborts, RemoveSession, SetRowIfActive, SetRow
<1>29. ASSUME NEW r \in Runs, ReleaseMarks(r) PROVE WorktreeHasOwner'
  BY <1>29 DEF ReleaseMarks
<1>30. ASSUME SwipeDelegate PROVE WorktreeHasOwner'
  BY <1>30 DEF SwipeDelegate, SwipeStarts, Spend
<1>31. ASSUME SwipeClaim PROVE WorktreeHasOwner'
  BY <1>31 DEF SwipeClaim, SwipeStarts, Spend
<1>32. ASSUME SwipeClose PROVE WorktreeHasOwner'
  BY <1>32 DEF SwipeClose, SwipeStarts, Spend
<1>33. ASSUME Requeue PROVE WorktreeHasOwner'
  BY <1>33 DEF Requeue, SwipeStarts, Spend
<1>34. ASSUME NEW r \in Runs, UserCancels(r) PROVE WorktreeHasOwner'
  BY <1>34 DEF UserCancels, Spend
<1>35. ASSUME NEW r \in Runs, Respond(r) PROVE WorktreeHasOwner'
  BY <1>35 DEF Respond, Spend, Goto, Jump
<1>36. ASSUME NEW r \in Runs, TakeoverClaims(r) PROVE WorktreeHasOwner'
  BY <1>36 DEF TakeoverClaims, Spend
<1>37. ASSUME NEW r \in Runs, Releases(r) PROVE WorktreeHasOwner'
  BY <1>37 DEF Releases, Spend
<1>38. ASSUME SwipeCancels PROVE WorktreeHasOwner'
  BY <1>38 DEF SwipeCancels, SetRow
<1>39. ASSUME NEW r \in Runs, SwipeRuns(r) PROVE WorktreeHasOwner'
  BY <1>39 DEF SwipeRuns, SetRow, Goto, Jump
<1> QED
  BY <1>1, <1>2, <1>3, <1>4, <1>5, <1>6, <1>7, <1>8, <1>9, <1>10, <1>11,
     <1>12, <1>13, <1>14, <1>15, <1>16, <1>17, <1>18, <1>19, <1>20, <1>21,
     <1>22, <1>23, <1>24, <1>25, <1>26, <1>27, <1>28, <1>29, <1>30, <1>31,
     <1>32, <1>33, <1>34, <1>35, <1>36, <1>37, <1>38, <1>39
     DEF Next, UserRequest, SwipeStep, RunStep, ResumeStep, CompletionStep,
         CancelStep, TakeoverStep

-----------------------------------------------------------------------------
(***************************************************************************)
(* The last write of a run's status.                                       *)
(***************************************************************************)
\* A goroutine that a takeover has silenced leaves an active row to it, and
\* the takeover decides that row before it is over.
LEMMA WrittenStep ==
  ASSUME Typed, Handled, Held, Written, Next
  PROVE  Written'
<1> USE DEF rows, task, maps, files, go, At, Written, RowHasWriter, TakenIsDecided,
        Silencing, Active, Held, TakeoverHolds, Handled, StartsOnce, Early, Typed,
        TypeOK, ResultIsSet, Kinds, End
<1>1. ASSUME NEW r \in Runs, Register(r) PROVE Written'
  BY <1>1 DEF Register, Goto, Jump
<1>2. ASSUME NEW r \in Runs, SetupWorks(r) PROVE Written'
  BY <1>2 DEF SetupWorks, SetRow, Mirror, Goto, Jump
<1>3. ASSUME NEW r \in Runs, SetupFails(r) PROVE Written'
  <2>1. CASE <<r, "run">> \in signal
    BY <1>3, <2>1 DEF SetupFails, SetRow, Mirror, Goto, Jump, Gated, End, Spend
  <2>2. CASE <<r, "run">> \notin signal
    BY <1>3, <2>2 DEF SetupFails, SetRow, Mirror, Goto, Jump, Gated, End, Spend
  <2> QED
    BY <1>3, <2>1, <2>2 DEF SetupFails, SetRow, Mirror, Goto, Jump, Gated, End, Spend
<1>4. ASSUME NEW r \in Runs, Start(r) PROVE Written'
  BY <1>4 DEF Start, SetRow, Mirror, Goto, Jump, Gated, End
<1>5. ASSUME NEW r \in Runs, AgentSession(r) PROVE Written'
  BY <1>5 DEF AgentSession
<1>6. ASSUME NEW r \in Runs, RunReturns(r) PROVE Written'
  <2>1. UNCHANGED <<row, taken, takeover>>
    BY <1>6 DEF RunReturns
  <2>2. CASE r \in taken
    BY <1>6, <2>1, <2>2 DEF RunReturns, Goto, Jump
  <2>3. CASE r \notin taken
    <3>1. \E next \in {"yield", "record", "cancelled", "failed"} : Jump(r, "run", next)
      BY <1>6, <2>3, AnsweredMoves DEF RunReturns, Goto
    <3> QED
      BY <1>6, <2>1, <3>1 DEF Jump
  <2> QED
    BY <2>2, <2>3
<1>7. ASSUME NEW r \in Runs, WriteCancelled(r) PROVE Written'
  BY <1>7 DEF WriteCancelled, SetRow, RemoveWorktree, Goto, Jump
<1>8. ASSUME NEW r \in Runs, CleanStart(r) PROVE Written'
  BY <1>8 DEF CleanStart, Goto, Jump
<1>9. ASSUME NEW r \in Runs, CleanSession(r) PROVE Written'
  BY <1>9 DEF CleanSession, RemoveSession, Goto, Jump
<1>10. ASSUME NEW r \in Runs, CleanWorktree(r) PROVE Written'
  BY <1>10 DEF CleanWorktree, RemoveWorktree, Goto, Jump
<1>11. ASSUME NEW r \in Runs, Flip(r) PROVE Written'
  <2>1. UNCHANGED <<taken, takeover>>
    BY <1>11 DEF Flip
  <2>2. CASE row[r] = "awaiting_input"
    BY <1>11, <2>1, <2>2 DEF Flip, SetRow, Goto, Jump
  <2>3. CASE row[r] # "awaiting_input"
    <3>1. UNCHANGED row /\ Jump(r, "resume", "exit")
      BY <1>11, <2>3 DEF Flip, Goto
    <3> QED
      BY <1>11, <2>1, <3>1 DEF Flip, Jump
  <2> QED
    BY <2>2, <2>3
<1>12. ASSUME NEW r \in Runs, Resume(r) PROVE Written'
  BY <1>12 DEF Resume, Goto, Jump, Gated, End
<1>13. ASSUME NEW r \in Runs, ResumeReturns(r) PROVE Written'
  <2>1. UNCHANGED <<row, taken, takeover>>
    BY <1>13 DEF ResumeReturns
  <2>2. CASE r \in taken
    <3>1. \E next \in PCs : Jump(r, "resume", next)
      BY <1>13, ResumeReturnsMoves DEF Returned, Goto, PCs
    <3> QED
      BY <1>13, <2>1, <2>2, <3>1 DEF Jump
  <2>3. CASE r \notin taken
    <3>1. \E next \in {"yield", "record", "mark", "failed"} : Jump(r, "resume", next)
      BY <1>13, <2>3, AnsweredMoves DEF ResumeReturns, Goto, Gated
    <3> QED
      BY <1>13, <2>1, <3>1 DEF Jump
  <2> QED
    BY <2>2, <2>3
<1>14. ASSUME NEW r \in Runs, ResumeCancelled(r) PROVE Written'
  BY <1>14 DEF ResumeCancelled, SetRowIfActive, SetRow, Goto, Jump
<1>15. ASSUME NEW r \in Runs, NEW k \in Kinds, Yield(r, k) PROVE Written'
  BY <1>15 DEF Yield, SetRowIfActive, SetRow, Goto, Jump, End
<1>16. ASSUME NEW r \in Runs, NEW k \in Kinds, Record(r, k) PROVE Written'
  BY <1>16 DEF Record, SetRow, Goto, Jump, End
<1>17. ASSUME NEW r \in Runs, NEW k \in Kinds, Park(r, k) PROVE Written'
  <2>1. CASE Goto(r, k, "check") /\ UNCHANGED row
    BY <1>17, <2>1 DEF Park, Hold, SetRow, Goto, Jump
  <2>2. CASE SetRow(r, "pending_approval") /\ Jump(r, k, "advance") /\ Hold(r, k, "pending_approval")
    BY <1>17, <2>2 DEF Park, Hold, SetRow, Goto, Jump
  <2> QED
    BY <1>17, <2>1, <2>2 DEF Park, Hold, SetRow, Goto, Jump
<1>18. ASSUME NEW r \in Runs, NEW k \in Kinds, Check(r, k) PROVE Written'
  BY <1>18 DEF Check, Goto, Jump
<1>19. ASSUME NEW r \in Runs, NEW k \in Kinds, Close(r, k) PROVE Written'
  BY <1>19 DEF Close, Goto, Jump
<1>20. ASSUME NEW r \in Runs, NEW k \in Kinds, Advance(r, k) PROVE Written'
  BY <1>20 DEF Advance, Mirror, Goto, Jump, End
<1>21. ASSUME NEW r \in Runs, NEW k \in Kinds, WriteFailed(r, k) PROVE Written'
  BY <1>21 DEF WriteFailed, SetRowIfActive, SetRow, Goto, Jump, End
<1>22. ASSUME NEW r \in Runs, NEW k \in Kinds, Exit(r, k) PROVE Written'
  BY <1>22 DEF Exit, Jump, Hold
<1>23. ASSUME NEW r \in Runs, CancelLookup(r) PROVE Written'
  BY <1>23 DEF CancelLookup
<1>24. ASSUME NEW r \in Runs, CancelMark(r) PROVE Written'
  BY <1>24 DEF CancelMark, SetRowIfActive, SetRow
<1>25. ASSUME NEW r \in Runs, TakeoverCopies(r) PROVE Written'
  <2>1. \E next \in {"session", "abort"} : takeover' = [takeover EXCEPT ![r] = next]
    BY <1>25 DEF TakeoverCopies, TakeoverFails
  <2>2. takeover[r] = "copy" /\ UNCHANGED <<row, taken, pc>>
    BY <1>25 DEF TakeoverCopies
  <2> QED
    BY <2>1, <2>2
<1>26. ASSUME NEW r \in Runs, TakeoverMaterializes(r) PROVE Written'
  <2>1. \E next \in {"mark", "abort"} : takeover' = [takeover EXCEPT ![r] = next]
    BY <1>26 DEF TakeoverMaterializes, TakeoverFails
  <2>2. takeover[r] = "session" /\ UNCHANGED <<row, taken, pc>>
    BY <1>26 DEF TakeoverMaterializes
  <2> QED
    BY <2>1, <2>2
<1>27. ASSUME NEW r \in Runs, TakeoverMarks(r) PROVE Written'
  <2>1. \/ row' = [row EXCEPT ![r] = "taken_over"] /\ takeover' = [takeover EXCEPT ![r] = "idle"]
        \/ UNCHANGED row /\ takeover' = [takeover EXCEPT ![r] = "abort"]
    BY <1>27 DEF TakeoverMarks, SetRow
  <2>2. takeover[r] = "mark" /\ UNCHANGED <<taken, pc>>
    BY <1>27 DEF TakeoverMarks
  <2>3. CASE row' = [row EXCEPT ![r] = "taken_over"] /\ takeover' = [takeover EXCEPT ![r] = "idle"]
    BY <2>2, <2>3
  <2>4. CASE UNCHANGED row /\ takeover' = [takeover EXCEPT ![r] = "abort"]
    BY <2>2, <2>4
  <2> QED
    BY <2>1, <2>3, <2>4
<1>28. ASSUME NEW r \in Runs, TakeoverAborts(r) PROVE Written'
  BY <1>28 DEF TakeoverAborts, RemoveSession, SetRowIfActive, SetRow
<1>29. ASSUME NEW r \in Runs, ReleaseMarks(r) PROVE Written'
  BY <1>29 DEF ReleaseMarks
<1>30. ASSUME SwipeDelegate PROVE Written'
  BY <1>30 DEF SwipeDelegate, SwipeStarts, Spend
<1>31. ASSUME SwipeClaim PROVE Written'
  BY <1>31 DEF SwipeClaim, SwipeStarts, Spend
<1>32. ASSUME SwipeClose PROVE Written'
  BY <1>32 DEF SwipeClose, SwipeStarts, Spend
<1>33. ASSUME Requeue PROVE Written'
  BY <1>33 DEF Requeue, SwipeStarts, Spend
<1>34. ASSUME NEW r \in Runs, UserCancels(r) PROVE Written'
  BY <1>34 DEF UserCancels, Spend
<1>35. ASSUME NEW r \in Runs, Respond(r) PROVE Written'
  BY <1>35 DEF Respond, Spend, Goto, Jump
<1>36. ASSUME NEW r \in Runs, TakeoverClaims(r) PROVE Written'
  BY <1>36 DEF TakeoverClaims, Spend
<1>37. ASSUME NEW r \in Runs, Releases(r) PROVE Written'
  BY <1>37 DEF Releases, Spend
<1>38. ASSUME SwipeCancels PROVE Written'
  BY <1>38 DEF SwipeCancels, SetRow
<1>39. ASSUME NEW r \in Runs, SwipeRuns(r) PROVE Written'
  BY <1>39 DEF SwipeRuns, SetRow, Goto, Jump
<1> QED
  BY <1>1, <1>2, <1>3, <1>4, <1>5, <1>6, <1>7, <1>8, <1>9, <1>10, <1>11,
     <1>12, <1>13, <1>14, <1>15, <1>16, <1>17, <1>18, <1>19, <1>20, <1>21,
     <1>22, <1>23, <1>24, <1>25, <1>26, <1>27, <1>28, <1>29, <1>30, <1>31,
     <1>32, <1>33, <1>34, <1>35, <1>36, <1>37, <1>38, <1>39
     DEF Next, UserRequest, SwipeStep, RunStep, ResumeStep, CompletionStep,
         CancelStep, TakeoverStep

-----------------------------------------------------------------------------
(***************************************************************************)
(* The invariant, and what it implies.                                     *)
(***************************************************************************)
\* Initially there is no run.
LEMMA InitHolds == Init => IInv
<1> SUFFICES ASSUME Init PROVE IInv
  OBVIOUS
<1>1. Typed
  BY BudgetAssumption DEF Init, Typed, TypeOK, ResultIsSet, Goroutines, PCs, Results
<1>2. Handled
  BY RunsAssumption DEF Init, Handled, StartsOnce, HandleIsLive, Live, Kinds
<1>3. Held /\ WorktreeHasOwner
  BY DEF Init, Held, TakeoverHolds, TakenOverIsResumable, WorktreeHasOwner
<1>4. Written
  BY DEF Init, Written, RowHasWriter, TakenIsDecided
<1> QED
  BY <1>1, <1>2, <1>3, <1>4 DEF IInv

\* A step that changes nothing.
LEMMA StutterKeeps == ASSUME IInv, UNCHANGED vars PROVE IInv'
<1>1. TypeOK' /\ ResultIsSet'
  BY DEF IInv, Typed, TypeOK, ResultIsSet, vars
<1>2. Handled'
  BY DEF IInv, Handled, StartsOnce, HandleIsLive, Live, vars
<1>3. Held' /\ WorktreeHasOwner'
  BY DEF IInv, Held, TakeoverHolds, TakenOverIsResumable, WorktreeHasOwner, vars
<1>4. Written'
  BY DEF IInv, Written, RowHasWriter, TakenIsDecided, vars
<1> QED
  BY <1>1, <1>2, <1>3, <1>4 DEF IInv, Typed

\* Every reachable state satisfies the five parts together: types, the
\* registered cancel functions, the takeovers' files, the worktrees' owners and
\* the rows' writers.
THEOREM InductiveInvariant == Spec => []IInv
<1>1. Init => IInv
  BY InitHolds
<1>2. IInv /\ [Next]_vars => IInv'
  <2> SUFFICES ASSUME IInv, [Next]_vars PROVE IInv'
    OBVIOUS
  <2>1. CASE Next
    BY <2>1, TypedStep, HandledStep, HeldStep, OwnerStep, WrittenStep DEF IInv
  <2>2. CASE UNCHANGED vars
    BY <2>2, StutterKeeps
  <2> QED
    BY <2>1, <2>2
<1> QED
  BY <1>1, <1>2, PTL DEF Spec

\* Rows, maps, directories and the locals of the goroutines keep their types:
\* for instance no goroutine writes a status that a run cannot have.
THEOREM TypeCorrect == Spec => []TypeOK
<1>1. IInv => TypeOK
  BY DEF IInv, Typed
<1> QED
  BY <1>1, InductiveInvariant, PTL

\* The cancel function that Cancel and Takeover find for a run is the one of
\* its only live goroutine, for any number of answers, cancels and takeovers.
THEOREM HandleIsRight == Spec => []HandleIsLive
<1>1. IInv => HandleIsLive
  BY DEF IInv, Handled
<1> QED
  BY <1>1, InductiveInvariant, PTL

\* The goroutine's deferred cleanup never reaches the files of a takeover that
\* is held, although the two do not wait for each other.
THEOREM TakeoverKeepsFiles == Spec => []TakenOverIsResumable
<1>1. IInv => TakenOverIsResumable
  BY DEF IInv, Held
<1> QED
  BY <1>1, InductiveInvariant, PTL

\* Of the goroutine, the cancellation and the takeover one always removes the
\* worktree, however the takeover ends.
THEOREM NoWorktreeLeft == Spec => []WorktreeReclaimed
<1>1. IInv => WorktreeReclaimed
  BY DEF IInv, WorktreeHasOwner, WorktreeReclaimed, AtRest
<1> QED
  BY <1>1, InductiveInvariant, PTL

\* When goroutine, answer and takeover are all over, the row of a run is not
\* left active: whoever the takenOver flag silences, somebody decides the row.
THEOREM NoRunLeftActive == Spec => []NoPhantomRun
<1>1. IInv => NoPhantomRun
  <2> SUFFICES ASSUME IInv, NEW r \in Runs, AtRest(r),
                      row[r] \in {"initializing", "running"}
               PROVE  FALSE
    BY DEF NoPhantomRun
  <2>1. pc[r]["run"] = "done" /\ pc[r]["resume"] = "none" /\ takeover[r] = "idle"
    BY DEF AtRest
  <2> QED
    BY <2>1 DEF IInv, Written, RowHasWriter, Silencing
<1> QED
  BY <1>1, InductiveInvariant, PTL

-----------------------------------------------------------------------------
(***************************************************************************)
(* What a step may never do to a run that has ended.                       *)
(***************************************************************************)
\* The only steps that write an active status over an ended one are those of
\* the setup, which no run passes whose agent has been heard of.
LEMMA EndedStep ==
  ASSUME Typed, Handled, Next, NEW q \in Runs, row[q] \in Ended, q \in session
  PROVE  row'[q] \in Ended
<1> USE DEF rows, task, At, Ended, Active, SetRow, SetRowIfActive
<1>1. pc[q]["run"] \notin Early
  BY DEF Handled, StartsOnce
<1>2. row \in [Runs -> Active \cup Ended \cup {"absent"}]
  BY DEF Typed, TypeOK
<1>3. ASSUME NEW r \in Runs, RunStep(r) PROVE row'[q] \in Ended
  <2>1. CASE SetupWorks(r) \/ SetupFails(r) \/ Start(r)
    BY <1>1, <1>2, <2>1 DEF SetupWorks, SetupFails, Start, Early
  <2>2. CASE WriteCancelled(r)
    BY <1>2, <2>2 DEF WriteCancelled
  <2>3. CASE \/ Register(r) \/ AgentSession(r) \/ RunReturns(r)
             \/ CleanStart(r) \/ CleanSession(r) \/ CleanWorktree(r)
    BY <2>3 DEF Register, AgentSession, RunReturns, CleanStart, CleanSession, CleanWorktree
  <2> QED
    BY <1>3, <2>1, <2>2, <2>3 DEF RunStep
<1>4. ASSUME NEW r \in Runs, ResumeStep(r) PROVE row'[q] \in Ended
  <2>1. CASE Flip(r)
    BY <1>2, <2>1 DEF Flip
  <2>2. CASE ResumeCancelled(r)
    BY <1>2, <2>2 DEF ResumeCancelled
  <2>3. CASE Resume(r) \/ ResumeReturns(r)
    BY <2>3 DEF Resume, ResumeReturns
  <2> QED
    BY <1>4, <2>1, <2>2, <2>3 DEF ResumeStep
<1>5. ASSUME NEW r \in Runs, NEW k \in Kinds, CompletionStep(r, k) PROVE row'[q] \in Ended
  <2>1. CASE Yield(r, k)
    BY <1>2, <2>1 DEF Yield
  <2>2. CASE Record(r, k)
    <3>1. result[r][k] \in {"completed", "failed"}
      BY <2>2 DEF Record, Typed, ResultIsSet
    <3> QED
      BY <1>2, <2>2, <3>1 DEF Record
  <2>3. CASE Park(r, k)
    BY <1>2, <2>3 DEF Park
  <2>4. CASE WriteFailed(r, k)
    BY <1>2, <2>4 DEF WriteFailed
  <2>5. CASE Check(r, k) \/ Close(r, k) \/ Advance(r, k) \/ Exit(r, k)
    BY <2>5 DEF Check, Close, Advance, Exit
  <2> QED
    BY <1>5, <2>1, <2>2, <2>3, <2>4, <2>5 DEF CompletionStep
<1>6. ASSUME NEW r \in Runs, CancelStep(r) \/ TakeoverStep(r) PROVE row'[q] \in Ended
  <2>1. CASE CancelLookup(r) \/ TakeoverCopies(r) \/ TakeoverMaterializes(r) \/ ReleaseMarks(r)
    BY <2>1 DEF CancelLookup, TakeoverCopies, TakeoverMaterializes, ReleaseMarks
  <2>2. CASE CancelMark(r)
    BY <1>2, <2>2 DEF CancelMark
  <2>3. CASE TakeoverMarks(r)
    BY <1>2, <2>3 DEF TakeoverMarks
  <2>4. CASE TakeoverAborts(r)
    BY <1>2, <2>4 DEF TakeoverAborts
  <2> QED
    BY <1>6, <2>1, <2>2, <2>3, <2>4 DEF CancelStep, TakeoverStep
<1>7. ASSUME SwipeStep PROVE row'[q] \in Ended
  <2>1. CASE SwipeCancels
    BY <1>2, <2>1 DEF SwipeCancels
  <2>2. ASSUME NEW r \in Runs, SwipeRuns(r) PROVE row'[q] \in Ended
    BY <1>2, <2>2 DEF SwipeRuns
  <2> QED
    BY <1>7, <2>1, <2>2 DEF SwipeStep
<1>8. ASSUME UserRequest PROVE row'[q] \in Ended
  BY <1>8 DEF UserRequest, SwipeDelegate, SwipeClaim, SwipeClose, Requeue, UserCancels,
              Respond, TakeoverClaims, Releases
<1> QED
  BY <1>3, <1>4, <1>5, <1>6, <1>7, <1>8 DEF Next

\* A late answer, yield or setup write never revives a run that has ended and
\* whose agent had been heard of.
THEOREM EndedIsForGood == Spec => EndedStaysEnded
<1>1. IInv /\ [Next]_vars =>
        [\A r \in Runs : row[r] \in Ended /\ r \in session => row'[r] \in Ended]_vars
  BY EndedStep DEF IInv
<1> QED
  BY <1>1, InductiveInvariant, PTL DEF Spec, EndedStaysEnded

=============================================================================
