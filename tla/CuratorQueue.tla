----------------------------- MODULE CuratorQueue -----------------------------
(***************************************************************************)
(* The chat of one project with its curator (internal/curator): messages   *)
(* sent by handlers, the session goroutine that answers them one by one,   *)
(* the cancel and reset buttons, the deletion of the project, and the      *)
(* settings changes (PATCH) that the agent must be told of: each is queued *)
(* in curator_pending_context with the value it replaced, claimed by the   *)
(* next turn, and finalized or reverted with it.                           *)
(*                                                                         *)
(* One setting stands for the three that are queued; a session of the      *)
(* agent is a number, given by the agent when a turn resumes none.         *)
(***************************************************************************)
EXTENDS Integers, Sequences, FiniteSets, FiniteSetsExt

CONSTANTS Requests,  \* messages, numbered in the order their rows are created
          Values,    \* what the setting may be
          Goroutines,\* session goroutines, in the order they are started
          Depth,     \* sessionQueueDepth
          Budget,    \* how many inputs of each kind a behaviour has
          Variety    \* how many of the kinds one behaviour mixes

Inputs == {"patch", "cancel", "reset", "delete", "fault", "crash"}
Sessions == 0 .. Cardinality(Requests) + 1

ASSUME CuratorAssumption ==
  /\ IsFiniteSet(Requests) /\ IsFiniteSet(Goroutines)
  /\ Requests = 1 .. Cardinality(Requests)
  /\ Goroutines = 1 .. Cardinality(Goroutines)
  /\ Depth \in Nat \ {0}
  /\ Budget \in [Inputs -> Nat] /\ Variety \in Nat
  /\ 0 \notin Values /\ Values # {}

VARIABLES
  project,  \* whether the projects row exists
  value,    \* the setting
  sid,      \* projects.curator_session_id, 0 for NULL
  req,      \* curator_requests.status
  pend,     \* curator_pending_context: session, baseline, consuming request or 0
  known,    \* what a session was told in turns that ended done; 0: no session
  current,  \* Curator.sessions of the project, 0 for none
  queue,    \* the channel of each goroutine
  wpc,      \* where each goroutine is
  item,     \* the request it dispatches
  snap,     \* the project as ConsumePendingContext read it
  outcome,  \* the status it is about to write
  killed,   \* goroutines whose message context was cancelled
  stopped,  \* goroutines whose session context was cancelled
  sender,   \* where the handler of each message is: its place, its goroutine
  cancel,   \* where handleCuratorCancel is, its request, whether that was running
  patch,    \* where handleProjectUpdate is, the project it read, the new value
  del,      \* where handleProjectDelete is, the goroutine it stops
  lapses,   \* kinds of disagreement this behaviour has met
  budget

rows == <<project, value, sid, req, pend>>
runtime == <<current, queue, wpc, item, snap, outcome, killed, stopped>>
handlers == <<sender, cancel, patch, del>>
vars == <<rows, known, runtime, handlers, lapses, budget>>

Ended == {"done", "failed", "cancelled"}
Active == {"queued", "running"}
NoProject == [value |-> 0, sid |-> 0]
Idle == [pc |-> "idle", r |-> 0, running |-> FALSE]

\* A project that has never been chatted with, or one with a session.
Init ==
  /\ project = TRUE
  /\ value = CHOOSE v \in Values : TRUE
  /\ sid \in {0, 1}
  /\ req = [r \in Requests |-> "absent"]
  /\ pend = {}
  /\ known = [s \in Sessions |-> IF s = 1 /\ sid = 1 THEN value ELSE 0]
  /\ current = 0
  /\ queue = [g \in Goroutines |-> <<>>]
  /\ wpc = [g \in Goroutines |-> "unborn"]
  /\ item = [g \in Goroutines |-> 0]
  /\ snap = [g \in Goroutines |-> NoProject]
  /\ outcome = [g \in Goroutines |-> "none"]
  /\ killed = {}
  /\ stopped = {}
  /\ sender = [r \in Requests |-> [pc |-> "idle", g |-> 0]]
  /\ cancel = Idle
  /\ patch = [pc |-> "idle", before |-> NoProject, after |-> 0]
  /\ del = [pc |-> "idle", g |-> 0]
  /\ lapses = {}
  /\ budget = Budget

Used(b) == {i \in Inputs : b[i] < Budget[i]}
Spend(input) ==
  /\ budget[input] > 0
  /\ budget' = [budget EXCEPT ![input] = @ - 1]
  /\ Cardinality(Used(budget')) <= Variety
Goto(g, pc) == wpc' = [wpc EXCEPT ![g] = pc]
\* The two updates of curator_requests: guarded by the status.
Closed(r, status) ==
  [req EXCEPT ![r] = IF @ \in Active THEN status ELSE @]
\* Mutant: inFlightCancel is set once the row is running.
ArmedLate(g) == wpc[g] \notin {"unborn", "idle", "begin", "mark", "consume", "gone"}

\* inFlightCancel is set.
Armed(g) == wpc[g] \notin {"unborn", "idle", "begin", "gone"}
Signalled(g) == g \in killed \cup stopped

-----------------------------------------------------------------------------
(***************************************************************************)
(* handleCuratorSend and SendMessage.                                      *)
(***************************************************************************)
CreateRequest(r) ==
  /\ sender[r].pc = "idle"
  /\ req[r] = "absent" /\ \A q \in Requests : q < r => req[q] # "absent"
  /\ project
  /\ req' = [req EXCEPT ![r] = "queued"]
  /\ sender' = [sender EXCEPT ![r].pc = "session"]
  /\ UNCHANGED <<project, value, sid, pend, known, runtime, cancel, patch, del, lapses, budget>>

\* Mutant: a goroutine for every message.
StartAlways(r) ==
  /\ sender[r].pc = "session"
  /\ \E g \in Goroutines :
       /\ wpc[g] = "unborn" /\ \A h \in Goroutines : h < g => wpc[h] # "unborn"
       /\ Goto(g, "idle")
       /\ current' = g
       /\ sender' = [sender EXCEPT ![r] = [pc |-> "send", g |-> g]]
  /\ UNCHANGED <<rows, known, queue, item, snap, outcome, killed, stopped,
                 cancel, patch, del, lapses, budget>>

\* getOrStartSession, under Curator.mu.
GetOrStart(r) ==
  /\ sender[r].pc = "session"
  /\ \E g \in Goroutines :
       /\ \/ g = current /\ UNCHANGED wpc
          \/ /\ current = 0
             /\ wpc[g] = "unborn" /\ \A h \in Goroutines : h < g => wpc[h] # "unborn"
             /\ Goto(g, "idle")
       /\ current' = g
       /\ sender' = [sender EXCEPT ![r] = [pc |-> "send", g |-> g]]
  /\ UNCHANGED <<rows, known, queue, item, snap, outcome, killed, stopped,
                 cancel, patch, del, lapses, budget>>

\* The send never blocks: a full queue fails the row.
Enqueue(r) ==
  LET g == sender[r].g
  IN  /\ sender[r].pc = "send"
      /\ IF Len(queue[g]) < Depth
         THEN queue' = [queue EXCEPT ![g] = Append(@, r)] /\ UNCHANGED req
         ELSE req' = Closed(r, "failed") /\ UNCHANGED queue
      /\ sender' = [sender EXCEPT ![r].pc = "end"]
      /\ UNCHANGED <<project, value, sid, pend, known, current, wpc, item, snap, outcome,
                     killed, stopped, cancel, patch, del, lapses, budget>>

-----------------------------------------------------------------------------
(***************************************************************************)
(* projectSession.run and dispatch.                                        *)
(***************************************************************************)
Take(g) ==
  /\ wpc[g] = "idle"
  /\ queue[g] # <<>>
  /\ item' = [item EXCEPT ![g] = Head(queue[g])]
  /\ queue' = [queue EXCEPT ![g] = Tail(@)]
  /\ Goto(g, "begin")
  /\ UNCHANGED <<rows, known, current, snap, outcome, killed, stopped, handlers, lapses, budget>>

Exit(g) ==
  /\ wpc[g] = "idle"
  /\ g \in stopped
  /\ Goto(g, "gone")
  /\ UNCHANGED <<rows, known, current, queue, item, snap, outcome, killed, stopped,
                 handlers, lapses, budget>>

Return(g) ==
  /\ Goto(g, "idle")
  /\ item' = [item EXCEPT ![g] = 0]
  /\ snap' = [snap EXCEPT ![g] = NoProject]
  /\ outcome' = [outcome EXCEPT ![g] = "none"]
  /\ killed' = killed \ {g}

EndWith(g, status) == Goto(g, "write") /\ outcome' = [outcome EXCEPT ![g] = status]

\* The message context is registered before the row is marked running.
Begin(g) ==
  /\ wpc[g] = "begin"
  /\ IF g \in stopped THEN EndWith(g, "cancelled") ELSE Goto(g, "mark") /\ UNCHANGED outcome
  /\ killed' = killed \ {g}
  /\ UNCHANGED <<rows, known, current, queue, item, snap, stopped, handlers, lapses, budget>>

\* Mutant: the update does not look at the status.
MarkAnyway(g) ==
  /\ wpc[g] = "mark"
  /\ req' = [req EXCEPT ![item[g]] = "running"]
  /\ Goto(g, "consume")
  /\ UNCHANGED <<project, value, sid, pend, known, current, queue, item, snap, outcome, killed,
                 stopped, handlers, lapses, budget>>

\* MarkRequestRunning: a row that is no longer queued is skipped.
MarkRunning(g) ==
  /\ wpc[g] = "mark"
  /\ IF req[item[g]] = "queued"
     THEN /\ req' = [req EXCEPT ![item[g]] = "running"]
          /\ Goto(g, "consume")
          /\ UNCHANGED <<item, snap, outcome, killed>>
     ELSE Return(g) /\ UNCHANGED req
  /\ UNCHANGED <<project, value, sid, pend, known, current, queue, stopped, handlers,
                 lapses, budget>>

\* ConsumePendingContext claims the rows of the session and reads the project
\* in one transaction.
Consume(g) ==
  /\ wpc[g] = "consume"
  /\ \/ Signalled(g) /\ EndWith(g, "cancelled") /\ UNCHANGED <<pend, snap>>
     \/ ~project /\ EndWith(g, "failed") /\ UNCHANGED <<pend, snap>>
     \/ /\ ~Signalled(g) /\ project
        /\ pend' = {IF p.sid = sid /\ p.by = 0 THEN [p EXCEPT !.by = item[g]] ELSE p : p \in pend}
        /\ snap' = [snap EXCEPT ![g] = [value |-> value, sid |-> sid]]
        /\ Goto(g, "spawn")
        /\ UNCHANGED outcome
  /\ lapses' = lapses \cup
       (IF patch.pc = "queue" /\ patch.before.value # patch.after THEN {"split"} ELSE {})
  /\ UNCHANGED <<project, value, sid, req, known, current, queue, item, killed, stopped,
                 handlers, budget>>

\* materializePinnedRepos may take seconds; then the agent is started.
Spawn(g) ==
  /\ wpc[g] = "spawn"
  /\ \/ Signalled(g) /\ EndWith(g, "cancelled") /\ UNCHANGED budget
     \/ ~Signalled(g) /\ EndWith(g, "failed") /\ Spend("fault")
     \/ ~Signalled(g) /\ Goto(g, "agent") /\ UNCHANGED <<outcome, budget>>
  /\ UNCHANGED <<rows, known, current, queue, item, snap, killed, stopped, handlers, lapses>>

\* requestSink.OnSession: the id of the session the agent resumed or created.
OnSession(g) ==
  /\ wpc[g] = "agent"
  /\ LET new == Min({s \in Sessions \ {0} : known[s] = 0})
         s == IF snap[g].sid = 0 THEN new ELSE snap[g].sid
     IN  /\ known' = [known EXCEPT ![s] = IF @ = 0 THEN snap[g].value ELSE @]
         /\ snap' = [snap EXCEPT ![g].sid = s]
         /\ sid' = IF project THEN s ELSE sid
         /\ lapses' = lapses \cup
              (IF project /\ sid # s /\ (snap[g].sid # 0 \/ req[item[g]] = "deleted")
               THEN {"late session"} ELSE {})
  /\ Goto(g, "talk")
  /\ UNCHANGED <<project, value, req, pend, current, queue, item, outcome, killed, stopped,
                 handlers, budget>>

\* Mutant: the canceller is left to write the row.
AgentReturnsQuietly(g) ==
  /\ wpc[g] \in {"agent", "talk"}
  /\ \/ Signalled(g) /\ Goto(g, "idle") /\ UNCHANGED <<outcome, budget>>
     \/ ~Signalled(g) /\ EndWith(g, "failed") /\ Spend("fault")
     \/ ~Signalled(g) /\ wpc[g] = "talk" /\ EndWith(g, "done") /\ UNCHANGED budget
  /\ UNCHANGED <<rows, known, current, queue, item, snap, killed, stopped, handlers, lapses>>

\* agentproc.Run returns; a signal that arrives after this look is too late.
AgentReturns(g) ==
  /\ wpc[g] \in {"agent", "talk"}
  /\ \/ Signalled(g) /\ EndWith(g, "cancelled") /\ UNCHANGED budget
     \/ ~Signalled(g) /\ EndWith(g, "failed") /\ Spend("fault")
     \/ ~Signalled(g) /\ wpc[g] = "talk" /\ EndWith(g, "done") /\ UNCHANGED budget
  /\ UNCHANGED <<rows, known, current, queue, item, snap, killed, stopped, handlers, lapses>>

\* The note lists a claimed row whose baseline is not the value of the turn.
Told(g) == \E p \in pend : p.by = item[g] /\ p.base # snap[g].value

\* Mutant: whatever the row says, a turn that ran retires its rows.
WriteLenient(g) ==
  /\ wpc[g] = "write"
  /\ req' = Closed(item[g], outcome[g])
  /\ known' = [known EXCEPT ![snap[g].sid] =
                 IF outcome[g] = "done" /\ req[item[g]] \in Active /\ Told(g) THEN snap[g].value ELSE @]
  /\ Goto(g, IF outcome[g] = "done" THEN "finalize" ELSE "revert")
  /\ UNCHANGED <<project, value, sid, pend, current, queue, item, snap, outcome,
                 killed, stopped, handlers, lapses, budget>>

\* markCancelled, failRequest or CompleteRequest: done only if it flipped.
Write(g) ==
  LET flipped == req[item[g]] \in Active
      absorbed == outcome[g] = "done" /\ flipped
  IN  /\ wpc[g] = "write"
      /\ req' = Closed(item[g], outcome[g])
      /\ known' = [known EXCEPT ![snap[g].sid] = IF absorbed /\ Told(g) THEN snap[g].value ELSE @]
      /\ Goto(g, IF absorbed THEN "finalize" ELSE "revert")
      /\ UNCHANGED <<project, value, sid, pend, current, queue, item, snap, outcome,
                     killed, stopped, handlers, lapses, budget>>

\* FinalizePendingContext.
Finalize(g) ==
  /\ wpc[g] = "finalize"
  /\ pend' = {p \in pend : p.by # item[g]}
  /\ Return(g)
  /\ UNCHANGED <<project, value, sid, req, known, current, queue, stopped, handlers, lapses, budget>>

\* Mutant: a row queued during the turn makes the claimed one superfluous.
RevertToNewest(g) ==
  /\ wpc[g] = "revert"
  /\ LET mine == {p \in pend : p.by = item[g]}
         newer == {p \in pend : p.by = 0 /\ \E q \in mine : q.sid = p.sid}
     IN  pend' = (pend \ mine) \cup
                 (IF newer = {} THEN {[p EXCEPT !.by = 0] : p \in mine} ELSE {})
  /\ Return(g)
  /\ UNCHANGED <<project, value, sid, req, known, current, queue, stopped, handlers, lapses, budget>>

\* RevertPendingContext: a row queued during the turn gives way to the claimed
\* one, whose baseline is older.
Revert(g) ==
  /\ wpc[g] = "revert"
  /\ LET mine == {p \in pend : p.by = item[g]}
         newer == {p \in pend : p.by = 0 /\ \E q \in mine : q.sid = p.sid}
     IN  pend' = (pend \ (mine \cup newer)) \cup {[p EXCEPT !.by = 0] : p \in mine}
  /\ Return(g)
  /\ UNCHANGED <<project, value, sid, req, known, current, queue, stopped, handlers, lapses, budget>>

-----------------------------------------------------------------------------
(***************************************************************************)
(* handleCuratorCancel and handleCuratorReset.                             *)
(***************************************************************************)
\* InFlightCuratorRequestForProject: the running row, else the oldest queued.
InFlight ==
  LET running == {r \in Requests : req[r] = "running"}
      queued == {r \in Requests : req[r] = "queued"}
  IN  IF running # {} THEN Min(running) ELSE IF queued # {} THEN Min(queued) ELSE 0

CancelReads ==
  /\ cancel.pc = "idle"
  /\ InFlight # 0
  /\ Spend("cancel")
  /\ cancel' = [pc |-> "fire", r |-> InFlight, running |-> req[InFlight] = "running"]
  /\ UNCHANGED <<rows, known, runtime, sender, patch, del, lapses>>

\* Curator.Cancel: whatever is in flight is killed.
CancelFires ==
  /\ cancel.pc = "fire"
  /\ killed' = killed \cup {g \in Goroutines : g = current /\ Armed(g)}
  /\ cancel' = [cancel EXCEPT !.pc = "mark"]
  /\ UNCHANGED <<rows, known, current, queue, wpc, item, snap, outcome, stopped,
                 sender, patch, del, lapses, budget>>

CancelMarks ==
  /\ cancel.pc = "mark"
  /\ req' = Closed(cancel.r, "cancelled")
  /\ cancel' = Idle
  /\ UNCHANGED <<project, value, sid, pend, known, runtime, sender, patch, del, lapses, budget>>

\* ResetCuratorForProject, one transaction: refused while a row is active.
Reset ==
  /\ project
  /\ Spend("reset")
  /\ \A r \in Requests : req[r] \notin Active
  /\ sid' = 0
  /\ pend' = {}
  /\ req' = [r \in Requests |-> IF req[r] = "absent" THEN "absent" ELSE "deleted"]
  /\ UNCHANGED <<project, value, known, runtime, handlers, lapses>>

-----------------------------------------------------------------------------
(***************************************************************************)
(* handleProjectUpdate and handleProjectDelete, under the project's mutex. *)
(***************************************************************************)
PatchReads ==
  /\ patch.pc = "idle" /\ del.pc = "idle"
  /\ project
  /\ Spend("patch")
  /\ \E v \in Values :
       patch' = [pc |-> "update", before |-> [value |-> value, sid |-> sid], after |-> v]
  /\ UNCHANGED <<rows, known, runtime, sender, cancel, del, lapses>>

\* The update writes the whole row, the session id it read included.
PatchUpdates ==
  LET stale == sid # patch.before.sid
      first == /\ patch.before.sid = 0 /\ patch.before.value # patch.after
               /\ \E g \in Goroutines : wpc[g] \in {"spawn", "agent"} /\ snap[g].sid = 0
  IN  /\ patch.pc = "update"
      /\ value' = patch.after
      /\ sid' = patch.before.sid
      /\ patch' = [patch EXCEPT !.pc = IF patch.before.sid = 0 THEN "idle" ELSE "queue"]
      /\ lapses' = lapses \cup (IF stale THEN {"stale update"} ELSE {})
                          \cup (IF first THEN {"first turn"} ELSE {})
      /\ UNCHANGED <<project, req, pend, known, runtime, sender, cancel, del, budget>>

\* queuePendingContextChanges, a transaction of its own: the earliest baseline
\* of a session is kept.
PatchQueues ==
  LET row == [sid |-> patch.before.sid, base |-> patch.before.value, by |-> 0]
      taken == \E p \in pend : p.by = 0 /\ p.sid = row.sid
  IN  /\ patch.pc = "queue"
      /\ pend' = IF patch.before.value = patch.after \/ taken THEN pend ELSE pend \cup {row}
      /\ patch' = [patch EXCEPT !.pc = "idle"]
      /\ UNCHANGED <<project, value, sid, req, known, runtime, sender, cancel, del, lapses, budget>>

\* When that transaction fails the change is saved, and nobody is told of it.
QueueFails ==
  /\ patch.pc = "queue"
  /\ Spend("fault")
  /\ patch' = [patch EXCEPT !.pc = "idle"]
  /\ lapses' = lapses \cup (IF patch.before.value # patch.after THEN {"untold"} ELSE {})
  /\ UNCHANGED <<rows, known, runtime, sender, cancel, del>>

\* CancelProject takes the session out of the map ...
DeleteTakes ==
  /\ del.pc = "idle" /\ patch.pc = "idle"
  /\ project
  /\ Spend("delete")
  /\ del' = [pc |-> IF current = 0 THEN "sweep" ELSE "stop", g |-> current]
  /\ current' = 0
  /\ UNCHANGED <<rows, known, queue, wpc, item, snap, outcome, killed, stopped,
                 sender, cancel, patch, lapses>>

\* ... stops it, marks the request in flight and waits for the goroutine ...
DeleteStops ==
  /\ del.pc = "stop"
  /\ stopped' = stopped \cup {del.g}
  /\ req' = IF Armed(del.g) THEN Closed(item[del.g], "cancelled") ELSE req
  /\ del' = [del EXCEPT !.pc = "wait"]
  /\ UNCHANGED <<project, value, sid, pend, known, current, queue, wpc, item, snap, outcome,
                 killed, sender, cancel, patch, lapses, budget>>

DeleteWaits ==
  /\ del.pc = "wait"
  /\ wpc[del.g] = "gone"
  /\ del' = [del EXCEPT !.pc = "sweep"]
  /\ UNCHANGED <<rows, known, runtime, sender, cancel, patch, lapses, budget>>

\* ... and cancels the queued rows; then the project goes, and all its rows.
DeleteSweeps ==
  /\ del.pc = "sweep"
  /\ req' = [r \in Requests |-> IF req[r] = "queued" THEN "cancelled" ELSE req[r]]
  /\ del' = [del EXCEPT !.pc = "row"]
  /\ UNCHANGED <<project, value, sid, pend, known, runtime, sender, cancel, patch, lapses, budget>>

DeleteRow ==
  /\ del.pc = "row"
  /\ project' = FALSE
  /\ req' = [r \in Requests |-> IF req[r] = "absent" THEN "absent" ELSE "deleted"]
  /\ pend' = {}
  /\ del' = [del EXCEPT !.pc = "end"]
  /\ UNCHANGED <<value, sid, known, runtime, sender, cancel, patch, lapses, budget>>

\* The process dies; startup cancels the rows that are not terminal, and no
\* more: what they have claimed stays claimed.
Crash ==
  /\ Spend("crash")
  /\ req' = [r \in Requests |-> IF req[r] \in Active THEN "cancelled" ELSE req[r]]
  /\ current' = 0
  /\ queue' = [g \in Goroutines |-> <<>>]
  /\ wpc' = [g \in Goroutines |-> IF wpc[g] = "unborn" THEN "unborn" ELSE "gone"]
  /\ item' = [g \in Goroutines |-> 0]
  /\ snap' = [g \in Goroutines |-> NoProject]
  /\ outcome' = [g \in Goroutines |-> "none"]
  /\ killed' = {} /\ stopped' = {}
  /\ sender' = [r \in Requests |-> IF sender[r].pc = "idle" THEN sender[r] ELSE [pc |-> "end", g |-> 0]]
  /\ cancel' = Idle
  /\ patch' = [pc |-> "idle", before |-> NoProject, after |-> 0]
  /\ del' = [pc |-> "idle", g |-> 0]
  /\ lapses' = lapses \cup {"crash"}
  /\ UNCHANGED <<project, value, sid, pend, known>>

-----------------------------------------------------------------------------
SendStep(r) == GetOrStart(r) \/ Enqueue(r)

Dispatch(g) ==
  \/ Take(g)
  \/ Begin(g)
  \/ MarkRunning(g)
  \/ Consume(g)
  \/ Spawn(g)
  \/ OnSession(g)
  \/ AgentReturns(g)
  \/ Write(g)
  \/ Finalize(g)
  \/ Revert(g)
  \/ Exit(g)

CancelStep == CancelFires \/ CancelMarks
PatchStep == PatchUpdates \/ PatchQueues \/ QueueFails
DeleteStep == DeleteStops \/ DeleteWaits \/ DeleteSweeps \/ DeleteRow

Next ==
  \/ \E r \in Requests : CreateRequest(r) \/ SendStep(r)
  \/ \E g \in Goroutines : Dispatch(g)
  \/ CancelReads \/ CancelStep
  \/ Reset
  \/ PatchReads \/ PatchStep
  \/ DeleteTakes \/ DeleteStep
  \/ Crash

\* Handlers and goroutines are scheduled; the agent ends, by itself or killed.
Fairness ==
  /\ \A r \in Requests : WF_vars(SendStep(r))
  /\ \A g \in Goroutines : WF_vars(Dispatch(g))
  /\ WF_vars(CancelStep) /\ WF_vars(PatchStep) /\ WF_vars(DeleteStep)

Spec == Init /\ [][Next]_vars
FairSpec == Spec /\ Fairness

-----------------------------------------------------------------------------
(***************************************************************************)
(* Properties.                                                             *)
(***************************************************************************)
TypeOK ==
  /\ project \in BOOLEAN /\ value \in Values /\ sid \in Sessions
  /\ req \in [Requests -> Ended \cup Active \cup {"absent", "deleted"}]
  /\ pend \subseteq [sid : Sessions, base : Values, by : Requests \cup {0}]
  /\ known \in [Sessions -> Values \cup {0}]
  /\ current \in Goroutines \cup {0}
  /\ \A g \in Goroutines : queue[g] \in Seq(Requests) /\ Len(queue[g]) <= Depth
  /\ wpc \in [Goroutines -> {"unborn", "idle", "begin", "mark", "consume", "spawn", "agent",
                             "talk", "write", "finalize", "revert", "gone"}]
  /\ item \in [Goroutines -> Requests \cup {0}]
  /\ snap \in [Goroutines -> [value : Values \cup {0}, sid : Sessions]]
  /\ outcome \in [Goroutines -> Ended \cup {"none"}]
  /\ killed \cup stopped \subseteq Goroutines
  /\ sender \in [Requests -> [pc : {"idle", "session", "send", "end"}, g : Goroutines \cup {0}]]
  /\ cancel \in [pc : {"idle", "fire", "mark"}, r : Requests \cup {0}, running : BOOLEAN]
  /\ patch.pc \in {"idle", "update", "queue"}
  /\ del \in [pc : {"idle", "stop", "wait", "sweep", "row", "end"}, g : Goroutines \cup {0}]
  /\ budget \in [Inputs -> Nat]

Talking(g) == wpc[g] \in {"agent", "talk"}

\* From the row that is marked running to the update that ends it.
Turn == {"consume", "spawn", "agent", "talk", "write"}

\* One agent at a time works in the project's directory, however messages and
\* cancels arrive (session.go, run); the deletion of the project excepted,
\* which forgets a goroutine before it has ended.
OneAgent ==
  project /\ del.pc = "idle" => Cardinality({g \in Goroutines : Talking(g)}) <= 1

\* A cancel that found its request running reaches the goroutine that runs it:
\* by the time a row can be seen running its handle is armed (session.go,
\* "Cancel ordering").
CancelOfRunning ==
  cancel.pc = "mark" /\ cancel.running /\ del.pc = "idle" =>
    \A g \in Goroutines : item[g] = cancel.r /\ Talking(g) => Signalled(g)

\* A value of the setting the session was not told of is queued, with the
\* value the session knows as its baseline, or claimed by a turn that still
\* has to end (session.go, "Two-phase consume"; RevertPendingContext).
DeltaKept ==
  project /\ del.pc = "idle" /\ patch.pc = "idle" /\ sid # 0 /\ value # known[sid] =>
    \E p \in pend : /\ p.sid = sid
                    /\ p.by # 0 => \E g \in Goroutines : item[g] = p.by

\* The same, in behaviours without the lapses listed in the README.
DeltaKeptWithoutLapse == lapses = {} => DeltaKept

\* What a baseline says was known is what the session knows, so that a change
\* taken back is suppressed only if the session never heard of it.
BaselineIsKnown ==
  lapses = {} /\ sid # 0 /\ del.pc = "idle" =>
    \A p \in pend : p.sid = sid /\ p.by = 0 /\ (\A q \in pend : q.sid = sid => q.by = 0)
                      => p.base = known[sid]

\* The rows, handlers and channels as the abstract chat: the line is what the
\* goroutine of the map has in its channel, after the message it has taken out
\* and not yet marked running.
Phase == IF ~project THEN "closed" ELSE IF del.pc = "idle" THEN "open" ELSE "closing"
AtDoor == {r \in Requests : sender[r].pc \in {"session", "send"}}
Line ==
  IF Phase = "open" /\ current # 0
  THEN (IF wpc[current] \in {"begin", "mark"} THEN <<item[current]>> ELSE <<>>) \o queue[current]
  ELSE <<>>

TheChat == INSTANCE Chat WITH
             Messages <- Requests, Room <- Depth,
             status <- req, phase <- Phase, door <- AtDoor, line <- Line

\* Every step of handlers, goroutines, deletion and startup is a step of the
\* chat: messages are begun in the order they were let in, one at a time, one
\* that was cancelled while it waited is never begun, and one that has ended
\* keeps its status (session.go, run and dispatch).
ImplementsChat == TheChat!Spec

\* No message is queued that nobody will read: it is in the channel of the
\* goroutine in the map, or its handler has still to send it (curator.go,
\* SendMessage; a goroutine never leaves its channel behind).
QueuedIsRead == TheChat!NoneForgotten

\* A message the user sees running is worked on: a goroutine has it in hand and
\* has yet to write how its turn ended, whatever was cancelled, reset or failed;
\* unless the project is being deleted it is the one a cancel reaches
\* (session.go, dispatch).
RunningIsWorkedOn ==
  \A r \in Requests : req[r] = "running" =>
    \E g \in Goroutines : /\ item[g] = r /\ wpc[g] \in Turn
                          /\ project /\ del.pc = "idle" => g = current

\* Every message is answered, refused or deleted in the end: none stays queued
\* in a channel nobody reads (curator.go, SendMessage).
RequestEnds ==
  \A r \in Requests : req[r] \in Active ~> req[r] \notin Active
=============================================================================
