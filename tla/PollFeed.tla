------------------------------- MODULE PollFeed -------------------------------
(***************************************************************************)
(* How a change of a pull request reaches the board: the poll cycles that  *)
(* compare GitHub with the stored snapshot (internal/tracker, run by       *)
(* internal/poller), the bus (internal/eventbus), and the router           *)
(* (internal/routing) that opens, bumps and closes tasks and entities.     *)
(*                                                                         *)
(* One pull request stands for all of them, and one kind of task, the one  *)
(* of a review request: an event opens it and another closes it.           *)
(***************************************************************************)
EXTENDS Naturals, Sequences, FiniteSets, Functions

CONSTANTS Loops,     \* polling loops; a restart starts another one
          First,     \* the loop main starts
          Capacity,  \* of the channel of the router's subscription
          Followed,  \* whether searches other than review-requested find the PR
          Budget,    \* how many inputs of each kind a behaviour has
          Total      \* how many inputs in all

Inputs == {"world", "user", "fault", "crash", "restart"}

ASSUME PollFeedAssumption ==
  /\ First \in Loops /\ IsFiniteSet(Loops)
  /\ Capacity \in Nat \ {0}
  /\ Followed \in BOOLEAN
  /\ Budget \in [Inputs -> Nat] /\ Total \in Nat

VARIABLES
  pr,       \* the pull request on GitHub
  entity,   \* entities.state, or "none"
  snap,     \* entities.snapshot_json
  task,     \* the task of the request: "none", "open" or "over"
  loop,     \* where each polling loop is
  stopped,  \* loops whose stop channel is closed
  teamless, \* loops that were started without a list of the user's teams
  fresh,    \* what the discovery of the cycle found
  prev,     \* the snapshot the cycle compares with
  curr,     \* what its refresh fetched
  bus,      \* events in the router's channel
  cascade,  \* whether the router has closed the entity and not yet its task
  answered, \* whether the pending review request reached the board
  lapses,   \* kinds of loss this behaviour has met
  budget

rows == <<entity, snap, task>>
cycles == <<loop, stopped, teamless, fresh, prev, curr>>
vars == <<pr, rows, cycles, bus, cascade, answered, lapses, budget>>

NoSnap == [open |-> FALSE, asked |-> FALSE, at |-> 0, checks |-> FALSE]
Times == 1 .. Budget["world"] + 1
Spend(input) ==
  /\ budget[input] > 0
  /\ budget' = [budget EXCEPT ![input] = @ - 1]
  /\ SumFunction(Budget) - SumFunction(budget) < Total
Goto(l, pc) == loop' = [loop EXCEPT ![l] = pc]
Lost(kind, when) == IF when THEN {kind} ELSE {}
\* A request stored with a state that is over is not new when the pull request
\* is reopened.
Buried(image) == Lost("buried", image.asked /\ ~image.open)
\* The end of a cycle, with its variables forgotten: the select of a stopped
\* loop returns (that a tick pending at the same time may win it is left out).
EndCycle(l) ==
  /\ Goto(l, IF l \in stopped THEN "off" ELSE "idle")
  /\ stopped' = stopped \ {l}
  /\ teamless' = IF l \in stopped THEN teamless \ {l} ELSE teamless
  /\ fresh' = [fresh EXCEPT ![l] = NoSnap]
  /\ prev' = [prev EXCEPT ![l] = NoSnap]
  /\ curr' = [curr EXCEPT ![l] = NoSnap]

\* main starts one loop.
OneLoop == [l \in Loops |-> IF l = First THEN "start" ELSE "off"]
Nothing == [l \in Loops |-> NoSnap]

\* The pull request is there before the first poll, in any state.
Init ==
  /\ pr \in [open : BOOLEAN, asked : BOOLEAN, at : {1}]
  /\ entity = "none" /\ snap = NoSnap /\ task = "none"
  /\ loop = OneLoop /\ stopped = {} /\ teamless = {}
  /\ fresh = Nothing /\ prev = Nothing /\ curr = Nothing
  /\ bus = <<>> /\ cascade = FALSE
  /\ answered = FALSE
  /\ lapses = {}
  /\ budget = Budget

-----------------------------------------------------------------------------
(***************************************************************************)
(* Bus.Publish: an event that finds the channel full is dropped.           *)
(***************************************************************************)
Publish(events) ==
  bus' = IF Len(bus) + Len(events) <= Capacity THEN bus \o events
         ELSE SubSeq(bus \o events, 1, Capacity)
Dropped(events) == Lost("drop", Len(bus) + Len(events) > Capacity)

-----------------------------------------------------------------------------
(***************************************************************************)
(* startGitHub, which reads the user's teams once, and the cycles of       *)
(* RefreshGitHub.                                                          *)
(***************************************************************************)
Start(l) ==
  /\ loop[l] = "start"
  /\ Goto(l, "idle")
  /\ UNCHANGED <<pr, rows, stopped, teamless, fresh, prev, curr, bus, cascade, answered, lapses,
                 budget>>

\* The read fails; the list is also nil for a user who is in no team.
StartsTeamless(l) ==
  /\ loop[l] = "start"
  /\ Spend("fault")
  /\ teamless' = teamless \cup {l}
  /\ Goto(l, "idle")
  /\ UNCHANGED <<pr, rows, stopped, fresh, prev, curr, bus, cascade, answered, lapses>>

Pulled(checks) == [open |-> pr.open, asked |-> pr.asked, at |-> pr.at, checks |-> checks]

\* The searches, which do not fetch check runs; a failed one finds nothing.
Discover(l) ==
  /\ loop[l] = "idle"
  /\ IF Followed \/ (pr.open /\ pr.asked)
       THEN fresh' = [fresh EXCEPT ![l] = Pulled(FALSE)] /\ Goto(l, "register")
       ELSE UNCHANGED fresh /\ Goto(l, "list")
  /\ UNCHANGED <<pr, rows, stopped, teamless, prev, curr, bus, cascade, answered, lapses, budget>>

DiscoverFails(l) ==
  /\ loop[l] = "idle"
  /\ Spend("fault")
  /\ Goto(l, "list")
  /\ UNCHANGED <<pr, rows, stopped, teamless, fresh, prev, curr, bus, cascade, answered, lapses>>

\* FindOrCreate, and Reactivate for a closed entity found open.
Register(l) ==
  /\ loop[l] = "register"
  /\ entity' = IF entity = "none" \/ fresh[l].open THEN "active" ELSE entity
  /\ Goto(l, IF entity = "none" THEN "seed" ELSE "list")
  /\ UNCHANGED <<pr, snap, task, stopped, teamless, fresh, prev, curr, bus, cascade, answered,
                 lapses, budget>>

\* The row is not created, or not reactivated, and the cycle goes on.
RegisterFails(l) ==
  /\ loop[l] = "register"
  /\ Spend("fault")
  /\ Goto(l, "list")
  /\ UNCHANGED <<pr, rows, stopped, teamless, fresh, prev, curr, bus, cascade, answered, lapses>>

\* A snapshot that is not the one the cycle compared with, or stored, itself.
Overlap(mine) == Lost("overlap", snap \notin {NoSnap, mine})

\* The first snapshot of a new entity.
Seed(l) ==
  /\ loop[l] = "seed"
  /\ snap' = fresh[l]
  /\ lapses' = lapses \cup Overlap(NoSnap) \cup Buried(fresh[l])
  /\ Goto(l, "settle")
  /\ UNCHANGED <<pr, entity, task, stopped, teamless, fresh, prev, curr, bus, cascade, answered,
                 budget>>

\* Without it the entity has no node id, and is never refreshed.
SeedFails(l) ==
  /\ loop[l] = "seed"
  /\ Spend("fault")
  /\ lapses' = lapses \cup {"unseeded"}
  /\ Goto(l, "settle")
  /\ UNCHANGED <<pr, rows, stopped, teamless, fresh, prev, curr, bus, cascade, answered>>

\* Mutant: without the close of an entity that was over when it was found.
SettleLeavesOpen(l) ==
  /\ loop[l] = "settle"
  /\ LET events == IF fresh[l].open /\ fresh[l].asked THEN <<"asked">> ELSE <<>>
     IN  /\ Publish(events)
         /\ lapses' = lapses \cup Dropped(events) \cup Overlap(fresh[l])
  /\ Goto(l, "list")
  /\ UNCHANGED <<pr, rows, stopped, teamless, fresh, prev, curr, cascade, answered, budget>>

\* A new entity that is over is closed at once, one that waits for the
\* user's review is announced.
Settle(l) ==
  /\ loop[l] = "settle"
  /\ entity' = IF fresh[l].open THEN entity ELSE "closed"
  /\ LET events == IF fresh[l].open /\ fresh[l].asked THEN <<"asked">> ELSE <<>>
     IN  /\ Publish(events)
         /\ lapses' = lapses \cup Dropped(events) \cup Overlap(fresh[l])
  /\ Goto(l, "list")
  /\ UNCHANGED <<pr, snap, task, stopped, teamless, fresh, prev, curr, cascade, answered, budget>>

\* MarkClosed fails.
SettleFails(l) ==
  /\ loop[l] = "settle" /\ ~fresh[l].open
  /\ Spend("fault")
  /\ lapses' = lapses \cup {"unclosed"}
  /\ Goto(l, "list")
  /\ UNCHANGED <<pr, rows, stopped, teamless, fresh, prev, curr, bus, cascade, answered>>

\* ListActive leaves out a closed entity, the loop after it one without a
\* node id.
NothingToRefresh(l) ==
  /\ loop[l] = "list"
  /\ entity # "active" \/ snap = NoSnap
  /\ EndCycle(l)
  /\ UNCHANGED <<pr, rows, bus, cascade, answered, lapses, budget>>

\* shouldSkipRefresh.  Whether a check is in flight, or the snapshot too old,
\* is left open: a pull request that may be skipped may also be refreshed.
Quiet(l) == snap.open /\ fresh[l] # NoSnap /\ snap.at = fresh[l].at /\ snap.checks

\* Mutant: without the reconciliation.
SkipSilently(l) ==
  /\ loop[l] = "list"
  /\ entity = "active" /\ snap # NoSnap
  /\ Quiet(l)
  /\ EndCycle(l)
  /\ UNCHANGED <<pr, rows, bus, cascade, answered, lapses, budget>>

\* A skipped pull request is not compared; a task that outlived its request
\* is reported instead, by a loop that has a list of teams.
Skip(l) ==
  /\ loop[l] = "list"
  /\ entity = "active" /\ snap # NoSnap
  /\ Quiet(l)
  /\ LET events == IF l \notin teamless /\ ~snap.asked /\ task = "open"
                  THEN <<"unasked">> ELSE <<>>
     IN  Publish(events) /\ lapses' = lapses \cup Dropped(events)
  /\ EndCycle(l)
  /\ UNCHANGED <<pr, rows, cascade, answered, budget>>

List(l) ==
  /\ loop[l] = "list"
  /\ entity = "active" /\ snap # NoSnap
  /\ prev' = [prev EXCEPT ![l] = snap]
  /\ fresh' = [fresh EXCEPT ![l] = NoSnap]
  /\ Goto(l, "refresh")
  /\ UNCHANGED <<pr, rows, stopped, teamless, curr, bus, cascade, answered, lapses, budget>>

\* RefreshPRs; the check runs of a pull request that was over are not fetched.
Refresh(l) ==
  /\ loop[l] = "refresh"
  /\ curr' = [curr EXCEPT ![l] = Pulled(prev[l].open)]
  /\ Goto(l, "save")
  /\ UNCHANGED <<pr, rows, stopped, teamless, fresh, prev, bus, cascade, answered, lapses, budget>>

\* The entities or the tasks of a skipped one cannot be read, or GitHub does not
\* answer for this pull request.  An entity that was reactivated keeps its old
\* snapshot until a later cycle.
CycleFails(l) ==
  /\ loop[l] \in {"list", "refresh"}
  /\ Spend("fault")
  /\ EndCycle(l)
  /\ lapses' = lapses \cup Lost("cut", entity = "active" /\ ~snap.open)
  /\ UNCHANGED <<pr, rows, bus, cascade, answered>>

\* Mutant: the request is compared only while the pull request is open.
DiffOpenOnly(before, after) ==
  IF before.open /\ ~after.open THEN <<"closed">>
  ELSE IF after.asked /\ ~before.asked /\ before.open THEN <<"asked">>
  ELSE IF before.asked /\ ~after.asked THEN <<"unasked">> ELSE <<>>

\* DiffPRSnapshots, of the state and of the review request.
DiffPRSnapshots(before, after) ==
  (IF before.open /\ ~after.open THEN <<"closed">> ELSE <<>>)
  \o (IF after.asked /\ ~before.asked THEN <<"asked">> ELSE <<>>)
  \o (IF before.asked /\ ~after.asked THEN <<"unasked">> ELSE <<>>)

\* An event that will close the entity is on its way.
Closing == \/ "closed" \in Range(bus)
           \/ \E l \in Loops : loop[l] = "publish" /\ prev[l].open /\ ~curr[l].open

\* UpdateSnapshot.  It may overwrite the snapshot of another cycle; and
\* between two closed snapshots there is no difference to report, even if the
\* entity has been reactivated in between.
Save(l) ==
  /\ loop[l] = "save"
  /\ snap' = curr[l]
  /\ Goto(l, "publish")
  /\ lapses' = lapses \cup Lost("overlap", snap # prev[l]) \cup Buried(curr[l])
       \cup Lost("reclosed", ~prev[l].open /\ ~curr[l].open /\ entity = "active" /\ ~Closing)
  /\ UNCHANGED <<pr, entity, task, stopped, teamless, fresh, prev, curr, bus, cascade, answered,
                 budget>>

\* Its error is logged: the events are published, and the next cycle compares
\* with the older snapshot again.
SaveFails(l) ==
  /\ loop[l] = "save"
  /\ Spend("fault")
  /\ Goto(l, "publish")
  /\ lapses' = lapses \cup {"unsaved"}
  /\ UNCHANGED <<pr, rows, stopped, teamless, fresh, prev, curr, bus, cascade, answered>>

\* The events are published after the snapshot that contains their change.
PublishEvents(l) ==
  /\ loop[l] = "publish"
  /\ LET events == DiffPRSnapshots(prev[l], curr[l])
     IN  Publish(events) /\ lapses' = lapses \cup Dropped(events)
  /\ EndCycle(l)
  /\ UNCHANGED <<pr, rows, cascade, answered, budget>>

\* RestartGitHub closes the stop channel of the loop and starts another one
\* without waiting for the cycle in flight; between cycles it changes nothing.
RestartGitHub(l, next) ==
  /\ Spend("restart")
  /\ loop[l] \notin {"off", "start", "idle"} /\ l \notin stopped
  /\ loop[next] = "off"
  /\ Goto(next, "start")
  /\ stopped' = stopped \cup {l}
  /\ UNCHANGED <<pr, rows, teamless, fresh, prev, curr, bus, cascade, answered, lapses>>

-----------------------------------------------------------------------------
(***************************************************************************)
(* Router.HandleEvent, one event at a time.                                *)
(***************************************************************************)
Handles(event) ==
  /\ ~cascade /\ bus # <<>> /\ Head(bus) = event
  /\ bus' = Tail(bus)

\* An event of an entity that is closed is recorded and nothing else.
HandleLate ==
  /\ \E event \in {"asked", "unasked"} :
       /\ Handles(event)
       /\ lapses' = lapses \cup Lost("late", event = "asked")
  /\ entity # "active"
  /\ UNCHANGED <<pr, rows, cycles, cascade, answered, budget>>

\* Mutant: without the guard on a closed entity.
HandleAskedAlways ==
  /\ Handles("asked")
  /\ task' = "open"
  /\ answered' = TRUE
  /\ UNCHANGED <<pr, entity, snap, cycles, cascade, lapses, budget>>

\* The handlers of review_requested match every pull request; the open task
\* is bumped, or another row inserted.
HandleAsked ==
  /\ Handles("asked") /\ entity = "active"
  /\ task' = "open"
  /\ answered' = TRUE
  /\ UNCHANGED <<pr, entity, snap, cycles, cascade, lapses, budget>>

\* closeCheckReviewRequestRemoved.
HandleUnasked ==
  /\ Handles("unasked") /\ entity = "active"
  /\ task' = IF task = "open" THEN "over" ELSE task
  /\ UNCHANGED <<pr, entity, snap, cycles, cascade, answered, lapses, budget>>

\* RecordSystem, GetSystem or what an event does first fails: the event is
\* logged and gone.
HandlingFails ==
  /\ Spend("fault")
  /\ \E event \in {"asked", "unasked", "closed"} : Handles(event)
  /\ lapses' = lapses \cup {"swallowed"}
  /\ UNCHANGED <<pr, rows, cycles, cascade, answered>>

\* closeEntity: the entity, and then its tasks.
HandleClosed ==
  /\ Handles("closed")
  /\ entity' = IF entity = "active" THEN "closed" ELSE entity
  /\ cascade' = TRUE
  /\ UNCHANGED <<pr, snap, task, cycles, answered, lapses, budget>>

CloseAllForEntity ==
  /\ cascade
  /\ task' = IF task = "open" THEN "over" ELSE task
  /\ cascade' = FALSE
  /\ UNCHANGED <<pr, entity, snap, cycles, bus, answered, lapses, budget>>

CloseAllFails ==
  /\ cascade
  /\ Spend("fault")
  /\ cascade' = FALSE
  /\ lapses' = lapses \cup {"left open"}
  /\ UNCHANGED <<pr, rows, cycles, bus, answered>>

-----------------------------------------------------------------------------
(***************************************************************************)
(* The user, from a card that may be out of date: UndoLastSwipe,           *)
(* RequeueTask and SnoozeTask do not look at the status they change.       *)
(***************************************************************************)
UserDismisses ==
  /\ Spend("user")
  /\ task = "open"
  /\ task' = "over"
  /\ UNCHANGED <<pr, entity, snap, cycles, bus, cascade, answered, lapses>>

UserRevives ==
  /\ Spend("user")
  /\ task = "over"
  /\ task' = "open"
  /\ lapses' = lapses \cup {"revived"}
  /\ UNCHANGED <<pr, entity, snap, cycles, bus, cascade, answered>>

-----------------------------------------------------------------------------
(***************************************************************************)
(* GitHub and the process.                                                 *)
(***************************************************************************)
\* A withdrawal that is in no snapshot does not make the next request new.
ChangePR(open, asked) ==
  /\ Spend("world")
  /\ open # pr.open \/ asked # pr.asked
  /\ pr' = [open |-> open, asked |-> asked, at |-> pr.at + 1]
  /\ answered' = (answered /\ (snap.asked \/ ~asked \/ pr.asked))
  /\ UNCHANGED <<rows, cycles, bus, cascade, lapses>>

\* Only the database survives.
Crash ==
  /\ Spend("crash")
  /\ loop' = OneLoop /\ stopped' = {} /\ teamless' = {}
  /\ fresh' = Nothing /\ prev' = Nothing /\ curr' = Nothing
  /\ bus' = <<>> /\ cascade' = FALSE
  /\ lapses' = lapses \cup {"crash"}
  /\ UNCHANGED <<pr, rows, answered>>

-----------------------------------------------------------------------------
Cycle(l) ==
  \/ Start(l) \/ Discover(l) \/ Register(l) \/ Seed(l) \/ Settle(l) \/ NothingToRefresh(l)
  \/ Skip(l) \/ List(l) \/ Refresh(l) \/ Save(l) \/ PublishEvents(l)

HandleEvent ==
  HandleLate \/ HandleAsked \/ HandleUnasked \/ HandleClosed \/ CloseAllForEntity

Disturbance ==
  \/ \E l \in Loops : \/ StartsTeamless(l) \/ DiscoverFails(l) \/ RegisterFails(l)
                       \/ SeedFails(l) \/ SettleFails(l) \/ CycleFails(l) \/ SaveFails(l)
  \/ HandlingFails \/ CloseAllFails
  \/ \E l, next \in Loops : RestartGitHub(l, next)
  \/ UserDismisses \/ UserRevives \/ Crash
  \/ \E open, asked \in BOOLEAN : ChangePR(open, asked)

Next ==
  \/ \E l \in Loops : Cycle(l)
  \/ HandleEvent
  \/ Disturbance

Spec == Init /\ [][Next]_vars

\* Poll cycles follow each other for ever and the router handles its events;
\* and a pull request on which nothing happens is skipped at some time: its
\* checks end, and it is polled more often than the floor of the gate.
Fairness ==
  /\ \A l \in Loops : WF_vars(Cycle(l)) /\ SF_vars(Skip(l))
  /\ WF_vars(HandleEvent)

FairSpec == Spec /\ Fairness

-----------------------------------------------------------------------------
TypeOK ==
  /\ pr \in [open : BOOLEAN, asked : BOOLEAN, at : Times]
  /\ entity \in {"none", "active", "closed"} /\ task \in {"none", "open", "over"}
  /\ {snap} \cup Range(fresh) \cup Range(prev) \cup Range(curr) \subseteq
       {NoSnap} \cup [open : BOOLEAN, asked : BOOLEAN, at : Times, checks : BOOLEAN]
  /\ loop \in [Loops -> {"off", "start", "idle", "register", "seed", "settle", "list", "refresh",
                         "save", "publish"}]
  /\ stopped \subseteq {l \in Loops : loop[l] \notin {"off", "start", "idle"}}
  /\ teamless \subseteq {l \in Loops : loop[l] \notin {"off", "start"}}
  /\ bus \in Seq({"asked", "unasked", "closed"}) /\ Len(bus) <= Capacity
  /\ cascade \in BOOLEAN /\ answered \in BOOLEAN
  /\ lapses \subseteq {"drop", "overlap", "reclosed", "late", "revived", "crash", "buried",
                     "swallowed", "left open", "unseeded", "unclosed", "unsaved", "cut"}

\* A closed entity has no open task, except while its close is cascading
\* (router.go:1133-1153): unless a user revived one, a crash or an error cut the
\* cascade, or a cycle of a stopped loop closed what another had found open again
\* and stored, or could not store.
ClosedEntityIsQuiet ==
  \/ lapses \cap {"revived", "crash", "left open", "overlap", "unsaved"} # {}
  \/ entity = "closed" => task # "open" \/ cascade

\* What a stored snapshot says of the state is known to the router or on its
\* way: an active entity whose snapshot is closed waits for its close event,
\* or for the end of the cycle that found it open again.  The errors that leave
\* it so are named: a close that could not be written or handled, and a cycle
\* that could not refresh or store what it found.
SnapshotIsExplained ==
  \/ lapses \cap {"drop", "crash", "reclosed", "overlap"} # {}
  \/ lapses \cap {"swallowed", "unclosed", "unsaved", "cut"} # {}
  \/ entity = "active" /\ snap # NoSnap /\ ~snap.open =>
       \/ Closing
       \/ \E l \in Loops : \/ loop[l] = "settle"
                           \/ loop[l] = "list" /\ fresh[l].open
                           \/ loop[l] \in {"refresh", "save"}

\* The snapshot that contains a request is stored before its event is published
\* (tracker.go:303), and no later cycle will publish it: a stored request has
\* been announced, or its event is in the channel, or a cycle has it in hand;
\* but for six losses, the last an event that the router failed to handle.
RequestIsCarried ==
  lapses \cap {"drop", "crash", "buried", "late", "overlap", "swallowed"} = {} /\ snap.asked =>
    \/ answered \/ "asked" \in Range(bus)
    \/ \E l \in Loops : \/ loop[l] = "settle" /\ fresh[l].open /\ fresh[l].asked
                        \/ loop[l] = "publish" /\ curr[l].asked /\ ~prev[l].asked

-----------------------------------------------------------------------------
\* What the board says of a pull request that stays as it is comes to agree
\* with GitHub: it is closed with its task, or its pending request has been
\* announced.  The event that says so is published once, so nothing that loses
\* it may have happened (bus.go:162; tracker.go:303, the snapshot first); a
\* cycle that fails to list, refresh or reactivate loses nothing.
Losses == {"drop", "crash", "reclosed", "buried", "late", "overlap", "revived",
           "swallowed", "left open", "unseeded", "unclosed", "unsaved"}
BoardCatchesUp ==
  []<>(\/ lapses \cap Losses # {}
       \/ IF ~pr.open THEN entity # "active" /\ task # "open" ELSE pr.asked => answered)

\* A request that stays withdrawn loses its task, whatever was dropped or lost
\* on the way: a quiet pull request is reconciled (tracker.go:192-220), by a
\* loop that has a list of the user's teams, if its first snapshot was stored.
WithdrawalReachesBoard ==
  []<>(\/ pr.open /\ ~pr.asked /\ Followed => task # "open"
       \/ teamless # {} \/ "unseeded" \in lapses)
=============================================================================
