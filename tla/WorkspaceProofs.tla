---------------------------- MODULE WorkspaceProofs ----------------------------
(***************************************************************************)
(* Theorems about Workspace, for any number of processes and any budget.   *)
(***************************************************************************)
EXTENDS Workspace, TLAPS

Calm == lapses \cap {"late drop", "slow"} = {}
Tidy == lapses \cap {"late drop", "slow", "left"} = {}

\* Processes live while the agent works.
LateIdle == run # "working" => \A c \in Calls : pc[c] = "idle"

\* Who makes the worktree holds a young row.
HolderIsYoung == Calm => \A c \in Calls : Creating(c) => row = Row(c)

\* A row that was read stays, as old as it was at least, until it is deleted.
ReadersKnow ==
  \A c \in Calls : pc[c] \in {"stat", "drop"} =>
    /\ pc[c] = "drop" => seen[c].old
    /\ ~seen[c].gone => row # NoRow /\ (seen[c].old => row.old)

\* What a process can tell of the directory.
Places ==
  Tidy => \A c \in Calls :
    /\ pc[c] \in {"create", "prune", "release"} => tree = "none"
    /\ pc[c] = "add" => tree = "half"
    /\ pc[c] \in {"exclude", "rollback"} => tree = "made"
    /\ pc[c] = "drop" /\ ~seen[c].gone => tree = "none"

Reserved == Tidy /\ run \in {"working", "list"} /\ tree # "none" => row # NoRow

\* What the clone has registered, as long as nothing went wrong.
Registered ==
  lapses = {} =>
    /\ tree = "none" /\ branch # "free" => \E c \in Calls : pc[c] = "prune"
    /\ tree = "half" => \E c \in Calls : pc[c] = "add"
    /\ branch = "locked" => tree = "half"

\* What the cleanup has done, as long as nothing went wrong.
Ending ==
  lapses = {} =>
    /\ run \in {"delete", "root", "over"} => tree = "none" /\ branch = "free"
    /\ run \in {"root", "over"} => row = NoRow

IInv ==
  /\ TypeOK
  /\ LateIdle /\ HolderIsYoung /\ ReadersKnow /\ Places /\ Reserved /\ Registered /\ Ending

-----------------------------------------------------------------------------
\* The budget's inputs are the three of its assumption.
LEMMA SpendType ==
  ASSUME NEW input \in Inputs, budget \in [Inputs -> Nat], Spend(input)
  PROVE  budget' \in [Inputs -> Nat]
BY DEF Spend, Inputs

\* The row of a process is a row.
LEMMA RowIsRow ==
  ASSUME NEW c \in Calls
  PROVE  /\ Row(c) # NoRow /\ ~Row(c).old /\ Row(c).by = c
         /\ Row(c) \in [by : Calls, old : BOOLEAN]
         /\ \A d \in Calls : Row(c) = Row(d) => c = d
BY WorkspaceAssumption DEF Row, NoRow

\* The row is that of a process, or there is none.
LEMMA RowType ==
  ASSUME TypeOK
  PROVE  row.old \in BOOLEAN /\ (row # NoRow => row.by \in Calls)
<1>1. CASE row = NoRow
  BY <1>1 DEF NoRow
<1>2. CASE row \in [by : Calls, old : BOOLEAN]
  BY <1>2
<1> QED
  BY <1>1, <1>2 DEF TypeOK

\* No two processes make the worktree.
LEMMA MakerIsOne ==
  ASSUME HolderIsYoung, Calm, NEW c \in Calls, NEW d \in Calls, Creating(c), Creating(d)
  PROVE  c = d
BY RowIsRow DEF HolderIsYoung

\* The initial states satisfy the invariant.
LEMMA InitIInv == Init => IInv
<1> SUFFICES ASSUME Init PROVE IInv
  OBVIOUS
<1>1. TypeOK
  BY WorkspaceAssumption DEF Init, TypeOK, PCs, Unread
<1>2. ReadersKnow /\ HolderIsYoung /\ Places
  BY DEF Init, ReadersKnow, HolderIsYoung, Places, Creating
<1>3. LateIdle /\ Reserved /\ Registered /\ Ending
  BY DEF Init, LateIdle, Reserved, Registered, Ending
<1> QED
  BY <1>1, <1>2, <1>3 DEF IInv

-----------------------------------------------------------------------------
\* Where a process goes, and that the others stay.
LEMMA GotoPc ==
  ASSUME TypeOK, NEW c \in Calls, NEW next \in PCs, Goto(c, next)
  PROVE  /\ pc' \in [Calls -> PCs] /\ pc'[c] = next
         /\ \A d \in Calls : d # c => pc'[d] = pc[d]
BY DEF TypeOK, Goto

\* A process that is somewhere is there while the agent works.
LEMMA AtWork ==
  ASSUME IInv, NEW c \in Calls, pc[c] # "idle"
  PROVE  run = "working"
BY DEF IInv, LateIdle

\* A deleted row is gone for those who have read it.
LEMMA DeletedSeen ==
  ASSUME TypeOK, Deleted
  PROVE  /\ row' = NoRow
         /\ seen' \in [Calls -> [old : BOOLEAN, gone : BOOLEAN]]
         /\ \A c \in Calls : seen'[c].gone /\ seen'[c].old = seen[c].old
BY DEF TypeOK, Deleted

\* A step of one process that takes it where it claims nothing.
LEMMA LeavingStep ==
  ASSUME IInv, NEW c \in Calls, NEW next \in {"idle", "lookup", "profile", "reserve"},
         run = "working", pc[c] \notin {"add", "prune"}, Goto(c, next),
         budget' \in [Inputs -> Nat],
         seen' \in [Calls -> [old : BOOLEAN, gone : BOOLEAN]],
         \A d \in Calls : d # c => seen'[d] = seen[d],
         UNCHANGED <<row, tree, branch, run, lapses>>
  PROVE  IInv'
<1>1. next \in PCs
  BY DEF PCs
<1>2. /\ pc' \in [Calls -> PCs] /\ pc'[c] = next
      /\ \A d \in Calls : d # c => pc'[d] = pc[d]
  BY <1>1, GotoPc DEF IInv
<1>3. TypeOK'
  BY <1>2 DEF IInv, TypeOK
<1>4. LateIdle' /\ Reserved' /\ Ending'
  BY DEF IInv, LateIdle, Reserved, Ending, Tidy
<1>5. HolderIsYoung'
  BY <1>2 DEF IInv, HolderIsYoung, Calm, Creating
<1>6. ReadersKnow'
  BY <1>2 DEF IInv, ReadersKnow
<1>7. Places'
  BY <1>2 DEF IInv, Places, Tidy
<1>8. Registered'
  BY <1>2 DEF IInv, Registered
<1> QED
  BY <1>3, <1>4, <1>5, <1>6, <1>7, <1>8 DEF IInv

\* A statement of a process that fails ends the process.
LEMMA FailingStep ==
  ASSUME IInv, NEW c \in Calls, pc[c] \notin {"idle", "add", "prune"}, Fails(c),
         UNCHANGED <<row, tree, branch, seen, run, lapses>>
  PROVE  IInv'
<1>1. budget' \in [Inputs -> Nat]
  BY SpendType DEF Fails, IInv, TypeOK, Inputs
<1>2. Goto(c, "idle") /\ run = "working"
  BY AtWork DEF Fails
<1>3. seen' \in [Calls -> [old : BOOLEAN, gone : BOOLEAN]]
  BY DEF IInv, TypeOK
<1> QED
  BY <1>1, <1>2, <1>3, LeavingStep

-----------------------------------------------------------------------------
(***************************************************************************)
(* The steps of a process.                                                 *)
(***************************************************************************)
LEMMA LookupStep ==
  ASSUME IInv, NEW c \in Calls, Lookup(c)
  PROVE  IInv'
<1>0. pc[c] = "lookup" /\ run = "working" /\ UNCHANGED <<row, tree, branch, run, lapses>>
  BY AtWork DEF Lookup, At
<1>1. CASE Fails(c) /\ UNCHANGED seen
  BY <1>0, <1>1, FailingStep
<1>2. CASE /\ Goto(c, IF row = NoRow THEN "profile" ELSE "stat")
           /\ seen' = [seen EXCEPT ![c] = [old |-> row.old, gone |-> FALSE]]
           /\ UNCHANGED budget
  <2>1. row.old \in BOOLEAN
    BY RowType DEF IInv
  <2>2. /\ seen' \in [Calls -> [old : BOOLEAN, gone : BOOLEAN]]
        /\ seen'[c] = [old |-> row.old, gone |-> FALSE]
        /\ \A d \in Calls : d # c => seen'[d] = seen[d]
    BY <1>2, <2>1 DEF IInv, TypeOK
  <2>3. budget' \in [Inputs -> Nat]
    BY <1>2 DEF IInv, TypeOK
  <2>4. CASE row = NoRow
    BY <1>0, <1>2, <2>2, <2>3, <2>4, LeavingStep
  <2>5. CASE row # NoRow
    <3>1. /\ pc' \in [Calls -> PCs] /\ pc'[c] = "stat"
          /\ \A d \in Calls : d # c => pc'[d] = pc[d]
      BY <1>2, <2>5, GotoPc DEF IInv, PCs
    <3>2. TypeOK'
      BY <1>0, <2>2, <2>3, <3>1 DEF IInv, TypeOK
    <3>3. LateIdle' /\ Reserved' /\ Ending'
      BY <1>0 DEF IInv, LateIdle, Reserved, Ending, Tidy
    <3>4. HolderIsYoung'
      BY <1>0, <3>1 DEF IInv, HolderIsYoung, Calm, Creating
    <3>5. ReadersKnow'
      BY <1>0, <2>2, <2>5, <3>1 DEF IInv, ReadersKnow
    <3>6. Places'
      BY <1>0, <2>2, <3>1 DEF IInv, Places, Tidy
    <3>7. Registered'
      BY <1>0, <3>1 DEF IInv, Registered
    <3> QED
      BY <3>2, <3>3, <3>4, <3>5, <3>6, <3>7 DEF IInv
  <2> QED
    BY <2>4, <2>5
<1> QED
  BY <1>1, <1>2 DEF Lookup

LEMMA StatStep ==
  ASSUME IInv, NEW c \in Calls, Stat(c)
  PROVE  IInv'
<1>0. /\ pc[c] = "stat" /\ run = "working"
      /\ UNCHANGED <<row, tree, branch, seen, run, lapses>>
  BY AtWork DEF Stat, At
<1>1. CASE Fails(c)
  BY <1>0, <1>1, FailingStep
<1>2. CASE /\ Goto(c, IF tree = "none" /\ seen[c].old THEN "drop" ELSE "idle")
           /\ UNCHANGED budget
  <2>1. budget' \in [Inputs -> Nat] /\ seen' \in [Calls -> [old : BOOLEAN, gone : BOOLEAN]]
    BY <1>0, <1>2 DEF IInv, TypeOK
  <2>2. CASE ~(tree = "none" /\ seen[c].old)
    BY <1>0, <1>2, <2>1, <2>2, LeavingStep
  <2>3. CASE tree = "none" /\ seen[c].old
    <3>1. /\ pc' \in [Calls -> PCs] /\ pc'[c] = "drop"
          /\ \A d \in Calls : d # c => pc'[d] = pc[d]
      BY <1>2, <2>3, GotoPc DEF IInv, PCs
    <3>2. TypeOK'
      BY <1>0, <2>1, <3>1 DEF IInv, TypeOK
    <3>3. LateIdle' /\ Reserved' /\ Ending'
      BY <1>0 DEF IInv, LateIdle, Reserved, Ending, Tidy
    <3>4. HolderIsYoung'
      BY <1>0, <3>1 DEF IInv, HolderIsYoung, Calm, Creating
    <3>5. ReadersKnow'
      BY <1>0, <2>3, <3>1 DEF IInv, ReadersKnow
    <3>6. Places'
      BY <1>0, <2>3, <3>1 DEF IInv, Places, Tidy
    <3>7. Registered'
      BY <1>0, <3>1 DEF IInv, Registered
    <3> QED
      BY <3>2, <3>3, <3>4, <3>5, <3>6, <3>7 DEF IInv
  <2> QED
    BY <2>2, <2>3
<1> QED
  BY <1>1, <1>2 DEF Stat

\* Who drops the row it has read drops no row of a creator.
LEMMA DropStep ==
  ASSUME IInv, NEW c \in Calls, Drop(c)
  PROVE  IInv'
<1>0. pc[c] = "drop" /\ run = "working" /\ UNCHANGED <<tree, branch, run>>
  BY AtWork DEF Drop, At
<1>1. CASE Fails(c) /\ UNCHANGED <<row, seen, lapses>>
  BY <1>0, <1>1, FailingStep
<1>2. CASE /\ Deleted /\ Goto(c, "profile") /\ UNCHANGED budget
           /\ lapses' = IF row # NoRow /\ seen[c].gone THEN lapses \cup {"late drop"} ELSE lapses
  <2>1. /\ pc' \in [Calls -> PCs] /\ pc'[c] = "profile"
        /\ \A d \in Calls : d # c => pc'[d] = pc[d]
    BY <1>2, GotoPc DEF IInv, PCs
  <2>2. /\ row' = NoRow
        /\ seen' \in [Calls -> [old : BOOLEAN, gone : BOOLEAN]]
        /\ \A d \in Calls : seen'[d].gone /\ seen'[d].old = seen[d].old
    BY <1>2, DeletedSeen DEF IInv
  <2>3. TypeOK'
    BY <1>0, <1>2, <2>1, <2>2 DEF IInv, TypeOK
  <2>4. LateIdle' /\ Ending'
    BY <1>0, <1>2, <2>2 DEF IInv, LateIdle, Ending
  <2>5. ReadersKnow'
    BY <2>1, <2>2 DEF IInv, ReadersKnow
  <2>6. Registered'
    BY <1>0, <1>2, <2>1 DEF IInv, Registered
  <2>7. Calm' => lapses' = lapses /\ Calm /\ (row # NoRow => ~seen[c].gone /\ row.old)
    BY <1>0, <1>2 DEF IInv, ReadersKnow, Calm
  <2>8. HolderIsYoung'
    <3> SUFFICES ASSUME Calm', NEW d \in Calls, Creating(d)' PROVE FALSE
      BY DEF HolderIsYoung
    <3>1. Creating(d)
      BY <1>0, <2>1 DEF Creating
    <3> QED
      BY <2>7, <3>1, RowIsRow DEF IInv, HolderIsYoung
  <2>9. Places' /\ Reserved'
    <3>1. ASSUME Tidy' PROVE Calm' /\ Tidy /\ lapses' = lapses
      BY <2>7, <3>1 DEF Tidy, Calm
    <3>2. ASSUME Tidy' PROVE tree = "none"
      BY <1>0, <2>7, <3>1, <3>2 DEF IInv, Reserved, Places
    <3>3. Places'
      BY <1>0, <2>1, <2>2, <3>1, <3>2 DEF IInv, Places
    <3> QED
      BY <1>0, <3>2, <3>3 DEF Reserved
  <2> QED
    BY <2>3, <2>4, <2>5, <2>6, <2>8, <2>9 DEF IInv
<1> QED
  BY <1>1, <1>2 DEF Drop

LEMMA ProfileStep ==
  ASSUME IInv, NEW c \in Calls, Profile(c)
  PROVE  IInv'
<1>0. /\ pc[c] = "profile" /\ run = "working"
      /\ UNCHANGED <<row, tree, branch, seen, run, lapses>>
  BY AtWork DEF Profile, At
<1>1. CASE Fails(c)
  BY <1>0, <1>1, FailingStep
<1>2. CASE Goto(c, "reserve") /\ UNCHANGED budget
  <2>1. budget' \in [Inputs -> Nat] /\ seen' \in [Calls -> [old : BOOLEAN, gone : BOOLEAN]]
    BY <1>0, <1>2 DEF IInv, TypeOK
  <2> QED
    BY <1>0, <1>2, <2>1, LeavingStep
<1> QED
  BY <1>1, <1>2 DEF Profile

\* Who reserves a row finds no creator and, where nothing is lost, no directory.
LEMMA ReserveStep ==
  ASSUME IInv, NEW c \in Calls, Reserve(c)
  PROVE  IInv'
<1>0. /\ pc[c] = "reserve" /\ run = "working"
      /\ UNCHANGED <<tree, branch, seen, run, lapses>>
  BY AtWork DEF Reserve, At
<1>1. CASE Fails(c) /\ UNCHANGED row
  BY <1>0, <1>1, FailingStep
<1>2. CASE row # NoRow /\ Goto(c, "idle") /\ UNCHANGED <<row, budget>>
  <2>1. budget' \in [Inputs -> Nat] /\ seen' \in [Calls -> [old : BOOLEAN, gone : BOOLEAN]]
    BY <1>0, <1>2 DEF IInv, TypeOK
  <2> QED
    BY <1>0, <1>2, <2>1, LeavingStep
<1>3. CASE row = NoRow /\ row' = Row(c) /\ Goto(c, "create") /\ UNCHANGED budget
  <2>1. /\ pc' \in [Calls -> PCs] /\ pc'[c] = "create"
        /\ \A d \in Calls : d # c => pc'[d] = pc[d]
    BY <1>3, GotoPc DEF IInv, PCs
  <2>2. /\ row' # NoRow /\ ~row'.old /\ row' \in [by : Calls, old : BOOLEAN]
    BY <1>3, RowIsRow
  <2>3. TypeOK'
    BY <1>0, <1>3, <2>1, <2>2 DEF IInv, TypeOK
  <2>4. LateIdle' /\ Reserved' /\ Ending'
    BY <1>0, <2>2 DEF IInv, LateIdle, Reserved, Ending
  <2>5. HolderIsYoung'
    <3> SUFFICES ASSUME Calm', NEW d \in Calls, Creating(d)' PROVE row' = Row(d)
      BY DEF HolderIsYoung, Row
    <3>1. CASE d = c
      BY <1>3, <3>1
    <3>2. CASE d # c
      <4>1. Calm /\ Creating(d)
        BY <1>0, <2>1, <3>2 DEF Calm, Creating
      <4> QED
        BY <1>3, <4>1, RowIsRow DEF IInv, HolderIsYoung
    <3> QED
      BY <3>1, <3>2
  <2>6. ReadersKnow'
    BY <1>0, <1>3, <2>1 DEF IInv, ReadersKnow
  <2>7. Places'
    BY <1>0, <1>3, <2>1 DEF IInv, Places, Reserved, Tidy
  <2>8. Registered'
    BY <1>0, <2>1 DEF IInv, Registered
  <2> QED
    BY <2>3, <2>4, <2>5, <2>6, <2>7, <2>8 DEF IInv
<1> QED
  BY <1>1, <1>2, <1>3 DEF Reserve

\* A creator that goes on without touching git.
LEMMA MovingStep ==
  ASSUME IInv, NEW c \in Calls, NEW next \in {"release", "rollback"}, Goto(c, next),
         pc[c] \in {"create", "exclude"}, budget' \in [Inputs -> Nat],
         next = "release" => pc[c] = "create", next = "rollback" => pc[c] = "exclude",
         UNCHANGED <<row, tree, branch, seen, run, lapses>>
  PROVE  IInv'
<1>1. /\ pc' \in [Calls -> PCs] /\ pc'[c] = next
      /\ \A d \in Calls : d # c => pc'[d] = pc[d]
  BY GotoPc DEF IInv, PCs
<1>2. TypeOK'
  BY <1>1 DEF IInv, TypeOK
<1>3. LateIdle' /\ Reserved' /\ Ending'
  BY AtWork DEF IInv, LateIdle, Reserved, Ending, Tidy
<1>4. HolderIsYoung'
  BY <1>1 DEF IInv, HolderIsYoung, Calm, Creating, Row
<1>5. ReadersKnow'
  BY <1>1 DEF IInv, ReadersKnow
<1>6. Places'
  BY <1>1 DEF IInv, Places, Tidy
<1>7. Registered'
  BY <1>1 DEF IInv, Registered
<1> QED
  BY <1>2, <1>3, <1>4, <1>5, <1>6, <1>7 DEF IInv

\* When nothing is lost, the creator is the only process that has to do with the
\* directory, and nobody is about to drop its row.
LEMMA Alone ==
  ASSUME IInv, Calm, NEW c \in Calls, Creating(c)
  PROVE  /\ row = Row(c) /\ row # NoRow
         /\ \A d \in Calls : d # c => ~Creating(d)
         /\ \A d \in Calls : pc[d] = "drop" => seen[d].gone
<1>1. row = Row(c) /\ row # NoRow /\ ~row.old
  BY RowIsRow DEF IInv, HolderIsYoung
<1>2. \A d \in Calls : d # c => ~Creating(d)
  BY MakerIsOne DEF IInv
<1>3. \A d \in Calls : pc[d] = "drop" => seen[d].gone
  BY <1>1 DEF IInv, ReadersKnow
<1> QED
  BY <1>1, <1>2, <1>3

\* A step of a creator that changes the directory and what git has registered.
LEMMA GitStep ==
  ASSUME IInv, NEW c \in Calls, Creating(c), NEW next \in PCs, Goto(c, next),
         budget' \in [Inputs -> Nat],
         tree' \in {"none", "half", "made"}, branch' \in {"free", "checked out", "locked"},
         next \in {"add", "exclude", "prune", "release"},
         next = "add" <=> tree' = "half",
         next = "exclude" <=> tree' = "made",
         branch' = "locked" => tree' = "half" \/ lapses # {},
         branch' # "free" /\ tree' = "none" => next = "prune" \/ lapses # {},
         UNCHANGED <<row, seen, run, lapses>>
  PROVE  IInv'
<1>0. run = "working"
  BY AtWork DEF Creating
<1>1. /\ pc' \in [Calls -> PCs] /\ pc'[c] = next
      /\ \A d \in Calls : d # c => pc'[d] = pc[d]
  BY GotoPc DEF IInv
<1>2. TypeOK'
  BY <1>1 DEF IInv, TypeOK
<1>3. LateIdle' /\ Ending'
  BY <1>0 DEF LateIdle, Ending
<1>4. HolderIsYoung'
  BY <1>1 DEF IInv, HolderIsYoung, Calm, Creating, Row
<1>5. ReadersKnow'
  BY <1>1 DEF IInv, ReadersKnow
<1>6. ASSUME Tidy' PROVE Calm /\ Tidy
  BY <1>6 DEF Tidy, Calm
<1>7. Places'
  <2> SUFFICES ASSUME Tidy', NEW d \in Calls
               PROVE  /\ pc'[d] \in {"create", "prune", "release"} => tree' = "none"
                      /\ pc'[d] = "add" => tree' = "half"
                      /\ pc'[d] \in {"exclude", "rollback"} => tree' = "made"
                      /\ pc'[d] = "drop" /\ ~seen'[d].gone => tree' = "none"
    BY DEF Places
  <2>1. CASE d = c
    BY <1>1, <2>1
  <2>2. CASE d # c
    BY <1>1, <1>6, <2>2, Alone DEF Creating
  <2> QED
    BY <2>1, <2>2
<1>8. Reserved'
  BY <1>6, Alone DEF Reserved
<1>9. Registered'
  BY <1>1 DEF Registered
<1> QED
  BY <1>2, <1>3, <1>4, <1>5, <1>7, <1>8, <1>9 DEF IInv

LEMMA CreateStep ==
  ASSUME IInv, NEW c \in Calls, Create(c)
  PROVE  IInv'
<1>0. pc[c] = "create" /\ Creating(c) /\ UNCHANGED <<row, seen, run, lapses>>
  BY DEF Create, At, Creating
<1>1. CASE /\ tree' = "half" /\ branch' = "locked"
           /\ Goto(c, "add") /\ UNCHANGED budget
  <2>1. budget' \in [Inputs -> Nat]
    BY <1>1 DEF IInv, TypeOK
  <2> QED
    BY <1>0, <1>1, <2>1, GitStep DEF PCs
<1>2. CASE Goto(c, "release") /\ UNCHANGED <<tree, branch, budget>>
  <2>1. budget' \in [Inputs -> Nat]
    BY <1>2 DEF IInv, TypeOK
  <2> QED
    BY <1>0, <1>2, <2>1, MovingStep
<1>3. CASE Spend("fault") /\ Goto(c, "release") /\ UNCHANGED <<tree, branch>>
  <2>1. budget' \in [Inputs -> Nat]
    BY <1>3, SpendType DEF IInv, TypeOK, Inputs
  <2> QED
    BY <1>0, <1>3, <2>1, MovingStep
<1> QED
  BY <1>1, <1>2, <1>3 DEF Create

LEMMA AddStep ==
  ASSUME IInv, NEW c \in Calls, Add(c)
  PROVE  IInv'
<1>0. Creating(c) /\ UNCHANGED <<row, seen, run, lapses>>
  BY DEF Add, At, Creating
<1>1. tree' = "made" /\ branch' = "checked out" /\ Goto(c, "exclude")
  BY DEF Add
<1>2. budget' \in [Inputs -> Nat]
  BY DEF Add, IInv, TypeOK
<1> QED
  BY <1>0, <1>1, <1>2, GitStep DEF PCs

LEMMA ExcludeStep ==
  ASSUME IInv, NEW c \in Calls, Exclude(c)
  PROVE  IInv'
<1>0. /\ pc[c] = "exclude" /\ run = "working"
      /\ UNCHANGED <<row, tree, branch, seen, run, lapses>>
  BY AtWork DEF Exclude, At
<1>1. CASE Goto(c, "idle") /\ UNCHANGED budget
  <2>1. budget' \in [Inputs -> Nat] /\ seen' \in [Calls -> [old : BOOLEAN, gone : BOOLEAN]]
    BY <1>0, <1>1 DEF IInv, TypeOK
  <2> QED
    BY <1>0, <1>1, <2>1, LeavingStep
<1>2. CASE Spend("fault") /\ Goto(c, "rollback")
  <2>1. budget' \in [Inputs -> Nat]
    BY <1>2, SpendType DEF IInv, TypeOK, Inputs
  <2> QED
    BY <1>0, <1>2, <2>1, MovingStep
<1> QED
  BY <1>1, <1>2 DEF Exclude

LEMMA RollbackStep ==
  ASSUME IInv, NEW c \in Calls, Rollback(c)
  PROVE  IInv'
<1>0. pc[c] = "rollback" /\ Creating(c) /\ UNCHANGED <<row, branch, seen, run>>
  BY DEF Rollback, At, Creating
<1>1. CASE tree' = "none" /\ Goto(c, "prune") /\ UNCHANGED <<lapses, budget>>
  <2>1. budget' \in [Inputs -> Nat] /\ branch' \in {"free", "checked out", "locked"}
    BY <1>0, <1>1 DEF IInv, TypeOK
  <2>2. branch' = "locked" => lapses # {}
    BY <1>0 DEF IInv, Registered, Places, Tidy
  <2> QED
    BY <1>0, <1>1, <2>1, <2>2, GitStep DEF PCs
<1>2. CASE /\ Spend("fault") /\ Goto(c, "release") /\ UNCHANGED tree
           /\ lapses' = lapses \cup {"left"}
  <2>1. budget' \in [Inputs -> Nat]
    BY <1>2, SpendType DEF IInv, TypeOK, Inputs
  <2>2. /\ pc' \in [Calls -> PCs] /\ pc'[c] = "release"
        /\ \A d \in Calls : d # c => pc'[d] = pc[d]
    BY <1>2, GotoPc DEF IInv, PCs
  <2>3. TypeOK'
    BY <1>0, <1>2, <2>1, <2>2 DEF IInv, TypeOK
  <2>4. LateIdle' /\ ReadersKnow'
    BY <1>0, <2>2, AtWork DEF IInv, LateIdle, ReadersKnow
  <2>5. HolderIsYoung'
    BY <1>0, <1>2, <2>2 DEF IInv, HolderIsYoung, Calm, Creating, Row
  <2>6. ~Tidy' /\ lapses' # {}
    BY <1>2 DEF Tidy
  <2> QED
    BY <2>3, <2>4, <2>5, <2>6 DEF IInv, Places, Reserved, Registered, Ending
<1> QED
  BY <1>1, <1>2 DEF Rollback

LEMMA PruneStep ==
  ASSUME IInv, NEW c \in Calls, Prune(c)
  PROVE  IInv'
<1>0. pc[c] = "prune" /\ Creating(c) /\ UNCHANGED <<row, tree, seen, run, lapses>>
  BY DEF Prune, At, Creating
<1>1. Goto(c, "release") /\ budget' \in [Inputs -> Nat]
  BY DEF Prune, IInv, TypeOK
<1>2. branch' = Pruned(branch) /\ branch' \in {"free", "locked"}
  BY DEF Prune, Pruned
<1>3. /\ pc' \in [Calls -> PCs] /\ pc'[c] = "release"
      /\ \A d \in Calls : d # c => pc'[d] = pc[d]
  BY <1>1, GotoPc DEF IInv, PCs
<1>4. TypeOK'
  BY <1>0, <1>1, <1>2, <1>3 DEF IInv, TypeOK
<1>5. LateIdle' /\ ReadersKnow' /\ Reserved'
  BY <1>0, <1>3, AtWork DEF IInv, LateIdle, ReadersKnow, Reserved, Tidy
<1>6. HolderIsYoung'
  BY <1>0, <1>3 DEF IInv, HolderIsYoung, Calm, Creating, Row
<1>7. Places'
  BY <1>0, <1>3 DEF IInv, Places, Tidy
<1>8. Registered'
  <2> SUFFICES ASSUME lapses = {}
               PROVE  /\ branch' = "free"
                      /\ tree' # "half"
    BY <1>0 DEF Registered
  <2>1. tree = "none" /\ branch # "locked"
    BY <1>0 DEF IInv, Registered, Places, Tidy
  <2> QED
    BY <1>0, <1>2, <2>1 DEF Pruned
<1>9. Ending'
  BY <1>0, AtWork DEF Ending
<1> QED
  BY <1>4, <1>5, <1>6, <1>7, <1>8, <1>9 DEF IInv

\* Who gives its row back leaves no directory behind.
LEMMA ReleaseStep ==
  ASSUME IInv, NEW c \in Calls, Release(c)
  PROVE  IInv'
<1>0. /\ pc[c] = "release" /\ Creating(c) /\ run = "working" /\ Goto(c, "idle")
      /\ UNCHANGED <<tree, branch, run, lapses>>
  BY AtWork DEF Release, At, Creating
<1>1. CASE Spend("fault") /\ UNCHANGED <<row, seen>>
  BY <1>0, <1>1, FailingStep DEF Fails
<1>2. CASE Deleted /\ UNCHANGED budget
  <2>1. /\ pc' \in [Calls -> PCs] /\ pc'[c] = "idle"
        /\ \A d \in Calls : d # c => pc'[d] = pc[d]
    BY <1>0, GotoPc DEF IInv, PCs
  <2>2. /\ row' = NoRow
        /\ seen' \in [Calls -> [old : BOOLEAN, gone : BOOLEAN]]
        /\ \A d \in Calls : seen'[d].gone /\ seen'[d].old = seen[d].old
    BY <1>2, DeletedSeen DEF IInv
  <2>3. TypeOK'
    BY <1>0, <1>2, <2>1, <2>2 DEF IInv, TypeOK
  <2>4. LateIdle' /\ Ending'
    BY <1>0 DEF LateIdle, Ending
  <2>5. ReadersKnow'
    BY <2>1, <2>2 DEF IInv, ReadersKnow
  <2>6. HolderIsYoung'
    <3> SUFFICES ASSUME Calm', NEW d \in Calls, Creating(d)' PROVE FALSE
      BY DEF HolderIsYoung
    <3>1. Calm /\ d # c /\ Creating(d)
      BY <1>0, <2>1 DEF Calm, Creating
    <3> QED
      BY <1>0, <3>1, Alone
  <2>7. Places' /\ Reserved'
    BY <1>0, <2>1, <2>2 DEF IInv, Places, Reserved, Tidy
  <2>8. Registered'
    BY <1>0, <2>1 DEF IInv, Registered
  <2> QED
    BY <2>3, <2>4, <2>5, <2>6, <2>7, <2>8 DEF IInv
<1> QED
  BY <1>1, <1>2 DEF Release

-----------------------------------------------------------------------------
(***************************************************************************)
(* Time, the shell, and the end of the run.                                *)
(***************************************************************************)
LEMMA CallStep ==
  ASSUME IInv, NEW c \in Calls, Call(c)
  PROVE  IInv'
<1>1. budget' \in [Inputs -> Nat] /\ seen' \in [Calls -> [old : BOOLEAN, gone : BOOLEAN]]
  BY DEF Call, IInv, TypeOK
<1> QED
  BY <1>1, LeavingStep DEF Call, At

\* The row of a creator ages only where that is accepted.
LEMMA AgeStep ==
  ASSUME IInv, Age
  PROVE  IInv'
<1>0. /\ row # NoRow /\ row' = [row EXCEPT !.old = TRUE]
      /\ seen' = [c \in Calls |-> [seen[c] EXCEPT !.old = TRUE]]
      /\ UNCHANGED <<tree, branch, pc, run>>
  BY DEF Age
<1>1. row \in [by : Calls, old : BOOLEAN]
  BY <1>0 DEF IInv, TypeOK
<1>2. row' \in [by : Calls, old : BOOLEAN] /\ row'.old /\ row'.by = row.by /\ row' # NoRow
  BY <1>0, <1>1 DEF NoRow
<1>3. /\ seen' \in [Calls -> [old : BOOLEAN, gone : BOOLEAN]]
      /\ \A c \in Calls : seen'[c].gone = seen[c].gone /\ seen'[c].old
  BY <1>0 DEF IInv, TypeOK
<1>4. budget' \in [Inputs -> Nat] /\ lapses' \subseteq {"late drop", "slow", "half", "left"}
  <2>1. CASE UNCHANGED <<lapses, budget>>
    BY <2>1 DEF IInv, TypeOK
  <2>2. CASE Spend("slow") /\ lapses' = lapses \cup {"slow"}
    BY <2>2, SpendType DEF IInv, TypeOK, Inputs
  <2> QED
    BY <2>1, <2>2 DEF Age
<1>5. lapses' = lapses \/ (lapses' = lapses \cup {"slow"} /\ ~Calm')
  BY DEF Age, Calm
<1>6. TypeOK'
  BY <1>0, <1>2, <1>3, <1>4 DEF IInv, TypeOK
<1>7. LateIdle' /\ Reserved'
  BY <1>0, <1>2 DEF IInv, LateIdle, Reserved
<1>8. HolderIsYoung'
  <2> SUFFICES ASSUME Calm', NEW c \in Calls, Creating(c)' PROVE FALSE
    BY DEF HolderIsYoung
  <2>1. lapses' = lapses /\ Calm /\ Creating(c)
    BY <1>0, <1>5 DEF Calm, Creating
  <2>2. row.by = c
    BY <2>1, Alone, RowIsRow
  <2>3. lapses' = lapses \cup {"slow"}
    BY <2>1, <2>2 DEF Age
  <2> QED
    BY <2>3 DEF Calm
<1>9. ReadersKnow'
  BY <1>0, <1>2, <1>3 DEF IInv, ReadersKnow
<1>10. Places'
  BY <1>0, <1>3, <1>5 DEF IInv, Places, Tidy, Calm
<1>11. Registered'
  BY <1>0, <1>5 DEF IInv, Registered
<1>12. Ending'
  BY <1>0, <1>5 DEF IInv, Ending
<1> QED
  BY <1>6, <1>7, <1>8, <1>9, <1>10, <1>11, <1>12 DEF IInv

\* A process that is killed leaves what it holds.
LEMMA KillStep ==
  ASSUME IInv, NEW c \in Calls, Kill(c)
  PROVE  IInv'
<1>0. /\ pc[c] # "idle" /\ run = "working" /\ Goto(c, "idle")
      /\ UNCHANGED <<row, seen, run>>
  BY AtWork DEF Kill
<1>1. budget' \in [Inputs -> Nat]
  BY SpendType DEF Kill, IInv, TypeOK, Inputs
<1>2. /\ pc' \in [Calls -> PCs] /\ pc'[c] = "idle"
      /\ \A d \in Calls : d # c => pc'[d] = pc[d]
  BY <1>0, GotoPc DEF IInv, PCs
<1>3. LateIdle' /\ ReadersKnow' /\ Ending'
  BY <1>0, <1>2 DEF IInv, LateIdle, ReadersKnow, Ending
<1>4. CASE lapses' = Killed(c) /\ UNCHANGED <<tree, branch>>
  <2>1. /\ lapses \subseteq lapses' /\ lapses' \subseteq lapses \cup {"half"}
        /\ pc[c] \in {"add", "prune"} => lapses' # {}
    BY <1>4 DEF Killed
  <2>2. TypeOK'
    BY <1>0, <1>1, <1>2, <1>4, <2>1 DEF IInv, TypeOK
  <2>3. (Calm' => Calm) /\ (Tidy' => Tidy)
    BY <2>1 DEF Calm, Tidy
  <2>4. HolderIsYoung'
    BY <1>0, <1>2, <2>3 DEF IInv, HolderIsYoung, Creating, Row
  <2>5. Places' /\ Reserved'
    BY <1>0, <1>2, <1>4, <2>3 DEF IInv, Places, Reserved
  <2>6. Registered'
    BY <1>2, <1>4, <2>1 DEF IInv, Registered
  <2> QED
    BY <1>3, <2>2, <2>4, <2>5, <2>6 DEF IInv
<1>5. CASE pc[c] = "add" /\ tree' = "none" /\ branch' = "free" /\ UNCHANGED lapses
  <2>1. TypeOK'
    BY <1>0, <1>1, <1>2, <1>5 DEF IInv, TypeOK
  <2>2. HolderIsYoung'
    BY <1>0, <1>2, <1>5 DEF IInv, HolderIsYoung, Creating, Row, Calm
  <2>3. Places'
    <3> SUFFICES ASSUME Tidy', NEW d \in Calls, d # c
                 PROVE  pc[d] \notin {"add", "exclude", "rollback"}
      BY <1>2, <1>5 DEF Places
    <3>1. Calm /\ Creating(c)
      BY <1>5 DEF Tidy, Calm, Creating
    <3> QED
      BY <3>1, Alone DEF Creating
  <2>4. Reserved' /\ Registered'
    BY <1>5 DEF Reserved, Registered
  <2> QED
    BY <1>3, <2>1, <2>2, <2>3, <2>4 DEF IInv
<1> QED
  BY <1>4, <1>5 DEF Kill, At

LEMMA ReturnsStep ==
  ASSUME IInv, RunReturns
  PROVE  IInv'
<1>0. /\ run = "working" /\ run' = "list" /\ pc' = [c \in Calls |-> "idle"]
      /\ UNCHANGED <<row, tree, branch, seen, budget>>
  BY DEF RunReturns
<1>1. /\ lapses \subseteq lapses' /\ lapses' \subseteq lapses \cup {"half"}
      /\ \A c \in Calls : pc[c] \in {"add", "prune"} => lapses' # {}
  BY DEF RunReturns, Killed
<1>2. TypeOK'
  BY <1>0, <1>1 DEF IInv, TypeOK, PCs
<1>3. LateIdle' /\ ReadersKnow' /\ HolderIsYoung' /\ Places'
  BY <1>0 DEF LateIdle, ReadersKnow, HolderIsYoung, Places, Creating
<1>4. Reserved' /\ Ending'
  BY <1>0, <1>1 DEF IInv, Reserved, Ending, Tidy
<1>5. Registered'
  BY <1>0, <1>1 DEF IInv, Registered
<1> QED
  BY <1>2, <1>3, <1>4, <1>5 DEF IInv

LEMMA CleanupStep ==
  ASSUME IInv, Cleanup
  PROVE  IInv'
<1> DEFINE Quiet == \A c \in Calls : pc[c] = "idle"
<1>0. Quiet /\ run \in {"list", "remove", "delete", "root"} /\ UNCHANGED pc
  BY DEF Cleanup, ListRows, RemoveTree, DeleteRow, RemoveRoot, IInv, LateIdle
<1>1. /\ run' \in {"remove", "delete", "root", "over"}
      /\ LateIdle' /\ HolderIsYoung' /\ Places' /\ ReadersKnow' /\ Reserved'
  BY <1>0 DEF Cleanup, ListRows, RemoveTree, DeleteRow, RemoveRoot, LateIdle, HolderIsYoung,
              Places, ReadersKnow, Reserved, Creating
<1>2. budget' \in [Inputs -> Nat]
  <2>1. UNCHANGED budget \/ Spend("fault")
    BY DEF Cleanup, ListRows, RemoveTree, DeleteRow, RemoveRoot
  <2> QED
    BY <2>1, SpendType DEF IInv, TypeOK, Inputs
<1>3. lapses' \in {lapses, lapses \cup {"left"}}
  BY DEF Cleanup, ListRows, RemoveTree, DeleteRow, RemoveRoot
<1>4. lapses = {} => tree # "half" /\ branch # "locked" /\ (tree = "none" => branch = "free")
  BY <1>0 DEF IInv, Registered
<1>5. CASE ListRows
  <2>1. TypeOK'
    BY <1>0, <1>1, <1>2, <1>3, <1>5 DEF ListRows, IInv, TypeOK
  <2>2. Registered'
    BY <1>0, <1>3, <1>5 DEF ListRows, IInv, Registered
  <2>3. Ending'
    BY <1>4, <1>5 DEF ListRows, IInv, Ending, Reserved, Tidy
  <2> QED
    BY <1>1, <2>1, <2>2, <2>3 DEF IInv
<1>6. CASE RemoveTree
  <2>1. TypeOK'
    BY <1>0, <1>1, <1>2, <1>3, <1>6 DEF RemoveTree, Pruned, IInv, TypeOK
  <2>2. Registered' /\ Ending'
    BY <1>3, <1>4, <1>6 DEF RemoveTree, Pruned, Registered, Ending
  <2> QED
    BY <1>1, <2>1, <2>2 DEF IInv
<1>7. CASE DeleteRow
  <2>1. /\ row' \in {row, NoRow}
        /\ seen' \in [Calls -> [old : BOOLEAN, gone : BOOLEAN]]
    BY <1>7, DeletedSeen DEF DeleteRow, IInv, TypeOK
  <2>2. TypeOK'
    BY <1>0, <1>1, <1>2, <1>3, <1>7, <2>1 DEF DeleteRow, IInv, TypeOK
  <2>3. Registered'
    BY <1>0, <1>3, <1>7 DEF DeleteRow, IInv, Registered
  <2>4. Ending'
    BY <1>7 DEF DeleteRow, Deleted, IInv, Ending
  <2> QED
    BY <1>1, <2>2, <2>3, <2>4 DEF IInv
<1>8. CASE RemoveRoot
  <2>1. TypeOK'
    BY <1>0, <1>1, <1>2, <1>3, <1>8 DEF RemoveRoot, IInv, TypeOK
  <2>2. Registered' /\ Ending'
    BY <1>4, <1>8 DEF RemoveRoot, IInv, Registered, Ending
  <2> QED
    BY <1>1, <2>1, <2>2 DEF IInv
<1> QED
  BY <1>5, <1>6, <1>7, <1>8 DEF Cleanup

-----------------------------------------------------------------------------
\* Every step preserves the invariant.
LEMMA StepIInv == IInv /\ [Next]_vars => IInv'
<1> SUFFICES ASSUME IInv, [Next]_vars PROVE IInv'
  OBVIOUS
<1>1. ASSUME NEW c \in Calls, Process(c) PROVE IInv'
  BY <1>1, LookupStep, StatStep, DropStep, ProfileStep, ReserveStep, CreateStep, AddStep,
     ExcludeStep, RollbackStep, PruneStep, ReleaseStep DEF Process
<1>2. ASSUME NEW c \in Calls, Call(c) \/ Kill(c) PROVE IInv'
  BY <1>2, CallStep, KillStep
<1>3. CASE Age \/ RunReturns \/ Cleanup
  BY <1>3, AgeStep, ReturnsStep, CleanupStep
<1>4. CASE UNCHANGED vars
  <2>1. TypeOK' /\ LateIdle' /\ HolderIsYoung' /\ ReadersKnow'
    BY <1>4 DEF vars, IInv, TypeOK, LateIdle, HolderIsYoung, Calm, Creating, Row, ReadersKnow
  <2>2. Places' /\ Reserved' /\ Registered' /\ Ending'
    BY <1>4 DEF vars, IInv, Places, Tidy, Reserved, Registered, Ending
  <2> QED
    BY <2>1, <2>2 DEF IInv
<1> QED
  BY <1>1, <1>2, <1>3, <1>4 DEF Next

\* The variables keep their types (cmd/exec/workspace/add.go:118-286).
THEOREM WorkspaceTypeOK == Spec => []TypeOK
<1>1. IInv => TypeOK
  BY DEF IInv
<1> QED
  BY InitIInv, StepIInv, <1>1, PTL DEF Spec

\* However many processes the agent starts, and whichever are killed, who makes
\* the worktree holds the row (cmd/exec/workspace/add.go:237-257).
THEOREM WorkspaceCreatorHoldsRow == Spec => []CreatorHoldsRow
<1>1. IInv => CreatorHoldsRow
  BY RowIsRow DEF IInv, HolderIsYoung, Calm, CreatorHoldsRow
<1> QED
  BY InitIInv, StepIInv, <1>1, PTL DEF Spec

\* A worktree has the row by which the cleanup will find it
\* (cmd/exec/workspace/add.go:259-275).
THEOREM WorkspaceTreeHasRow == Spec => []TreeHasRow
<1>1. IInv => TreeHasRow
  BY DEF IInv, Reserved, Tidy, TreeHasRow
<1> QED
  BY InitIInv, StepIInv, <1>1, PTL DEF Spec

\* A run that is over leaves neither row, directory nor branch, unless one of the
\* named lapses occurred (internal/delegate/run.go:74-108).
THEOREM WorkspaceEndedIsClean == Spec => []EndedIsClean
<1>1. IInv => EndedIsClean
  BY DEF IInv, Ending, EndedIsClean
<1> QED
  BY InitIInv, StepIInv, <1>1, PTL DEF Spec
=================================================================================
