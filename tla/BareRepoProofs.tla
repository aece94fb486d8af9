---------------------------- MODULE BareRepoProofs ----------------------------
(***************************************************************************)
(* Theorems about BareRepo, for any number of runs, projects and pull      *)
(* requests and any budget.                                                *)
(***************************************************************************)
EXTENDS BareRepo, FiniteSetTheorems, TLAPS

(***************************************************************************)
(* The inductive invariant.                                                *)
(***************************************************************************)
\* Where a run is while its setup holds the mutex, and once it has a checkout.
SetUp == {"remote", "branch", "exclude", "undo", "undoPrune", "undoConfig"}
Late == {"work", "finish", "stop", "early", "earlyPrune", "defer", "remove", "prune", "cleanup"}

\* The variables have their types.
Types ==
  /\ refs \subseteq Branches /\ section \in [Branches -> PRs \cup {None}] /\ remotes \subseteq PRs
  /\ trees \subseteq [dir : Dirs, branch : Branches, locked : BOOLEAN] /\ disk \subseteq Dirs
  /\ pc \in [Runs -> PCs] /\ of \in [Runs -> PRs \cup {None}] /\ hand \in [Runs -> Hands]
  /\ taken \cup cancelled \cup ended \cup named \cup stripped \cup leaks \subseteq Runs
  /\ inuse \subseteq Branches /\ misread \in BOOLEAN
  /\ pin \in [Projects -> {"none", "ready", "refused", "pruning"}]
  /\ strays \subseteq Dirs
Budgeted == budget \in [Inputs -> Nat]

\* One setup or sweep at a time holds the mutex, and only while it lasts.
Mutex ==
  /\ lock = {} \/ \E x \in Runs \cup {Boot} : lock = {x}
  /\ \A r \in Runs : At(r, "add") \/ pc[r] \in SetUp <=> lock = {r}

\* A takeover is of a run with a checkout, and marks it.
Taking ==
  \A r \in Runs :
    /\ of[r] \in PRs <=> ~At(r, "idle")
    /\ hand[r] # "none" => pc[r] \in Late \cup {"over"}
    /\ r \in taken => hand[r] # "none"

\* A registration is of a run, of the user who took it over, or of a project,
\* and of their branch; a directory has one, and only one that exists.
Placed ==
  /\ \A t \in trees, r \in Runs :
       /\ t.dir = RunDir(r) => pc[r] \notin {"idle", "setup", "add"} /\ t.branch = Local(of[r])
       /\ t.dir = UserDir(r) => hand[r] \notin {"none", "copy"} /\ t.branch = Local(of[r])
  /\ \A t \in trees, j \in Projects : t.dir = PinDir(j) => t.branch = Named(Base)
  /\ \A t, u \in trees : t.dir = u.dir => t = u
  /\ \A dir \in disk : Registered(dir)

\* What a setup is about to check out nobody else has.
Reserved == \A r \in Runs : At(r, "add") => Free(Local(of[r]))

\* A locked registration is what a killed `git worktree add` left.
Locked ==
  \A t \in trees : t.locked =>
    /\ t.dir \in strays
    /\ \E r \in Runs : t.dir = RunDir(r) /\ At(r, "over") /\ hand[r] = "none"

\* Whoever is about to prune has removed the directory.
Emptied ==
  \A r \in Runs :
    /\ pc[r] \in {"undoPrune", "prune"} => RunDir(r) \notin disk
    /\ hand[r] \in {"sourcePrune", "abortPrune"} => RunDir(r) \notin disk
    /\ hand[r] \in {"destPrune", "releasePrune"} => UserDir(r) \notin disk
    /\ hand[r] \in {"abort", "abortPrune"} => UserDir(r) \in strays \/ ~Registered(UserDir(r))

\* Somebody will remove the registration: the goroutine of its run until a
\* takeover, then the takeover's handler, or the release while the row allows it.
CaresRun(r) ==
  \/ hand[r] = "none" /\ pc[r] \in (SetUp \cup Late) \ {"undoConfig", "cleanup"}
  \/ hand[r] \in {"copy", "overlay", "source", "sourcePrune", "abort", "abortPrune"}
CaresUser(r) ==
  \/ hand[r] \in {"overlay", "source", "sourcePrune", "mark", "abortDest", "destPrune", "releasePrune"}
  \/ hand[r] = "held" /\ r \notin ended
Cared ==
  \A t \in trees, r \in Runs : t.dir \notin strays =>
    /\ t.dir = RunDir(r) => CaresRun(r)
    /\ t.dir = UserDir(r) => CaresUser(r)

\* A section is written for a pull request whose branch it is of.
Sections == \A b \in Branches : section[b] # None => b = Local(section[b])

\* What a setup has written so far.
Tracking ==
  \A r \in Runs :
    /\ At(r, "branch") /\ Kind[of[r]] = "fork" => of[r] \in remotes
    /\ At(r, "exclude") /\ Kind[of[r]] # "deleted" => Pushes(r)

\* What the sweep read is still all that is checked out.
Sweeping == lock = {Boot} /\ ~misread => CheckedOut \subseteq inuse

\* A run that was set up keeps its push target while it or its user has a
\* registration, unless it was removed with that of another.
Has(r) == Registered(RunDir(r)) \/ Registered(UserDir(r))
Due(r) == pc[r] \in Late \/ hand[r] \notin {"none", "done"}
Equipped ==
  \A r \in Runs :
    Due(r) /\ Has(r) /\ Kind[of[r]] # "deleted" /\ r \notin stripped => Pushes(r)

\* Whatever is configured is for the pull request of a run that will remove it,
\* was taken over, or gave it up.
Stays(r) == pc[r] \in SetUp \cup Late \/ hand[r] # "none"
Owns(r) == Stays(r) \/ r \in leaks
Owned ==
  /\ \A p \in remotes : \E r \in Runs : Owns(r) /\ of[r] = p
  /\ \A b \in Branches : section[b] # None => \E r \in Runs : Owns(r) /\ of[r] = section[b]

InvControl == Types /\ Budgeted /\ Mutex /\ Taking /\ Sweeping
InvFiles == Placed /\ Reserved /\ OneCheckout /\ Locked /\ Emptied /\ Cared
InvConfig == Sections /\ Tracking /\ Equipped /\ Owned
IInv == InvControl /\ InvFiles /\ InvConfig

-----------------------------------------------------------------------------
(***************************************************************************)
(* Names, prune and the budget.                                            *)
(***************************************************************************)
USE BareAssumption

\* Directories and branches of different kinds or owners are different.
LEMMA Distinct ==
  /\ \A r, q : RunDir(r) = RunDir(q) \/ UserDir(r) = UserDir(q) => r = q
  /\ \A r, q : RunDir(r) # UserDir(q) /\ RunDir(r) # PinDir(q) /\ UserDir(r) # PinDir(q)
  /\ \A i, j : PinDir(i) = PinDir(j) => i = j
  /\ \A p, q : Synthetic(p) = Synthetic(q) => p = q
  /\ \A p, name : Synthetic(p) # Named(name)
BY DEF RunDir, UserDir, PinDir, Synthetic, Named

LEMMA NameTypes ==
  /\ \A r \in Runs : RunDir(r) \in Dirs /\ UserDir(r) \in Dirs
  /\ \A j \in Projects : PinDir(j) \in Dirs
  /\ \A dir \in Dirs : \/ \E r \in Runs : dir = RunDir(r) \/ dir = UserDir(r)
                       \/ \E j \in Projects : dir = PinDir(j)
  /\ Named(Base) \in Branches
  /\ \A p \in PRs : /\ Synthetic(p) \in Branches /\ Named(Head[p]) \in Branches
                    /\ Local(p) \in Branches
  /\ None \notin PRs
BY DEF Dirs, Branches, Local, None

\* What is spent leaves a budget.
LEMMA SpendKeeps ==
  ASSUME Budgeted, NEW input \in Inputs, Spend(input)
  PROVE  Budgeted'
<1>1. budget' = [budget EXCEPT ![input] = budget[input] - 1] /\ budget[input] > 0
  BY DEF Spend
<1> QED
  BY <1>1 DEF Budgeted

\* What a prune leaves.
LEMMA PrunedIs ==
  ASSUME trees' = Pruned(trees, disk)
  PROVE  /\ trees' \subseteq trees
         /\ \A t \in trees : t \in trees' <=> t.dir \in disk \/ t.locked
         /\ \A dir : Registered(dir)' => Registered(dir)
BY DEF Pruned, Registered

\* What the removal of a configuration leaves, if all of its commands work ...
LEMMA RemovedIs ==
  ASSUME Types, NEW prs, NEW heads, RemoveConfig(prs, heads)
  PROVE  /\ refs' \subseteq refs /\ remotes' = remotes \ prs
         /\ section' \in [Branches -> PRs \cup {None}]
         /\ \A b \in Branches :
              section'[b] = IF b \in heads \/ \E p \in prs : b = Synthetic(p) THEN None ELSE section[b]
BY DEF Types, RemoveConfig, Clear

\* ... or some of them fail.
LEMMA SomeRemovedIs ==
  ASSUME Types, NEW prs, NEW heads, RemoveConfig(prs, heads) \/ RemoveSome(prs, heads)
  PROVE  /\ refs' \subseteq refs /\ remotes' \subseteq remotes /\ remotes \ prs \subseteq remotes'
         /\ section' \in [Branches -> PRs \cup {None}]
         /\ \A b \in Branches :
              /\ section'[b] = section[b] \/ section'[b] = None
              /\ b \notin heads /\ (\A p \in prs : b # Synthetic(p)) => section'[b] = section[b]
<1>1. CASE RemoveConfig(prs, heads)
  BY <1>1, RemovedIs
<1>2. CASE RemoveSome(prs, heads)
  <2>1. PICK some \in SUBSET prs,
             sections \in SUBSET ({Synthetic(p) : p \in prs} \cup heads),
             branches \in SUBSET ({Synthetic(p) : p \in prs} \cup heads) :
               Clear(some, sections, branches)
    BY <1>2 DEF RemoveSome
  <2>2. /\ remotes' = remotes \ some /\ refs' \subseteq refs
        /\ section' = [b \in Branches |-> IF b \in sections THEN None ELSE section[b]]
    BY <2>1 DEF Clear
  <2>3. \A b \in sections : b \in heads \/ \E p \in prs : b = Synthetic(p)
    OBVIOUS
  <2> QED
    BY <2>2, <2>3 DEF Types
<1> QED
  BY <1>1, <1>2

\* A run with a checkout keeps its push target if it is not among those that
\* lose it.
LEMMA LosingSpares ==
  ASSUME Types, Taking, NEW prs \in SUBSET PRs, NEW heads,
         RemoveConfig(prs, heads) \/ RemoveSome(prs, heads), of' = of,
         NEW q \in Runs, Due(q), Has(q), Pushes(q), q \notin Losing(prs, heads)
  PROVE  Pushes(q)'
<1>1. of[q] \in PRs /\ Local(of[q]) \in Branches
  BY NameTypes DEF Due, Taking, Late, At
<1>2. of[q] \notin prs /\ Local(of[q]) \notin heads
  BY DEF Has, Registered, Losing
<1>3. \A p \in prs : Local(of[q]) # Synthetic(p)
  BY <1>1, <1>2, Distinct DEF Local
<1>4. /\ remotes \ prs \subseteq remotes'
      /\ \A b \in Branches :
           b \notin heads /\ (\A p \in prs : b # Synthetic(p)) => section'[b] = section[b]
  BY SomeRemovedIs
<1> QED
  BY <1>1, <1>2, <1>3, <1>4 DEF Pushes

\* What a goroutine removes: what is left has a run that owns it, if only the one
\* that gives it up.
LEMMA ReclaimIs ==
  ASSUME Types, Budgeted, Taking, Owned, Equipped, Sections, NEW r \in Runs, of[r] \in PRs,
         Reclaim(r), of' = of
  PROVE  /\ Budgeted' /\ leaks \subseteq leaks' /\ leaks' \subseteq Runs /\ stripped' \subseteq Runs
         /\ refs' \subseteq refs /\ remotes' \subseteq remotes
         /\ section' \in [Branches -> PRs \cup {None}]
         /\ Sections'
         /\ \A p \in remotes' : \E q \in Runs : Owns(q) /\ of[q] = p /\ (q # r \/ r \in leaks')
         /\ \A b \in Branches : section'[b] # None =>
              \E q \in Runs : Owns(q) /\ of[q] = section'[b] /\ (q # r \/ r \in leaks')
         /\ \A q \in Runs :
              Due(q) /\ Has(q) /\ Kind[of[q]] # "deleted" /\ q \notin stripped' => Pushes(q)'
<1> DEFINE heads == {Named(Head[of[r]])}
           prs == {of[r]}
<1>1. /\ RemoveConfig(prs, heads) \/ RemoveSome(prs, heads)
      /\ stripped' = stripped \cup Losing(prs, heads)
      /\ \/ RemoveConfig(prs, heads) /\ UNCHANGED <<leaks, budget>>
         \/ RemoveSome(prs, heads) /\ leaks' = leaks \cup {r}
  BY DEF Reclaim
<1>2. Budgeted'
  BY <1>1, SpendKeeps DEF RemoveSome, Budgeted, Inputs
<1>3. leaks \subseteq leaks' /\ leaks' \subseteq Runs /\ stripped' \subseteq Runs
  BY <1>1 DEF Types, Losing
<1>4. /\ refs' \subseteq refs /\ remotes' \subseteq remotes
      /\ section' \in [Branches -> PRs \cup {None}]
      /\ \A b \in Branches : section'[b] = section[b] \/ section'[b] = None
  BY <1>1, SomeRemovedIs
<1>5. Sections'
  BY <1>4 DEF Sections
<1>6. \A q \in Runs : Due(q) /\ Has(q) /\ Kind[of[q]] # "deleted" /\ q \notin stripped' => Pushes(q)'
  BY <1>1, LosingSpares DEF Equipped
<1>7. CASE RemoveConfig(prs, heads) /\ r \notin leaks'
  <2>1. /\ of[r] \notin remotes'
        /\ \A b \in Branches : section'[b] # None => b # Synthetic(of[r]) /\ b # Named(Head[of[r]])
    BY <1>7, RemovedIs
  <2>2. \A b \in Branches : section'[b] # None => section'[b] = section[b] /\ section[b] # of[r]
    BY <1>4, <2>1 DEF Sections, Local
  <2> QED
    BY <1>2, <1>3, <1>4, <1>5, <1>6, <2>1, <2>2 DEF Owned
<1>8. CASE r \in leaks'
  BY <1>2, <1>3, <1>4, <1>5, <1>6, <1>8 DEF Owned
<1> QED
  BY <1>1, <1>7, <1>8

-----------------------------------------------------------------------------
(***************************************************************************)
(* Steps that leave a part of the state alone.                             *)
(***************************************************************************)
\* A step that touches no file keeps what is known of them, if no run forgets
\* what it is about to do.
Tends(r) ==
  /\ of'[r] = of[r] \/ At(r, "idle")
  /\ pc'[r] \in {"idle", "setup", "add"} => pc[r] \in {"idle", "setup", "add"}
  /\ At(r, "add")' => At(r, "add")
  /\ pc'[r] \in {"undoPrune", "prune"} => pc'[r] = pc[r]
  /\ hand'[r] \in {"none", "copy"} => hand[r] \in {"none", "copy"}
  /\ hand'[r] \in {"sourcePrune", "destPrune", "abortPrune", "releasePrune"} => hand'[r] = hand[r]
  /\ hand'[r] = "abort" => hand[r] \in {"abort", "copy"}
  /\ At(r, "over") /\ hand[r] = "none" => At(r, "over")' /\ hand'[r] = "none"
  /\ CaresRun(r) => CaresRun(r)' \/ RunDir(r) \in strays'
  /\ CaresUser(r) => CaresUser(r)' \/ UserDir(r) \in strays'

LEMMA FilesFrame ==
  ASSUME IInv, UNCHANGED <<trees, disk>>, strays \subseteq strays', \A r \in Runs : Tends(r)
  PROVE  InvFiles'
<1> USE DEF IInv, InvControl, InvFiles, Tends, Registered, At
<1>1. Placed'
  BY DEF Placed, Taking, Late
<1>2. Reserved'
  BY DEF Reserved, Free, CheckedOut
<1>3. OneCheckout'
  BY DEF OneCheckout
<1>4. Locked'
  BY DEF Locked
<1>5. Emptied'
  BY DEF Emptied, Placed
<1>6. Cared'
  BY DEF Cared
<1> QED
  BY <1>1, <1>2, <1>3, <1>4, <1>5, <1>6

\* A step that touches no configuration keeps what is known of it, if no run
\* becomes due for one, or forgets to remove it.
Minds(r) ==
  /\ At(r, "branch")' => At(r, "branch")
  /\ At(r, "exclude")' => At(r, "exclude")
  /\ Due(r)' => Due(r)
  /\ Has(r)' => Has(r)
  /\ Stays(r) => Stays(r)' \/ r \in leaks'

LEMMA ConfigFrame ==
  ASSUME IInv, UNCHANGED <<section, remotes, of, stripped>>, leaks \subseteq leaks',
         \A r \in Runs : Minds(r)
  PROVE  InvConfig'
<1> USE DEF IInv, InvConfig, Minds, Pushes
<1>1. Sections' /\ Tracking'
  BY DEF Sections, Tracking
<1>2. Equipped'
  BY DEF Equipped
<1>3. Owned'
  <2>1. \A r \in Runs : Owns(r) => Owns(r)'
    BY DEF Owns
  <2> QED
    BY <2>1 DEF Owned
<1> QED
  BY <1>1, <1>2, <1>3

-----------------------------------------------------------------------------
(***************************************************************************)
(* The invariant is inductive: one lemma per kind of actor.                *)
(***************************************************************************)
\* What the setup of a run preserves.
LEMMA SetupPreserves ==
  ASSUME IInv, NEW r \in Runs,
         \/ Delegate(r) \/ Fetch(r) \/ AddTree(r) \/ TrackRemote(r) \/ TrackBranch(r)
         \/ WriteExcludes(r) \/ Undo(r)
  PROVE  IInv'
<1> USE DEF IInv, InvControl, InvFiles, InvConfig
<1>1. CASE Delegate(r)
  <2>1. Budgeted'
    BY <1>1 DEF Delegate, Budgeted
  <2>2. Types'
    BY <1>1 DEF Delegate, Types, PCs, boot, files, git, handler, marks
  <2>3. Mutex' /\ Taking'
    <3>1. PICK p \in PRs : of' = [of EXCEPT ![r] = p]
      BY <1>1 DEF Delegate
    <3>2. pc' = [pc EXCEPT ![r] = "setup"] /\ pc[r] = "idle" /\ UNCHANGED <<lock, hand, taken>>
      BY <1>1 DEF Delegate, At, handler
    <3>3. of' \in [Runs -> PRs \cup {None}] /\ \A q \in Runs \ {r} : of'[q] = of[q] /\ pc'[q] = pc[q]
      BY <3>1, <3>2 DEF Types
    <3>4. of'[r] \in PRs /\ pc'[r] = "setup"
      BY <3>1, <3>2 DEF Types
    <3>5. Mutex'
      BY <3>2, <3>3, <3>4 DEF Mutex, SetUp, At
    <3>6. hand[r] = "none" /\ r \notin taken
      BY <3>2 DEF Taking, Late
    <3>7. Taking'
      <4> SUFFICES ASSUME NEW q \in Runs
                   PROVE  /\ of'[q] \in PRs <=> ~At(q, "idle")'
                          /\ hand'[q] # "none" => pc'[q] \in Late \cup {"over"}
                          /\ q \in taken' => hand'[q] # "none"
        BY DEF Taking
      <4>1. CASE q = r
        BY <4>1, <3>2, <3>4, <3>6 DEF At
      <4>2. CASE q # r
        BY <4>2, <3>2, <3>3 DEF Taking, At
      <4> QED
        BY <4>1, <4>2
    <3> QED
      BY <3>5, <3>7
  <2>4. Sweeping'
    BY <1>1 DEF Delegate, Sweeping, CheckedOut, boot, files
  <2>5. \A q \in Runs : Tends(q)
    BY <1>1 DEF Delegate, Tends, CaresRun, CaresUser, SetUp, Late, At, handler
  <2>6. InvFiles'
    BY <1>1, <2>5, FilesFrame DEF Delegate, files, marks
  <2>7. Sections' /\ Tracking'
    BY <1>1 DEF Delegate, Sections, Tracking, Pushes, At, git
  <2>8. Equipped'
    BY <1>1 DEF Delegate, Equipped, Due, Has, Pushes, Late, Registered, Taking, At, files, git,
        handler, marks
  <2>9. Owned'
    <3>1. \A q \in Runs : of[q] \in PRs => q # r
      BY <1>1, NameTypes DEF Delegate, At, Taking
    <3>2. \A q \in Runs \ {r} : of'[q] = of[q] /\ (Owns(q) => Owns(q)')
      BY <1>1 DEF Delegate, Owns, Stays, handler, marks
    <3>3. UNCHANGED <<remotes, section>>
      BY <1>1 DEF Delegate, git
    <3> QED
      BY <3>1, <3>2, <3>3 DEF Owned, Types
  <2> QED
    BY <2>1, <2>2, <2>3, <2>4, <2>6, <2>7, <2>8, <2>9
<1>2. CASE Fetch(r)
  <2>1. of[r] \in PRs /\ Local(of[r]) \in Branches
    BY <1>2, NameTypes DEF Fetch, At, Taking
  <2>2. Budgeted'
    BY <1>2, SpendKeeps DEF Fetch, Budgeted, Inputs
  <2>3. Types'
    BY <1>2, <2>1 DEF Fetch, Types, PCs, Goto, boot, files, handler, marks
  <2>4. Mutex' /\ Taking'
    BY <1>2 DEF Fetch, Mutex, Taking, Types, SetUp, Late, At, Goto, handler
  <2>5. Sweeping'
    BY <1>2 DEF Fetch, Sweeping
  <2>6. Placed'
    BY <1>2 DEF Fetch, Placed, Types, Registered, At, Goto, files, handler
  <2>7. Reserved'
    <3>1. \A q \in Runs : ~At(q, "add")
      BY <1>2 DEF Fetch, Mutex
    <3>2. \A q \in Runs : At(q, "add")' => q = r /\ Free(Local(of[r]))
      BY <1>2, <3>1 DEF Fetch, Goto, At, Types
    <3> QED
      BY <1>2, <3>2 DEF Fetch, Goto, Reserved, Free, CheckedOut, files
  <2>8. OneCheckout'
    BY <1>2 DEF Fetch, OneCheckout, files
  <2>9. Locked' /\ Emptied'
    BY <1>2 DEF Fetch, Locked, Emptied, Types, Registered, At, Goto, files, handler, marks
  <2>10. Cared'
    BY <1>2 DEF Fetch, Cared, CaresRun, CaresUser, Types, SetUp, Late, At, Goto, files, handler, marks
  <2>11. \A q \in Runs : Minds(q)
    BY <1>2 DEF Fetch, Minds, Due, Stays, SetUp, Late, Types, Has, Registered, At, Goto, files,
        handler
  <2>12. InvConfig'
    BY <1>2, <2>2, <2>11, ConfigFrame DEF Fetch, Goto, marks
  <2> QED
    BY <2>2, <2>3, <2>4, <2>5, <2>6, <2>7, <2>8, <2>9, <2>10, <2>12
<1>3. CASE AddTree(r)
  <2>1. of[r] \in PRs /\ Local(of[r]) \in Branches
    BY <1>3, NameTypes DEF AddTree, At, Taking
  <2>2. /\ of' = of /\ ended' = ended /\ hand[r] = "none" /\ \A q \in Runs \ {r} : pc'[q] = pc[q]
        /\ pc[r] = "add" /\ pc'[r] \in {"remote", "branch", "exclude", "over"}
        /\ pc'[r] = "branch" => Kind[of[r]] = "own"
        /\ pc'[r] = "exclude" => Kind[of[r]] = "deleted"
    BY <1>3 DEF AddTree, Goto, At, Types, Taking, Late
  <2>3. /\ lock = {r} /\ \A q \in Runs : At(q, "add") \/ pc[q] \in SetUp => q = r
        /\ \A t \in trees : t.dir # RunDir(r) /\ t.branch # Local(of[r])
        /\ RunDir(r) \notin disk
    BY <2>2 DEF At, Mutex, Placed, Reserved, Free, CheckedOut, Registered
  <2>4. \/ UNCHANGED <<trees, disk, strays>>
        \/ \E new \in [dir : Dirs, branch : Branches, locked : BOOLEAN] :
             /\ new.dir = RunDir(r) /\ new.branch = Local(of[r])
             /\ trees' = trees \cup {new} /\ disk' = disk \cup {RunDir(r)}
             /\ IF new.locked THEN strays' = strays \cup {RunDir(r)} /\ pc'[r] = "over"
                              ELSE strays' = strays /\ pc'[r] # "over"
    <3> DEFINE whole == Tree(RunDir(r), Local(of[r]))
               part == [whole EXCEPT !.locked = TRUE]
               trs == [dir : Dirs, branch : Branches, locked : BOOLEAN]
    <3>1. whole \in trs /\ whole.dir = RunDir(r) /\ whole.branch = Local(of[r]) /\ ~whole.locked
      BY <2>1, NameTypes DEF Tree
    <3>2. part \in trs /\ part.dir = RunDir(r) /\ part.branch = Local(of[r]) /\ part.locked
      BY <3>1
    <3>3. \/ UNCHANGED <<trees, disk, strays>>
          \/ /\ trees' = trees \cup {whole} /\ disk' = disk \cup {RunDir(r)}
             /\ strays' = strays /\ pc'[r] # "over"
          \/ /\ trees' = trees \cup {part} /\ disk' = disk \cup {RunDir(r)}
             /\ strays' = strays \cup {RunDir(r)} /\ pc'[r] = "over"
      <4>1. pc \in [Runs -> PCs]
        BY DEF Types
      <4> QED
        BY <1>3, <4>1 DEF AddTree, Goto, files
    <3> HIDE DEF whole, part
    <3> QED
      BY <3>1, <3>2, <3>3
  <2>5. Budgeted'
    BY <1>3, SpendKeeps DEF AddTree, Budgeted, Inputs
  <2>6. Types'
    BY <1>3, <2>4 DEF AddTree, Types, PCs, Goto, boot, git, handler
  <2>7. Mutex' /\ Taking'
    BY <1>3, <2>1, <2>2 DEF AddTree, Mutex, Taking, Types, SetUp, At, Goto, handler
  <2>8. Sweeping'
    BY <1>3, <2>3 DEF AddTree, Sweeping
  <2>9. InvFiles'
    <3>1. CASE UNCHANGED <<trees, disk, strays>>
      <4>1. \A q \in Runs : Tends(q)
        BY <1>3, <2>2 DEF AddTree, Tends, CaresRun, CaresUser, At, SetUp, Late, handler
      <4> QED
        BY <3>1, <4>1, FilesFrame
    <3>2. ASSUME NEW new \in [dir : Dirs, branch : Branches, locked : BOOLEAN],
                 new.dir = RunDir(r), new.branch = Local(of[r]),
                 trees' = trees \cup {new}, disk' = disk \cup {RunDir(r)},
                 IF new.locked THEN strays' = strays \cup {RunDir(r)} /\ pc'[r] = "over"
                               ELSE strays' = strays /\ pc'[r] # "over"
          PROVE  InvFiles'
      <4>1. hand' = hand /\ new.dir = RunDir(r) /\ new.branch = Local(of[r])
        BY <1>3, <3>2 DEF AddTree, handler
      <4>2. trees' = trees \cup {new}
        BY <3>2
      <4>3. Placed'
        <5>1. \A t \in trees', q \in Runs :
                /\ t.dir = RunDir(q) => pc'[q] \notin {"idle", "setup", "add"} /\ t.branch = Local(of'[q])
                /\ t.dir = UserDir(q) => hand'[q] \notin {"none", "copy"} /\ t.branch = Local(of'[q])
          BY <4>1, <4>2, <2>2, Distinct DEF Placed
        <5>2. \A t \in trees', j \in Projects : t.dir = PinDir(j) => t.branch = Named(Base)
          BY <4>1, <4>2, Distinct DEF Placed
        <5>3. \A t, u \in trees' : t.dir = u.dir => t = u
          BY <4>1, <4>2, <2>3 DEF Placed
        <5>4. \A dir \in disk' : Registered(dir)'
          BY <3>2 DEF Placed, Registered
        <5> QED
          BY <5>1, <5>2, <5>3, <5>4 DEF Placed
      <4>4. Reserved'
        BY <2>2, <2>3 DEF Reserved, At
      <4>5. OneCheckout'
        BY <4>1, <4>2, <2>3 DEF OneCheckout
      <4>6. Locked'
        BY <3>2, <4>1, <2>2 DEF Locked, At
      <4>7. Emptied'
        BY <3>2, <4>1, <2>2, Distinct DEF Emptied, Registered
      <4>8. Cared'
        BY <3>2, <4>1, <2>2, Distinct DEF Cared, CaresRun, CaresUser, SetUp
      <4> QED
        BY <4>3, <4>4, <4>5, <4>6, <4>7, <4>8
    <3> QED
      BY <3>1, <3>2, <2>4
  <2>10. Sections' /\ Tracking'
    BY <1>3, <2>2 DEF AddTree, Sections, Tracking, Pushes, At, git
  <2>11. Equipped'
    BY <1>3, <2>2, <2>4, Distinct DEF AddTree, Equipped, Due, Has, Pushes, Late, Registered,
        git, handler
  <2>12. Owned'
    BY <1>3, <2>2, <2>5 DEF AddTree, Owned, Owns, Stays, SetUp, Late, git, handler
  <2> QED
    BY <2>5, <2>6, <2>7, <2>8, <2>9, <2>10, <2>11, <2>12
<1>4. CASE TrackRemote(r)
  <2>1. of[r] \in PRs /\ Local(of[r]) \in Branches
    BY <1>4, NameTypes DEF TrackRemote, At, Taking
  <2>2. Budgeted'
    BY <1>4, SpendKeeps DEF TrackRemote, Budgeted, Inputs
  <2>3. Types'
    <3>1. remotes' \subseteq PRs
      BY <1>4, <2>1 DEF TrackRemote, Types
    <3>2. pc' \in [Runs -> PCs] /\ of' = of
      BY <1>4 DEF TrackRemote, Fail, Goto, Types, PCs
    <3> QED
      BY <1>4, <3>1, <3>2 DEF TrackRemote, Fail, Goto, Types, files, handler, boot, marks
  <2>4. Mutex' /\ Taking'
    BY <1>4 DEF TrackRemote, Mutex, Taking, Types, SetUp, Late, At, Fail, Goto, handler
  <2>5. Sweeping'
    BY <1>4 DEF TrackRemote, Sweeping, CheckedOut, Fail, boot, files
  <2>6. \A q \in Runs : Tends(q)
    BY <1>4 DEF TrackRemote, Tends, CaresRun, CaresUser, SetUp, Types, At, Fail, Goto, handler
  <2>7. InvFiles'
    BY <1>4, <2>6, FilesFrame DEF TrackRemote, files, marks
  <2>8. Sections' /\ Tracking'
    BY <1>4 DEF TrackRemote, Sections, Tracking, Types, Pushes, At, Fail, Goto
  <2>9. Equipped'
    BY <1>4 DEF TrackRemote, Equipped, Due, Has, Pushes, Types, Late, Registered, Fail, Goto,
        files, handler, marks
  <2>10. Owned'
    <3>1. \A q \in Runs : Owns(q) => Owns(q)'
      BY <1>4 DEF TrackRemote, Fail, Goto, Owns, Stays, SetUp, Types, handler, marks
    <3>2. Owns(r) /\ of' = of /\ remotes' \subseteq remotes \cup {of[r]}
      BY <1>4 DEF TrackRemote, Fail, Goto, At, Owns, Stays, SetUp
    <3> QED
      BY <1>4, <2>2, <3>1, <3>2 DEF TrackRemote, marks, handler, Owned
  <2> QED
    BY <2>2, <2>3, <2>4, <2>5, <2>7, <2>8, <2>9, <2>10
<1>5. CASE TrackBranch(r)
  <2>1. of[r] \in PRs /\ Local(of[r]) \in Branches
    BY <1>5, NameTypes DEF TrackBranch, At, Taking
  <2>2. Budgeted'
    BY <1>5, SpendKeeps DEF TrackBranch, Budgeted, Inputs
  <2>3. Types'
    BY <1>5 DEF TrackBranch, Types, PCs, Fail, Goto, boot, files, handler, marks
  <2>4. Mutex' /\ Taking'
    BY <1>5 DEF TrackBranch, Mutex, Taking, Types, SetUp, Late, At, Fail, Goto, handler
  <2>5. Sweeping'
    BY <1>5 DEF TrackBranch, Sweeping, CheckedOut, Fail, boot, files
  <2>6. \A q \in Runs : Tends(q)
    BY <1>5 DEF TrackBranch, Tends, CaresRun, CaresUser, SetUp, Types, At, Fail, Goto, handler
  <2>7. InvFiles'
    BY <1>5, <2>6, FilesFrame DEF TrackBranch, files, marks
  <2>8. Sections' /\ Tracking'
    <3>1. Sections'
      BY <1>5 DEF TrackBranch, Sections, Types
    <3>2. ASSUME NEW q \in Runs
          PROVE  /\ At(q, "branch")' /\ Kind[of'[q]] = "fork" => of'[q] \in remotes'
                 /\ At(q, "exclude")' /\ Kind[of'[q]] # "deleted" => Pushes(q)'
      <4>1. CASE q = r
        BY <1>5, <4>1, <2>1, NameTypes DEF TrackBranch, Fail, Goto, At, Types, Tracking, Pushes
      <4>2. CASE q # r
        <5>1. pc'[q] = pc[q]
          BY <1>5, <4>2 DEF TrackBranch, Fail, Goto, Types
        <5>2. pc[q] \notin SetUp
          BY <1>5, <4>2 DEF TrackBranch, At, Mutex, SetUp
        <5> QED
          BY <5>1, <5>2 DEF At, SetUp
      <4> QED
        BY <4>1, <4>2
    <3> QED
      BY <3>1, <3>2 DEF Tracking
  <2>9. Equipped'
    <3>1. \A b \in Branches : section[b] # None => section'[b] # None
      BY <1>5, <2>1, NameTypes DEF TrackBranch, Types
    <3>2. \A q \in Runs : Due(q) /\ Kind[of[q]] # "deleted" /\ Pushes(q) => Pushes(q)'
      BY <1>5, <3>1, NameTypes DEF TrackBranch, Fail, Goto, Due, Taking, At, Late, Pushes
    <3>3. \A q \in Runs : (Due(q)' => Due(q)) /\ (Has(q)' => Has(q))
      BY <1>5 DEF TrackBranch, Fail, Goto, Due, Late, Types, Has, Registered, files, handler
    <3> QED
      BY <1>5, <3>2, <3>3 DEF TrackBranch, Fail, Goto, marks, Equipped
  <2>10. Owned'
    BY <1>5, <2>2 DEF TrackBranch, Owned, Owns, Stays, Types, SetUp, Fail, Goto, handler, marks
  <2> QED
    BY <2>2, <2>3, <2>4, <2>5, <2>7, <2>8, <2>9, <2>10
<1>6. CASE WriteExcludes(r)
  <2>1. Budgeted'
    BY <1>6, SpendKeeps DEF WriteExcludes, Budgeted, Inputs
  <2>2. Types'
    BY <1>6 DEF WriteExcludes, Types, PCs, Fail, Goto, boot, files, git, handler, marks
  <2>3. Mutex' /\ Taking'
    BY <1>6 DEF WriteExcludes, Mutex, Taking, Types, SetUp, Late, At, Fail, Goto, git, handler,
        marks
  <2>4. Sweeping'
    BY <1>6 DEF WriteExcludes, Sweeping, CheckedOut, Fail, boot, files
  <2>5. \A q \in Runs : Tends(q)
    BY <1>6 DEF WriteExcludes, Tends, CaresRun, CaresUser, SetUp, Late, Types, At, Fail, Goto, handler
  <2>6. InvFiles'
    BY <1>6, <2>5, FilesFrame DEF WriteExcludes, files, marks
  <2>7. Sections' /\ Tracking'
    BY <1>6 DEF WriteExcludes, Sections, Tracking, Types, Pushes, At, Fail, Goto, git
  <2>8. Equipped'
    <3>1. \A q \in Runs : Due(q)' => Due(q) \/ q = r
      BY <1>6 DEF WriteExcludes, Fail, Goto, Due, Types, handler
    <3>2. \A q \in Runs : (Has(q)' => Has(q)) /\ Pushes(q)' = Pushes(q)
      BY <1>6 DEF WriteExcludes, Fail, Goto, Has, Registered, Pushes, files, git
    <3>3. Kind[of[r]] # "deleted" => Pushes(r)
      BY <1>6 DEF WriteExcludes, Tracking
    <3> QED
      BY <1>6, <3>1, <3>2, <3>3 DEF WriteExcludes, Fail, Goto, marks, Equipped
  <2>9. Owned'
    BY <1>6, <2>1 DEF WriteExcludes, Owned, Owns, Stays, Types, SetUp, Late, Fail, Goto, git, handler,
        marks
  <2> QED
    BY <2>1, <2>2, <2>3, <2>4, <2>6, <2>7, <2>8, <2>9
<1>7. CASE Undo(r)
  <2>1. of[r] \in PRs /\ Reclaim(r) /\ of' = of /\ \A q \in Runs : Has(q)' = Has(q)
    BY <1>7 DEF Undo, At, Taking, Late, Goto, files, Has, Registered
  <2>2. /\ Budgeted' /\ leaks \subseteq leaks' /\ leaks' \subseteq Runs /\ stripped' \subseteq Runs
        /\ refs' \subseteq refs /\ remotes' \subseteq remotes
        /\ section' \in [Branches -> PRs \cup {None}]
        /\ Sections'
        /\ \A p \in remotes' : \E q \in Runs : Owns(q) /\ of[q] = p /\ (q # r \/ r \in leaks')
        /\ \A b \in Branches : section'[b] # None =>
             \E q \in Runs : Owns(q) /\ of[q] = section'[b] /\ (q # r \/ r \in leaks')
        /\ \A q \in Runs :
             Due(q) /\ Has(q) /\ Kind[of[q]] # "deleted" /\ q \notin stripped' => Pushes(q)'
    BY <2>1, ReclaimIs
  <2>3. Types'
    <3>1. pc' \in [Runs -> PCs]
      BY <1>7 DEF Undo, Types, PCs, Goto
    <3> QED
      BY <1>7, <2>2, <3>1 DEF Undo, Types, Goto, boot, files, handler
  <2>4. Mutex' /\ Taking'
    BY <1>7 DEF Undo, Mutex, Taking, Types, SetUp, Late, At, Goto, handler
  <2>5. Sweeping'
    BY <1>7 DEF Undo, Sweeping, CheckedOut, boot, files
  <2>6. \A q \in Runs : Tends(q)
    BY <1>7 DEF Undo, Tends, CaresRun, CaresUser, At, Goto, handler
  <2>7. InvFiles'
    BY <1>7, <2>6, FilesFrame DEF Undo, files
  <2>8. Tracking'
    BY <1>7 DEF Undo, Tracking, Goto, At, Mutex, SetUp
  <2>9. Equipped'
    <3>1. \A q \in Runs : Due(q)' => Due(q)
      BY <1>7 DEF Undo, Goto, Due, handler, Late
    <3> QED
      BY <2>1, <2>2, <3>1 DEF Equipped
  <2>10. Owned'
    <3>1. \A q \in Runs : Owns(q) /\ (q # r \/ r \in leaks') => Owns(q)'
      BY <1>7, <2>2 DEF Undo, Goto, Owns, Stays, handler
    <3> QED
      BY <2>1, <2>2, <3>1 DEF Owned
  <2> QED
    BY <2>2, <2>3, <2>4, <2>5, <2>7, <2>8, <2>9, <2>10
<1> QED
  BY <1>1, <1>2, <1>3, <1>4, <1>5, <1>6, <1>7

\* What the end of a run preserves.
LEMMA EndPreserves ==
  ASSUME IInv, NEW r \in Runs,
         \/ WorkEnds(r) \/ Finish(r) \/ Defers(r) \/ RemoveDir(r) \/ RemoveFails(r)
         \/ PruneAll(r) \/ Cleanup(r) \/ ParkedChainEnds(r) \/ Cancel(r)
  PROVE  IInv'
<1> USE DEF IInv, InvControl, InvFiles, InvConfig
<1>1. CASE WorkEnds(r)
  <2>0. /\ of' = of /\ ended' = ended /\ \A q \in Runs \ {r} : pc'[q] = pc[q]
        /\ pc[r] = "work" /\ pc'[r] \in {"defer", "finish", "stop"} /\ pc' \in [Runs -> PCs]
    BY <1>1 DEF WorkEnds, Goto, At, Types, PCs
  <2>1. Budgeted'
    BY <1>1 DEF WorkEnds, Budgeted
  <2>2. Types'
    BY <1>1, <2>0 DEF WorkEnds, Types, boot, files, git, handler, marks
  <2>3. Mutex' /\ Taking'
    BY <1>1, <2>0 DEF WorkEnds, Mutex, Taking, SetUp, Late, At, handler
  <2>4. Sweeping'
    BY <1>1 DEF WorkEnds, Sweeping, CheckedOut, boot, files
  <2>5. \A q \in Runs : Tends(q)
    BY <1>1, <2>0 DEF WorkEnds, Tends, CaresRun, CaresUser, Late, At, handler
  <2>6. InvFiles'
    BY <1>1, <2>5, FilesFrame DEF WorkEnds, files, marks
  <2>7. \A q \in Runs : Minds(q)
    BY <1>1, <2>0 DEF WorkEnds, Minds, Due, Stays, Late, Has, Registered, At, files, handler
  <2>8. InvConfig'
    BY <1>1, <2>7, <2>0, ConfigFrame DEF WorkEnds, git, marks
  <2> QED
    BY <2>1, <2>2, <2>3, <2>4, <2>6, <2>8
<1>2. CASE Defers(r)
  <2>1. Budgeted'
    BY <1>2 DEF Defers, Budgeted
  <2>2. Types'
    BY <1>2 DEF Defers, Types, PCs, Goto, boot, files, git, handler, marks
  <2>3. Mutex' /\ Taking'
    BY <1>2 DEF Defers, Mutex, Taking, SetUp, Late, At, Goto, handler
  <2>4. Sweeping'
    BY <1>2 DEF Defers, Sweeping, CheckedOut, boot, files
  <2>5. \A q \in Runs : Tends(q)
    BY <1>2 DEF Defers, Tends, CaresRun, CaresUser, Late, Taking, At, Goto, handler
  <2>6. InvFiles'
    BY <1>2, <2>5, FilesFrame DEF Defers, files, marks
  <2>7. \A q \in Runs : Minds(q)
    BY <1>2 DEF Defers, Minds, Due, Stays, Late, Taking, Has, Registered, At, Goto, files,
        handler
  <2>8. InvConfig'
    BY <1>2, <2>1, <2>7, ConfigFrame DEF Defers, Goto, git, marks
  <2> QED
    BY <2>1, <2>2, <2>3, <2>4, <2>6, <2>8
<1>3. CASE RemoveDir(r)
  <2>1. Budgeted'
    BY <1>3 DEF RemoveDir, Goto, Budgeted
  <2>2. Types'
    BY <1>3 DEF RemoveDir, Goto, Types, PCs, boot, git, handler, marks
  <2>3. Mutex' /\ Taking'
    BY <1>3 DEF RemoveDir, Goto, Mutex, Taking, SetUp, Late, At, handler
  <2>4. Sweeping'
    BY <1>3 DEF RemoveDir, Goto, Sweeping, CheckedOut, boot
  <2>5. Placed'
    BY <1>3 DEF RemoveDir, Goto, Placed, Registered, handler
  <2>6. Reserved'
    BY <1>3 DEF RemoveDir, Goto, Reserved, Free, CheckedOut, At
  <2>7. OneCheckout'
    BY <1>3 DEF RemoveDir, Goto, OneCheckout
  <2>8. Locked' /\ Emptied'
    BY <1>3 DEF RemoveDir, Goto, Locked, Emptied, Registered, At, handler, marks
  <2>9. Cared'
    BY <1>3 DEF RemoveDir, Goto, Cared, CaresRun, CaresUser, SetUp, Late, handler, marks
  <2>10. \A q \in Runs : Minds(q)
    BY <1>3 DEF RemoveDir, Goto, Minds, Due, Stays, SetUp, Late, Has, Registered, At, handler
  <2>11. InvConfig'
    BY <1>3, <2>1, <2>10, ConfigFrame DEF RemoveDir, Goto, git, marks
  <2> QED
    BY <2>1, <2>2, <2>3, <2>4, <2>5, <2>6, <2>7, <2>8, <2>9, <2>11
<1>4. CASE RemoveFails(r)
  <2>1. Budgeted'
    BY <1>4, SpendKeeps DEF RemoveFails, Inputs
  <2>2. Types'
    BY <1>4, NameTypes DEF RemoveFails, Types, PCs, Goto, boot, files, git, handler
  <2>3. Mutex' /\ Taking'
    BY <1>4 DEF RemoveFails, Mutex, Taking, SetUp, Late, At, Goto, handler
  <2>4. Sweeping'
    BY <1>4 DEF RemoveFails, Sweeping, CheckedOut, boot, files
  <2>5. \A q \in Runs : Tends(q)
    BY <1>4 DEF RemoveFails, Tends, CaresRun, CaresUser, SetUp, Late, At, Goto, handler
  <2>6. InvFiles'
    BY <1>4, <2>5, FilesFrame DEF RemoveFails, files
  <2>7. \A q \in Runs : Minds(q)
    BY <1>4 DEF RemoveFails, Minds, Due, Stays, SetUp, Late, Has, Registered, At, Goto, files, handler
  <2>8. InvConfig'
    BY <1>4, <2>7, ConfigFrame DEF RemoveFails, Goto, git
  <2> QED
    BY <2>1, <2>2, <2>3, <2>4, <2>6, <2>8
<1>5. CASE PruneAll(r)
  <2>1. /\ hand' = hand /\ of' = of /\ ended' = ended /\ \A q \in Runs \ {r} : pc'[q] = pc[q]
        /\ pc[r] \in {"undoPrune", "earlyPrune", "prune"}
        /\ pc'[r] = CASE pc[r] = "undoPrune" -> "undoConfig"
                      [] pc[r] = "earlyPrune" -> "defer"
                      [] OTHER -> "cleanup"
    BY <1>5 DEF PruneAll, Goto, handler, Types, At
  <2>2. Budgeted'
    BY <1>5, SpendKeeps DEF PruneAll, Budgeted, Inputs
  <2>3. trees' \subseteq trees /\ strays \subseteq strays' /\ strays' \subseteq Dirs /\ UNCHANGED leaks
    BY <1>5, PrunedIs, NameTypes DEF PruneAll, Types
  <2>4. Types'
    BY <1>5, <2>3 DEF PruneAll, Types, PCs, Goto, boot, git, handler
  <2>5. Mutex' /\ Taking'
    BY <1>5, <2>1 DEF PruneAll, Mutex, Taking, SetUp, Late, At, handler
  <2>6. Sweeping'
    BY <1>5, <2>3 DEF PruneAll, Sweeping, CheckedOut, boot
  <2>7. InvFiles'
    <3>1. CASE UNCHANGED trees /\ strays' = strays \cup {RunDir(r)}
      <4>1. RunDir(r) \in strays'
        BY <3>1
      <4>2. \A q \in Runs : Tends(q)
        BY <2>1, <4>1 DEF Tends, CaresRun, CaresUser, SetUp, Late, At
      <4> QED
        BY <1>5, <2>3, <3>1, <4>2, FilesFrame DEF PruneAll
    <3>2. CASE trees' = Pruned(trees, disk) /\ UNCHANGED strays
      <4>1. /\ \A t \in trees : t \in trees' <=> t.dir \in disk \/ t.locked
            /\ \A dir : Registered(dir)' => Registered(dir)
        BY <3>2, PrunedIs
      <4>2. pc[r] \in {"undoPrune", "prune"} => \A t \in trees' : t.dir = RunDir(r) => t.locked
        BY <2>3, <4>1 DEF Emptied
      <4>3. Placed'
        BY <1>5, <2>1, <2>3, <4>1 DEF PruneAll, Placed, Registered
      <4>4. Reserved'
        BY <2>1, <2>3 DEF Reserved, Free, CheckedOut, At
      <4>5. OneCheckout'
        BY <2>3 DEF OneCheckout
      <4>6. Locked' /\ Emptied'
        BY <1>5, <2>1, <2>3, <4>1 DEF PruneAll, Locked, Emptied, At
      <4>7. Cared'
        <5>1. \A t \in trees' : t.locked => t.dir \in strays'
          BY <2>3 DEF Locked
        <5>2. pc[r] = "earlyPrune" => pc'[r] \in Late
          BY <2>1 DEF Late
        <5> QED
          BY <2>1, <2>3, <4>2, <5>1, <5>2 DEF Cared, CaresRun, CaresUser
      <4> QED
        BY <4>3, <4>4, <4>5, <4>6, <4>7
    <3> QED
      BY <1>5, <3>1, <3>2 DEF PruneAll
  <2>8. \A q \in Runs : Minds(q)
    BY <2>1, <2>3 DEF Minds, Due, Stays, SetUp, Late, Has, Registered, At
  <2>9. InvConfig'
    BY <1>5, <2>8, ConfigFrame DEF PruneAll, Goto, git
  <2> QED
    BY <2>2, <2>4, <2>5, <2>6, <2>7, <2>9
<1>6. CASE Cleanup(r)
  <2>1. of[r] \in PRs /\ Reclaim(r) /\ of' = of /\ \A q \in Runs : Has(q)' = Has(q)
    BY <1>6 DEF Cleanup, At, Taking, Late, Goto, files, Has, Registered
  <2>2. /\ Budgeted' /\ leaks \subseteq leaks' /\ leaks' \subseteq Runs /\ stripped' \subseteq Runs
        /\ refs' \subseteq refs /\ remotes' \subseteq remotes
        /\ section' \in [Branches -> PRs \cup {None}]
        /\ Sections'
        /\ \A p \in remotes' : \E q \in Runs : Owns(q) /\ of[q] = p /\ (q # r \/ r \in leaks')
        /\ \A b \in Branches : section'[b] # None =>
             \E q \in Runs : Owns(q) /\ of[q] = section'[b] /\ (q # r \/ r \in leaks')
        /\ \A q \in Runs :
             Due(q) /\ Has(q) /\ Kind[of[q]] # "deleted" /\ q \notin stripped' => Pushes(q)'
    BY <2>1, ReclaimIs
  <2>3. Types'
    <3>1. pc' \in [Runs -> PCs]
      BY <1>6 DEF Cleanup, Types, PCs, Goto
    <3> QED
      BY <1>6, <2>2, <3>1 DEF Cleanup, Types, Goto, boot, files, handler
  <2>4. Mutex' /\ Taking'
    BY <1>6 DEF Cleanup, Mutex, Taking, Types, SetUp, Late, At, Goto, handler
  <2>5. Sweeping'
    BY <1>6 DEF Cleanup, Sweeping, CheckedOut, boot, files
  <2>6. \A q \in Runs : Tends(q)
    BY <1>6 DEF Cleanup, Tends, CaresRun, CaresUser, At, Goto, handler
  <2>7. InvFiles'
    BY <1>6, <2>6, FilesFrame DEF Cleanup, files
  <2>8. Tracking'
    BY <1>6 DEF Cleanup, Tracking, Goto, At, Mutex, SetUp
  <2>9. Equipped'
    <3>1. \A q \in Runs : Due(q)' => Due(q)
      BY <1>6 DEF Cleanup, Goto, Due, handler, Late
    <3> QED
      BY <2>1, <2>2, <3>1 DEF Equipped
  <2>10. Owned'
    <3>1. \A q \in Runs : Owns(q) /\ (q # r \/ r \in leaks') => Owns(q)'
      BY <1>6, <2>2 DEF Cleanup, Goto, Owns, Stays, handler
    <3> QED
      BY <2>1, <2>2, <3>1 DEF Owned
  <2> QED
    BY <2>2, <2>3, <2>4, <2>5, <2>7, <2>8, <2>9, <2>10
<1>7. CASE Cancel(r)
  <2>1. Budgeted'
    BY <1>7, SpendKeeps DEF Cancel, Inputs
  <2>2. Types'
    BY <1>7 DEF Cancel, Types, boot, files, git, goroutine, handler, marks
  <2>3. Mutex' /\ Taking'
    BY <1>7 DEF Cancel, Mutex, Taking, At, goroutine, handler
  <2>4. Sweeping'
    BY <1>7 DEF Cancel, Sweeping, CheckedOut, boot, files
  <2>5. \A q \in Runs : Tends(q)
    BY <1>7 DEF Cancel, Tends, CaresRun, CaresUser, At, goroutine, handler
  <2>6. InvFiles'
    BY <1>7, <2>5, FilesFrame DEF Cancel, files, marks
  <2>7. \A q \in Runs : Minds(q)
    BY <1>7 DEF Cancel, Minds, Due, Stays, Has, Registered, At, files, goroutine, handler
  <2>8. InvConfig'
    BY <1>7, <2>1, <2>7, ConfigFrame DEF Cancel, git, goroutine, marks
  <2> QED
    BY <2>1, <2>2, <2>3, <2>4, <2>6, <2>8
<1>8. CASE Finish(r)
  <2>1. Budgeted'
    BY <1>8 DEF Finish, Budgeted
  <2>2. Types'
    BY <1>8, NameTypes DEF Finish, Types, PCs, boot, files, git, handler
  <2>3. Mutex' /\ Taking'
    BY <1>8 DEF Finish, Mutex, Taking, SetUp, Late, At, handler
  <2>4. Sweeping'
    BY <1>8 DEF Finish, Sweeping, CheckedOut, boot, files
  <2>5. strays \subseteq strays' /\ (r \in ended' \ ended /\ hand[r] = "held" => UserDir(r) \in strays')
    BY <1>8 DEF Finish
  <2>6. \A q \in Runs : Tends(q)
    BY <1>8, <2>5 DEF Finish, Tends, CaresRun, CaresUser, Late, At, handler
  <2>7. InvFiles'
    BY <1>8, <2>5, <2>6, FilesFrame DEF Finish, files
  <2>8. \A q \in Runs : Minds(q)
    BY <1>8 DEF Finish, Minds, Due, Stays, Late, Has, Registered, At, files, handler
  <2>9. InvConfig'
    BY <1>8, <2>8, ConfigFrame DEF Finish, git
  <2> QED
    BY <2>1, <2>2, <2>3, <2>4, <2>7, <2>9
<1>9. CASE ParkedChainEnds(r)
  <2>1. Budgeted'
    BY <1>9, SpendKeeps DEF ParkedChainEnds, Inputs
  <2>2. Types'
    BY <1>9 DEF ParkedChainEnds, Goto, Types, PCs, boot, files, git, handler
  <2>3. Mutex' /\ Taking'
    BY <1>9 DEF ParkedChainEnds, Goto, Mutex, Taking, SetUp, Late, At, handler
  <2>4. Sweeping'
    BY <1>9 DEF ParkedChainEnds, Sweeping, CheckedOut, boot, files
  <2>5. \A q \in Runs : Tends(q)
    BY <1>9 DEF ParkedChainEnds, Goto, Tends, CaresRun, CaresUser, Late, At, handler
  <2>6. InvFiles'
    BY <1>9, <2>5, FilesFrame DEF ParkedChainEnds, files
  <2>7. \A q \in Runs : Minds(q)
    BY <1>9 DEF ParkedChainEnds, Goto, Minds, Due, Stays, Late, Has, Registered, At, files, handler
  <2>8. InvConfig'
    BY <1>9, <2>7, ConfigFrame DEF ParkedChainEnds, Goto, git
  <2> QED
    BY <2>1, <2>2, <2>3, <2>4, <2>6, <2>8
<1> QED
  BY <1>1, <1>2, <1>3, <1>4, <1>5, <1>6, <1>7, <1>8, <1>9

\* What a takeover preserves.
LEMMA TakeoverPreserves ==
  ASSUME IInv, NEW r \in Runs,
         \/ Takeover(r) \/ Copy(r) \/ CopyFails(r) \/ Overlay(r)
         \/ HandRemoves(r) \/ HandPrunes(r) \/ MarkTakenOver(r)
  PROVE  IInv'
<1> USE DEF IInv, InvControl, InvFiles, InvConfig
<1>1. CASE Takeover(r)
  <2>1. Budgeted'
    BY <1>1, SpendKeeps DEF Takeover, Inputs
  <2>2. Types'
    BY <1>1 DEF Takeover, Types, Hands, boot, files, git, goroutine, marks
  <2>3. Mutex' /\ Taking'
    BY <1>1 DEF Takeover, Mutex, Taking, Types, Late, At, goroutine
  <2>4. Sweeping'
    BY <1>1 DEF Takeover, Sweeping, CheckedOut, boot, files
  <2>5. \A q \in Runs : Tends(q)
    BY <1>1 DEF Takeover, Tends, CaresRun, CaresUser, At, goroutine
  <2>6. InvFiles'
    BY <1>1, <2>5, FilesFrame DEF Takeover, files, marks
  <2>7. \A q \in Runs : Minds(q)
    BY <1>1 DEF Takeover, Minds, Due, Stays, Late, Has, Registered, At, files, goroutine
  <2>8. InvConfig'
    BY <1>1, <2>1, <2>7, ConfigFrame DEF Takeover, git, goroutine, marks
  <2> QED
    BY <2>1, <2>2, <2>3, <2>4, <2>6, <2>8
<1>2. CASE Copy(r)
  <2>1. of[r] \in PRs /\ Local(of[r]) \in Branches
    BY <1>2, NameTypes DEF Copy, Taking, At, Late
  <2>2. /\ hand[r] = "copy" /\ UNCHANGED <<pc, of, ended, strays, stripped, leaks, section, remotes>>
        /\ hand'[r] \in {"mark", "overlay"} /\ \A q \in Runs \ {r} : hand'[q] = hand[q]
    BY <1>2 DEF Copy, Hand, Types, goroutine, marks, git
  <2>3. /\ RunDir(r) \in disk /\ \A t \in trees : t.dir # UserDir(r)
        /\ \E t \in trees : t.dir = RunDir(r) /\ t.branch = Local(of[r])
        /\ \A t \in trees : t.dir = RunDir(r) => t.branch = Local(of[r]) /\ ~t.locked
    BY <1>2, Distinct DEF Copy, Movable, Registered, Placed, Locked
  <2>4. \/ /\ hand'[r] = "mark" /\ disk' = (disk \ {RunDir(r)}) \cup {UserDir(r)}
           /\ trees' = {IF t.dir = RunDir(r) THEN [t EXCEPT !.dir = UserDir(r)] ELSE t : t \in trees}
        \/ /\ hand'[r] = "overlay" /\ disk' = disk \cup {UserDir(r)}
           /\ trees' = trees \cup {[dir |-> UserDir(r), branch |-> Local(of[r]), locked |-> FALSE]}
    BY <1>2 DEF Copy, Hand, Types, Tree
  <2>5. /\ \A u \in trees' : \/ u \in trees
                             \/ u.dir = UserDir(r) /\ u.branch = Local(of[r]) /\ ~u.locked
        /\ \A t \in trees : t.dir # RunDir(r) => t \in trees'
        /\ \E u \in trees' : u.dir = UserDir(r)
        /\ \A t, u \in trees' : t.dir = UserDir(r) /\ u.dir = UserDir(r) => t = u
        /\ hand'[r] = "mark" => \A u \in trees' : u.dir # RunDir(r)
        /\ hand'[r] = "overlay" => trees \subseteq trees'
    <3>1. CASE trees' = {IF t.dir = RunDir(r) THEN [t EXCEPT !.dir = UserDir(r)] ELSE t : t \in trees}
      <4>1. PICK old \in trees : old.dir = RunDir(r) /\ \A t \in trees : t.dir = RunDir(r) => t = old
        BY <2>3 DEF Placed
      <4> DEFINE new == [old EXCEPT !.dir = UserDir(r)]
      <4>2. new.dir = UserDir(r) /\ new.branch = Local(of[r]) /\ ~new.locked
        BY <2>3, <4>1
      <4>3. trees' = (trees \ {old}) \cup {new}
        BY <3>1, <4>1
      <4> QED
        BY <4>1, <4>2, <4>3, <2>3, <2>4
    <3>2. CASE trees' = trees \cup {[dir |-> UserDir(r), branch |-> Local(of[r]), locked |-> FALSE]}
      <4> DEFINE new == [dir |-> UserDir(r), branch |-> Local(of[r]), locked |-> FALSE]
      <4>1. new.dir = UserDir(r) /\ new.branch = Local(of[r]) /\ ~new.locked
        OBVIOUS
      <4>2. trees' = trees \cup {new}
        BY <3>2
      <4> HIDE DEF new
      <4>3. hand'[r] # "mark"
        <5> SUFFICES ASSUME hand'[r] = "mark"
                     PROVE  FALSE
          OBVIOUS
        <5>1. \A t \in trees' : t.dir # RunDir(r)
          <6>1. trees' = {IF t.dir = RunDir(r) THEN [t EXCEPT !.dir = UserDir(r)] ELSE t : t \in trees}
            BY <2>4
          <6>2. \A t \in trees : t.dir = RunDir(r) => [t EXCEPT !.dir = UserDir(r)].dir = UserDir(r)
            OBVIOUS
          <6> QED
            BY <6>1, <6>2, Distinct
        <5> QED
          BY <4>2, <5>1, <2>3
      <4>4. trees \subseteq trees' /\ new \in trees' /\ \A u \in trees' : u \in trees \/ u = new
        BY <4>2
      <4> QED
        BY <4>1, <4>3, <4>4, <2>3
    <3> QED
      BY <3>1, <3>2, <2>4
  <2>6. CheckedOut' \subseteq CheckedOut
    BY <2>3, <2>5 DEF CheckedOut
  <2>7. Budgeted'
    BY <1>2, SpendKeeps DEF Copy, Budgeted, Inputs
  <2>8. Types'
    <3>1. trees' \subseteq [dir : Dirs, branch : Branches, locked : BOOLEAN]
      <4>1. \A t \in trees : /\ t \in [dir : Dirs, branch : Branches, locked : BOOLEAN]
                             /\ [t EXCEPT !.dir = UserDir(r)]
                                  \in [dir : Dirs, branch : Branches, locked : BOOLEAN]
        BY NameTypes DEF Types
      <4>2. [dir |-> UserDir(r), branch |-> Local(of[r]), locked |-> FALSE]
              \in [dir : Dirs, branch : Branches, locked : BOOLEAN]
        BY <2>1, NameTypes
      <4>3. CASE trees' = {IF t.dir = RunDir(r) THEN [t EXCEPT !.dir = UserDir(r)] ELSE t : t \in trees}
        <5> SUFFICES ASSUME NEW u \in trees'
                     PROVE  u \in [dir : Dirs, branch : Branches, locked : BOOLEAN]
          OBVIOUS
        <5>1. PICK t \in trees : u = IF t.dir = RunDir(r) THEN [t EXCEPT !.dir = UserDir(r)] ELSE t
          BY <4>3
        <5> QED
          BY <4>1, <5>1
      <4>4. CASE trees' = trees \cup {[dir |-> UserDir(r), branch |-> Local(of[r]), locked |-> FALSE]}
        BY <4>1, <4>2, <4>4
      <4> QED
        BY <4>3, <4>4, <2>4
    <3>2. disk' \subseteq Dirs
      BY <2>4, NameTypes DEF Types
    <3>3. hand' \in [Runs -> Hands]
      BY <1>2 DEF Copy, Hand, Types, Hands
    <3> QED
      BY <1>2, <3>1, <3>2, <3>3 DEF Copy, Hand, Types, git, goroutine, boot, marks
  <2>9. Mutex' /\ Taking'
    BY <1>2, <2>2 DEF Copy, Hand, Mutex, Taking, At
  <2>10. Sweeping'
    BY <1>2, <2>6 DEF Copy, boot, Sweeping
  <2>11. Placed'
    <3>1. \A t \in trees', q \in Runs :
            /\ t.dir = RunDir(q) => pc'[q] \notin {"idle", "setup", "add"} /\ t.branch = Local(of'[q])
            /\ t.dir = UserDir(q) => hand'[q] \notin {"none", "copy"} /\ t.branch = Local(of'[q])
      BY <2>2, <2>5, Distinct DEF Placed
    <3>2. \A t \in trees', j \in Projects : t.dir = PinDir(j) => t.branch = Named(Base)
      BY <2>5, Distinct DEF Placed
    <3>3. \A t, u \in trees' : t.dir = u.dir => t = u
      BY <2>5 DEF Placed
    <3>4. \A dir \in disk' : Registered(dir)'
      BY <2>4, <2>5 DEF Placed, Registered
    <3> QED
      BY <3>1, <3>2, <3>3, <3>4 DEF Placed
  <2>12. Reserved'
    BY <2>2, <2>6 DEF Reserved, Free, At
  <2>13. OneCheckout'
    <3> SUFFICES ASSUME NEW t \in trees', NEW u \in trees', t.branch = u.branch, t # u
                 PROVE  \E q \in Runs : {t.dir, u.dir} = {RunDir(q), UserDir(q)}
      BY DEF OneCheckout
    <3>1. \A v \in trees : v.branch = Local(of[r]) => v.dir = RunDir(r)
      BY <2>3, Distinct DEF OneCheckout
    <3>2. CASE t \in trees /\ u \in trees
      BY <3>2 DEF OneCheckout
    <3>3. t \in trees \/ (t.dir = UserDir(r) /\ t.branch = Local(of[r]))
      BY <2>5
    <3>4. u \in trees \/ (u.dir = UserDir(r) /\ u.branch = Local(of[r]))
      BY <2>5
    <3>5. t.dir # u.dir
      BY <2>5 DEF Placed
    <3>6. \A v \in trees : v.branch = Local(of[r]) => {v.dir, UserDir(r)} = {RunDir(r), UserDir(r)}
      BY <3>1
    <3>7. CASE t \notin trees
      BY <3>3, <3>4, <3>5, <3>6, <3>7
    <3>8. CASE u \notin trees
      BY <3>3, <3>4, <3>5, <3>6, <3>8
    <3> QED
      BY <3>2, <3>7, <3>8
  <2>14. Locked' /\ Emptied'
    <3>1. Locked'
      BY <2>2, <2>5 DEF Locked, At
    <3>2. \A q \in Runs : RunDir(q) \notin disk => RunDir(q) \notin disk'
      BY <2>4, Distinct
    <3>3. \A q \in Runs \ {r} :
            /\ UserDir(q) \notin disk => UserDir(q) \notin disk'
            /\ (\A t \in trees : t.dir # UserDir(q)) => \A t \in trees' : t.dir # UserDir(q)
      BY <2>4, <2>5, Distinct
    <3>4. ASSUME NEW q \in Runs
          PROVE  /\ pc'[q] \in {"undoPrune", "prune"} => RunDir(q) \notin disk'
                 /\ hand'[q] \in {"sourcePrune", "abortPrune"} => RunDir(q) \notin disk'
                 /\ hand'[q] \in {"destPrune", "releasePrune"} => UserDir(q) \notin disk'
                 /\ hand'[q] \in {"abort", "abortPrune"} =>
                      UserDir(q) \in strays' \/ ~Registered(UserDir(q))'
      <4>1. CASE q = r
        BY <4>1, <2>2, <3>2 DEF Emptied
      <4>2. CASE q # r
        BY <4>2, <2>2, <3>2, <3>3 DEF Emptied, Registered
      <4> QED
        BY <4>1, <4>2
    <3> QED
      BY <3>1, <3>4 DEF Emptied
  <2>15. Cared'
    <3> SUFFICES ASSUME NEW t \in trees', NEW q \in Runs, t.dir \notin strays
                 PROVE  /\ t.dir = RunDir(q) => CaresRun(q)'
                        /\ t.dir = UserDir(q) => CaresUser(q)'
      BY <2>2 DEF Cared
    <3>1. CASE t \in trees
      <4>1. t.dir = RunDir(q) => CaresRun(q)
        BY <3>1 DEF Cared
      <4>2. t.dir = UserDir(q) => CaresUser(q) /\ q # r
        BY <3>1, <2>3 DEF Cared
      <4>3. t.dir = RunDir(q) /\ q = r => hand'[r] = "overlay"
        BY <2>2, <2>5
      <4>4. q # r => (CaresRun(q) <=> CaresRun(q)') /\ (CaresUser(q) <=> CaresUser(q)')
        BY <2>2 DEF CaresRun, CaresUser
      <4>5. hand'[r] = "overlay" => CaresRun(r)'
        BY DEF CaresRun
      <4> QED
        BY <4>1, <4>2, <4>3, <4>4, <4>5
    <3>2. CASE t \notin trees
      <4>1. t.dir = UserDir(r) /\ CaresUser(r)'
        BY <3>2, <2>2, <2>5 DEF CaresUser
      <4> QED
        BY <4>1, Distinct
    <3> QED
      BY <3>1, <3>2
  <2>16. \A q \in Runs : Minds(q)
    <3>1. \A q \in Runs : Has(q)' => Has(q)
      BY <2>3, <2>5, Distinct DEF Has, Registered
    <3> QED
      BY <2>2, <3>1 DEF Minds, Due, Stays, At
  <2>17. InvConfig'
    BY <1>2, <2>7, <2>16, ConfigFrame DEF Copy, git, goroutine, marks
  <2> QED
    BY <2>7, <2>8, <2>9, <2>10, <2>11, <2>12, <2>13, <2>14, <2>15, <2>17
<1>3. CASE CopyFails(r)
  <2>1. Budgeted'
    BY <1>3, SpendKeeps DEF CopyFails, Budgeted, Inputs
  <2>2. Types'
    BY <1>3 DEF CopyFails, Types, Hands, Hand, boot, files, git, goroutine, marks
  <2>3. Mutex' /\ Taking'
    BY <1>3 DEF CopyFails, Mutex, Taking, At, Hand, goroutine
  <2>4. Sweeping'
    BY <1>3 DEF CopyFails, Sweeping, CheckedOut, boot, files
  <2>5. \A q \in Runs : Tends(q)
    BY <1>3 DEF CopyFails, Tends, CaresRun, CaresUser, At, Hand, goroutine
  <2>6. InvFiles'
    BY <1>3, <2>5, FilesFrame DEF CopyFails, files, marks
  <2>7. \A q \in Runs : Minds(q)
    BY <1>3 DEF CopyFails, Minds, Due, Stays, Has, Registered, At, Hand, files, goroutine
  <2>8. InvConfig'
    BY <1>3, <2>1, <2>7, ConfigFrame DEF CopyFails, git, goroutine, marks
  <2> QED
    BY <2>1, <2>2, <2>3, <2>4, <2>6, <2>8
<1>4. CASE Overlay(r)
  <2>1. Budgeted'
    BY <1>4, SpendKeeps DEF Overlay, Budgeted, Inputs
  <2>2. Types'
    BY <1>4, NameTypes DEF Overlay, Types, Hands, Hand, boot, files, git, goroutine
  <2>3. Mutex' /\ Taking'
    BY <1>4 DEF Overlay, Mutex, Taking, Types, At, Hand, goroutine
  <2>4. Sweeping'
    BY <1>4 DEF Overlay, Sweeping, CheckedOut, boot, files
  <2>5. Placed'
    BY <1>4 DEF Overlay, Placed, Types, Registered, Hand, files, goroutine
  <2>6. Reserved'
    BY <1>4 DEF Overlay, Reserved, Free, CheckedOut, At, files, goroutine
  <2>7. OneCheckout'
    BY <1>4 DEF Overlay, OneCheckout, files
  <2>8. Locked' /\ Emptied'
    BY <1>4 DEF Overlay, Locked, Emptied, Types, Registered, At, Hand, files, goroutine
  <2>9. Cared'
    BY <1>4 DEF Overlay, Cared, CaresRun, CaresUser, Types, Hand, files, goroutine
  <2>10. \A q \in Runs : Minds(q)
    BY <1>4 DEF Overlay, Minds, Due, Stays, Types, Has, Registered, At, Hand, files, goroutine
  <2>11. InvConfig'
    BY <1>4, <2>1, <2>10, ConfigFrame DEF Overlay, git, goroutine
  <2> QED
    BY <2>1, <2>2, <2>3, <2>4, <2>5, <2>6, <2>7, <2>8, <2>9, <2>11
<1>5. CASE HandRemoves(r)
  <2> DEFINE dir == IF hand[r] = "abortDest" THEN UserDir(r) ELSE RunDir(r)
  <2>1. /\ UNCHANGED <<lock, refs, section, remotes, trees, pc, of, ended, taken, named, cancelled>>
        /\ UNCHANGED <<inuse, misread, pin, stripped, leaks>>
        /\ hand[r] \in {"source", "abortDest", "abort"}
        /\ \/ /\ disk' = disk \ {dir} /\ UNCHANGED <<strays, budget>>
              /\ hand' = [hand EXCEPT ![r] = CASE hand[r] = "source" -> "sourcePrune"
                                               [] hand[r] = "abortDest" -> "destPrune"
                                               [] OTHER -> "abortPrune"]
           \/ /\ disk' = disk /\ strays' = strays \cup {dir} /\ Spend("fault")
              /\ hand' = [hand EXCEPT ![r] = CASE hand[r] = "source" -> "mark"
                                               [] hand[r] = "abortDest" -> "abort"
                                               [] OTHER -> "done"]
    BY <1>5 DEF HandRemoves, Hand, goroutine, git, boot
  <2>2. /\ hand' \in [Runs -> Hands] /\ \A q \in Runs \ {r} : hand'[q] = hand[q]
        /\ hand'[r] # "none" /\ dir \in Dirs /\ strays \subseteq strays'
    BY <2>1, NameTypes DEF Types, Hands
  <2>3. Budgeted'
    BY <2>1, SpendKeeps DEF Budgeted, Inputs
  <2>4. Types'
    BY <2>1, <2>2 DEF Types
  <2>5. Mutex' /\ Taking'
    BY <2>1, <2>2 DEF Mutex, Taking, At
  <2>6. Sweeping'
    BY <2>1 DEF Sweeping, CheckedOut
  <2>7. InvFiles'
    <3>1. CASE /\ disk' = disk /\ strays' = strays \cup {dir}
               /\ hand' = [hand EXCEPT ![r] = CASE hand[r] = "source" -> "mark"
                                                [] hand[r] = "abortDest" -> "abort"
                                                [] OTHER -> "done"]
      <4>1. /\ hand[r] = "source" => hand'[r] = "mark" /\ RunDir(r) \in strays'
            /\ hand[r] = "abortDest" => hand'[r] = "abort" /\ UserDir(r) \in strays'
            /\ hand[r] = "abort" => hand'[r] = "done" /\ RunDir(r) \in strays'
        BY <2>1, <3>1 DEF Types
      <4>2. Placed'
        BY <2>1, <2>2, <3>1, <4>1 DEF Placed, Registered
      <4>3. Reserved' /\ OneCheckout'
        BY <2>1 DEF Reserved, Free, CheckedOut, OneCheckout, At
      <4>4. Locked'
        BY <2>1, <2>2 DEF Locked, At
      <4>5. Emptied'
        BY <2>1, <2>2, <3>1, <4>1 DEF Emptied, Registered
      <4>6. Cared'
        <5>1. \A q \in Runs \ {r} : CaresRun(q)' = CaresRun(q) /\ CaresUser(q)' = CaresUser(q)
          BY <2>1, <2>2 DEF CaresRun, CaresUser
        <5>2. /\ CaresRun(r) => CaresRun(r)' \/ RunDir(r) \in strays'
              /\ CaresUser(r) => CaresUser(r)' \/ UserDir(r) \in strays'
          BY <2>1, <4>1 DEF CaresRun, CaresUser
        <5> QED
          BY <2>1, <2>2, <5>1, <5>2 DEF Cared
      <4> QED
        BY <4>2, <4>3, <4>4, <4>5, <4>6
    <3>2. CASE /\ disk' = disk \ {dir} /\ strays' = strays
               /\ hand' = [hand EXCEPT ![r] = CASE hand[r] = "source" -> "sourcePrune"
                                                [] hand[r] = "abortDest" -> "destPrune"
                                                [] OTHER -> "abortPrune"]
      <4>1. /\ hand[r] = "source" => hand'[r] = "sourcePrune" /\ RunDir(r) \notin disk'
            /\ hand[r] = "abortDest" => hand'[r] = "destPrune" /\ UserDir(r) \notin disk'
            /\ hand[r] = "abort" => hand'[r] = "abortPrune" /\ RunDir(r) \notin disk'
        BY <2>1, <3>2 DEF Types
      <4>2. Placed'
        BY <2>1, <2>2, <3>2, <4>1 DEF Placed, Registered
      <4>3. Reserved' /\ OneCheckout'
        BY <2>1 DEF Reserved, Free, CheckedOut, OneCheckout, At
      <4>4. Locked'
        BY <2>1, <2>2, <3>2 DEF Locked, At
      <4>5. Emptied'
        BY <2>1, <2>2, <3>2, <4>1 DEF Emptied, Registered
      <4>6. Cared'
        <5>1. \A q \in Runs \ {r} : CaresRun(q)' = CaresRun(q) /\ CaresUser(q)' = CaresUser(q)
          BY <2>1, <2>2 DEF CaresRun, CaresUser
        <5>2. /\ CaresRun(r) => CaresRun(r)' \/ hand[r] = "abortDest"
              /\ CaresUser(r) => CaresUser(r)'
          BY <2>1, <4>1 DEF CaresRun, CaresUser
        <5>3. hand[r] = "abortDest" => ~CaresRun(r)
          BY DEF CaresRun
        <5> QED
          BY <2>1, <3>2, <5>1, <5>2, <5>3 DEF Cared
      <4> QED
        BY <4>2, <4>3, <4>4, <4>5, <4>6
    <3> QED
      BY <2>1, <3>1, <3>2
  <2>8. \A q \in Runs : Minds(q)
    <3>1. \A q \in Runs : (Due(q)' => Due(q)) /\ (Stays(q) => Stays(q)')
      BY <2>1, <2>2 DEF Due, Stays
    <3> QED
      BY <2>1, <3>1 DEF Minds, Has, Registered, At
  <2>9. InvConfig'
    BY <2>1, <2>8, ConfigFrame
  <2> QED
    BY <2>3, <2>4, <2>5, <2>6, <2>7, <2>9
<1>6. CASE HandPrunes(r)
  <2>1. /\ UNCHANGED <<lock, refs, section, remotes, disk, pc, of, ended, taken, named, cancelled>>
        /\ UNCHANGED <<inuse, misread, pin, stripped, leaks>>
        /\ hand[r] \in {"sourcePrune", "destPrune", "abortPrune", "releasePrune"}
        /\ \/ trees' = Pruned(trees, disk) /\ UNCHANGED <<strays, budget>>
           \/ trees' = trees /\ strays' = strays \cup {RunDir(r), UserDir(r)} /\ Spend("fault")
        /\ hand' = [hand EXCEPT ![r] = CASE hand[r] = "sourcePrune" -> "mark"
                                         [] hand[r] = "destPrune" -> "abort"
                                         [] hand[r] = "abortPrune" -> "done"
                                         [] OTHER -> "releaseConfig"]
    BY <1>6 DEF HandPrunes, Hand, goroutine, git, boot
  <2>2. /\ hand' \in [Runs -> Hands] /\ \A q \in Runs \ {r} : hand'[q] = hand[q]
        /\ hand[r] = "sourcePrune" => hand'[r] = "mark"
        /\ hand[r] = "destPrune" => hand'[r] = "abort"
        /\ hand[r] = "abortPrune" => hand'[r] = "done"
        /\ hand[r] = "releasePrune" => hand'[r] = "releaseConfig"
    BY <2>1 DEF Types, Hands
  <2>3. trees' \subseteq trees /\ strays \subseteq strays' /\ strays' \subseteq Dirs
    BY <2>1, PrunedIs, NameTypes DEF Types
  <2>4. Budgeted'
    BY <2>1, SpendKeeps DEF Budgeted, Inputs
  <2>5. Types'
    BY <2>1, <2>2, <2>3 DEF Types
  <2>6. Mutex' /\ Taking'
    BY <2>1, <2>2 DEF Mutex, Taking, At
  <2>7. Sweeping'
    BY <2>1, <2>3 DEF Sweeping, CheckedOut
  <2>8. Placed'
    <3>1. \A dir \in disk : Registered(dir)'
      BY <2>1, PrunedIs DEF Placed, Registered
    <3> QED
      BY <2>1, <2>2, <2>3, <3>1 DEF Placed
  <2>9. Reserved' /\ OneCheckout'
    BY <2>1, <2>3 DEF Reserved, Free, CheckedOut, OneCheckout, At
  <2>10. Locked'
    BY <2>1, <2>2, <2>3 DEF Locked, At
  <2>11. \A q \in Runs \ {r} : CaresRun(q)' = CaresRun(q) /\ CaresUser(q)' = CaresUser(q)
    BY <2>1, <2>2 DEF CaresRun, CaresUser
  <2>12. Emptied' /\ Cared'
    <3>1. CASE trees' = trees /\ strays' = strays \cup {RunDir(r), UserDir(r)}
      <4>1. RunDir(r) \in strays' /\ UserDir(r) \in strays'
        BY <3>1
      <4>2. Emptied'
        BY <2>1, <2>2, <2>3, <3>1, <4>1 DEF Emptied, Registered
      <4>3. Cared'
        BY <2>3, <2>11, <3>1, <4>1 DEF Cared
      <4> QED
        BY <4>2, <4>3
    <3>2. CASE trees' = Pruned(trees, disk) /\ strays' = strays
      <4>1. /\ \A t \in trees : t \in trees' <=> t.dir \in disk \/ t.locked
            /\ \A dir : Registered(dir)' => Registered(dir)
        BY <3>2, PrunedIs
      <4>2. \A t \in trees' : t.dir \notin strays => t \in trees /\ t.dir \in disk
        BY <2>3, <4>1 DEF Locked
      <4>3. hand[r] = "destPrune" => UserDir(r) \in strays \/ ~Registered(UserDir(r))'
        BY <4>2 DEF Emptied, Registered
      <4>4. Emptied'
        BY <2>1, <2>2, <3>2, <4>1, <4>3 DEF Emptied
      <4>5. \A t \in trees' : t.dir = RunDir(r) => t.dir \in strays
        <5>1. hand[r] \in {"sourcePrune", "abortPrune"} => RunDir(r) \notin disk
          BY DEF Emptied
        <5>2. hand[r] \in {"destPrune", "releasePrune"} => ~CaresRun(r)
          BY DEF CaresRun
        <5> QED
          BY <2>1, <4>2, <5>1, <5>2 DEF Cared
      <4>6. \A t \in trees' : t.dir = UserDir(r) /\ t.dir \notin strays => hand[r] = "sourcePrune"
        <5>1. hand[r] \in {"destPrune", "releasePrune"} => UserDir(r) \notin disk
          BY DEF Emptied
        <5>2. hand[r] = "abortPrune" => ~CaresUser(r)
          BY DEF CaresUser
        <5> QED
          BY <2>1, <4>2, <5>1, <5>2 DEF Cared
      <4>7. hand[r] = "sourcePrune" => CaresUser(r)'
        BY <2>2 DEF CaresUser
      <4> QED
        BY <2>3, <2>11, <3>2, <4>4, <4>5, <4>6, <4>7 DEF Cared
    <3> QED
      BY <2>1, <3>1, <3>2
  <2>13. \A q \in Runs : Minds(q)
    <3>1. \A q \in Runs : (Due(q)' => Due(q)) /\ (Stays(q) => Stays(q)') /\ (Has(q)' => Has(q))
      BY <2>1, <2>2, <2>3 DEF Due, Stays, Has, Registered
    <3> QED
      BY <2>1, <3>1 DEF Minds, At
  <2>14. InvConfig'
    BY <2>1, <2>13, ConfigFrame
  <2> QED
    BY <2>4, <2>5, <2>6, <2>7, <2>8, <2>9, <2>10, <2>12, <2>14
<1>7. CASE MarkTakenOver(r)
  <2>1. Budgeted'
    BY <1>7, SpendKeeps DEF MarkTakenOver, Budgeted, Inputs
  <2>2. Types'
    BY <1>7 DEF MarkTakenOver, Types, Hands, Hand, boot, files, git, goroutine, marks
  <2>3. Mutex' /\ Taking'
    BY <1>7 DEF MarkTakenOver, Mutex, Taking, Types, At, Hand, goroutine
  <2>4. Sweeping'
    BY <1>7 DEF MarkTakenOver, Sweeping, CheckedOut, boot, files
  <2>5. \A q \in Runs : Tends(q)
    BY <1>7 DEF MarkTakenOver, Tends, CaresRun, CaresUser, Types, At, Hand, goroutine
  <2>6. InvFiles'
    BY <1>7, <2>5, FilesFrame DEF MarkTakenOver, files, marks
  <2>7. \A q \in Runs : Minds(q)
    BY <1>7 DEF MarkTakenOver, Minds, Due, Stays, Types, Has, Registered, At, Hand, files,
        goroutine
  <2>8. InvConfig'
    BY <1>7, <2>1, <2>7, ConfigFrame DEF MarkTakenOver, git, goroutine, marks
  <2> QED
    BY <2>1, <2>2, <2>3, <2>4, <2>6, <2>8
<1> QED
  BY <1>1, <1>2, <1>3, <1>4, <1>5, <1>6, <1>7

\* What a release preserves, and the user's deletion of the directory.
LEMMA ReleasePreserves ==
  ASSUME IInv, NEW r \in Runs,
         Release(r) \/ ReleaseConfig(r) \/ ReleaseFlip(r) \/ UserDeletes(r)
  PROVE  IInv'
<1> USE DEF IInv, InvControl, InvFiles, InvConfig
<1>1. CASE Release(r)
  <2>1. Budgeted'
    BY <1>1 DEF Release, Budgeted
  <2>2. Types'
    BY <1>1 DEF Release, Types, Hands, boot, git, goroutine, marks
  <2>3. Mutex' /\ Taking'
    BY <1>1 DEF Release, Mutex, Taking, At, goroutine
  <2>4. Sweeping'
    BY <1>1 DEF Release, Sweeping, CheckedOut, boot
  <2>5. Placed'
    BY <1>1 DEF Release, Placed, Registered, goroutine
  <2>6. Reserved'
    BY <1>1 DEF Release, Reserved, Free, CheckedOut, At, goroutine
  <2>7. OneCheckout'
    BY <1>1 DEF Release, OneCheckout
  <2>8. /\ hand[r] = "held" /\ hand'[r] = "releasePrune" /\ disk' = disk \ {UserDir(r)}
        /\ \A q \in Runs \ {r} : hand'[q] = hand[q]
        /\ UNCHANGED <<trees, pc, of, ended, strays>>
    BY <1>1 DEF Release, Types, goroutine, marks
  <2>9. Locked' /\ Emptied' /\ Cared'
    <3>1. \A q \in Runs : CaresRun(q)' = CaresRun(q) /\ (CaresUser(q) => CaresUser(q)')
      BY <2>8 DEF CaresRun, CaresUser
    <3>2. Cared'
      BY <2>8, <3>1 DEF Cared
    <3>3. Locked'
      BY <2>8 DEF Locked, At
    <3>4. Emptied'
      BY <2>8 DEF Emptied, Registered
    <3> QED
      BY <3>2, <3>3, <3>4
  <2>10. \A q \in Runs : Minds(q)
    BY <1>1 DEF Release, Minds, Due, Stays, Has, Registered, At, goroutine
  <2>11. InvConfig'
    BY <1>1, <2>1, <2>10, ConfigFrame DEF Release, git, goroutine, marks
  <2> QED
    BY <2>1, <2>2, <2>3, <2>4, <2>5, <2>6, <2>7, <2>9, <2>11
<1>2. CASE ReleaseConfig(r)
  <2>1. of[r] \in PRs
    BY <1>2 DEF ReleaseConfig, At, Taking, Late
  <2>2. PICK heads : /\ \/ RemoveConfig({of[r]}, heads) /\ UNCHANGED budget
                        \/ RemoveSome({of[r]}, heads)
                     /\ stripped' = stripped \cup Losing({of[r]}, heads)
    BY <1>2 DEF ReleaseConfig
  <2>3. /\ hand[r] = "releaseConfig" /\ hand' = [hand EXCEPT ![r] = "releaseFlip"] /\ lock = {}
        /\ UNCHANGED <<lock, trees, disk, pc, of, ended, taken, cancelled, named, inuse, misread,
                      pin, strays, leaks>>
    BY <1>2 DEF ReleaseConfig, Hand, files, goroutine, boot
  <2>4. /\ refs' \subseteq refs /\ remotes' \subseteq remotes
        /\ section' \in [Branches -> PRs \cup {None}]
        /\ \A b \in Branches : section'[b] = section[b] \/ section'[b] = None
    BY <2>2, SomeRemovedIs
  <2>5. \A q \in Runs : Has(q)' = Has(q) /\ ~At(q, "branch") /\ ~At(q, "exclude")
    BY <2>3 DEF Has, Registered, Mutex, SetUp, At
  <2>6. Budgeted'
    BY <2>2, SpendKeeps DEF RemoveSome, Budgeted, Inputs
  <2>7. Types'
    <3>1. stripped' \subseteq Runs
      BY <2>2 DEF Losing, Types
    <3>2. hand' \in [Runs -> Hands]
      BY <2>3 DEF Types, Hands
    <3> QED
      BY <2>3, <2>4, <3>1, <3>2 DEF Types
  <2>8. Mutex' /\ Taking'
    BY <2>3 DEF Mutex, Taking, At, Types
  <2>9. Sweeping'
    BY <2>3 DEF Sweeping
  <2>10. \A q \in Runs : Tends(q)
    BY <2>3 DEF Tends, CaresRun, CaresUser, At, Types
  <2>11. InvFiles'
    BY <2>3, <2>10, FilesFrame
  <2>12. Sections'
    BY <2>4 DEF Sections
  <2>13. Tracking'
    BY <2>3, <2>5 DEF Tracking, At
  <2>14. Equipped'
    <3>1. \A q \in Runs : (Due(q)' => Due(q)) /\ (q \notin stripped' => q \notin stripped)
      BY <2>2, <2>3 DEF Due, Types
    <3>2. \A q \in Runs :
            Due(q) /\ Has(q) /\ Kind[of[q]] # "deleted" /\ q \notin stripped' => Pushes(q)'
      BY <2>1, <2>2, <2>3, LosingSpares DEF Equipped
    <3> QED
      BY <2>3, <2>5, <3>1, <3>2 DEF Equipped
  <2>15. Owned'
    <3>1. \A q \in Runs : Owns(q)' = Owns(q)
      BY <2>3 DEF Owns, Stays, Types
    <3> QED
      BY <2>3, <2>4, <3>1 DEF Owned
  <2> QED
    BY <2>6, <2>7, <2>8, <2>9, <2>11, <2>12, <2>13, <2>14, <2>15
<1>3. CASE ReleaseFlip(r)
  <2>1. Budgeted'
    BY <1>3, SpendKeeps DEF ReleaseFlip, Budgeted, Inputs
  <2>2. Types'
    BY <1>3 DEF ReleaseFlip, Types, Hands, Hand, boot, files, git, goroutine, marks
  <2>3. Mutex' /\ Taking'
    BY <1>3 DEF ReleaseFlip, Mutex, Taking, Types, At, Hand, goroutine
  <2>4. Sweeping'
    BY <1>3 DEF ReleaseFlip, Sweeping, CheckedOut, boot, files
  <2>5. \A q \in Runs : Tends(q)
    BY <1>3 DEF ReleaseFlip, Tends, CaresRun, CaresUser, Types, At, Hand, goroutine
  <2>6. InvFiles'
    BY <1>3, <2>5, FilesFrame DEF ReleaseFlip, files, marks
  <2>7. \A q \in Runs : Minds(q)
    BY <1>3 DEF ReleaseFlip, Minds, Due, Stays, Types, Has, Registered, At, Hand, files,
        goroutine
  <2>8. InvConfig'
    BY <1>3, <2>1, <2>7, ConfigFrame DEF ReleaseFlip, git, goroutine, marks
  <2> QED
    BY <2>1, <2>2, <2>3, <2>4, <2>6, <2>8
<1>4. CASE UserDeletes(r)
  <2>1. Budgeted'
    BY <1>4, SpendKeeps DEF UserDeletes, Inputs
  <2>2. Types'
    BY <1>4 DEF UserDeletes, Types, boot, git, goroutine, handler, marks
  <2>3. Mutex' /\ Taking'
    BY <1>4 DEF UserDeletes, Mutex, Taking, At, goroutine, handler
  <2>4. Sweeping'
    BY <1>4 DEF UserDeletes, Sweeping, CheckedOut, boot
  <2>5. Placed'
    BY <1>4 DEF UserDeletes, Placed, Registered, goroutine, handler
  <2>6. Reserved'
    BY <1>4 DEF UserDeletes, Reserved, Free, CheckedOut, At, goroutine
  <2>7. OneCheckout'
    BY <1>4 DEF UserDeletes, OneCheckout
  <2>8. Locked' /\ Emptied'
    BY <1>4 DEF UserDeletes, Locked, Emptied, Registered, At, goroutine, handler, marks
  <2>9. Cared'
    BY <1>4 DEF UserDeletes, Cared, CaresRun, CaresUser, goroutine, handler, marks
  <2>10. \A q \in Runs : Minds(q)
    BY <1>4 DEF UserDeletes, Minds, Due, Stays, Has, Registered, At, goroutine, handler
  <2>11. InvConfig'
    BY <1>4, <2>1, <2>10, ConfigFrame DEF UserDeletes, git, goroutine, marks
  <2> QED
    BY <2>1, <2>2, <2>3, <2>4, <2>5, <2>6, <2>7, <2>8, <2>9, <2>11
<1> QED
  BY <1>1, <1>2, <1>3, <1>4

\* What the sweep preserves.
LEMMA SweepPreserves ==
  ASSUME IInv, SweepReads \/ SweepReclaims
  PROVE  IInv'
<1> USE DEF IInv, InvControl, InvFiles, InvConfig
<1>1. CASE SweepReads
  <2>1. Budgeted'
    BY <1>1, SpendKeeps DEF SweepReads, Inputs
  <2>2. Types'
    <3>1. CheckedOut \subseteq Branches
      BY DEF CheckedOut, Types
    <3>2. inuse' \subseteq Branches /\ misread' \in BOOLEAN
      BY <1>1, <3>1 DEF SweepReads
    <3> QED
      BY <1>1, <3>2 DEF SweepReads, Types, git, files, goroutine, handler, marks
  <2>3. Mutex' /\ Taking'
    BY <1>1 DEF SweepReads, Mutex, Taking, At, goroutine, handler
  <2>4. Sweeping'
    BY <1>1 DEF SweepReads, Sweeping, CheckedOut, files
  <2>5. \A q \in Runs : Tends(q)
    BY <1>1 DEF SweepReads, Tends, CaresRun, CaresUser, At, goroutine, handler
  <2>6. InvFiles'
    BY <1>1, <2>5, FilesFrame DEF SweepReads, files, marks
  <2>7. \A q \in Runs : Minds(q)
    BY <1>1 DEF SweepReads, Minds, Due, Stays, Has, Registered, At, files, goroutine, handler
  <2>8. InvConfig'
    BY <1>1, <2>1, <2>7, ConfigFrame DEF SweepReads, git, goroutine, marks
  <2> QED
    BY <2>1, <2>2, <2>3, <2>4, <2>6, <2>8
<1>2. CASE SweepReclaims
  <2> DEFINE prs == {section[b] : b \in Stale}
  <2>1. /\ RemoveConfig(prs, Stale) \/ RemoveSome(prs, Stale)
        /\ \/ UNCHANGED budget
           \/ Spend("fault")
        /\ stripped' = IF misread THEN stripped \cup Losing(prs, Stale) ELSE stripped
    BY <1>2 DEF SweepReclaims, RemoveSome
  <2> HIDE DEF prs
  <2>2. /\ prs \subseteq PRs /\ \A p \in prs : Local(p) \in Stale
    BY DEF prs, Stale, Types, Sections
  <2>3. /\ remotes' \subseteq remotes /\ remotes \ prs \subseteq remotes'
        /\ refs' \subseteq refs /\ section' \in [Branches -> PRs \cup {None}]
        /\ \A b \in Branches :
             /\ section'[b] = section[b] \/ section'[b] = None
             /\ b \notin Stale /\ (\A p \in prs : b # Synthetic(p)) => section'[b] = section[b]
    BY <2>1, SomeRemovedIs
  <2>4. /\ UNCHANGED <<trees, disk, pc, of, hand, ended, taken, cancelled, named, pin, strays, leaks>>
         /\ lock = {Boot}
         /\ \A q \in Runs : Has(q)' = Has(q) /\ ~At(q, "branch") /\ ~At(q, "exclude")
    BY <1>2 DEF SweepReclaims, goroutine, handler, files, Has, Registered, Mutex, SetUp, At
  <2>5. \A q \in Runs : Due(q) /\ Has(q) /\ Kind[of[q]] # "deleted" /\ q \notin stripped' => Pushes(q)'
    <3> SUFFICES ASSUME NEW q \in Runs, Due(q), Has(q), Kind[of[q]] # "deleted", q \notin stripped'
                 PROVE  Pushes(q)'
      OBVIOUS
    <3>1. CASE misread
      <4>1. Pushes(q) /\ q \notin Losing(prs, Stale)
        BY <3>1, <2>1 DEF Equipped
      <4> QED
        BY <4>1, <2>1, <2>2, <2>4, LosingSpares
    <3>2. CASE ~misread
      <4>1. Pushes(q) /\ of[q] \in PRs /\ Local(of[q]) \in Branches
        BY <3>2, <2>1, NameTypes DEF Equipped, Due, Taking, At, Late
      <4>2. Local(of[q]) \in CheckedOut
        BY DEF Has, Registered, Placed, CheckedOut
      <4>3. Local(of[q]) \notin Stale
        BY <3>2, <4>2, <2>4 DEF Sweeping, Stale
      <4>4. of[q] \notin prs
        BY <4>3, <2>2
      <4>5. \A p \in prs : Local(of[q]) # Synthetic(p)
        BY <4>4, Distinct DEF Local
      <4> QED
        BY <4>1, <4>3, <4>4, <4>5, <2>3, <2>4 DEF Pushes
    <3> QED
      BY <3>1, <3>2
  <2>6. Budgeted'
    BY <2>1, SpendKeeps DEF Budgeted, Inputs
  <2>7. Types'
    <3>1. stripped' \subseteq Runs
      BY <2>1 DEF Types, Losing
    <3> QED
      BY <1>2, <2>3, <2>4, <3>1 DEF SweepReclaims, Types
  <2>8. Mutex' /\ Taking'
    BY <1>2, <2>4 DEF SweepReclaims, Mutex, Taking, At
  <2>9. Sweeping'
    BY <1>2 DEF SweepReclaims, Sweeping
  <2>10. \A q \in Runs : Tends(q)
    BY <2>4 DEF Tends, CaresRun, CaresUser, At
  <2>11. InvFiles'
    BY <2>10, <2>4, FilesFrame
  <2>12. Sections' /\ Tracking'
    BY <2>3, <2>4 DEF Sections, Tracking, At
  <2>13. Equipped'
    BY <2>5, <2>4 DEF Equipped, Due
  <2>14. Owned'
    <3>1. \A q \in Runs : Owns(q)' = Owns(q)
      BY <2>4 DEF Owns, Stays
    <3> QED
      BY <2>3, <2>4, <3>1 DEF Owned
  <2> QED
    BY <2>6, <2>7, <2>8, <2>9, <2>11, <2>12, <2>13, <2>14
<1> QED
  BY <1>1, <1>2

\* What the curator's checkouts preserve.
LEMMA PinPreserves ==
  ASSUME IInv, NEW j \in Projects, EnsurePin(j) \/ DeletePin(j) \/ PrunePin(j)
  PROVE  IInv'
<1> USE DEF IInv, InvControl, InvFiles, InvConfig
<1>1. CASE EnsurePin(j)
  <2>1. /\ lock = {} /\ lock' = {} /\ UNCHANGED <<section, remotes, pc, of, hand, ended>>
        /\ UNCHANGED <<stripped, strays, leaks>>
        /\ \A q \in Runs : ~At(q, "add") /\ pc[q] \notin SetUp
    BY <1>1 DEF EnsurePin, Mutex, goroutine, handler, marks
  <2>2. \/ UNCHANGED <<trees, disk>>
        \/ /\ \A t \in trees : t.dir # PinDir(j) /\ t.branch # Named(Base)
           /\ trees' = trees \cup {[dir |-> PinDir(j), branch |-> Named(Base), locked |-> FALSE]}
           /\ disk' = disk \cup {PinDir(j)}
    BY <1>1 DEF EnsurePin, Free, CheckedOut, Placed, files, Tree
  <2>3. Budgeted'
    BY <1>1 DEF EnsurePin, Budgeted
  <2>4. Types'
    <3>1. [dir |-> PinDir(j), branch |-> Named(Base), locked |-> FALSE]
            \in [dir : Dirs, branch : Branches, locked : BOOLEAN]
      BY NameTypes
    <3>2. trees' \subseteq [dir : Dirs, branch : Branches, locked : BOOLEAN] /\ disk' \subseteq Dirs
      BY <2>2, <3>1 DEF Types
    <3>3. pin' \in [Projects -> {"none", "ready", "refused", "pruning"}] /\ refs' \subseteq Branches
      BY <1>1, NameTypes DEF EnsurePin, Types
    <3> QED
      BY <1>1, <2>1, <3>2, <3>3 DEF EnsurePin, Types, goroutine, handler, boot
  <2>5. Mutex' /\ Taking'
    BY <1>1, <2>1 DEF EnsurePin, Mutex, Taking, At, handler
  <2>6. Sweeping'
    BY <2>1 DEF Sweeping
  <2>7. InvFiles'
    <3>1. CASE UNCHANGED <<trees, disk>>
      <4>1. \A q \in Runs : Tends(q)
        BY <2>1 DEF Tends, CaresRun, CaresUser, At
      <4> QED
        BY <2>1, <3>1, <4>1, FilesFrame
    <3>2. CASE /\ \A t \in trees : t.dir # PinDir(j) /\ t.branch # Named(Base)
               /\ trees' = trees \cup {[dir |-> PinDir(j), branch |-> Named(Base), locked |-> FALSE]}
               /\ disk' = disk \cup {PinDir(j)}
      <4> DEFINE new == [dir |-> PinDir(j), branch |-> Named(Base), locked |-> FALSE]
      <4>1. new.dir = PinDir(j) /\ new.branch = Named(Base) /\ ~new.locked
        OBVIOUS
      <4>2. trees' = trees \cup {new}
        BY <3>2
      <4> HIDE DEF new
      <4>3. Placed'
        BY <3>2, <4>1, <4>2, <2>1, Distinct DEF Placed, Registered
      <4>4. Reserved'
        BY <2>1 DEF Reserved, At
      <4>5. OneCheckout'
        BY <3>2, <4>2 DEF OneCheckout
      <4>6. Locked'
        BY <4>1, <4>2, <2>1 DEF Locked, At
      <4>7. Emptied'
        BY <3>2, <4>1, <4>2, <2>1, Distinct DEF Emptied, Registered
      <4>8. Cared'
        BY <4>1, <4>2, <2>1, Distinct DEF Cared, CaresRun, CaresUser
      <4> QED
        BY <4>3, <4>4, <4>5, <4>6, <4>7, <4>8
    <3> QED
      BY <3>1, <3>2, <2>2
  <2>8. \A q \in Runs : Minds(q)
    <3>1. \A q \in Runs : Has(q)' => Has(q)
      BY <2>2, Distinct DEF Has, Registered
    <3> QED
      BY <2>1, <3>1 DEF Minds, Due, Stays, At
  <2>9. InvConfig'
    BY <2>1, <2>8, ConfigFrame
  <2> QED
    BY <2>3, <2>4, <2>5, <2>6, <2>7, <2>9
<1>2. CASE DeletePin(j)
  <2>1. Budgeted'
    BY <1>2, SpendKeeps DEF DeletePin, Inputs
  <2>2. Types'
    BY <1>2 DEF DeletePin, Types, boot, git, goroutine, handler, marks
  <2>3. Mutex' /\ Taking'
    BY <1>2 DEF DeletePin, Mutex, Taking, At, goroutine, handler
  <2>4. Sweeping'
    BY <1>2 DEF DeletePin, Sweeping, CheckedOut, boot
  <2>5. Placed'
    BY <1>2 DEF DeletePin, Placed, Registered, goroutine, handler
  <2>6. Reserved'
    BY <1>2 DEF DeletePin, Reserved, Free, CheckedOut, At, goroutine
  <2>7. OneCheckout'
    BY <1>2 DEF DeletePin, OneCheckout
  <2>8. Locked' /\ Emptied'
    BY <1>2 DEF DeletePin, Locked, Emptied, Registered, At, goroutine, handler, marks
  <2>9. Cared'
    BY <1>2 DEF DeletePin, Cared, CaresRun, CaresUser, goroutine, handler, marks
  <2>10. \A q \in Runs : Minds(q)
    BY <1>2 DEF DeletePin, Minds, Due, Stays, Has, Registered, At, goroutine, handler
  <2>11. InvConfig'
    BY <1>2, <2>1, <2>10, ConfigFrame DEF DeletePin, git, goroutine, marks
  <2> QED
    BY <2>1, <2>2, <2>3, <2>4, <2>5, <2>6, <2>7, <2>8, <2>9, <2>11
<1>3. CASE PrunePin(j)
  <2>1. /\ trees' \subseteq trees
        /\ \A t \in trees : t \in trees' <=> t.dir \in disk \/ t.locked \/ trees' = trees
        /\ \A dir : Registered(dir)' => Registered(dir)
    BY <1>3, PrunedIs DEF PrunePin, Registered
  <2>2. UNCHANGED <<lock, section, remotes, disk, pc, of, hand, ended, taken, inuse, misread,
                    stripped, strays, leaks>>
    BY <1>3 DEF PrunePin, git, goroutine, handler, boot, marks
  <2>3. Budgeted'
    BY <1>3, SpendKeeps DEF PrunePin, Budgeted, Inputs
  <2>4. Types'
    BY <1>3, <2>1 DEF PrunePin, Types, boot, git, goroutine, handler, marks
  <2>5. Mutex' /\ Taking'
    BY <2>2 DEF Mutex, Taking, At
  <2>6. Sweeping'
    BY <1>3, <2>2 DEF PrunePin, Sweeping
  <2>7. Placed' /\ OneCheckout'
    BY <2>1, <2>2 DEF Placed, OneCheckout, Registered
  <2>8. Reserved'
    BY <2>1, <2>2 DEF Reserved, Free, CheckedOut, At
  <2>9. Locked'
    BY <2>1, <2>2 DEF Locked, At
  <2>10. Emptied'
    BY <2>1, <2>2 DEF Emptied
  <2>11. Cared'
    BY <2>1, <2>2 DEF Cared, CaresRun, CaresUser
  <2>12. \A q \in Runs : Minds(q)
    BY <2>1, <2>2 DEF Minds, Due, Stays, Has, At
  <2>13. InvConfig'
    BY <2>2, <2>12, ConfigFrame
  <2> QED
    BY <2>3, <2>4, <2>5, <2>6, <2>7, <2>8, <2>9, <2>10, <2>11, <2>13
<1> QED
  BY <1>1, <1>2, <1>3

\* What a crash preserves.
LEMMA CrashPreserves ==
  ASSUME IInv, Crash
  PROVE  IInv'
<1> USE DEF IInv, InvControl, InvFiles, InvConfig
<1>1. /\ trees' \subseteq trees
      /\ \A t \in trees : t.dir \in disk' => t \in trees'
      /\ disk' = disk \ {RunDir(r) : r \in Runs}
      /\ lock' = {} /\ taken' = {} /\ UNCHANGED <<refs, section, remotes, of, ended, stripped>>
  BY DEF Crash, Pruned, git
<1>2. /\ pc' \in [Runs -> PCs] /\ hand' \in [Runs -> Hands]
      /\ \A r \in Runs : pc'[r] = IF pc[r] = "idle" THEN "idle" ELSE "over"
      /\ \A r \in Runs : \/ hand[r] = "none" /\ hand'[r] = "none"
                         \/ hand[r] # "none" /\ hand'[r] = "done"
                         \/ hand[r] \notin {"none", "done", "copy"} /\ hand'[r] = "held"
  BY DEF Crash, PCs, Hands, At
<1>3. strays \subseteq strays' /\ strays' \subseteq Dirs
  BY <1>1 DEF Crash, Types
<1>4. /\ leaks \subseteq leaks' /\ leaks' \subseteq Runs
      /\ \A r \in Runs : Stays(r) => Stays(r)' \/ r \in leaks'
  <2>1. leaks' = leaks \cup {r \in Runs : pc[r] \notin {"idle", "over"}}
    BY DEF Crash
  <2> QED
    BY <1>2, <2>1 DEF Stays, SetUp, Late, Types
<1>5. Budgeted'
  BY SpendKeeps DEF Crash, Inputs
<1>6. Types'
  BY <1>1, <1>2, <1>3, <1>4 DEF Crash, Types
<1>7. Mutex'
  BY <1>1, <1>2 DEF Mutex, SetUp, At
<1>8. Taking'
  BY <1>1, <1>2 DEF Taking, At, Late
<1>9. Sweeping'
  BY <1>1 DEF Sweeping
<1>10. Placed'
  BY <1>1, <1>2 DEF Placed, Registered
<1>11. Reserved'
  BY <1>2 DEF Reserved, At
<1>12. OneCheckout'
  BY <1>1 DEF OneCheckout
<1>13. Locked'
  BY <1>1, <1>2, <1>3 DEF Locked, At
<1>14. Emptied'
  BY <1>2 DEF Emptied
<1>15. Cared'
  <2> SUFFICES ASSUME NEW t \in trees', NEW q \in Runs, t.dir \notin strays'
               PROVE  t.dir # RunDir(q) /\ (t.dir = UserDir(q) => CaresUser(q)')
    BY DEF Cared
  <2>1. \/ \E j \in Projects : t.dir = PinDir(j)
        \/ \E x \in Runs \ ended : hand'[x] = "held" /\ t.dir = UserDir(x)
    BY DEF Crash
  <2> QED
    BY <1>1, <2>1, Distinct DEF CaresUser
<1>16. Sections' /\ Tracking'
  BY <1>1, <1>2 DEF Sections, Tracking, At
<1>17. Equipped'
  BY <1>1, <1>2 DEF Equipped, Due, Has, Pushes, Late, Registered
<1>18. Owned'
  BY <1>1, <1>4 DEF Owned, Owns
<1> QED
  BY <1>5, <1>6, <1>7, <1>8, <1>9, <1>10, <1>11, <1>12, <1>13, <1>14, <1>15, <1>16, <1>17, <1>18

-----------------------------------------------------------------------------
(***************************************************************************)
(* The theorems.                                                           *)
(***************************************************************************)
LEMMA InitIInv == Init => IInv
<1> SUFFICES ASSUME Init
             PROVE  IInv
  OBVIOUS
<1>1. /\ section = [b \in Branches |-> None] /\ of = [r \in Runs |-> None]
      /\ pc = [r \in Runs |-> "idle"] /\ hand = [r \in Runs |-> "none"]
      /\ pin = [j \in Projects |-> "none"]
      /\ lock = {} /\ remotes = {} /\ trees = {} /\ disk = {} /\ taken = {} /\ strays = {}
  BY DEF Init
<1>2. Types
  <2>1. "idle" \in PCs /\ "none" \in Hands /\ Named(Base) \in Branches /\ None \in PRs \cup {None}
    BY NameTypes DEF PCs, Hands
  <2>2. pc \in [Runs -> PCs] /\ hand \in [Runs -> Hands]
    BY <1>1, <2>1
  <2>3. /\ refs \subseteq Branches /\ inuse \subseteq Branches /\ misread \in BOOLEAN
        /\ taken \cup cancelled \cup ended \cup named \cup stripped \cup leaks \subseteq Runs
    BY <2>1 DEF Init
  <2> QED
    BY <1>1, <2>2, <2>3 DEF Types
<1>3. Budgeted /\ Mutex /\ Taking /\ Sweeping
  BY NameTypes DEF Init, Budgeted, Inputs, Mutex, Taking, Sweeping, At, SetUp
<1>4. InvFiles
  BY <1>1 DEF InvFiles, Placed, Reserved, OneCheckout, Locked, Emptied, Cared, CaresRun, CaresUser, At
<1>5. Sections /\ Tracking /\ Equipped /\ Owned
  BY <1>1 DEF Sections, Tracking, Equipped, Owned, Has, Registered, At
<1> QED
  BY <1>2, <1>3, <1>4, <1>5 DEF IInv, InvControl, InvConfig

LEMMA StepIInv == IInv /\ [Next]_vars => IInv'
<1> SUFFICES ASSUME IInv, [Next]_vars
             PROVE  IInv'
  OBVIOUS
<1>1. CASE UNCHANGED vars
  <2>1. /\ UNCHANGED <<lock, refs, section, remotes, trees, disk, pc, of, hand, taken>>
        /\ UNCHANGED <<cancelled, ended, named, inuse, misread, pin, stripped, strays, leaks, budget>>
    BY <1>1 DEF vars
  <2>2. InvControl'
    BY <2>1 DEF IInv, InvControl, Types, Budgeted, Mutex, Taking, Sweeping, CheckedOut, At
  <2>3. \A r \in Runs : Tends(r)
    BY <2>1 DEF Tends, CaresRun, CaresUser, At
  <2>4. \A r \in Runs : Minds(r)
    BY <2>1 DEF Minds, At, Due, Has, Stays, Registered
  <2>5. InvFiles' /\ InvConfig'
    BY <2>1, <2>3, <2>4, FilesFrame, ConfigFrame
  <2> QED
    BY <2>2, <2>5 DEF IInv
<1>2. CASE \E r \in Runs : Delegate(r) \/ RunStep(r) \/ Cancel(r) \/ ParkedChainEnds(r)
  BY <1>2, SetupPreserves, EndPreserves DEF RunStep
<1>3. CASE \E r \in Runs : Takeover(r) \/ HandStep(r) \/ Release(r) \/ UserDeletes(r)
  BY <1>3, TakeoverPreserves, ReleasePreserves DEF HandStep
<1>4. CASE SweepReads \/ SweepReclaims
  BY <1>4, SweepPreserves
<1>5. CASE \E j \in Projects : EnsurePin(j) \/ DeletePin(j) \/ PrunePin(j)
  BY <1>5, PinPreserves
<1>6. CASE Crash
  BY <1>6, CrashPreserves
<1> QED
  BY <1>1, <1>2, <1>3, <1>4, <1>5, <1>6 DEF Next

\* The invariant holds.
THEOREM BareRepoInvariant == Spec => []IInv
BY InitIInv, StepIInv, PTL DEF Spec

\* Every variable keeps its type, and at most one setup or sweep has the mutex.
THEOREM BareRepoTypeOK == Spec => []TypeOK
<1>1. IInv => TypeOK
  <2> SUFFICES ASSUME IInv
               PROVE  TypeOK
    OBVIOUS
  <2>1. lock \subseteq Runs \cup {Boot} /\ Cardinality(lock) <= 1
    <3>1. CASE lock = {}
      BY <3>1, FS_EmptySet
    <3>2. ASSUME NEW x \in Runs \cup {Boot}, lock = {x}
          PROVE  lock \subseteq Runs \cup {Boot} /\ Cardinality(lock) <= 1
      BY <3>2, FS_Singleton
    <3> QED
      BY <3>1, <3>2 DEF IInv, InvControl, Mutex
  <2> QED
    BY <2>1 DEF IInv, InvControl, Types, Budgeted, TypeOK
<1> QED
  BY <1>1, BareRepoInvariant, PTL

\* A branch has one worktree (git's rule, which CreateForPR, EnsureCuratorWorktree
\* and the takeover's move keep), but for the source and the destination of a
\* takeover that copies (CopyForTakeover's --force).
THEOREM BareRepoOneCheckout == Spec => []OneCheckout
<1>1. IInv => OneCheckout
  BY DEF IInv, InvFiles
<1> QED
  BY <1>1, BareRepoInvariant, PTL

\* Who works in a checkout can push from it, unless the configuration was removed
\* with that of another run, or by a sweep that could not list the worktrees: no
\* rollback, cleanup, release, sweep or restart takes it (CreateForPR,
\* CleanupPRConfig, rollbackPRSetupLocked, SweepStaleForkPRConfig).
THEOREM BareRepoPushHasTarget == Spec => []PushHasTarget
<1>1. IInv => PushHasTarget
  <2> SUFFICES ASSUME IInv, NEW r \in Runs, Working(r), Kind[of[r]] # "deleted", r \notin stripped
               PROVE  Pushes(r)
    BY DEF PushHasTarget
  <2>1. Due(r)
    BY DEF Working, Due, At, Late
  <2>2. Has(r)
    BY DEF Working, Has, IInv, InvFiles, Placed
  <2> QED
    BY <2>1, <2>2 DEF IInv, InvConfig, Equipped
<1> QED
  BY <1>1, BareRepoInvariant, PTL

\* When nothing is in progress, a branch is checked out by a project, by a takeover
\* that can be released, or in a directory that was given up: by a failing removal,
\* prune or overlay, by a killed `worktree add`, by a completion written over
\* taken_over, or by a crash.  Every other path removes and prunes what it
\* registered (RemoveAt, abortTakeover, Release).
THEOREM BareRepoNoStrandedTree == Spec => []NoStrandedTree
<1>1. IInv => NoStrandedTree
  <2> SUFFICES ASSUME IInv, Quiet, NEW t \in trees, t.dir \notin strays
               PROVE  \/ \E j \in Projects : t.dir = PinDir(j)
                      \/ \E r \in Runs : hand[r] = "held" /\ r \notin ended /\ t.dir = UserDir(r)
    BY DEF NoStrandedTree
  <2>1. t.dir \in Dirs
    BY DEF IInv, InvControl, Types
  <2>2. \A r \in Runs : pc[r] \in {"idle", "over"} /\ hand[r] \in {"none", "held", "done"}
    BY DEF Quiet
  <2>3. \A r \in Runs : t.dir = RunDir(r) => CaresRun(r)
    BY DEF IInv, InvFiles, Cared
  <2>4. \A r \in Runs : t.dir = UserDir(r) => CaresUser(r)
    BY DEF IInv, InvFiles, Cared
  <2>5. \A r \in Runs : ~CaresRun(r)
    BY <2>2 DEF CaresRun, SetUp, Late
  <2>6. \A r \in Runs : CaresUser(r) => hand[r] = "held" /\ r \notin ended
    BY <2>2 DEF CaresUser
  <2> QED
    BY <2>1, <2>3, <2>4, <2>5, <2>6, NameTypes
<1> QED
  BY <1>1, BareRepoInvariant, PTL

\* When nothing is in progress, every remote and every section is for the pull
\* request of a run that was taken over or whose configuration was given up: by a
\* removal that failed in part or whose directory stayed, by a request that ended
\* its chain, or by a crash.  Every other end of a setup or of a run removes what
\* the setup wrote (rollbackPRSetupLocked, CleanupPRConfig).
THEOREM BareRepoQuietIsClean == Spec => []QuietIsClean
<1>1. IInv => QuietIsClean
  <2> DEFINE kept == {of[r] : r \in {q \in Runs : q \in leaks \/ hand[q] # "none"}}
  <2> SUFFICES ASSUME IInv, Quiet
               PROVE  remotes \subseteq kept /\ \A b \in Branches : section[b] \in kept \cup {None}
    BY DEF QuietIsClean
  <2>1. \A r \in Runs : Owns(r) => of[r] \in kept
    BY DEF Quiet, Owns, Stays, SetUp, Late
  <2>2. \A p \in remotes : \E r \in Runs : Owns(r) /\ of[r] = p
    BY DEF IInv, InvConfig, Owned
  <2>3. \A b \in Branches : section[b] # None => \E r \in Runs : Owns(r) /\ of[r] = section[b]
    BY DEF IInv, InvConfig, Owned
  <2> QED
    BY <2>1, <2>2, <2>3
<1> QED
  BY <1>1, BareRepoInvariant, PTL

\* Whoever sets up, cleans up or releases goes on, or waits for a sweep or for a
\* setup that goes on: no setup, rollback or sweep ends with the mutex held, and
\* none waits for anything while it holds it (worktree.go, CreateForPR and
\* rollbackPRSetupLocked, CleanupPRConfig, SweepStaleForkPRConfig).  That going on
\* is having a step, the other half of NobodyStalls, is left to TLC.
THEOREM BareRepoNobodyWaitsForEver ==
  Spec => [](\A r \in Runs : Busy(r) => GoesOn(r) \/ WaitsForHolder(r))
<1>1. IInv => \A r \in Runs : Busy(r) => GoesOn(r) \/ WaitsForHolder(r)
  <2> SUFFICES ASSUME IInv, NEW r \in Runs, ~GoesOn(r)
               PROVE  \E q \in lock \ {r} : q = Boot \/ GoesOn(q)
    BY DEF WaitsForHolder
  <2>1. PICK q \in Runs \cup {Boot} : lock = {q}
    BY DEF IInv, InvControl, Mutex, GoesOn
  <2>2. CASE q = Boot
    BY <2>1, <2>2
  <2>3. CASE q \in Runs
    <3>1. pc[q] \in {"add"} \cup SetUp
      BY <2>1, <2>3 DEF IInv, InvControl, Mutex, At
    <3>2. GoesOn(q) /\ q # r
      BY <3>1 DEF GoesOn, SetUp
    <3> QED
      BY <2>1, <3>2
  <2> QED
    BY <2>1, <2>2, <2>3
<1> QED
  BY <1>1, BareRepoInvariant, PTL

\* SweepStaleForkPRConfig: "we only reclaim branches with no live checkout".  That
\* is so whenever it could list the worktrees, whatever takeovers and removals do
\* between its two steps, as these take no mutex.
THEOREM BareRepoSweepSpares ==
  Spec => [][SweepReclaims /\ ~misread => \A b \in CheckedOut : section'[b] = section[b]]_vars
<1>1. IInv /\ SweepReclaims /\ ~misread => \A b \in CheckedOut : section'[b] = section[b]
  <2> SUFFICES ASSUME IInv, SweepReclaims, ~misread, NEW b \in CheckedOut
               PROVE  section'[b] = section[b]
    OBVIOUS
  <2> DEFINE prs == {section[c] : c \in Stale}
  <2>1. RemoveConfig(prs, Stale) \/ RemoveSome(prs, Stale)
    BY DEF SweepReclaims
  <2>2. lock = {Boot}
    BY DEF SweepReclaims
  <2>3. /\ b \in Branches /\ b \notin Stale
        /\ \A c \in Branches : section[c] # None => c = Local(section[c])
    BY <2>2 DEF IInv, InvControl, InvConfig, Types, CheckedOut, Sweeping, Stale, Sections
  <2>4. /\ section'[b] = section[b] \/ section'[b] = None
        /\ (\A p \in prs : b # Synthetic(p)) => section'[b] = section[b]
    <3> HIDE DEF prs
    <3> QED
      BY <2>1, <2>3, SomeRemovedIs DEF IInv, InvControl
  <2>5. CASE \E p \in prs : b = Synthetic(p)
    <3>1. PICK c \in Stale : b = Synthetic(section[c])
      BY <2>5
    <3>2. section[b] = None
      <4> SUFFICES ASSUME section[b] # None
                   PROVE  FALSE
        OBVIOUS
      <4>1. Synthetic(section[c]) = Local(section[b]) /\ c = Local(section[c])
        BY <2>3, <3>1 DEF Stale
      <4>2. section[b] = section[c]
        BY <4>1, Distinct DEF Local
      <4> QED
        BY <2>3, <3>1, <4>1, <4>2
    <3> QED
      BY <2>4, <3>2
  <2>6. CASE ~\E p \in prs : b = Synthetic(p)
    BY <2>4, <2>6
  <2> QED
    BY <2>5, <2>6
<1> QED
  BY <1>1, BareRepoInvariant, PTL
=============================================================================
