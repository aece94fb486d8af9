---------------------------- MODULE PollFeedProofs ----------------------------
(***************************************************************************)
(* Theorems about PollFeed, for any number of loops, any capacity of the   *)
(* channel and any budget.                                                 *)
(***************************************************************************)
EXTENDS PollFeed, TLAPS

(***************************************************************************)
(* The inductive invariant.                                                *)
(***************************************************************************)
Events == {"asked", "unasked", "closed"}
Places == {"off", "start", "idle", "register", "seed", "settle", "list", "refresh", "save",
    "publish"}
Kinds == {"drop", "overlap", "reclosed", "late", "revived", "crash", "buried",
          "swallowed", "left open", "unseeded", "unclosed", "unsaved", "cut"}
Images == {NoSnap} \cup [open : BOOLEAN, asked : BOOLEAN, at : Times, checks : BOOLEAN]

Types ==
  /\ entity \in {"none", "active", "closed"} /\ task \in {"none", "open", "over"}
  /\ loop \in [Loops -> Places]
  /\ stopped \subseteq {l \in Loops : loop[l] \notin {"off", "start", "idle"}}
  /\ teamless \subseteq {l \in Loops : loop[l] \notin {"off", "start"}}
  /\ bus \in Seq(Events) /\ Len(bus) <= Capacity
  /\ cascade \in BOOLEAN /\ answered \in BOOLEAN
  /\ lapses \subseteq Kinds

\* The pull request counts the changes that were spent on it.
Counted ==
  /\ pr \in [open : BOOLEAN, asked : BOOLEAN, at : Nat]
  /\ budget \in [Inputs -> Nat] /\ \A input \in Inputs : budget[input] <= Budget[input]
  /\ pr.at = 1 + Budget["world"] - budget["world"]

\* An image of the pull request shows it as it was at its time, and now if
\* nothing has changed since.
Shows(image, now) ==
  /\ image.at <= now.at
  /\ image.at = now.at => image.open = now.open /\ image.asked = now.asked
Seen(image) == image \in Images /\ Shows(image, pr)
Imaged ==
  /\ Seen(snap)
  /\ fresh \in [Loops -> Images] /\ prev \in [Loops -> Images] /\ curr \in [Loops -> Images]
  /\ \A l \in Loops : Seen(fresh[l]) /\ Seen(prev[l]) /\ Seen(curr[l]) /\ ~fresh[l].checks

\* Until the first cycle has saved the first snapshot, no cycle gets further
\* than its list and nothing is published.
Outside == {"off", "start", "idle", "register", "list"}
Unfound ==
  \A l \in Loops : entity = "none" \/ loop[l] = "seed" =>
    /\ snap = NoSnap /\ task = "none" /\ bus = <<>>
    /\ \A m \in Loops \ {l} : loop[m] \in Outside
    /\ entity = "none" => loop[l] \in Outside

\* One cycle finds the entity.
Founder ==
  \A l \in Loops : loop[l] = "settle" =>
    entity # "none" /\ \A m \in Loops \ {l} : loop[m] \notin {"seed", "settle"}

\* What a cycle fetched is no older than what it compares with.
Compared ==
  \A l \in Loops : loop[l] \in {"save", "publish"} =>
    Shows(prev[l], curr[l]) /\ curr[l].checks = prev[l].open

\* What a cycle compares with was stored.
Based == \A l \in Loops : loop[l] \in {"refresh", "save"} => prev[l] # NoSnap

\* While the founder is about to close an entity it found over, either another
\* cycle has stored a later snapshot, or nothing has been announced yet; its own
\* may not have been stored.
Calm == lapses \cap {"revived", "crash", "overlap", "unsaved"} = {}
Unannounced ==
  /\ task # "open" /\ "asked" \notin Range(bus)
  /\ \A m \in Loops : loop[m] = "publish" => prev[m].asked = curr[m].asked
Founding ==
  Calm => \A l \in Loops : loop[l] = "settle" /\ ~fresh[l].open =>
    fresh[l].at < snap.at \/ (snap \in {NoSnap, fresh[l]} /\ Unannounced)

IInv ==
  /\ Types /\ Counted /\ Imaged /\ Unfound /\ Founder /\ Compared /\ Founding
  /\ ClosedEntityIsQuiet /\ SnapshotIsExplained

-----------------------------------------------------------------------------
(***************************************************************************)
(* The channel.                                                            *)
(***************************************************************************)
USE PollFeedAssumption

\* What a publication leaves in the channel: nothing else, and all of it
\* unless some was dropped.
LEMMA PublishKeeps ==
  ASSUME bus \in Seq(Events), Len(bus) <= Capacity, NEW events \in Seq(Events), Publish(events)
  PROVE  /\ bus' \in Seq(Events) /\ Len(bus') <= Capacity
         /\ Range(bus') \subseteq Range(bus) \cup Range(events)
         /\ Dropped(events) = {} => Range(bus') = Range(bus) \cup Range(events)
<1> DEFINE all == bus \o events
<1>1. all \in Seq(Events) /\ Len(all) = Len(bus) + Len(events)
  OBVIOUS
<1>2. Range(all) = Range(bus) \cup Range(events)
  <2>1. \A i \in DOMAIN bus : i \in DOMAIN all /\ all[i] = bus[i]
    OBVIOUS
  <2>2. \A i \in DOMAIN events : Len(bus) + i \in DOMAIN all /\ all[Len(bus) + i] = events[i]
    OBVIOUS
  <2>3. \A i \in DOMAIN all : \/ i \in DOMAIN bus /\ all[i] = bus[i]
                              \/ i - Len(bus) \in DOMAIN events /\ all[i] = events[i - Len(bus)]
    OBVIOUS
  <2> HIDE DEF all
  <2> QED
    BY <2>1, <2>2, <2>3 DEF Range
<1> HIDE DEF all
<1>3. CASE Len(bus) + Len(events) <= Capacity
  BY <1>1, <1>2, <1>3 DEF Publish, all
<1>4. CASE Len(bus) + Len(events) > Capacity
  <2>1. bus' = SubSeq(all, 1, Capacity) /\ Capacity <= Len(all)
    BY <1>1, <1>4 DEF Publish, all
  <2>2. bus' \in Seq(Events) /\ Len(bus') = Capacity
        /\ \A i \in 1 .. Capacity : i \in DOMAIN all /\ bus'[i] = all[i]
    BY <1>1, <2>1
  <2>3. Range(bus') \subseteq Range(all)
    BY <2>2 DEF Range
  <2> QED
    BY <1>2, <1>4, <2>2, <2>3 DEF Dropped, Lost
<1> QED
  BY <1>1, <1>3, <1>4

\* What the router leaves in it.
LEMMA HandlesKeeps ==
  ASSUME bus \in Seq(Events), NEW event, Handles(event)
  PROVE  /\ bus' \in Seq(Events) /\ Len(bus') <= Len(bus)
         /\ event \in Range(bus)
         /\ Range(bus') \subseteq Range(bus) /\ Range(bus) \subseteq Range(bus') \cup {event}
<1>1. bus # <<>> /\ bus' = Tail(bus) /\ event = bus[1]
  BY DEF Handles
<1>2. bus' \in Seq(Events) /\ Len(bus') = Len(bus) - 1
      /\ \A i \in DOMAIN bus' : i + 1 \in DOMAIN bus /\ bus'[i] = bus[i + 1]
  BY <1>1
<1>3. 1 \in DOMAIN bus /\ \A i \in DOMAIN bus :
      i = 1 \/ (i - 1 \in DOMAIN bus' /\ bus[i] = bus'[i - 1])
  BY <1>1
<1>4. event \in Range(bus) /\ Range(bus') \subseteq Range(bus)
  BY <1>1, <1>2, <1>3 DEF Range
<1>5. \A i \in DOMAIN bus : bus[i] \in Range(bus') \cup {event}
  BY <1>1, <1>3 DEF Range
<1>6. Range(bus) \subseteq Range(bus') \cup {event}
  BY <1>5 DEF Range
<1> QED
  BY <1>2, <1>4, <1>6

\* What a comparison reports.
LEMMA DiffReports ==
  ASSUME NEW before \in Images, NEW after \in Images
  PROVE  /\ DiffPRSnapshots(before, after) \in Seq(Events)
         /\ before.open /\ ~after.open => "closed" \in Range(DiffPRSnapshots(before, after))
         /\ "asked" \in Range(DiffPRSnapshots(before, after)) => after.asked /\ ~before.asked
<1> DEFINE c == IF before.open /\ ~after.open THEN <<"closed">> ELSE <<>>
           a == IF after.asked /\ ~before.asked THEN <<"asked">> ELSE <<>>
           u == IF before.asked /\ ~after.asked THEN <<"unasked">> ELSE <<>>
<1>1. c \in Seq(Events) /\ a \in Seq(Events) /\ u \in Seq(Events)
  <2>1. \A e \in Events : <<e>> \in Seq(Events)
    OBVIOUS
  <2>2. <<>> \in Seq(Events)
    OBVIOUS
  <2> QED
    BY <2>1, <2>2 DEF Events
<1>2. DiffPRSnapshots(before, after) = c \o a \o u
  BY DEF DiffPRSnapshots
<1>3. before.open /\ ~after.open => c[1] = "closed" /\ Len(c) = 1
  OBVIOUS
<1>4. ~(after.asked /\ ~before.asked) => Len(a) = 0
  OBVIOUS
<1>5. /\ \A i \in DOMAIN c : c[i] # "asked"
      /\ \A i \in DOMAIN u : u[i] # "asked"
  OBVIOUS
<1> HIDE DEF c, a, u
<1>6. /\ c \o a \o u \in Seq(Events)
      /\ Len(c) = 1 => (c \o a \o u)[1] = c[1] /\ 1 \in DOMAIN (c \o a \o u)
  BY <1>1
<1>7. Len(a) = 0 => \A i \in DOMAIN (c \o a \o u) : (c \o a \o u)[i] # "asked"
  <2> SUFFICES ASSUME Len(a) = 0, NEW i \in DOMAIN (c \o a \o u)
               PROVE  (c \o a \o u)[i] # "asked"
    OBVIOUS
  <2>1. \/ i \in DOMAIN c /\ (c \o a \o u)[i] = c[i]
        \/ i - Len(c) \in DOMAIN u /\ (c \o a \o u)[i] = u[i - Len(c)]
    BY <1>1
  <2> QED
    BY <1>5, <2>1
<1> QED
  BY <1>2, <1>3, <1>4, <1>6, <1>7 DEF Range

-----------------------------------------------------------------------------
\* What an input leaves of the budget.
LEMMA SpendKeeps ==
  ASSUME Counted, NEW input \in Inputs, Spend(input)
  PROVE  /\ input # "world" /\ pr' = pr => Counted'
         /\ input = "world" /\ pr' \in [open : BOOLEAN, asked : BOOLEAN, at : Nat]
              /\ pr'.at = pr.at + 1 => Counted'
<1>1. budget' = [budget EXCEPT ![input] = budget[input] - 1] /\ budget[input] \in Nat \ {0}
  BY DEF Spend, Counted
<1>2. "world" \in Inputs
  BY DEF Inputs
<1> QED
  BY <1>1, <1>2 DEF Counted

\* The fields of an image.
LEMMA ImageFields ==
  ASSUME NEW image \in Images
  PROVE  /\ image.open \in BOOLEAN /\ image.asked \in BOOLEAN /\ image.checks \in BOOLEAN
         /\ image.at \in Nat
<1>1. "world" \in Inputs /\ Budget["world"] \in Nat
  BY DEF Inputs
<1>2. CASE image = NoSnap
  BY <1>2 DEF NoSnap
<1>3. CASE image \in [open : BOOLEAN, asked : BOOLEAN, at : Times, checks : BOOLEAN]
  BY <1>1, <1>3 DEF Times
<1> QED
  BY <1>2, <1>3 DEF Images

\* Nothing else makes an image.
LEMMA EqualImages ==
  ASSUME NEW image \in Images, NEW other \in Images,
         image.open = other.open, image.asked = other.asked, image.checks = other.checks,
         image.at = other.at
  PROVE  image = other
BY DEF Images, NoSnap

\* Images that were seen.
LEMMA SeenImages ==
  ASSUME Counted
  PROVE  /\ Seen(NoSnap) /\ ~NoSnap.checks /\ NoSnap.at < pr.at
         /\ \A checks \in BOOLEAN : Seen(Pulled(checks)) /\ Pulled(checks).checks = checks
                                    /\ Pulled(checks) # NoSnap /\ Pulled(checks).open = pr.open
<1>1. "world" \in Inputs /\ Budget["world"] \in Nat
  BY DEF Inputs
<1>2. pr.at \in Times
  BY <1>1 DEF Counted, Times
<1>3. NoSnap.at = 0 /\ ~NoSnap.checks /\ NoSnap \in Images
  BY DEF NoSnap, Images
<1>4. pr.at \in Nat /\ 0 < pr.at
  BY <1>1, <1>2 DEF Times
<1>5. Seen(NoSnap) /\ NoSnap.at < pr.at
  BY <1>3, <1>4 DEF Seen, Shows
<1>6. ASSUME NEW checks \in BOOLEAN
      PROVE  /\ Seen(Pulled(checks)) /\ Pulled(checks).checks = checks
             /\ Pulled(checks).at = pr.at /\ Pulled(checks).open = pr.open
  <2>1. Pulled(checks) \in Images
    BY <1>2 DEF Pulled, Counted, Images
  <2>2. /\ Pulled(checks).checks = checks /\ Pulled(checks).at = pr.at
        /\ Pulled(checks).open = pr.open /\ Pulled(checks).asked = pr.asked
    BY DEF Pulled
  <2> QED
    BY <1>4, <2>1, <2>2 DEF Seen, Shows
<1>7. \A checks \in BOOLEAN : Pulled(checks) # NoSnap
  BY <1>3, <1>4, <1>6
<1> QED
  BY <1>3, <1>5, <1>6, <1>7

\* What has been said of an entity that its founder is about to close.
LEMMA FoundingFrame ==
  ASSUME Founding, lapses \subseteq lapses', snap' = snap, Unannounced => Unannounced',
         \A l \in Loops : loop'[l] = "settle" => loop[l] = "settle" /\ fresh'[l] = fresh[l]
  PROVE  Founding'
BY DEF Founding, Calm

\* What explains a snapshot that is over.
Explained ==
  \/ Closing
  \/ \E l \in Loops : \/ loop[l] = "settle"
                      \/ loop[l] = "list" /\ fresh[l].open
                      \/ loop[l] \in {"refresh", "save"}

\* What asks for an explanation.
Questioned == entity = "active" /\ snap # NoSnap /\ ~snap.open

\* A step that loses no explanation keeps the invariant.
LEMMA ExplainedFrame ==
  ASSUME SnapshotIsExplained, lapses \subseteq lapses',
         Questioned' => Questioned,
         Questioned' /\ Questioned /\ Explained /\ "drop" \notin lapses' => Explained'
  PROVE  SnapshotIsExplained'
BY DEF SnapshotIsExplained, Explained, Questioned

-----------------------------------------------------------------------------
\* What a cycle preserves up to its list: above all that one cycle finds the
\* entity, and closes it only before anything was announced of it.
LEMMA DiscoveryPreserves ==
  ASSUME IInv, NEW l \in Loops,
         Discover(l) \/ DiscoverFails(l) \/ Register(l) \/ Seed(l) \/ Settle(l)
  PROVE  IInv'
<1> USE DEF IInv
<1>1. CASE Discover(l)
  <2>1. PICK next \in {"register", "list"} : loop[l] = "idle" /\ loop' = [loop EXCEPT ![l] = next]
    BY <1>1 DEF Discover, Goto
  <2>2. fresh' = fresh \/ fresh' = [fresh EXCEPT ![l] = Pulled(FALSE)]
    BY <1>1 DEF Discover
  <2>3. UNCHANGED <<pr, rows, stopped, teamless, prev, curr, bus, cascade, answered, lapses,
      budget>>
    BY <1>1 DEF Discover
  <2>4. Types'
    BY <2>1, <2>2, <2>3 DEF Types, EndCycle, Events, Goto, Kinds, Places, rows
  <2>5. Counted'
    BY <2>1, <2>2, <2>3 DEF Counted, EndCycle, Goto, rows
  <2>6. Imaged'
    BY <2>1, <2>2, <2>3, SeenImages DEF Imaged, EndCycle, Goto, rows, Seen
  <2>7. Unfound' /\ Founder'
    <3>1. Unfound'
      BY <2>1, <2>2, <2>3 DEF Types, Unfound, EndCycle, Goto,  Outside, Places, rows
    <3>2. Founder'
      BY <2>1, <2>2, <2>3 DEF Founder, Types, EndCycle, Goto,  Outside, Places, rows
    <3> QED
      BY <3>1, <3>2
  <2>8. Compared'
    BY <2>1, <2>2, <2>3 DEF Compared, Imaged, Types, EndCycle, Goto, Places, rows
  <2>9. Founding'
    <3>1. Unannounced => Unannounced'
      BY <2>1, <2>2, <2>3 DEF Imaged, Types, EndCycle, Events, Goto, Kinds, Places,
          Unannounced, rows
    <3> QED
      BY <2>1, <2>2, <2>3, <3>1, FoundingFrame DEF Imaged, Types, EndCycle, Events, Goto,
          Kinds, Places, rows
  <2>10. ClosedEntityIsQuiet'
    BY <2>1, <2>2, <2>3 DEF ClosedEntityIsQuiet, EndCycle, Goto, rows
  <2>11. SnapshotIsExplained'
    <3>1. Questioned' /\ Questioned /\ Explained /\ "drop" \notin lapses' => Explained'
      BY <2>1, <2>2, <2>3 DEF Imaged, Types, Closing, EndCycle, Events, Explained, Goto,
          Kinds, Places, Questioned, rows
    <3> QED
      BY <2>1, <2>2, <2>3, <3>1, ExplainedFrame, <2>5 DEF Imaged, Types, EndCycle,
          Events, Goto, Kinds, Places, Questioned, rows
  <2> QED
    BY <2>4, <2>5, <2>6, <2>7, <2>8, <2>9, <2>10, <2>11
<1>2. CASE DiscoverFails(l)
  <2>1. Spend("fault") /\ "fault" \in Inputs
    BY <1>2 DEF DiscoverFails, Inputs
  <2>2. Types'
    BY <1>2, <2>1 DEF DiscoverFails, Types, Events, Goto, Kinds, Places, rows
  <2>3. Counted'
    BY <1>2, <2>1, SpendKeeps DEF DiscoverFails
  <2>4. Imaged'
    BY <1>2, <2>1, SeenImages DEF DiscoverFails, Imaged, Goto, rows, Seen
  <2>5. Unfound' /\ Founder'
    <3>1. Unfound'
      BY <1>2, <2>1 DEF DiscoverFails, Types, Unfound, Goto,  Outside, Places, rows
    <3>2. Founder'
      BY <1>2, <2>1 DEF DiscoverFails, Founder, Types, Goto,  Outside, Places, rows
    <3> QED
      BY <3>1, <3>2
  <2>6. Compared'
    BY <1>2, <2>1 DEF DiscoverFails, Compared, Imaged, Types, Goto, Places, rows
  <2>7. Founding'
    <3>1. Unannounced => Unannounced'
      BY <1>2, <2>1 DEF DiscoverFails, Imaged, Types, Events, Goto, Kinds, Places, rows,
          Unannounced
    <3> QED
      BY <1>2, <2>1, <3>1, FoundingFrame DEF DiscoverFails, Imaged, Types, Events, Goto,
          Kinds, Places, rows
  <2>8. ClosedEntityIsQuiet'
    BY <1>2, <2>1 DEF DiscoverFails, ClosedEntityIsQuiet, Goto, rows
  <2>9. SnapshotIsExplained'
    <3>1. Questioned' /\ Questioned /\ Explained /\ "drop" \notin lapses' => Explained'
      BY <1>2, <2>1 DEF DiscoverFails, Imaged, Types, Events, Goto, Kinds, Places, rows,
          Closing, Explained, Questioned
    <3> QED
      BY <1>2, <2>1, <3>1, ExplainedFrame, SpendKeeps, <2>3 DEF DiscoverFails, Imaged,
          Types, Events, Goto, Kinds, Places, rows, Questioned
  <2> QED
    BY <2>2, <2>3, <2>4, <2>5, <2>6, <2>7, <2>8, <2>9
<1>3. CASE Register(l)
  <2>1. /\ loop[l] = "register" /\ entity' \in {"active", entity}
        /\ entity # "active" /\ entity' = "active" => entity = "none" \/ fresh[l].open
        /\ entity = "none" => entity' = "active"
    BY <1>3 DEF Register
  <2>2. loop' = [loop EXCEPT ![l] = IF entity = "none" THEN "seed" ELSE "list"]
    BY <1>3 DEF Register, Goto
  <2>3. UNCHANGED <<pr, snap, task, stopped, teamless, fresh, prev, curr, bus, cascade,
                     answered, lapses, budget>>
    BY <1>3 DEF Register
  <2>4. Types'
    BY <2>1, <2>2, <2>3 DEF Types, EndCycle, Events, Goto, Kinds, Places, rows
  <2>5. Counted'
    BY <2>1, <2>2, <2>3 DEF Counted, EndCycle, Goto, rows
  <2>6. Imaged'
    BY <2>1, <2>2, <2>3, SeenImages DEF Imaged, EndCycle, Goto, rows, Seen
  <2>7. Unfound' /\ Founder'
    <3>1. Unfound'
      BY <2>1, <2>2, <2>3 DEF Types, Unfound, EndCycle, Goto,  Outside, Places, rows
    <3>2. Founder'
      BY <2>1, <2>2, <2>3 DEF Founder, Types, EndCycle, Goto,  Outside, Places, rows
    <3> QED
      BY <3>1, <3>2
  <2>8. Compared'
    BY <2>1, <2>2, <2>3 DEF Compared, Imaged, Types, EndCycle, Goto, Places, rows
  <2>9. Founding'
    <3>1. Unannounced => Unannounced'
      BY <2>1, <2>2, <2>3 DEF Imaged, Types, EndCycle, Events, Goto, Kinds, Places,
          Unannounced, rows
    <3> QED
      BY <2>1, <2>2, <2>3, <3>1, FoundingFrame DEF Imaged, Types, EndCycle, Events, Goto,
          Kinds, Places, rows
  <2>10. ClosedEntityIsQuiet'
    BY <2>1, <2>2, <2>3 DEF ClosedEntityIsQuiet, EndCycle, Goto, rows
  <2>11. SnapshotIsExplained'
    <3>1. CASE entity' = entity
      <4>1. Questioned' /\ Questioned /\ Explained => Explained'
        BY <2>1, <2>2, <2>3, <3>1 DEF Types, Explained, Questioned, Closing, Places
      <4> QED
        BY <2>3, <3>1, <4>1, <2>5, ExplainedFrame DEF Questioned
    <3>2. CASE entity = "none"
      BY <2>3, <3>2 DEF Unfound, SnapshotIsExplained
    <3>3. CASE entity # "none" /\ entity' # entity
      <4>1. loop'[l] = "list" /\ fresh'[l].open
        BY <2>1, <2>2, <2>3, <3>3 DEF Types
      <4> QED
        BY <4>1 DEF SnapshotIsExplained
    <3> QED
      BY <3>1, <3>2, <3>3
  <2> QED
    BY <2>4, <2>5, <2>6, <2>7, <2>8, <2>9, <2>10, <2>11
<1>4. CASE Seed(l)
  <2>1. Types'
    BY <1>4 DEF Seed, Types, Buried, Events, Goto, Kinds, Lost, Overlap, Places
  <2>2. Counted'
    BY <1>4 DEF Seed, Counted, Buried, Goto, Lost, Overlap
  <2>3. Imaged'
    BY <1>4, SeenImages DEF Seed, Imaged, Buried, Goto, Lost, Overlap, Seen
  <2>4. Unfound' /\ Founder'
    BY <1>4 DEF Seed, Founder, Types, Unfound, Buried, Events, Goto, Kinds, Lost, Overlap,
        Outside, Places
  <2>5. Compared'
    BY <1>4 DEF Seed, Compared, Imaged, Types, Buried, Goto, Lost, Overlap, Places
  <2>6. Founding'
    <3>1. /\ snap' = fresh[l] /\ fresh' = fresh /\ Unannounced'
          /\ \A m \in Loops \ {l} : loop'[m] # "settle"
      <4>1. /\ snap' = fresh[l] /\ UNCHANGED <<fresh, task, bus>>
            /\ loop[l] = "seed" /\ loop' = [loop EXCEPT ![l] = "settle"]
        BY <1>4 DEF Seed, Goto
      <4>2. task = "none" /\ bus = <<>> /\ \A m \in Loops \ {l} : loop[m] \in Outside
        BY <4>1 DEF Unfound
      <4>3. Range(<<>>) = {}
        BY DEF Range
      <4> QED
        BY <4>1, <4>2, <4>3 DEF Types, Unannounced, Outside
    <3> QED
      BY <3>1 DEF Founding
  <2>7. ClosedEntityIsQuiet'
    BY <1>4 DEF Seed, ClosedEntityIsQuiet, Buried, Goto, Lost, Overlap
  <2>8. SnapshotIsExplained'
    <3>1. loop'[l] = "settle"
      BY <1>4 DEF Seed, Goto, Types
    <3> QED
      BY <3>1 DEF SnapshotIsExplained
  <2> QED
    BY <2>1, <2>2, <2>3, <2>4, <2>5, <2>6, <2>7, <2>8
<1>5. CASE Settle(l)
  <2>1. PICK events \in {<<"asked">>, <<>>} :
          /\ events # <<>> => fresh[l].open
          /\ Publish(events)
          /\ lapses' = lapses \cup Dropped(events) \cup Overlap(fresh[l])
    BY <1>5 DEF Settle
  <2>2. events \in Seq(Events)
    <3>1. <<>> \in Seq(Events) /\ <<"asked">> \in Seq(Events)
      BY DEF Events
    <3> QED
      BY <2>1, <3>1
  <2>3. /\ bus' \in Seq(Events) /\ Len(bus') <= Capacity
        /\ "drop" \notin lapses' => Range(bus) \subseteq Range(bus')
        /\ lapses \subseteq lapses' /\ lapses' \subseteq lapses \cup {"drop", "overlap"}
        /\ snap \notin {NoSnap, fresh[l]} => "overlap" \in lapses'
    BY <2>1, <2>2, PublishKeeps DEF Types, Dropped, Lost, Overlap
  <2>4. Types'
    BY <1>5, <2>1, <2>2, <2>3 DEF Settle, Types, Events, Goto, Kinds, Lost, Overlap, Places
  <2>5. Counted'
    BY <1>5, <2>1, <2>2, <2>3 DEF Settle, Counted, Goto, Lost, Overlap
  <2>6. Imaged'
    BY <1>5, <2>1, <2>2, <2>3, SeenImages DEF Settle, Imaged, Goto, Lost, Overlap, Seen
  <2>7. Unfound' /\ Founder'
    <3>1. Unfound'
      BY <1>5, <2>1, <2>2, <2>3 DEF Settle, Types, Unfound, Goto,  Lost, Overlap, Outside, Places
    <3>2. Founder'
      BY <1>5, <2>1, <2>2, <2>3 DEF Settle, Founder, Types, Goto,  Lost, Overlap, Outside, Places
    <3> QED
      BY <3>1, <3>2
  <2>8. Compared'
    BY <1>5, <2>1, <2>2, <2>3 DEF Settle, Compared, Imaged, Types, Goto, Lost, Overlap,
        Places
  <2>9. Founding'
    <3>1. \A m \in Loops : loop'[m] # "settle"
      BY <1>5 DEF Settle, Goto, Types, Founder
    <3> QED
      BY <3>1 DEF Founding
  <2>10. ClosedEntityIsQuiet'
    <3>1. UNCHANGED <<task, cascade>> /\ loop[l] = "settle" /\ (fresh[l].open => entity' = entity)
      BY <1>5 DEF Settle
    <3>2. CASE Calm /\ snap \in {NoSnap, fresh[l]} /\ ~fresh[l].open
      <4>1. ~(fresh[l].at < snap.at)
        BY <3>2, ImageFields DEF Imaged, NoSnap
      <4> QED
        BY <3>1, <3>2, <4>1 DEF Founding, Unannounced, ClosedEntityIsQuiet
    <3>3. CASE ~Calm \/ snap \notin {NoSnap, fresh[l]}
      BY <2>3, <3>3 DEF Calm, ClosedEntityIsQuiet
    <3>4. CASE fresh[l].open
      BY <2>3, <3>1, <3>4 DEF ClosedEntityIsQuiet
    <3> QED
      BY <3>2, <3>3, <3>4
  <2>11. SnapshotIsExplained'
    <3>1. Questioned' /\ Questioned /\ Explained /\ "drop" \notin lapses' => Explained'
      BY <1>5, <2>1, <2>2, <2>3 DEF Settle, Imaged, Types, Events, Goto, Kinds, Lost, Overlap,
          Places, Closing, Explained, Questioned
    <3> QED
      BY <1>5, <2>1, <2>2, <2>3, <3>1, ExplainedFrame, <2>5 DEF Settle, Imaged, Types,
          Events, Goto, Kinds, Lost, Overlap, Places, Questioned
  <2> QED
    BY <2>4, <2>5, <2>6, <2>7, <2>8, <2>9, <2>10, <2>11
<1> QED
  BY <1>1, <1>2, <1>3, <1>4, <1>5

\* What the rest of a cycle preserves.
LEMMA RefreshPreserves ==
  ASSUME IInv, Based, NEW l \in Loops,
         NothingToRefresh(l) \/ Skip(l) \/ List(l) \/ Refresh(l) \/ Save(l)
           \/ PublishEvents(l)
  PROVE  IInv'
<1> USE DEF IInv
<1>1. CASE NothingToRefresh(l)
  <2>1. Types'
    BY <1>1 DEF NothingToRefresh, Types, EndCycle, Events, Goto, Kinds, Places, rows
  <2>2. Counted'
    BY <1>1 DEF NothingToRefresh, Counted, EndCycle, Goto, rows
  <2>3. Imaged'
    BY <1>1, SeenImages DEF NothingToRefresh, Imaged, EndCycle, Goto, rows, Seen
  <2>4. Unfound' /\ Founder'
    BY <1>1 DEF NothingToRefresh, Founder, Types, Unfound, EndCycle, Events, Goto, Kinds,
        Outside, Places, rows
  <2>5. Compared'
    BY <1>1 DEF NothingToRefresh, Compared, Imaged, Types, EndCycle, Goto, Places,
        rows
  <2>6. Founding'
    <3>1. Unannounced => Unannounced'
      BY <1>1 DEF NothingToRefresh, Imaged, Types, EndCycle, Events, Goto, Kinds, Places,
          rows, Unannounced
    <3> QED
      BY <1>1, <3>1, FoundingFrame DEF NothingToRefresh, Imaged, Types, EndCycle, Events,
          Goto, Kinds, Places, rows
  <2>7. ClosedEntityIsQuiet'
    BY <1>1 DEF NothingToRefresh, ClosedEntityIsQuiet, EndCycle, Goto, rows
  <2>8. SnapshotIsExplained'
    <3>1. Questioned' /\ Questioned /\ Explained /\ "drop" \notin lapses' => Explained'
      BY <1>1 DEF NothingToRefresh, Imaged, Types, EndCycle, Events, Goto, Kinds, Places,
          rows, Closing, Explained, Questioned
    <3> QED
      BY <1>1, <3>1, ExplainedFrame, <2>2 DEF NothingToRefresh, Imaged, Types, EndCycle,
          Events, Goto, Kinds, Places, rows, Questioned
  <2> QED
    BY <2>1, <2>2, <2>3, <2>4, <2>5, <2>6, <2>7, <2>8
<1>2. CASE Skip(l)
  <2>1. PICK events \in {<<"unasked">>, <<>>} :
          Publish(events) /\ lapses' = lapses \cup Dropped(events)
    BY <1>2 DEF Skip
  <2>2. events \in Seq(Events) /\ Range(events) \subseteq {"unasked"}
    <3>1. <<>> \in Seq(Events) /\ <<"unasked">> \in Seq(Events)
      BY DEF Events
    <3>2. Range(<<>>) = {} /\ Range(<<"unasked">>) = {"unasked"}
      BY DEF Range
    <3> QED
      BY <2>1, <3>1, <3>2
  <2>3. /\ bus' \in Seq(Events) /\ Len(bus') <= Capacity
        /\ Range(bus') \subseteq Range(bus) \cup {"unasked"}
        /\ "drop" \notin lapses' => Range(bus) \subseteq Range(bus')
        /\ lapses' \in {lapses, lapses \cup {"drop"}}
    BY <2>1, <2>2, PublishKeeps DEF Types, Dropped, Lost
  <2>4. Types'
    BY <1>2, <2>1, <2>2, <2>3 DEF Skip, Types, EndCycle, Events, Goto, Kinds, Places,
        Quiet, rows
  <2>5. Counted'
    BY <1>2, <2>1, <2>2, <2>3 DEF Skip, Counted, EndCycle, Goto, Quiet, rows
  <2>6. Imaged'
    BY <1>2, <2>1, <2>2, <2>3, SeenImages DEF Skip, Imaged, EndCycle, Goto, Quiet, rows,
        Seen
  <2>7. Unfound' /\ Founder'
    BY <1>2, <2>1, <2>2, <2>3 DEF Skip, Founder, Types, Unfound, EndCycle, Events, Goto,
        Kinds, Outside, Places, Quiet, rows
  <2>8. Compared'
    BY <1>2, <2>1, <2>2, <2>3 DEF Skip, Compared, Imaged, Types, EndCycle, Goto, Places, Quiet, rows
  <2>9. Founding'
    <3>1. Unannounced => Unannounced'
      BY <1>2, <2>1, <2>2, <2>3 DEF Skip, Imaged, Types, EndCycle, Events, Goto, Kinds,
          Places, Quiet, rows, Unannounced
    <3> QED
      BY <1>2, <2>1, <2>2, <2>3, <3>1, FoundingFrame DEF Skip, Imaged, Types, EndCycle,
          Events, Goto, Kinds, Places, Quiet, rows
  <2>10. ClosedEntityIsQuiet'
    BY <1>2, <2>1, <2>2, <2>3 DEF Skip, ClosedEntityIsQuiet, EndCycle, Goto, Quiet, rows
  <2>11. SnapshotIsExplained'
    <3>1. snap.open /\ UNCHANGED snap
      BY <1>2 DEF Skip, Quiet, rows
    <3> QED
      BY <3>1 DEF SnapshotIsExplained
  <2> QED
    BY <2>4, <2>5, <2>6, <2>7, <2>8, <2>9, <2>10, <2>11
<1>3. CASE List(l)
  <2>1. Types'
    BY <1>3 DEF List, Types, Events, Goto, Kinds, Places, rows
  <2>2. Counted'
    BY <1>3 DEF List, Counted, Goto, rows
  <2>3. Imaged'
    BY <1>3, SeenImages DEF List, Imaged, Goto, rows, Seen
  <2>4. Unfound' /\ Founder'
    BY <1>3 DEF List, Founder, Types, Unfound, Events, Goto, Kinds, Outside, Places, rows
  <2>5. Compared'
    BY <1>3 DEF List, Compared, Imaged, Types, Goto, Places, rows
  <2>6. Founding'
    <3>1. Unannounced => Unannounced'
      BY <1>3 DEF List, Imaged, Types, Events, Goto, Kinds, Places, rows, Unannounced
    <3> QED
      BY <1>3, <3>1, FoundingFrame DEF List, Imaged, Types, Events, Goto, Kinds, Places,
          rows
  <2>7. ClosedEntityIsQuiet'
    BY <1>3 DEF List, ClosedEntityIsQuiet, Goto, rows
  <2>8. SnapshotIsExplained'
    <3>1. Questioned' /\ Questioned /\ Explained /\ "drop" \notin lapses' => Explained'
      BY <1>3 DEF List, Imaged, Types, Events, Goto, Kinds, Places, rows, Closing,
          Explained, Questioned
    <3> QED
      BY <1>3, <3>1, ExplainedFrame, <2>2 DEF List, Imaged, Types, Events, Goto, Kinds,
          Places, rows, Questioned
  <2> QED
    BY <2>1, <2>2, <2>3, <2>4, <2>5, <2>6, <2>7, <2>8
<1>4. CASE Refresh(l)
  <2>1. Types'
    BY <1>4 DEF Refresh, Types, Events, Goto, Kinds, Places, rows
  <2>2. Counted'
    BY <1>4 DEF Refresh, Counted, Goto, rows
  <2>3. Imaged'
    <3>1. prev[l].open \in BOOLEAN
      BY ImageFields DEF Imaged
    <3> QED
      BY <1>4, <3>1, SeenImages DEF Refresh, Imaged, Goto, rows, Seen
  <2>4. Unfound' /\ Founder'
    BY <1>4 DEF Refresh, Founder, Types, Unfound, Events, Goto, Kinds, Outside, Places,
        rows
  <2>5. Compared'
    <3>1. /\ loop' = [loop EXCEPT ![l] = "save"] /\ prev' = prev
          /\ curr' = [curr EXCEPT ![l] = Pulled(prev[l].open)]
      BY <1>4 DEF Refresh, Goto
    <3>2. Shows(prev[l], Pulled(prev[l].open)) /\ Pulled(prev[l].open).checks = prev[l].open
      BY DEF Imaged, Seen, Shows, Pulled
    <3> QED
      BY <3>1, <3>2 DEF Types, Imaged, Compared
  <2>6. Founding'
    <3>1. Unannounced => Unannounced'
      BY <1>4 DEF Refresh, Imaged, Types, Events, Goto, Kinds, Places, rows, Unannounced
    <3> QED
      BY <1>4, <3>1, FoundingFrame DEF Refresh, Imaged, Types, Events, Goto, Kinds,
          Places, rows
  <2>7. ClosedEntityIsQuiet'
    BY <1>4 DEF Refresh, ClosedEntityIsQuiet, Goto, rows
  <2>8. SnapshotIsExplained'
    <3>1. Questioned' /\ Questioned /\ Explained /\ "drop" \notin lapses' => Explained'
      BY <1>4 DEF Refresh, Imaged, Types, Events, Goto, Kinds, Places, rows, Closing,
          Explained, Questioned
    <3> QED
      BY <1>4, <3>1, ExplainedFrame, <2>2 DEF Refresh, Imaged, Types, Events, Goto,
          Kinds, Places, rows, Questioned
  <2> QED
    BY <2>1, <2>2, <2>3, <2>4, <2>5, <2>6, <2>7, <2>8
<1>5. CASE Save(l)
  <2>1. Types'
    BY <1>5 DEF Save, Types, Buried, Events, Goto, Kinds, Lost, Places
  <2>2. Counted'
    BY <1>5 DEF Save, Counted, Buried, Goto, Lost
  <2>3. Imaged'
    BY <1>5, SeenImages DEF Save, Imaged, Buried, Goto, Lost, Seen
  <2>4. Unfound' /\ Founder'
    BY <1>5 DEF Save, Founder, Types, Unfound, Buried, Events, Goto, Kinds, Lost,
        Outside, Places
  <2>5. Compared'
    BY <1>5 DEF Save, Compared, Imaged, Types, Buried, Goto, Lost, Places
  <2>6. Founding'
    <3> SUFFICES ASSUME Calm', NEW m \in Loops, loop'[m] = "settle", ~fresh'[m].open
                 PROVE  \/ fresh'[m].at < snap'.at
                        \/ snap' = fresh'[m] /\ Unannounced'
      BY DEF Founding
    <3>1. /\ Calm /\ snap = prev[l] /\ snap' = curr[l] /\ loop[l] = "save"
          /\ loop' = [loop EXCEPT ![l] = "publish"]
          /\ UNCHANGED <<fresh, prev, curr, task, bus>>
      BY <1>5 DEF Save, Calm, Lost, Goto
    <3>2. loop[m] = "settle" /\ ~fresh[m].checks
      BY <3>1 DEF Types, Imaged
    <3>3. Shows(prev[l], curr[l]) /\ curr[l].checks = prev[l].open
      BY <3>1 DEF Compared
    <3>4. prev[l] \in Images /\ curr[l] \in Images /\ fresh[m] \in Images
      BY DEF Imaged
    <3>5. prev[l].at \in Nat /\ curr[l].at \in Nat /\ fresh[m].at \in Nat
      BY <3>4, ImageFields
    <3>8. snap # NoSnap
      BY <3>1 DEF Based
    <3>6. CASE fresh[m].at < snap.at \/ (snap = fresh[m] /\ prev[l].at < curr[l].at)
      BY <3>1, <3>3, <3>5, <3>6 DEF Shows
    <3>7. CASE snap = fresh[m] /\ Unannounced /\ ~(prev[l].at < curr[l].at)
      <4>1. curr[l].at = prev[l].at /\ curr[l].open = prev[l].open /\ curr[l].asked = prev[l].asked
        BY <3>3, <3>5, <3>7 DEF Shows
      <4>2. curr[l].checks = FALSE /\ prev[l].checks = FALSE
        BY <3>1, <3>2, <3>3, <3>4, <3>7, ImageFields
      <4>3. curr[l] = prev[l]
        BY <3>4, <4>1, <4>2, EqualImages
      <4>4. Unannounced'
        BY <3>1, <3>7, <4>1 DEF Types, Unannounced
      <4> QED
        BY <3>1, <3>7, <4>3, <4>4
    <3> QED
      BY <3>1, <3>2, <3>6, <3>7, <3>8 DEF Founding
  <2>7. ClosedEntityIsQuiet'
    BY <1>5 DEF Save, ClosedEntityIsQuiet, Buried, Goto, Lost
  <2>8. SnapshotIsExplained'
    <3> SUFFICES ASSUME "reclosed" \notin lapses', entity' = "active", ~snap'.open
                 PROVE  Explained'
      BY DEF SnapshotIsExplained, Explained
    <3>1. /\ loop[l] = "save" /\ loop' = [loop EXCEPT ![l] = "publish"]
          /\ UNCHANGED <<prev, curr, bus>>
          /\ ~curr[l].open /\ (prev[l].open \/ Closing)
      BY <1>5 DEF Save, Goto, Lost
    <3>2. Closing'
      BY <3>1 DEF Types, Closing
    <3> QED
      BY <3>2 DEF Explained
  <2> QED
    BY <2>1, <2>2, <2>3, <2>4, <2>5, <2>6, <2>7, <2>8
<1>6. CASE PublishEvents(l)
  <2>1. PICK events : /\ events = DiffPRSnapshots(prev[l], curr[l])
                      /\ Publish(events) /\ lapses' = lapses \cup Dropped(events)
    BY <1>6 DEF PublishEvents
  <2>2. /\ events \in Seq(Events)
        /\ prev[l].open /\ ~curr[l].open => "closed" \in Range(events)
        /\ "asked" \in Range(events) => prev[l].asked # curr[l].asked
    BY <2>1, DiffReports DEF Imaged
  <2>3. /\ bus' \in Seq(Events) /\ Len(bus') <= Capacity
        /\ Range(bus') \subseteq Range(bus) \cup Range(events)
        /\ "drop" \notin lapses' => Range(bus') = Range(bus) \cup Range(events)
        /\ lapses' \in {lapses, lapses \cup {"drop"}}
    BY <2>1, <2>2, PublishKeeps DEF Types, Dropped, Lost
  <2>4. loop[l] = "publish" /\ EndCycle(l) /\ UNCHANGED <<pr, rows, cascade, answered, budget>>
    BY <1>6 DEF PublishEvents
  <2>5. Types'
    BY <2>1, <2>2, <2>3, <2>4 DEF Types, EndCycle, Events, Goto, Kinds, Places, rows
  <2>6. Counted'
    BY <2>1, <2>2, <2>3, <2>4 DEF Counted, EndCycle, Goto, rows
  <2>7. Imaged'
    BY <2>1, <2>2, <2>3, <2>4, SeenImages DEF Imaged, EndCycle, Goto, rows, Seen
  <2>8. Unfound' /\ Founder'
    BY <2>1, <2>2, <2>3, <2>4 DEF Founder, Types, Unfound, EndCycle, Events, Goto, Kinds,
        Outside, Places, rows
  <2>9. Compared'
    BY <2>1, <2>2, <2>3, <2>4 DEF Compared, Imaged, Types, EndCycle, Goto, Places,
        rows
  <2>10. Founding'
    <3>1. Unannounced => Unannounced'
      BY <2>1, <2>2, <2>3, <2>4 DEF Imaged, Types, EndCycle, Events, Goto, Kinds, Places,
          Unannounced, rows
    <3> QED
      BY <2>1, <2>2, <2>3, <2>4, <3>1, FoundingFrame DEF Imaged, Types, EndCycle, Events,
          Goto, Kinds, Places, rows
  <2>11. ClosedEntityIsQuiet'
    BY <2>1, <2>2, <2>3, <2>4 DEF ClosedEntityIsQuiet, EndCycle, Goto, rows
  <2>12. SnapshotIsExplained'
    <3>1. Questioned' /\ Questioned /\ Explained /\ "drop" \notin lapses' => Explained'
      BY <2>1, <2>2, <2>3, <2>4 DEF Imaged, Types, Closing, EndCycle, Events, Explained,
          Goto, Kinds, Places, Questioned, rows
    <3> QED
      BY <2>1, <2>2, <2>3, <2>4, <3>1, ExplainedFrame, <2>6 DEF Imaged, Types, EndCycle,
          Events, Goto, Kinds, Places, Questioned, rows
  <2> QED
    BY <2>5, <2>6, <2>7, <2>8, <2>9, <2>10, <2>11, <2>12
<1> QED
  BY <1>1, <1>2, <1>3, <1>4, <1>5, <1>6

\* What the router preserves.
LEMMA HandlePreserves ==
  ASSUME IInv, HandleEvent
  PROVE  IInv'
<1> USE DEF IInv
<1>1. CASE HandleLate
  <2>1. PICK event \in {"asked", "unasked"} :
          Handles(event) /\ lapses' = lapses \cup Lost("late", event = "asked")
    BY <1>1 DEF HandleLate
  <2>2. /\ bus' \in Seq(Events) /\ Len(bus') <= Capacity /\ bus # <<>> /\ ~cascade
        /\ Range(bus') \subseteq Range(bus)
    BY <2>1, HandlesKeeps DEF Handles, Types
  <2>3. Types'
    BY <1>1, <2>1, <2>2 DEF HandleLate, Types, Events, Kinds, Lost, Places, cycles, rows
  <2>4. Counted'
    BY <1>1, <2>1, <2>2 DEF HandleLate, Counted, Lost, cycles, rows
  <2>5. Imaged'
    BY <1>1, <2>1, <2>2, SeenImages DEF HandleLate, Imaged, Lost, cycles, rows, Seen
  <2>6. Unfound' /\ Founder'
    BY <1>1, <2>1, <2>2 DEF HandleLate, Founder, Types, Unfound, Events, Kinds, Lost,
        Outside, Places, cycles, rows
  <2>7. Compared'
    BY <1>1, <2>1, <2>2 DEF HandleLate, Compared, Imaged, Types, Lost, Places,
        cycles, rows
  <2>8. Founding'
    <3>1. Unannounced => Unannounced'
      BY <1>1, <2>1, <2>2 DEF HandleLate, Imaged, Types, Events, Kinds, Lost, Places,
          cycles, rows, Unannounced
    <3> QED
      BY <1>1, <2>1, <2>2, <3>1, FoundingFrame DEF HandleLate, Imaged, Types, Events,
          Kinds, Lost, Places, cycles, rows
  <2>9. ClosedEntityIsQuiet'
    BY <1>1, <2>1, <2>2 DEF HandleLate, ClosedEntityIsQuiet, Lost, cycles, rows
  <2>10. SnapshotIsExplained'
    <3>1. Questioned' /\ Questioned /\ Explained /\ "drop" \notin lapses' => Explained'
      BY <1>1, <2>1, <2>2 DEF HandleLate, Imaged, Types, Events, Kinds, Lost, Places,
          cycles, rows, Closing, Explained, Questioned
    <3> QED
      BY <1>1, <2>1, <2>2, <3>1, ExplainedFrame, <2>4 DEF HandleLate, Imaged, Types,
          Events, Kinds, Lost, Places, cycles, rows, Questioned
  <2> QED
    BY <2>3, <2>4, <2>5, <2>6, <2>7, <2>8, <2>9, <2>10
<1>2. CASE HandleAsked
  <2>1. /\ bus' \in Seq(Events) /\ Len(bus') <= Capacity
        /\ "asked" \in Range(bus) /\ bus # <<>> /\ ~cascade
        /\ Range(bus') \subseteq Range(bus)
        /\ "closed" \in Range(bus) => "closed" \in Range(bus')
    BY <1>2, HandlesKeeps DEF HandleAsked, Handles, Types
  <2>2. Types'
    BY <1>2, <2>1 DEF HandleAsked, Types, Events, Kinds, Places, cycles
  <2>3. Counted'
    BY <1>2, <2>1 DEF HandleAsked, Counted, cycles
  <2>4. Imaged'
    BY <1>2, <2>1, SeenImages DEF HandleAsked, Imaged, cycles, Seen
  <2>5. Unfound' /\ Founder'
    BY <1>2, <2>1 DEF HandleAsked, Founder, Types, Unfound, Events, Kinds, Outside,
        Places, cycles
  <2>6. Compared'
    BY <1>2, <2>1 DEF HandleAsked, Compared, Imaged, Types, Places, cycles
  <2>7. Founding'
    <3>1. Unannounced => Unannounced'
      BY <1>2, <2>1 DEF HandleAsked, Imaged, Types, Events, Kinds, Places, cycles,
          Unannounced
    <3> QED
      BY <1>2, <2>1, <3>1, FoundingFrame DEF HandleAsked, Imaged, Types, Events, Kinds,
          Places, cycles
  <2>8. ClosedEntityIsQuiet'
    BY <1>2, <2>1 DEF HandleAsked, ClosedEntityIsQuiet, cycles
  <2>9. SnapshotIsExplained'
    <3>1. Questioned' /\ Questioned /\ Explained /\ "drop" \notin lapses' => Explained'
      BY <1>2, <2>1 DEF HandleAsked, Imaged, Types, Events, Kinds, Places, cycles,
          Closing, Explained, Questioned
    <3> QED
      BY <1>2, <2>1, <3>1, ExplainedFrame, <2>3 DEF HandleAsked, Imaged, Types, Events,
          Kinds, Places, cycles, Questioned
  <2> QED
    BY <2>2, <2>3, <2>4, <2>5, <2>6, <2>7, <2>8, <2>9
<1>3. CASE HandleUnasked
  <2>1. /\ bus' \in Seq(Events) /\ Len(bus') <= Capacity
        /\ "unasked" \in Range(bus) /\ bus # <<>> /\ ~cascade
        /\ Range(bus') \subseteq Range(bus)
        /\ "closed" \in Range(bus) => "closed" \in Range(bus')
    BY <1>3, HandlesKeeps DEF HandleUnasked, Handles, Types
  <2>2. Types'
    BY <1>3, <2>1 DEF HandleUnasked, Types, Events, Kinds, Places, cycles
  <2>3. Counted'
    BY <1>3, <2>1 DEF HandleUnasked, Counted, cycles
  <2>4. Imaged'
    BY <1>3, <2>1, SeenImages DEF HandleUnasked, Imaged, cycles, Seen
  <2>5. Unfound' /\ Founder'
    BY <1>3, <2>1 DEF HandleUnasked, Founder, Types, Unfound, Events, Kinds, Outside,
        Places, cycles
  <2>6. Compared'
    BY <1>3, <2>1 DEF HandleUnasked, Compared, Imaged, Types, Places, cycles
  <2>7. Founding'
    <3>1. Unannounced => Unannounced'
      BY <1>3, <2>1 DEF HandleUnasked, Imaged, Types, Events, Kinds, Places, cycles,
          Unannounced
    <3> QED
      BY <1>3, <2>1, <3>1, FoundingFrame DEF HandleUnasked, Imaged, Types, Events, Kinds,
          Places, cycles
  <2>8. ClosedEntityIsQuiet'
    BY <1>3, <2>1 DEF HandleUnasked, ClosedEntityIsQuiet, cycles
  <2>9. SnapshotIsExplained'
    <3>1. Questioned' /\ Questioned /\ Explained /\ "drop" \notin lapses' => Explained'
      BY <1>3, <2>1 DEF HandleUnasked, Imaged, Types, Events, Kinds, Places, cycles,
          Closing, Explained, Questioned
    <3> QED
      BY <1>3, <2>1, <3>1, ExplainedFrame, <2>3 DEF HandleUnasked, Imaged, Types, Events,
          Kinds, Places, cycles, Questioned
  <2> QED
    BY <2>2, <2>3, <2>4, <2>5, <2>6, <2>7, <2>8, <2>9
<1>4. CASE HandleClosed
  <2>1. /\ bus' \in Seq(Events) /\ Len(bus') <= Capacity
        /\ "closed" \in Range(bus) /\ bus # <<>> /\ ~cascade
        /\ Range(bus') \subseteq Range(bus)
    BY <1>4, HandlesKeeps DEF HandleClosed, Handles, Types
  <2>2. Types'
    BY <1>4, <2>1 DEF HandleClosed, Types, Events, Kinds, Places, cycles
  <2>3. Counted'
    BY <1>4, <2>1 DEF HandleClosed, Counted, cycles
  <2>4. Imaged'
    BY <1>4, <2>1, SeenImages DEF HandleClosed, Imaged, cycles, Seen
  <2>5. Unfound' /\ Founder'
    BY <1>4, <2>1 DEF HandleClosed, Founder, Types, Unfound, Events, Kinds, Outside,
        Places, cycles
  <2>6. Compared'
    BY <1>4, <2>1 DEF HandleClosed, Compared, Imaged, Types, Places, cycles
  <2>7. Founding'
    <3>1. Unannounced => Unannounced'
      BY <1>4, <2>1 DEF HandleClosed, Imaged, Types, Events, Kinds, Places, cycles,
          Unannounced
    <3> QED
      BY <1>4, <2>1, <3>1, FoundingFrame DEF HandleClosed, Imaged, Types, Events, Kinds,
          Places, cycles
  <2>8. ClosedEntityIsQuiet'
    BY <1>4, <2>1 DEF HandleClosed, ClosedEntityIsQuiet, cycles
  <2>9. SnapshotIsExplained'
    <3>1. Questioned' /\ Questioned /\ Explained /\ "drop" \notin lapses' => Explained'
      BY <1>4, <2>1 DEF HandleClosed, Imaged, Types, Events, Kinds, Places, cycles,
          Closing, Explained, Questioned
    <3> QED
      BY <1>4, <2>1, <3>1, ExplainedFrame, <2>3 DEF HandleClosed, Imaged, Types, Events,
          Kinds, Places, cycles, Questioned
  <2> QED
    BY <2>2, <2>3, <2>4, <2>5, <2>6, <2>7, <2>8, <2>9
<1>5. CASE CloseAllForEntity
  <2>1. Types'
    BY <1>5 DEF CloseAllForEntity, Types, Events, Kinds, Places, cycles
  <2>2. Counted'
    BY <1>5 DEF CloseAllForEntity, Counted, cycles
  <2>3. Imaged'
    BY <1>5, SeenImages DEF CloseAllForEntity, Imaged, cycles, Seen
  <2>4. Unfound' /\ Founder'
    BY <1>5 DEF CloseAllForEntity, Founder, Types, Unfound, Events, Kinds, Outside,
        Places, cycles
  <2>5. Compared'
    BY <1>5 DEF CloseAllForEntity, Compared, Imaged, Types, Places, cycles
  <2>6. Founding'
    <3>1. Unannounced => Unannounced'
      BY <1>5 DEF CloseAllForEntity, Imaged, Types, Events, Kinds, Places, cycles,
          Unannounced
    <3> QED
      BY <1>5, <3>1, FoundingFrame DEF CloseAllForEntity, Imaged, Types, Events, Kinds,
          Places, cycles
  <2>7. ClosedEntityIsQuiet'
    BY <1>5 DEF CloseAllForEntity, ClosedEntityIsQuiet, cycles
  <2>8. SnapshotIsExplained'
    <3>1. Questioned' /\ Questioned /\ Explained /\ "drop" \notin lapses' => Explained'
      BY <1>5 DEF CloseAllForEntity, Imaged, Types, Events, Kinds, Places, cycles,
          Closing, Explained, Questioned
    <3> QED
      BY <1>5, <3>1, ExplainedFrame, <2>2 DEF CloseAllForEntity, Imaged, Types, Events,
          Kinds, Places, cycles, Questioned
  <2> QED
    BY <2>1, <2>2, <2>3, <2>4, <2>5, <2>6, <2>7, <2>8
<1> QED
  BY <1>1, <1>2, <1>3, <1>4, <1>5 DEF HandleEvent

\* What a start of the poller preserves, and the steps of a cycle that fail.
LEMMA FailurePreserves ==
  ASSUME IInv, NEW l \in Loops,
         \/ Start(l) \/ StartsTeamless(l) \/ RegisterFails(l) \/ SeedFails(l)
         \/ SettleFails(l) \/ CycleFails(l) \/ SaveFails(l)
  PROVE  IInv'
<1> USE DEF IInv
<1>1. CASE Start(l)
  <2>3. Types'
    BY <1>1 DEF Start, Types, Goto, rows, Events, Kinds, Places
  <2>4. Counted'
    BY <1>1 DEF Start, Counted
  <2>5. Imaged'
    BY <1>1, SeenImages DEF Start, Imaged, Goto, rows, Seen
  <2>6. Unfound' /\ Founder'
    BY <1>1 DEF Start, Founder, Types, Unfound, Goto, rows, Outside, Places
  <2>7. Compared'
    BY <1>1 DEF Start, Compared, Imaged, Types, Goto, rows, Places
  <2>8. Founding'
    <3>1. Unannounced => Unannounced'
      BY <1>1 DEF Start, Imaged, Types, Goto, rows, Places, Unannounced
    <3> QED
      BY <1>1, <3>1, FoundingFrame DEF Start, Imaged, Types, Goto, rows, Places
  <2>9. ClosedEntityIsQuiet'
    BY <1>1 DEF Start, ClosedEntityIsQuiet, Goto, rows
  <2>10. SnapshotIsExplained'
    <3>1. Questioned' /\ Questioned /\ Explained /\ "drop" \notin lapses' => Explained'
      BY <1>1 DEF Start, Imaged, Types, Goto, rows, Places, Closing, Explained, Questioned
    <3> QED
      BY <1>1, <3>1, ExplainedFrame DEF Start, Goto, rows, Questioned
  <2> QED
    BY <2>3, <2>4, <2>5, <2>6, <2>7, <2>8, <2>9, <2>10
<1>2. CASE StartsTeamless(l)
  <2>1. Spend("fault") /\ "fault" \in Inputs
    BY <1>2 DEF StartsTeamless, Inputs
  <2>3. Types'
    BY <1>2, <2>1 DEF StartsTeamless, Types, Goto, rows, Events, Kinds, Places
  <2>4. Counted'
    BY <1>2, <2>1, SpendKeeps DEF StartsTeamless, rows
  <2>5. Imaged'
    BY <1>2, <2>1, SeenImages DEF StartsTeamless, Imaged, Goto, rows, Seen
  <2>6. Unfound' /\ Founder'
    BY <1>2, <2>1 DEF StartsTeamless, Founder, Types, Unfound, Goto, rows, Outside, Places
  <2>7. Compared'
    BY <1>2, <2>1 DEF StartsTeamless, Compared, Imaged, Types, Goto, rows, Places
  <2>8. Founding'
    <3>1. Unannounced => Unannounced'
      BY <1>2, <2>1 DEF StartsTeamless, Imaged, Types, Goto, rows, Places, Unannounced
    <3> QED
      BY <1>2, <2>1, <3>1, FoundingFrame DEF StartsTeamless, Imaged, Types, Goto, rows, Places
  <2>9. ClosedEntityIsQuiet'
    BY <1>2, <2>1 DEF StartsTeamless, ClosedEntityIsQuiet, Goto, rows
  <2>10. SnapshotIsExplained'
    <3>1. Questioned' /\ Questioned /\ Explained /\ "drop" \notin lapses' => Explained'
      BY <1>2, <2>1 DEF StartsTeamless, Imaged, Types, Goto, rows, Places, Closing, Explained,
          Questioned
    <3> QED
      BY <1>2, <2>1, <3>1, ExplainedFrame DEF StartsTeamless, Goto, rows, Questioned
  <2> QED
    BY <2>3, <2>4, <2>5, <2>6, <2>7, <2>8, <2>9, <2>10
<1>3. CASE RegisterFails(l)
  <2>1. Spend("fault") /\ "fault" \in Inputs
    BY <1>3 DEF RegisterFails, Inputs
  <2>3. Types'
    BY <1>3, <2>1 DEF RegisterFails, Types, Goto, rows, Events, Kinds, Places
  <2>4. Counted'
    BY <1>3, <2>1, SpendKeeps DEF RegisterFails, rows
  <2>5. Imaged'
    BY <1>3, <2>1, SeenImages DEF RegisterFails, Imaged, Goto, rows, Seen
  <2>6. Unfound' /\ Founder'
    BY <1>3, <2>1 DEF RegisterFails, Founder, Types, Unfound, Goto, rows, Outside, Places
  <2>7. Compared'
    BY <1>3, <2>1 DEF RegisterFails, Compared, Imaged, Types, Goto, rows, Places
  <2>8. Founding'
    <3>1. Unannounced => Unannounced'
      BY <1>3, <2>1 DEF RegisterFails, Imaged, Types, Goto, rows, Places, Unannounced
    <3> QED
      BY <1>3, <2>1, <3>1, FoundingFrame DEF RegisterFails, Imaged, Types, Goto, rows, Places
  <2>9. ClosedEntityIsQuiet'
    BY <1>3, <2>1 DEF RegisterFails, ClosedEntityIsQuiet, Goto, rows
  <2>10. SnapshotIsExplained'
    <3>1. Questioned' /\ Questioned /\ Explained /\ "drop" \notin lapses' => Explained'
      BY <1>3, <2>1 DEF RegisterFails, Imaged, Types, Goto, rows, Places, Closing, Explained,
          Questioned
    <3> QED
      BY <1>3, <2>1, <3>1, ExplainedFrame DEF RegisterFails, Goto, rows, Questioned
  <2> QED
    BY <2>3, <2>4, <2>5, <2>6, <2>7, <2>8, <2>9, <2>10
<1>4. CASE SeedFails(l)
  <2>1. Spend("fault") /\ "fault" \in Inputs
    BY <1>4 DEF SeedFails, Inputs
  <2>3. Types'
    BY <1>4, <2>1 DEF SeedFails, Types, Goto, rows, Events, Kinds, Places
  <2>4. Counted'
    BY <1>4, <2>1, SpendKeeps DEF SeedFails, rows
  <2>5. Imaged'
    BY <1>4, <2>1, SeenImages DEF SeedFails, Imaged, Goto, rows, Seen
  <2>6. Unfound' /\ Founder'
    BY <1>4, <2>1 DEF SeedFails, Founder, Types, Unfound, Goto, rows, Outside, Places
  <2>7. Compared'
    BY <1>4, <2>1 DEF SeedFails, Compared, Imaged, Types, Goto, rows, Places
  <2>8. Founding'
    <3>1. /\ UNCHANGED <<snap, fresh, task, bus>>
          /\ loop[l] = "seed" /\ loop' = [loop EXCEPT ![l] = "settle"]
      BY <1>4 DEF SeedFails, Goto, rows
    <3>2. /\ snap = NoSnap /\ task = "none" /\ bus = <<>>
          /\ \A m \in Loops \ {l} : loop[m] \in Outside
      BY <3>1 DEF Unfound
    <3>3. Range(<<>>) = {}
      BY DEF Range
    <3>4. Unannounced' /\ \A m \in Loops \ {l} : loop'[m] # "settle"
      BY <3>1, <3>2, <3>3 DEF Types, Unannounced, Outside
    <3> QED
      BY <3>1, <3>2, <3>4 DEF Founding
  <2>9. ClosedEntityIsQuiet'
    BY <1>4, <2>1 DEF SeedFails, ClosedEntityIsQuiet, Goto, rows
  <2>10. SnapshotIsExplained'
    <3>1. loop'[l] = "settle"
      BY <1>4 DEF SeedFails, Goto, Types
    <3> QED
      BY <3>1 DEF SnapshotIsExplained
  <2> QED
    BY <2>3, <2>4, <2>5, <2>6, <2>7, <2>8, <2>9, <2>10
<1>5. CASE SettleFails(l)
  <2>1. Spend("fault") /\ "fault" \in Inputs
    BY <1>5 DEF SettleFails, Inputs
  <2>3. Types'
    BY <1>5, <2>1 DEF SettleFails, Types, Goto, rows, Events, Kinds, Places
  <2>4. Counted'
    BY <1>5, <2>1, SpendKeeps DEF SettleFails, rows
  <2>5. Imaged'
    BY <1>5, <2>1, SeenImages DEF SettleFails, Imaged, Goto, rows, Seen
  <2>6. Unfound' /\ Founder'
    BY <1>5, <2>1 DEF SettleFails, Founder, Types, Unfound, Goto, rows, Outside, Places
  <2>7. Compared'
    BY <1>5, <2>1 DEF SettleFails, Compared, Imaged, Types, Goto, rows, Places
  <2>8. Founding'
    <3>1. Unannounced => Unannounced'
      BY <1>5, <2>1 DEF SettleFails, Imaged, Types, Goto, rows, Places, Unannounced
    <3> QED
      BY <1>5, <2>1, <3>1, FoundingFrame DEF SettleFails, Imaged, Types, Goto, rows, Places
  <2>9. ClosedEntityIsQuiet'
    BY <1>5, <2>1 DEF SettleFails, ClosedEntityIsQuiet, Goto, rows
  <2>10. SnapshotIsExplained'
    BY <1>5 DEF SettleFails, SnapshotIsExplained
  <2> QED
    BY <2>3, <2>4, <2>5, <2>6, <2>7, <2>8, <2>9, <2>10
<1>6. CASE CycleFails(l)
  <2>1. Spend("fault") /\ "fault" \in Inputs
    BY <1>6 DEF CycleFails, Inputs
  <2>3. Types'
    BY <1>6, <2>1 DEF CycleFails, Types, EndCycle, Goto, Lost, rows, Events, Kinds, Places
  <2>4. Counted'
    BY <1>6, <2>1, SpendKeeps DEF CycleFails, rows
  <2>5. Imaged'
    BY <1>6, <2>1, SeenImages DEF CycleFails, Imaged, EndCycle, Goto, Lost, rows, Seen
  <2>6. Unfound' /\ Founder'
    BY <1>6, <2>1 DEF CycleFails, Founder, Types, Unfound, EndCycle, Goto, Lost, rows, Outside,
        Places
  <2>7. Compared'
    BY <1>6, <2>1 DEF CycleFails, Compared, Imaged, Types, EndCycle, Goto, Lost, rows, Places
  <2>8. Founding'
    <3>1. Unannounced => Unannounced'
      BY <1>6, <2>1 DEF CycleFails, Imaged, Types, EndCycle, Goto, Lost, rows, Places, Unannounced
    <3> QED
      BY <1>6, <2>1, <3>1, FoundingFrame DEF CycleFails, Imaged, Types, EndCycle, Goto, Lost,
          rows, Places
  <2>9. ClosedEntityIsQuiet'
    BY <1>6, <2>1 DEF CycleFails, ClosedEntityIsQuiet, EndCycle, Goto, Lost, rows
  <2>10. SnapshotIsExplained'
    <3>1. Questioned => "cut" \in lapses'
      BY <1>6 DEF CycleFails, Lost, Questioned
    <3>2. Questioned' => Questioned
      BY <1>6 DEF CycleFails, Questioned, rows
    <3> QED
      BY <3>1, <3>2 DEF SnapshotIsExplained, Questioned
  <2> QED
    BY <2>3, <2>4, <2>5, <2>6, <2>7, <2>8, <2>9, <2>10
<1>7. CASE SaveFails(l)
  <2>1. Spend("fault") /\ "fault" \in Inputs
    BY <1>7 DEF SaveFails, Inputs
  <2>3. Types'
    BY <1>7, <2>1 DEF SaveFails, Types, Goto, rows, Events, Kinds, Places
  <2>4. Counted'
    BY <1>7, <2>1, SpendKeeps DEF SaveFails, rows
  <2>5. Imaged'
    BY <1>7, <2>1, SeenImages DEF SaveFails, Imaged, Goto, rows, Seen
  <2>6. Unfound' /\ Founder'
    BY <1>7, <2>1 DEF SaveFails, Founder, Types, Unfound, Goto, rows, Outside, Places
  <2>7. Compared'
    BY <1>7, <2>1 DEF SaveFails, Compared, Imaged, Types, Goto, rows, Places
  <2>8. Founding'
    BY <1>7 DEF SaveFails, Founding, Calm
  <2>9. ClosedEntityIsQuiet'
    BY <1>7, <2>1 DEF SaveFails, ClosedEntityIsQuiet, Goto, rows
  <2>10. SnapshotIsExplained'
    BY <1>7 DEF SaveFails, SnapshotIsExplained
  <2> QED
    BY <2>3, <2>4, <2>5, <2>6, <2>7, <2>8, <2>9, <2>10
<1> QED
  BY <1>1, <1>2, <1>3, <1>4, <1>5, <1>6, <1>7

\* What a failing statement of the router preserves.
LEMMA HandlingFailurePreserves ==
  ASSUME IInv, HandlingFails \/ CloseAllFails
  PROVE  IInv'
<1> USE DEF IInv
<1>1. CASE HandlingFails
  <2>1. Spend("fault") /\ "fault" \in Inputs
    BY <1>1 DEF HandlingFails, Inputs
  <2>2. /\ bus' \in Seq(Events) /\ Len(bus') <= Capacity /\ bus # <<>>
        /\ Range(bus') \subseteq Range(bus)
    BY <1>1, HandlesKeeps DEF HandlingFails, Handles, Types
  <2>3. Types'
    BY <1>1, <2>1, <2>2 DEF HandlingFails, Types, cycles, rows, Events, Kinds, Places
  <2>4. Counted'
    BY <1>1, <2>1, <2>2, SpendKeeps DEF HandlingFails, rows
  <2>5. Imaged'
    BY <1>1, <2>1, <2>2, SeenImages DEF HandlingFails, Imaged, cycles, rows, Seen
  <2>6. Unfound' /\ Founder'
    BY <1>1, <2>1, <2>2 DEF HandlingFails, Founder, Types, Unfound, cycles, rows, Outside, Places
  <2>7. Compared'
    BY <1>1, <2>1, <2>2 DEF HandlingFails, Compared, Imaged, Types, cycles, rows, Places
  <2>8. Founding'
    <3>1. Unannounced => Unannounced'
      BY <1>1, <2>1, <2>2 DEF HandlingFails, Imaged, Types, cycles, rows, Places, Unannounced
    <3> QED
      BY <1>1, <2>1, <2>2, <3>1, FoundingFrame DEF HandlingFails, Imaged, Types, cycles, rows,
          Places
  <2>9. ClosedEntityIsQuiet'
    BY <1>1, <2>1, <2>2 DEF HandlingFails, ClosedEntityIsQuiet, cycles, rows
  <2>10. SnapshotIsExplained'
    BY <1>1 DEF HandlingFails, SnapshotIsExplained
  <2> QED
    BY <2>3, <2>4, <2>5, <2>6, <2>7, <2>8, <2>9, <2>10
<1>2. CASE CloseAllFails
  <2>1. Spend("fault") /\ "fault" \in Inputs
    BY <1>2 DEF CloseAllFails, Inputs
  <2>3. Types'
    BY <1>2, <2>1 DEF CloseAllFails, Types, cycles, rows, Events, Kinds, Places
  <2>4. Counted'
    BY <1>2, <2>1, SpendKeeps DEF CloseAllFails, rows
  <2>5. Imaged'
    BY <1>2, <2>1, SeenImages DEF CloseAllFails, Imaged, cycles, rows, Seen
  <2>6. Unfound' /\ Founder'
    BY <1>2, <2>1 DEF CloseAllFails, Founder, Types, Unfound, cycles, rows, Outside, Places
  <2>7. Compared'
    BY <1>2, <2>1 DEF CloseAllFails, Compared, Imaged, Types, cycles, rows, Places
  <2>8. Founding'
    <3>1. Unannounced => Unannounced'
      BY <1>2, <2>1 DEF CloseAllFails, Imaged, Types, cycles, rows, Places, Unannounced
    <3> QED
      BY <1>2, <2>1, <3>1, FoundingFrame DEF CloseAllFails, Imaged, Types, cycles, rows, Places
  <2>9. ClosedEntityIsQuiet'
    BY <1>2, <2>1 DEF CloseAllFails, ClosedEntityIsQuiet, cycles, rows
  <2>10. SnapshotIsExplained'
    <3>1. Questioned' /\ Questioned /\ Explained /\ "drop" \notin lapses' => Explained'
      BY <1>2, <2>1 DEF CloseAllFails, Imaged, Types, cycles, rows, Places, Closing, Explained,
          Questioned
    <3> QED
      BY <1>2, <2>1, <3>1, ExplainedFrame DEF CloseAllFails, cycles, rows, Questioned
  <2> QED
    BY <2>3, <2>4, <2>5, <2>6, <2>7, <2>8, <2>9, <2>10
<1> QED
  BY <1>1, <1>2

\* What the user's clicks preserve, and a crash.
LEMMA UserPreserves ==
  ASSUME IInv, UserDismisses \/ UserRevives \/ Crash
  PROVE  IInv'
<1> USE DEF IInv
<1>1. CASE UserDismisses
  <2>1. Spend("user") /\ "user" \in Inputs
    BY <1>1 DEF UserDismisses, Inputs
  <2>2. Types'
    BY <1>1, <2>1 DEF UserDismisses, Types, Events, Kinds, Places, cycles
  <2>3. Counted'
    BY <1>1, <2>1, SpendKeeps DEF UserDismisses
  <2>4. Imaged'
    BY <1>1, <2>1, SeenImages DEF UserDismisses, Imaged, cycles, Seen
  <2>5. Unfound' /\ Founder'
    BY <1>1, <2>1 DEF UserDismisses, Founder, Types, Unfound, Events, Kinds, Outside,
        Places, cycles
  <2>6. Compared'
    BY <1>1, <2>1 DEF UserDismisses, Compared, Imaged, Types, Places, cycles
  <2>7. Founding'
    <3>1. Unannounced => Unannounced'
      BY <1>1, <2>1 DEF UserDismisses, Imaged, Types, Events, Kinds, Places, cycles,
          Unannounced
    <3> QED
      BY <1>1, <2>1, <3>1, FoundingFrame DEF UserDismisses, Imaged, Types, Events, Kinds,
          Places, cycles
  <2>8. ClosedEntityIsQuiet'
    BY <1>1, <2>1 DEF UserDismisses, ClosedEntityIsQuiet, cycles
  <2>9. SnapshotIsExplained'
    <3>1. Questioned' /\ Questioned /\ Explained /\ "drop" \notin lapses' => Explained'
      BY <1>1, <2>1 DEF UserDismisses, Imaged, Types, Events, Kinds, Places, cycles,
          Closing, Explained, Questioned
    <3> QED
      BY <1>1, <2>1, <3>1, ExplainedFrame, SpendKeeps, <2>3 DEF UserDismisses, Imaged,
          Types, Events, Kinds, Places, cycles, Questioned
  <2> QED
    BY <2>2, <2>3, <2>4, <2>5, <2>6, <2>7, <2>8, <2>9
<1>2. CASE UserRevives
  <2>1. Spend("user") /\ "user" \in Inputs
    BY <1>2 DEF UserRevives, Inputs
  <2>2. Types'
    BY <1>2, <2>1 DEF UserRevives, Types, Events, Kinds, Places, cycles
  <2>3. Counted'
    BY <1>2, <2>1, SpendKeeps DEF UserRevives
  <2>4. Imaged'
    BY <1>2, <2>1, SeenImages DEF UserRevives, Imaged, cycles, Seen
  <2>5. Unfound' /\ Founder'
    BY <1>2, <2>1 DEF UserRevives, Founder, Types, Unfound, Events, Kinds, Outside,
        Places, cycles
  <2>6. Compared'
    BY <1>2, <2>1 DEF UserRevives, Compared, Imaged, Types, Places, cycles
  <2>7. Founding'
    BY <1>2 DEF UserRevives, Founding, Calm
  <2>8. ClosedEntityIsQuiet'
    BY <1>2, <2>1 DEF UserRevives, ClosedEntityIsQuiet, cycles
  <2>9. SnapshotIsExplained'
    <3>1. Questioned' /\ Questioned /\ Explained /\ "drop" \notin lapses' => Explained'
      BY <1>2, <2>1 DEF UserRevives, Imaged, Types, Events, Kinds, Places, cycles,
          Closing, Explained, Questioned
    <3> QED
      BY <1>2, <2>1, <3>1, ExplainedFrame, SpendKeeps, <2>3 DEF UserRevives, Imaged,
          Types, Events, Kinds, Places, cycles, Questioned
  <2> QED
    BY <2>2, <2>3, <2>4, <2>5, <2>6, <2>7, <2>8, <2>9
<1>3. CASE Crash
  <2>1. Spend("crash") /\ "crash" \in Inputs
    BY <1>3 DEF Crash, Inputs
  <2>2. <<>> \in Seq(Events) /\ Len(<<>>) = 0
    OBVIOUS
  <2>3. Types'
    <3>1. loop' \in [Loops -> Places] /\ stopped' = {} /\ teamless' = {}
      BY <1>3 DEF Crash, OneLoop, Places
    <3>2. entity' = entity /\ task' = task /\ answered' = answered /\ cascade' \in BOOLEAN
      BY <1>3 DEF Crash, rows
    <3>3. bus' \in Seq(Events) /\ Len(bus') <= Capacity
      BY <1>3, <2>2 DEF Crash
    <3>4. lapses' \subseteq Kinds
      BY <1>3 DEF Crash, Types, Kinds
    <3>5. stopped' \subseteq {l \in Loops : loop'[l] \notin {"off", "start", "idle"}}
          /\ teamless' \subseteq {l \in Loops : loop'[l] \notin {"off", "start"}}
      BY <3>1
    <3> QED
      BY <3>1, <3>2, <3>3, <3>4, <3>5 DEF Types
  <2>4. Counted'
    BY <1>3, <2>1, <2>2, SpendKeeps DEF Crash
  <2>5. Imaged'
    BY <1>3, <2>1, <2>2, SeenImages DEF Crash, Imaged, Nothing, OneLoop, rows, Seen
  <2>6. Unfound' /\ Founder'
    BY <1>3, <2>1, <2>2 DEF Crash, Founder, Types, Unfound, Events, Kinds, Nothing,
        OneLoop, Outside, Places, rows
  <2>7. Compared'
    BY <1>3, <2>1, <2>2 DEF Crash, Compared, Imaged, Types, Nothing, OneLoop,
        Places, rows
  <2>8. Founding'
    BY <1>3 DEF Crash, Founding, Calm
  <2>9. ClosedEntityIsQuiet'
    BY <1>3, <2>1, <2>2 DEF Crash, ClosedEntityIsQuiet, Nothing, OneLoop, rows
  <2>10. SnapshotIsExplained'
    BY <1>3 DEF Crash, SnapshotIsExplained
  <2> QED
    BY <2>3, <2>4, <2>5, <2>6, <2>7, <2>8, <2>9, <2>10
<1> QED
  BY <1>1, <1>2, <1>3

\* What a restart of the poller preserves.
LEMMA RestartPreserves ==
  ASSUME IInv, NEW l \in Loops, NEW next \in Loops, RestartGitHub(l, next)
  PROVE  IInv'
<1> USE DEF IInv
<1>1. Spend("restart") /\ "restart" \in Inputs
  BY DEF RestartGitHub, Inputs
<1>2. Types'
  BY <1>1 DEF RestartGitHub, Types, Events, Goto, Kinds, Places, rows
<1>3. Counted'
  BY <1>1, SpendKeeps DEF RestartGitHub
<1>4. Imaged'
  BY <1>1, SeenImages DEF RestartGitHub, Imaged, Goto, rows, Seen
<1>5. Unfound' /\ Founder'
  BY <1>1 DEF RestartGitHub, Founder, Types, Unfound, Events, Goto, Kinds,
      Outside, Places, rows
<1>6. Compared'
  BY <1>1 DEF RestartGitHub, Compared, Types, Events, Goto, Kinds, Places, rows
<1>7. Founding'
  <2>1. Unannounced => Unannounced'
    BY <1>1 DEF RestartGitHub, Imaged, Types, Events, Goto, Kinds, Places, rows,
        Unannounced
  <2> QED
    BY <1>1, <2>1, FoundingFrame DEF RestartGitHub, Imaged, Types, Events, Goto,
        Kinds, Places, rows
<1>8. ClosedEntityIsQuiet'
  BY <1>1 DEF RestartGitHub, ClosedEntityIsQuiet, Goto, rows
<1>9. SnapshotIsExplained'
  <2>1. Questioned' /\ Questioned /\ Explained /\ "drop" \notin lapses' => Explained'
    BY <1>1 DEF RestartGitHub, Imaged, Types, Events, Goto, Kinds, Places, rows,
        Closing, Explained, Questioned
  <2> QED
    BY <1>1, <2>1, ExplainedFrame, SpendKeeps, <1>3 DEF RestartGitHub, Imaged,
        Types, Events, Goto, Kinds, Places, rows, Questioned
<1> QED
  BY <1>2, <1>3, <1>4, <1>5, <1>6, <1>7, <1>8, <1>9

\* What a change of the pull request preserves.
LEMMA WorldPreserves ==
  ASSUME IInv, NEW open \in BOOLEAN, NEW asked \in BOOLEAN, ChangePR(open, asked)
  PROVE  IInv'
<1> USE DEF IInv
<1>1. Spend("world") /\ "world" \in Inputs
  BY DEF ChangePR, Inputs
<1>2. Types'
  BY <1>1 DEF ChangePR, Types, Events, Kinds, Places, cycles, rows
<1>3. Counted'
  <2>1. pr' \in [open : BOOLEAN, asked : BOOLEAN, at : Nat] /\ pr'.at = pr.at + 1
    BY DEF ChangePR, Counted
  <2> QED
    BY <1>1, <2>1, SpendKeeps
<1>4. Imaged'
  <2>1. ASSUME NEW image, Seen(image) PROVE image \in Images /\ Shows(image, pr')
    <3>1. image \in Images /\ image.at \in Nat /\ pr.at \in Nat /\ pr'.at = pr.at + 1
      BY <2>1, ImageFields DEF Seen, Counted, ChangePR
    <3> QED
      BY <2>1, <3>1 DEF Seen, Shows
  <2>2. UNCHANGED <<snap, fresh, prev, curr>>
    BY DEF ChangePR, rows, cycles
  <2> QED
    BY <2>1, <2>2 DEF Imaged, Seen
<1>5. Unfound' /\ Founder'
  BY <1>1 DEF ChangePR, Founder, Types, Unfound, Events, Kinds, Outside, Places,
      cycles, rows
<1>6. Compared'
  BY <1>1 DEF ChangePR, Compared, Types, Events, Kinds, Places, cycles, rows
<1>7. Founding'
  <2>1. Unannounced => Unannounced'
    BY <1>1 DEF ChangePR, Imaged, Types, Events, Kinds, Places, cycles, rows,
        Unannounced
  <2> QED
    BY <1>1, <2>1, FoundingFrame DEF ChangePR, Imaged, Types, Events, Kinds,
        Places, cycles, rows
<1>8. ClosedEntityIsQuiet'
  BY <1>1 DEF ChangePR, ClosedEntityIsQuiet, cycles, rows
<1>9. SnapshotIsExplained'
  <2>1. Questioned' /\ Questioned /\ Explained /\ "drop" \notin lapses' => Explained'
    BY <1>1 DEF ChangePR, Imaged, Types, Events, Kinds, Places, cycles, rows,
        Closing, Explained, Questioned
  <2> QED
    BY <1>1, <2>1, ExplainedFrame, SpendKeeps, <1>3 DEF ChangePR, Imaged, Types,
        Events, Kinds, Places, cycles, rows, Questioned
<1> QED
  BY <1>2, <1>3, <1>4, <1>5, <1>6, <1>7, <1>8, <1>9
-----------------------------------------------------------------------------
\* The initial states satisfy the invariant.
LEMMA InitIInv == Init => IInv /\ Based
<1> SUFFICES ASSUME Init PROVE IInv /\ Based
  OBVIOUS
<1>1. Types
  <2>1. loop \in [Loops -> Places]
    BY DEF Init, OneLoop, Places
  <2>2. bus \in Seq(Events) /\ Len(bus) <= Capacity
    BY DEF Init
  <2> QED
    BY <2>1, <2>2 DEF Init, Types
<1>2. Counted
  <2>1. "world" \in Inputs /\ Budget["world"] \in Nat
    BY DEF Inputs
  <2> QED
    BY <2>1 DEF Init, Counted
<1>3. Imaged
  BY <1>2, SeenImages DEF Init, Imaged, Seen, Nothing
<1>4. \A l \in Loops : loop[l] \in {"off", "start"}
  BY DEF Init, OneLoop
<1>5. Unfound /\ Founder /\ Compared /\ Founding
  BY <1>4 DEF Init, Unfound, Outside, Founder, Compared, Founding
<1>7. Based
  BY <1>4 DEF Based
<1>6. ClosedEntityIsQuiet /\ SnapshotIsExplained
  BY DEF Init, ClosedEntityIsQuiet, SnapshotIsExplained
<1> QED
  BY <1>1, <1>2, <1>3, <1>5, <1>6, <1>7 DEF IInv

\* A cycle gets past its list with a snapshot only.
LEMMA StepBased == IInv /\ Based /\ [Next]_vars => Based'
<1> SUFFICES ASSUME IInv, Based, [Next]_vars PROVE Based'
  OBVIOUS
<1> USE DEF IInv, Types, Imaged, Based
<1>1. ASSUME NEW l \in Loops, List(l) PROVE Based'
  BY <1>1 DEF List, Goto
<1>2. ASSUME NEW l \in Loops, NEW pc \in Places \ {"refresh", "save"},
             loop' = [loop EXCEPT ![l] = pc],
             prev' = prev \/ prev' = [prev EXCEPT ![l] = NoSnap]
      PROVE  Based'
  BY <1>2
<1>3. ASSUME NEW l \in Loops, Refresh(l) PROVE Based'
  BY <1>3 DEF Refresh, Goto
<1>4. ASSUME NEW l \in Loops, EndCycle(l) PROVE Based'
  BY <1>4, <1>2 DEF EndCycle, Goto, Places
<1>5. ASSUME NEW l \in Loops,
             \/ Start(l) \/ StartsTeamless(l) \/ Discover(l) \/ DiscoverFails(l) \/ Register(l)
             \/ RegisterFails(l) \/ Seed(l) \/ SeedFails(l) \/ Settle(l) \/ SettleFails(l)
             \/ Save(l) \/ SaveFails(l)
      PROVE  Based'
  <2>1. PICK pc \in Places \ {"refresh", "save"} : loop' = [loop EXCEPT ![l] = pc]
    BY <1>5 DEF Start, StartsTeamless, Discover, DiscoverFails, Register, RegisterFails, Seed,
       SeedFails, Settle, SettleFails, Save, SaveFails, Goto, Places
  <2>2. prev' = prev
    BY <1>5 DEF Start, StartsTeamless, Discover, DiscoverFails, Register, RegisterFails, Seed,
       SeedFails, Settle, SettleFails, Save, SaveFails
  <2> QED
    BY <1>2, <2>1, <2>2
<1>6. ASSUME NEW l \in Loops, NothingToRefresh(l) \/ Skip(l) \/ CycleFails(l) \/ PublishEvents(l)
      PROVE  Based'
  BY <1>6, <1>4 DEF NothingToRefresh, Skip, CycleFails, PublishEvents
<1>7. ASSUME NEW l \in Loops, NEW next \in Loops, RestartGitHub(l, next) PROVE Based'
  BY <1>7, <1>2 DEF RestartGitHub, Goto, Places
<1>8. CASE Crash
  BY <1>8 DEF Crash, OneLoop
<1>9. CASE UNCHANGED <<loop, prev>>
  BY <1>9
<1>10. ASSUME HandleEvent \/ HandlingFails \/ CloseAllFails \/ UserDismisses \/ UserRevives
              \/ \E open, asked \in BOOLEAN : ChangePR(open, asked)
       PROVE  UNCHANGED <<loop, prev>>
  BY <1>10 DEF HandleEvent, HandleLate, HandleAsked, HandleUnasked, HandleClosed,
     CloseAllForEntity, HandlingFails, CloseAllFails, UserDismisses, UserRevives, ChangePR, cycles
<1> QED
  BY <1>1, <1>3, <1>5, <1>6, <1>7, <1>8, <1>9, <1>10
     DEF Next, Cycle, Disturbance, vars, cycles

\* Every step preserves the rest of the invariant.
LEMMA StepIInv == IInv /\ Based /\ [Next]_vars => IInv'
<1> SUFFICES ASSUME IInv, Based, [Next]_vars PROVE IInv'
  OBVIOUS
<1>1. ASSUME NEW l \in Loops, Cycle(l) \/ DiscoverFails(l) PROVE IInv'
  BY <1>1, DiscoveryPreserves, RefreshPreserves, FailurePreserves DEF Cycle
<1>2. CASE HandleEvent
  BY <1>2, HandlePreserves
<1>3. CASE Disturbance
  BY <1>1, <1>3, FailurePreserves, HandlingFailurePreserves, UserPreserves, RestartPreserves,
     WorldPreserves DEF Disturbance
<1>4. CASE UNCHANGED vars
  <2>1. Types' /\ Counted' /\ Imaged' /\ Unfound' /\ Founder' /\ Compared'
    BY <1>4 DEF vars, rows, cycles, IInv, Types, Counted, Imaged, Seen, Unfound, Founder, Compared
  <2>2. Founding' /\ ClosedEntityIsQuiet' /\ SnapshotIsExplained'
    BY <1>4 DEF vars, rows, cycles, IInv, Founding, Calm, Unannounced, ClosedEntityIsQuiet,
       SnapshotIsExplained, Closing
  <2> QED
    BY <2>1, <2>2 DEF IInv
<1> QED
  BY <1>1, <1>2, <1>3, <1>4 DEF Next

-----------------------------------------------------------------------------
\* The variables keep their types; in particular a subscriber's channel never
\* holds more than its capacity (internal/eventbus/bus.go:145-166), and only a
\* loop with a cycle in flight is stopped (internal/poller).
THEOREM PollFeedTypeOK == Spec => []TypeOK
<1>1. IInv => TypeOK
  <2> SUFFICES ASSUME IInv PROVE TypeOK
    OBVIOUS
  <2>1. "world" \in Inputs /\ budget["world"] \in Nat /\ budget["world"] <= Budget["world"]
    BY DEF IInv, Counted, Inputs
  <2>2. pr.at \in Times
    BY <2>1 DEF IInv, Counted, Times
  <2>3. {snap} \cup Range(fresh) \cup Range(prev) \cup Range(curr) \subseteq Images
    BY DEF IInv, Imaged, Seen, Range
  <2> QED
    BY <2>2, <2>3 DEF IInv, Types, Counted, Images, Events, Kinds, Places, TypeOK
<1> QED
  BY InitIInv, StepIInv, StepBased, <1>1, PTL DEF Spec

\* However many loops are started over each other, however the router lags
\* behind them and wherever GitHub moves meanwhile, a closed entity has no open
\* task, unless a user revived one, a crash cut the cascade, or a cycle was
\* overlapped (internal/routing/router.go:1133-1153 and
\* internal/tracker/tracker.go, the close of an entity that is found over).
THEOREM PollFeedClosedEntityIsQuiet == Spec => []ClosedEntityIsQuiet
<1>1. IInv => ClosedEntityIsQuiet
  BY DEF IInv
<1> QED
  BY InitIInv, StepIInv, StepBased, <1>1, PTL DEF Spec

\* For any number of loops and of changes, an active entity whose stored
\* snapshot is closed has its close event in the router's channel, or a cycle
\* under way that will publish it: the snapshot, which is saved first, does not
\* swallow the event (internal/tracker/tracker.go:303).
THEOREM PollFeedSnapshotIsExplained == Spec => []SnapshotIsExplained
<1>1. IInv => SnapshotIsExplained
  BY DEF IInv
<1> QED
  BY InitIInv, StepIInv, StepBased, <1>1, PTL DEF Spec

-----------------------------------------------------------------------------
(***************************************************************************)
(* A stored request is announced or carried.                               *)
(***************************************************************************)
\* A comparison reports a request that was not there before.
LEMMA DiffAsks ==
  ASSUME NEW before \in Images, NEW after \in Images, after.asked, ~before.asked
  PROVE  "asked" \in Range(DiffPRSnapshots(before, after))
<1> DEFINE c == IF before.open /\ ~after.open THEN <<"closed">> ELSE <<>>
<1>1. DiffPRSnapshots(before, after) = c \o <<"asked">> \o <<>>
  BY DEF DiffPRSnapshots
<1>2. c \in Seq(Events) /\ <<"asked">> \in Seq(Events)
  <2>1. "closed" \in Events /\ "asked" \in Events
    BY DEF Events
  <2>2. <<"closed">> \in Seq(Events) /\ <<>> \in Seq(Events) /\ <<"asked">> \in Seq(Events)
    BY <2>1
  <2> QED
    BY <2>2
<1> HIDE DEF c
<1>3. Len(c) + 1 \in DOMAIN (c \o <<"asked">> \o <<>>)
      /\ (c \o <<"asked">> \o <<>>)[Len(c) + 1] = "asked"
  BY <1>2
<1> QED
  BY <1>1, <1>3 DEF Range

\* A step that publishes nothing and loses no event unnoticed.
LEMMA CarriedFrame ==
  ASSUME RequestIsCarried, lapses \subseteq lapses',
         snap'.asked => snap.asked, snap.asked /\ answered => answered',
         "asked" \in Range(bus) /\ lapses' \cap {"drop", "late", "swallowed"} = {}
             => "asked" \in Range(bus'),
         \A l \in Loops : loop[l] \in {"settle", "publish"} =>
           /\ loop'[l] = loop[l] /\ fresh'[l] = fresh[l]
           /\ prev'[l] = prev[l] /\ curr'[l] = curr[l]
  PROVE  RequestIsCarried'
BY DEF RequestIsCarried

\* A publication that loses no event.
LEMMA PublishCarries ==
  ASSUME IInv, NEW events \in Seq(Events), Publish(events),
         lapses' = lapses \cup Dropped(events) \/ Dropped(events) \subseteq lapses'
  PROVE  "drop" \notin lapses' => Range(bus') = Range(bus) \cup Range(events)
<1>1. bus \in Seq(Events) /\ Len(bus) <= Capacity
  BY DEF IInv, Types
<1> QED
  BY <1>1, PublishKeeps DEF Dropped, Lost

\* The steps of a cycle that store or publish nothing new.
LEMMA QuietCarries ==
  ASSUME IInv, RequestIsCarried, NEW l \in Loops,
         \/ Start(l) \/ StartsTeamless(l) \/ Discover(l) \/ DiscoverFails(l)
         \/ Register(l) \/ RegisterFails(l) \/ NothingToRefresh(l)
         \/ List(l) \/ Refresh(l) \/ CycleFails(l)
  PROVE  RequestIsCarried'
<1>1. loop[l] \notin {"settle", "publish"} /\ UNCHANGED <<snap, bus, answered>>
      /\ lapses \subseteq lapses'
  BY DEF Start, StartsTeamless, Discover, DiscoverFails, Register, RegisterFails,
     NothingToRefresh, List, Refresh, CycleFails, rows
<1>2. \A m \in Loops \ {l} : /\ loop'[m] = loop[m] /\ fresh'[m] = fresh[m]
                              /\ prev'[m] = prev[m] /\ curr'[m] = curr[m]
  BY DEF Start, StartsTeamless, Discover, DiscoverFails, Register, RegisterFails,
     NothingToRefresh, List, Refresh, CycleFails, EndCycle, Goto, IInv, Types, Imaged
<1> QED
  BY <1>1, <1>2, CarriedFrame

\* Those that do: Seed and Save store a request with its event in hand, or
\* with one that was carried before; Settle and PublishEvents hand it over.
LEMMA CycleCarries ==
  ASSUME IInv, RequestIsCarried, NEW l \in Loops, Cycle(l)
  PROVE  RequestIsCarried'
<1> USE DEF IInv, Types, Imaged
<1>1. CASE Skip(l)
  <2>1. PICK events \in {<<"unasked">>, <<>>} :
          Publish(events) /\ lapses' = lapses \cup Dropped(events)
    BY <1>1 DEF Skip
  <2>2. events \in Seq(Events)
    <3>1. <<>> \in Seq(Events) /\ <<"unasked">> \in Seq(Events)
      BY DEF Events
    <3> QED
      BY <2>1, <3>1
  <2>3. "drop" \notin lapses' => Range(bus) \subseteq Range(bus')
    BY <2>1, <2>2, PublishCarries
  <2>4. loop[l] = "list" /\ UNCHANGED <<snap, answered>>
    BY <1>1 DEF Skip, rows
  <2>5. \A m \in Loops \ {l} : /\ loop'[m] = loop[m] /\ fresh'[m] = fresh[m]
                                /\ prev'[m] = prev[m] /\ curr'[m] = curr[m]
    BY <1>1 DEF Skip, EndCycle, Goto
  <2> QED
    BY <2>1, <2>3, <2>4, <2>5, CarriedFrame
<1>2. CASE Seed(l)
  <2>1. /\ snap' = fresh[l] /\ fresh' = fresh /\ loop'[l] = "settle"
        /\ Buried(fresh[l]) \subseteq lapses'
    BY <1>2 DEF Seed, Goto
  <2> QED
    BY <2>1 DEF RequestIsCarried, Buried, Lost
<1>3. CASE Settle(l)
  <2> DEFINE events == IF fresh[l].open /\ fresh[l].asked THEN <<"asked">> ELSE <<>>
  <2>1. /\ loop[l] = "settle" /\ UNCHANGED <<snap, answered, fresh, prev, curr>>
        /\ Publish(events) /\ Dropped(events) \subseteq lapses' /\ lapses \subseteq lapses'
        /\ \A m \in Loops \ {l} : loop'[m] = loop[m]
    BY <1>3 DEF Settle, Goto
  <2>2. /\ events \in Seq(Events)
        /\ fresh[l].open /\ fresh[l].asked => "asked" \in Range(events)
    <3>1. <<>> \in Seq(Events) /\ <<"asked">> \in Seq(Events) /\ "asked" \in Range(<<"asked">>)
      BY DEF Events, Range
    <3> QED
      BY <3>1
  <2> HIDE DEF events
  <2>3. "drop" \notin lapses' => Range(bus') = Range(bus) \cup Range(events)
    BY <2>1, <2>2, PublishCarries
  <2> QED
    BY <2>1, <2>2, <2>3 DEF RequestIsCarried
<1>4. CASE Save(l)
  <2>1. /\ loop[l] = "save" /\ loop'[l] = "publish" /\ snap' = curr[l]
        /\ UNCHANGED <<fresh, prev, curr, bus, answered>> /\ lapses \subseteq lapses'
        /\ Lost("overlap", snap # prev[l]) \subseteq lapses'
        /\ \A m \in Loops \ {l} : loop'[m] = loop[m]
    BY <1>4 DEF Save, Goto
  <2>2. CASE prev[l].asked
    <3>1. snap = prev[l] \/ "overlap" \in lapses'
      BY <2>1 DEF Lost
    <3> QED
      BY <2>1, <2>2, <3>1 DEF RequestIsCarried
  <2>3. CASE ~prev[l].asked
    BY <2>1, <2>3 DEF RequestIsCarried
  <2> QED
    BY <2>2, <2>3
<1>5. CASE PublishEvents(l)
  <2> DEFINE events == DiffPRSnapshots(prev[l], curr[l])
  <2>1. /\ loop[l] = "publish" /\ UNCHANGED <<snap, answered>>
        /\ Publish(events) /\ lapses' = lapses \cup Dropped(events)
        /\ \A m \in Loops \ {l} : /\ loop'[m] = loop[m] /\ fresh'[m] = fresh[m]
                                  /\ prev'[m] = prev[m] /\ curr'[m] = curr[m]
    BY <1>5 DEF PublishEvents, EndCycle, Goto, rows
  <2>2. /\ events \in Seq(Events)
        /\ curr[l].asked /\ ~prev[l].asked => "asked" \in Range(events)
    BY DiffReports, DiffAsks DEF Seen
  <2> HIDE DEF events
  <2>3. "drop" \notin lapses' => Range(bus') = Range(bus) \cup Range(events)
    BY <2>1, <2>2, PublishCarries
  <2> QED
    BY <2>1, <2>2, <2>3 DEF RequestIsCarried
<1> QED
  BY <1>1, <1>2, <1>3, <1>4, <1>5, QuietCarries DEF Cycle

\* The steps that store or publish nothing because they fail: the founder's
\* request is not stored without its snapshot, nor over when it is closed.
LEMMA FailingCarries ==
  ASSUME IInv, RequestIsCarried, NEW l \in Loops,
         SeedFails(l) \/ SettleFails(l) \/ SaveFails(l)
  PROVE  RequestIsCarried'
<1>1. /\ loop[l] \in {"seed", "settle", "save"} /\ (loop[l] = "settle" => ~fresh[l].open)
      /\ UNCHANGED <<snap, bus, answered, fresh, prev, curr>> /\ lapses \subseteq lapses'
  BY DEF SeedFails, SettleFails, SaveFails, rows
<1>2. \A m \in Loops \ {l} : loop'[m] = loop[m]
  BY DEF SeedFails, SettleFails, SaveFails, Goto, IInv, Types
<1>3. \A m \in Loops :
        /\ loop[m] = "settle" /\ fresh[m].open => loop'[m] = "settle"
        /\ loop[m] = "publish" => loop'[m] = "publish"
  BY <1>1, <1>2
<1> QED
  BY <1>1, <1>3 DEF RequestIsCarried

\* The router, the users, GitHub and the process.
LEMMA OthersCarry ==
  ASSUME IInv, RequestIsCarried, HandleEvent \/ Disturbance
  PROVE  RequestIsCarried'
<1>1. ASSUME NEW event \in Events, Handles(event)
      PROVE  Range(bus) \subseteq Range(bus') \cup {event}
  BY <1>1, HandlesKeeps DEF IInv, Types
<1>2. CASE HandleLate
  <2>1. PICK event \in {"asked", "unasked"} :
          Handles(event) /\ lapses' = lapses \cup Lost("late", event = "asked")
    BY <1>2 DEF HandleLate
  <2>2. "asked" \in Range(bus) /\ "late" \notin lapses' => "asked" \in Range(bus')
    BY <1>1, <2>1 DEF Lost, Events
  <2> QED
    BY <1>2, <2>1, <2>2, CarriedFrame DEF HandleLate, rows, cycles
<1>3. CASE HandleAsked
  BY <1>3 DEF HandleAsked, RequestIsCarried
<1>4. CASE HandleUnasked
  <2>1. "asked" \in Range(bus) => "asked" \in Range(bus')
    BY <1>1, <1>4 DEF HandleUnasked, Events
  <2> QED
    BY <1>4, <2>1, CarriedFrame DEF HandleUnasked, cycles
<1>5. CASE HandleClosed
  <2>1. "asked" \in Range(bus) => "asked" \in Range(bus')
    BY <1>1, <1>5 DEF HandleClosed, Events
  <2> QED
    BY <1>5, <2>1, CarriedFrame DEF HandleClosed, cycles
<1>6. CASE CloseAllForEntity \/ UserDismisses \/ UserRevives
  BY <1>6, CarriedFrame DEF CloseAllForEntity, UserDismisses, UserRevives, cycles
<1>7. ASSUME NEW open \in BOOLEAN, NEW asked \in BOOLEAN, ChangePR(open, asked)
      PROVE  RequestIsCarried'
  BY <1>7, CarriedFrame DEF ChangePR, rows, cycles
<1>8. CASE Crash
  BY <1>8 DEF Crash, RequestIsCarried
<1>9. ASSUME NEW l \in Loops, NEW next \in Loops, RestartGitHub(l, next)
      PROVE  RequestIsCarried'
  <2>1. \A m \in Loops : loop[m] \in {"settle", "publish"} => loop'[m] = loop[m]
    BY <1>9 DEF RestartGitHub, Goto, IInv, Types
  <2> QED
    BY <1>9, <2>1, CarriedFrame DEF RestartGitHub, rows
<1>10. ASSUME NEW l \in Loops,
              StartsTeamless(l) \/ DiscoverFails(l) \/ RegisterFails(l) \/ CycleFails(l)
       PROVE  RequestIsCarried'
  BY <1>10, QuietCarries
<1>11. ASSUME NEW l \in Loops, SeedFails(l) \/ SettleFails(l) \/ SaveFails(l)
       PROVE  RequestIsCarried'
  BY <1>11, FailingCarries
<1>12. CASE HandlingFails
  BY <1>12 DEF HandlingFails, RequestIsCarried
<1>13. CASE CloseAllFails
  BY <1>13, CarriedFrame DEF CloseAllFails, rows, cycles
<1> QED
  BY <1>2, <1>3, <1>4, <1>5, <1>6, <1>7, <1>8, <1>9, <1>10, <1>11, <1>12, <1>13
     DEF HandleEvent, Disturbance

\* A review request that a stored snapshot contains has reached the board, or
\* its event is in the channel, or a cycle is about to publish it: for any
\* number of loops, with five kinds of loss excepted by name
\* (internal/tracker/tracker.go:303, the snapshot is saved first).
THEOREM PollFeedRequestIsCarried == Spec => []RequestIsCarried
<1>1. Init => RequestIsCarried
  BY DEF Init, RequestIsCarried, NoSnap
<1>2. IInv /\ RequestIsCarried /\ [Next]_vars => RequestIsCarried'
  <2> SUFFICES ASSUME IInv, RequestIsCarried, [Next]_vars
               PROVE  RequestIsCarried'
    OBVIOUS
  <2>1. CASE UNCHANGED vars
    BY <2>1, CarriedFrame DEF vars, rows, cycles
  <2> QED
    BY <2>1, CycleCarries, OthersCarry DEF Next
<1> QED
  BY InitIInv, StepIInv, StepBased, <1>1, <1>2, PTL DEF Spec
=============================================================================
