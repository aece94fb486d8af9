-------------------------------- MODULE Chat --------------------------------
(***************************************************************************)
(* What the chat with the curator promises, without goroutines, channels   *)
(* or contexts: messages stand in one line in the order they were let in,  *)
(* one at a time is answered, whoever asks for it may cancel, and a        *)
(* message that has ended is not touched again but to be deleted.          *)
(***************************************************************************)
EXTENDS Naturals, Sequences

CONSTANTS Messages,
          Room  \* how many wait behind the one that is next

VARIABLES status, \* of each message, as the user sees it
          phase,  \* open; closing: the project is being deleted; closed
          door,   \* messages that are not in the line yet
          line

vars == <<status, phase, door, line>>

Going(m) == status[m] \in {"queued", "running"}
Put(S, s) == status' = [m \in Messages |-> IF m \in S THEN s ELSE status[m]]

Init ==
  /\ status = [m \in Messages |-> "absent"]
  /\ phase = "open"
  /\ door = {}
  /\ line = <<>>

Send(m) ==
  /\ phase # "closed" /\ status[m] = "absent"
  /\ Put({m}, "queued")
  /\ door' = door \cup {m}
  /\ UNCHANGED <<phase, line>>

\* A project that is being deleted keeps no line.
LetIn(m) ==
  /\ m \in door
  /\ door' = door \ {m}
  /\ \/ phase = "open" /\ Len(line) <= Room /\ line' = Append(line, m)
     \/ phase # "open" /\ UNCHANGED line
  /\ UNCHANGED <<status, phase>>

\* Only a full line turns a message away.
TurnAway(m) ==
  /\ m \in door
  /\ phase = "open" => Len(line) >= Room
  /\ door' = door \ {m}
  /\ Put({x \in {m} : Going(x)}, "failed")
  /\ UNCHANGED <<phase, line>>

\* The first of the line is answered next, when nobody else is.
Begin(m) ==
  /\ status[m] = "queued"
  /\ \/ /\ phase = "open" /\ line # <<>> /\ m = Head(line)
        /\ \A x \in Messages : status[x] # "running"
        /\ line' = Tail(line)
     \/ phase # "open" /\ UNCHANGED line
  /\ Put({m}, "running")
  /\ UNCHANGED <<phase, door>>

\* It is passed over only if it has ended while it waited.
PassOver ==
  /\ line # <<>> /\ status[Head(line)] # "queued"
  /\ line' = Tail(line)
  /\ UNCHANGED <<status, phase, door>>

EndTurn(m, s) ==
  /\ status[m] = "running"
  /\ Put({m}, s)
  /\ UNCHANGED <<phase, door, line>>

Cancel(S) ==
  /\ \A m \in S : Going(m)
  /\ Put(S, "cancelled")
  /\ UNCHANGED <<phase, door, line>>

Sent == {m \in Messages : status[m] # "absent"}

Clear ==
  /\ \A m \in Messages : ~Going(m)
  /\ Put(Sent, "deleted")
  /\ UNCHANGED <<phase, door, line>>

StartDeletion ==
  /\ phase = "open"
  /\ phase' = "closing" /\ line' = <<>>
  /\ UNCHANGED <<status, door>>

Delete ==
  /\ phase = "closing"
  /\ phase' = "closed"
  /\ Put(Sent, "deleted")
  /\ UNCHANGED <<door, line>>

\* A restart of the process gives up what was going on, the deletion too.
Restart ==
  /\ phase' = IF phase = "closing" THEN "open" ELSE phase
  /\ Put({m \in Messages : Going(m)}, "cancelled")
  /\ door' = {} /\ line' = <<>>

Next ==
  \/ \E m \in Messages : Send(m) \/ LetIn(m) \/ TurnAway(m) \/ Begin(m)
  \/ PassOver
  \/ \E m \in Messages, s \in {"done", "failed"} : EndTurn(m, s)
  \/ \E S \in SUBSET Messages : Cancel(S)
  \/ Clear \/ StartDeletion \/ Delete \/ Restart

Spec == Init /\ [][Next]_vars

\* A message that is queued can still be begun: it is in the line, or its
\* handler is about to put it there.
NoneForgotten ==
  phase = "open" =>
    \A m \in Messages : status[m] = "queued" =>
      m \in door \/ \E i \in DOMAIN line : line[i] = m
=============================================================================
