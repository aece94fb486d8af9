----------------------------- MODULE FiringLog -----------------------------
(***************************************************************************)
(* What the firing queue promises, without goroutines, mutexes or runs: a  *)
(* log in which a key waits at most once, a lane is settled strictly in    *)
(* the order of arrival, and what is settled never changes again.          *)
(***************************************************************************)
EXTENDS Naturals, Sequences

CONSTANTS Keys, LaneOf

VARIABLE log

Waiting(i) == log[i].status = "pending"

InLane(lane) == {i \in DOMAIN log : Waiting(i) /\ LaneOf[log[i].key] = lane}

Init == log = <<>>

\* A firing enters at the tail, unless the same one is waiting already.
Append1(k) ==
  /\ \A i \in DOMAIN log : Waiting(i) => log[i].key # k
  /\ log' = Append(log, [key |-> k, status |-> "pending"])

\* The head of a lane leaves it, fired or skipped.
SettleHead(i, status) ==
  /\ i \in DOMAIN log
  /\ Waiting(i)
  /\ \A j \in InLane(LaneOf[log[i].key]) : i <= j
  /\ log' = [log EXCEPT ![i].status = status]

Next ==
  \/ \E k \in Keys : Append1(k)
  \/ \E i \in DOMAIN log, status \in {"fired", "skipped"} : SettleHead(i, status)

Spec == Init /\ [][Next]_log
=============================================================================
