------------------------------ MODULE Executor ------------------------------
(***************************************************************************)
(* What an event runner promises to those who schedule events on it,       *)
(* without its queues and priorities: an event is polled only after it was *)
(* scheduled, one event is polled at a time, a poll ends with Pending or   *)
(* Ready, and an event that was Ready is never polled again.               *)
(***************************************************************************)
CONSTANT Event

VARIABLE status   \* per event: "new", "pending", "polling" or "done"

Init == status = [e \in Event |-> "new"]

\* Event e goes from one status to another.
Change(e, from, to) ==
  /\ status[e] = from
  /\ status' = [status EXCEPT ![e] = to]

Schedule(e) == Change(e, "new", "pending")

Poll(e) ==
  /\ \A d \in Event : status[d] # "polling"
  /\ Change(e, "pending", "polling")

Pending(e) == Change(e, "polling", "pending")

Ready(e) == Change(e, "polling", "done")

Next == \E e \in Event : Schedule(e) \/ Poll(e) \/ Pending(e) \/ Ready(e)

Spec == Init /\ [][Next]_status
=============================================================================
