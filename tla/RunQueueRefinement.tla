------------------------- MODULE RunQueueRefinement -------------------------
(* RunQueue implements LaunchOnce.  The session's slot is taken by the      *)
(* owner of the manager's entry once it has committed to run its message.   *)
EXTENDS RunQueue

RunningNow == Launched \ {"finish"}
Slot == IF active # NoProc /\ pc[active] \in RunningNow THEN msg[active] ELSE NoMsg

Life(m) == CASE row[m] = "removed" -> "withdrawn"
             [] row[m] # "removed" /\ launches[m] > 0 /\ Slot = m -> "running"
             [] row[m] # "removed" /\ launches[m] > 0 /\ Slot # m -> "done"
             [] launches[m] = 0 /\ row[m] \in {"pending", "sending"} -> "waiting"
             [] launches[m] = 0 /\ row[m] \in {"none", "sent"} -> "new"

Launch == INSTANCE LaunchOnce WITH
  life <- [m \in Messages |-> Life(m)], slot <- Slot

\* Every step of the handlers, dispatchers and crashes is a step of LaunchOnce
\* or leaves its state alone.
LaunchesOnce == Launch!LSpec
=============================================================================
