----------------------------- MODULE LoadCycle -----------------------------
(***************************************************************************)
(* What SyncCoordinator promises about the background load: at any time    *)
(* it is idle or waits for exactly one of three lists, it asks for the     *)
(* lists in the order in which they refer to one another (a status needs   *)
(* its board, a task its board and its status), and a load that has begun  *)
(* always comes to an end, complete or given up.                           *)
(***************************************************************************)

VARIABLE stage

Stages == {"idle", "boards", "statuses", "tasks"}

Init == stage = "idle"

\* A load begins with the boards.
Start == stage = "idle" /\ stage' = "boards"

\* The awaited list has arrived and the next one is asked for.
Follow == \/ stage = "boards"   /\ stage' = "statuses"
          \/ stage = "statuses" /\ stage' = "tasks"

\* The last list has arrived, or the awaited one cannot be had.
Finish == stage # "idle" /\ stage' = "idle"

Next == Start \/ Follow \/ Finish

Spec == Init /\ [][Next]_stage /\ WF_stage(Follow \/ Finish)

SafetySpec == Init /\ [][Next]_stage

=============================================================================
