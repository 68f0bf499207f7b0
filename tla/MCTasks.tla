------------------------------ MODULE MCTasks ------------------------------
(* ReviewTasks and ArtifactMaintenance on small instances, one of which     *)
(* moves.                                                                   *)
EXTENDS ReviewTasks, ArtifactMaintenance

CONSTANTS g1, x1

(* Of an agent and a worker without one: both have to submit, one of them   *)
(* does once or twice, or one submission is enough.                         *)
SmallPolicies ==
  {[min |-> 2, max |-> 2, distinct |-> TRUE], [min |-> 1, max |-> 2, distinct |-> FALSE],
   [min |-> 1, max |-> 1, distinct |-> TRUE]}

OnlyReviews == MaintenanceInit /\ UNCHANGED maintenanceVars /\ ReviewNext
OnlyMaintenance ==  \* agents act, or processes crash
  /\ ReviewInit /\ UNCHANGED reviewVars
  /\ MaintenanceNext /\ (agentActs' = 0 \/ stops' = 0)

TasksInit == ReviewInit /\ MaintenanceInit
TasksSpec ==
  /\ TasksInit
  /\ [][OnlyReviews \/ OnlyMaintenance]_<<reviewVars, maintenanceVars>>
=============================================================================
