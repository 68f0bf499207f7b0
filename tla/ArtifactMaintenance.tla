------------------------ MODULE ArtifactMaintenance ------------------------
(***************************************************************************)
(* The audit and repair tasks of one artifact: src/artifacts/maintenance.ts*)
(* with its worker, the maintenance functions of src/coordinator/store.ts  *)
(* (each one transaction) and the agent routes that claim, heartbeat and   *)
(* report.  An audit opens repairs for the replicas it finds damaged; both *)
(* kinds are leased like jobs, but an agent reports on the task, whatever  *)
(* became of its run, and the last run is taken for its own.               *)
(*                                                                         *)
(* A kind of task has one row here, its live task or the last that ended,  *)
(* with the last run; calls that still hold an earlier one know it as past.*)
(*                                                                         *)
(* A definition whose name begins with Bug is one the model does not use:  *)
(* its neighbour with a defect the properties must notice.                 *)
(***************************************************************************)
EXTENDS Naturals, FiniteSets

CONSTANTS
  Replicas,         \* replicas but the primary one, each with a target configured
  Maintainers,      \* agents
  NoMaintainer,     \* NULL: a worker without an agent id
  MaintenanceCalls,
  MaxTaskRuns,      \* bounds: runs of a task that is still worked on, ...
  MaxDamages,       \* ... damages, ...
  MaxAgentActs,     \* ... claims, heartbeats and reports of agents ...
  MaxStops          \* ... and crashes, errors or repairs that do not last

MaintenanceKinds == {"audit"} \cup Replicas  \* an audit, or the repair of a replica

ASSUME MaintenanceAssumption ==
  /\ "audit" \notin Replicas /\ NoMaintainer \notin Maintainers
  /\ {MaxTaskRuns, MaxDamages, MaxAgentActs, MaxStops} \subseteq Nat

VARIABLES
  tasks,       \* artifact_maintenance_tasks and artifact_maintenance_task_runs
  reports,     \* the locals of the worker's calls and of the submission routes
  damaged,     \* replicas whose bytes are lost or wrong
  damages, agentActs, stops

maintenanceVars == <<tasks, reports, damaged, damages, agentActs, stops>>

\* run: the number of the last run.
NoTaskYet ==
  [status |-> "none", assigned |-> NoMaintainer, run |-> 0, runStatus |-> "none", stale |-> FALSE]
NoReport ==
  [pc |-> "idle", kind |-> "audit", past |-> FALSE, run |-> 0, found |-> {}, worker |-> FALSE]

MaintenanceInit ==
  /\ tasks = [k \in MaintenanceKinds |-> NoTaskYet]
  /\ reports = [c \in MaintenanceCalls |-> NoReport]
  /\ damaged = {}
  /\ damages = 0 /\ agentActs = 0 /\ stops = 0

Reporting(c, pc) == reports[c].pc = pc
KindOf(c) == reports[c].kind
ReportGoto(c, pc) == reports' = [reports EXCEPT ![c].pc = pc]
EndReport(c) == reports' = [reports EXCEPT ![c] = NoReport]

AgentActs == agentActs < MaxAgentActs /\ agentActs' = agentActs + 1
Stops == stops < MaxStops /\ stops' = stops + 1

\* createArtifactMaintenanceTask: the live task of the kind is found, or the unique
\* index rejects a second; calls is what the callers go on with.
BugCreateTask(kind, calls) ==  \* an ended task is found as well
  IF tasks[kind].status # "none" THEN UNCHANGED tasks /\ reports' = calls
  ELSE /\ tasks' = [tasks EXCEPT ![kind] = [NoTaskYet EXCEPT !.status = "open"]]
       /\ reports' = calls

CreateTask(kind, calls) ==
  IF tasks[kind].status \in {"open", "assigned"} THEN UNCHANGED tasks /\ reports' = calls
  ELSE /\ tasks' = [tasks EXCEPT ![kind] = [NoTaskYet EXCEPT !.status = "open"]]
       /\ reports' = [c \in MaintenanceCalls |->
            IF calls[c].pc # "idle" /\ calls[c].kind = kind
            THEN [calls[c] EXCEPT !.past = TRUE] ELSE calls[c]]

\* The last audit is old enough.
EnqueueArtifactAudit ==
  /\ CreateTask("audit", reports)
  /\ UNCHANGED <<damaged, damages, agentActs, stops>>

Claimed(k, agent) ==
  [tasks EXCEPT ![k] = [status |-> "assigned", assigned |-> agent, run |-> @.run + 1,
                        runStatus |-> "running", stale |-> FALSE]]

AgentClaimTask(k, agent) ==
  /\ tasks[k].status = "open"
  /\ AgentActs
  /\ tasks' = Claimed(k, agent)
  /\ UNCHANGED <<reports, damaged, damages, stops>>

\* processArtifactMaintenanceTask, for a worker with an agent id or none.
WorkerClaimTask(c, k, agent) ==
  /\ Reporting(c, "idle")
  /\ tasks[k].status = "open"
  /\ tasks' = Claimed(k, agent)
  /\ reports' = [reports EXCEPT ![c] =
       [NoReport EXCEPT !.pc = IF k = "audit" THEN "auditing" ELSE "repairing",
                        !.kind = k, !.run = tasks[k].run + 1, !.worker = TRUE]]
  /\ UNCHANGED <<damaged, damages, agentActs, stops>>

\* The route compares the agent with assigned_agent_id, not the status.
StartReport(c, k, agent, found) ==
  /\ Reporting(c, "idle")
  /\ tasks[k].assigned = agent
  /\ k # "audit" => found = {}
  /\ AgentActs
  /\ reports' = [reports EXCEPT ![c] =
       [NoReport EXCEPT !.pc = IF k = "audit" THEN "opening" ELSE "replacing",
                        !.kind = k, !.found = found]]
  /\ UNCHANGED <<tasks, damaged, damages, stops>>

\* auditPersistedArtifactDurability
AuditReplicas(c) ==
  /\ Reporting(c, "auditing")
  /\ reports' = [reports EXCEPT ![c].pc = "opening", ![c].found = damaged]
  /\ UNCHANGED <<tasks, damaged, damages, agentActs, stops>>

OpenRepair(c, replica) ==
  /\ Reporting(c, "opening") /\ replica \in reports[c].found
  /\ CreateTask(replica, [reports EXCEPT ![c].found = @ \ {replica}])
  /\ UNCHANGED <<damaged, damages, agentActs, stops>>

EndAudit(c) ==
  /\ Reporting(c, "opening") /\ reports[c].found = {}
  /\ ReportGoto(c, IF reports[c].worker THEN "completing" ELSE "finding")
  /\ UNCHANGED <<tasks, damaged, damages, agentActs, stops>>

\* The verification that follows is recorded, and no reason to fail.
RepairReplica(c) ==
  /\ Reporting(c, "repairing")
  /\ \/ damaged' = damaged \ {KindOf(c)} /\ UNCHANGED stops
     \/ Stops /\ UNCHANGED damaged  \* the target did not keep what was written
  /\ ReportGoto(c, "completing")
  /\ UNCHANGED <<tasks, damages, agentActs>>

\* An agent's replica, of the target or another one, replaces the recorded one before
\* it is verified.
ReplaceReplica(c, replica, good) ==
  /\ Reporting(c, "replacing")
  /\ ~good => damages < MaxDamages
  /\ damaged' = IF good THEN damaged \ {replica} ELSE damaged \cup {replica}
  /\ damages' = IF good THEN damages ELSE damages + 1
  /\ IF good THEN ReportGoto(c, "finding") ELSE EndReport(c)
  /\ UNCHANGED <<tasks, agentActs, stops>>

FindLastRun(c) ==  \* .at(-1)
  /\ Reporting(c, "finding")
  /\ reports' = [reports EXCEPT ![c].pc = "completing", ![c].run = tasks[KindOf(c)].run]
  /\ UNCHANGED <<tasks, damaged, damages, agentActs, stops>>

\* By ids alone.
EndTask(c, status) ==
  tasks' = IF reports[c].past THEN tasks
           ELSE [tasks EXCEPT ![KindOf(c)].status = status,
                              ![KindOf(c)].runStatus =
                                IF reports[c].run = tasks[KindOf(c)].run THEN status ELSE @]

CompleteArtifactMaintenanceTask(c) ==
  /\ Reporting(c, "completing")
  /\ EndTask(c, "completed")
  /\ EndReport(c)
  /\ UNCHANGED <<damaged, damages, agentActs, stops>>

ThrowReport(c) ==
  /\ reports[c].pc \notin {"idle", "failing"}
  /\ Stops
  /\ IF reports[c].worker THEN ReportGoto(c, "failing") ELSE EndReport(c)
  /\ UNCHANGED <<tasks, damaged, damages, agentActs>>

FailArtifactMaintenanceTask(c) ==
  /\ Reporting(c, "failing")
  /\ EndTask(c, "failed")
  /\ EndReport(c)
  /\ UNCHANGED <<damaged, damages, agentActs, stops>>

StopReport(c) ==
  /\ ~Reporting(c, "idle")
  /\ Stops
  /\ EndReport(c)
  /\ UNCHANGED <<tasks, damaged, damages, agentActs>>

TaskRunning(k) == tasks[k].status = "assigned" /\ tasks[k].runStatus = "running"

\* No heartbeat for too long; one that comes in time changes nothing here.
TaskRunGoStale(k) ==
  /\ TaskRunning(k) /\ ~tasks[k].stale
  /\ tasks[k].run < MaxTaskRuns
     \/ \A c \in MaintenanceCalls : KindOf(c) = k => Reporting(c, "idle")
  /\ tasks' = [tasks EXCEPT ![k].stale = TRUE]
  /\ UNCHANGED <<reports, damaged, damages, agentActs, stops>>

HeartbeatArtifactMaintenanceTaskRun(k) ==
  /\ TaskRunning(k) /\ tasks[k].stale
  /\ AgentActs
  /\ tasks' = [tasks EXCEPT ![k].stale = FALSE]
  /\ UNCHANGED <<reports, damaged, damages, stops>>

ExpireStaleArtifactMaintenanceTaskRun(k) ==
  /\ TaskRunning(k) /\ tasks[k].stale
  /\ tasks' = [tasks EXCEPT ![k].status = "open", ![k].assigned = NoMaintainer,
                            ![k].runStatus = "failed"]
  /\ UNCHANGED <<reports, damaged, damages, agentActs, stops>>

Damage(replica) ==
  /\ damages < MaxDamages /\ damages' = damages + 1
  /\ damaged' = damaged \cup {replica}
  /\ UNCHANGED <<tasks, reports, agentActs, stops>>

ReportStep(c) ==
  \/ AuditReplicas(c) \/ EndAudit(c) \/ RepairReplica(c) \/ FindLastRun(c)
  \/ CompleteArtifactMaintenanceTask(c) \/ FailArtifactMaintenanceTask(c)
  \/ \E x \in Replicas :
       OpenRepair(c, x) \/ \E good \in BOOLEAN : ReplaceReplica(c, x, good)

ReapTask(k) == TaskRunGoStale(k) \/ ExpireStaleArtifactMaintenanceTaskRun(k)

WorkerTakes(k) == \E c \in MaintenanceCalls : WorkerClaimTask(c, k, NoMaintainer)

MaintenanceNext ==
  \/ EnqueueArtifactAudit
  \/ \E c \in MaintenanceCalls :
       \/ ReportStep(c) \/ ThrowReport(c) \/ StopReport(c)
       \/ \E k \in MaintenanceKinds :
            \/ \E a \in Maintainers \cup {NoMaintainer} : WorkerClaimTask(c, k, a)
            \/ \E a \in Maintainers, found \in SUBSET Replicas : StartReport(c, k, a, found)
  \/ \E k \in MaintenanceKinds :
       \/ ReapTask(k) \/ HeartbeatArtifactMaintenanceTaskRun(k)
       \/ \E a \in Maintainers : AgentClaimTask(k, a)
  \/ \E x \in Replicas : Damage(x)

MaintenanceSpec == MaintenanceInit /\ [][MaintenanceNext]_maintenanceVars

-----------------------------------------------------------------------------
(***************************************************************************)
(* Properties.                                                             *)
(***************************************************************************)

\* What operators do: audits are enqueued when they are due, the reaper runs, and
\* workers take the oldest open task first.
OperatorsMaintain ==
  /\ WF_maintenanceVars(EnqueueArtifactAudit)
  /\ \A k \in MaintenanceKinds :
       WF_maintenanceVars(ReapTask(k)) /\ SF_maintenanceVars(WorkerTakes(k))
  /\ \A c \in MaintenanceCalls : WF_maintenanceVars(ReportStep(c))

\* Though reports come late, end tasks of others, find a repair that is just
\* ending, or put bad replicas in place of good ones, while processes crash and
\* leases run out: where operators do their part and damage stops, every replica
\* is sound in the end.
ReplicasHeal == OperatorsMaintain => <>[](damaged = {})
=============================================================================
