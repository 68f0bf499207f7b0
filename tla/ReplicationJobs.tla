-------------------------- MODULE ReplicationJobs --------------------------
(***************************************************************************)
(* The replication jobs of coordinator/store.ts, the two executors that    *)
(* work on them and the reaper that takes stale leases back:               *)
(*                                                                         *)
(*  - workers/replication-worker.ts claims a job and, in one call, submits *)
(*    its result on chain and completes the job;                           *)
(*  - an agent claims a job through api/routes/agents.ts, heartbeats, and  *)
(*    posts its result in a call of its own, several if it retries;        *)
(*  - both submit through coordinator/execution.ts, which writes an        *)
(*    operator request before the transaction and its outcome after it.    *)
(*                                                                         *)
(* A database transaction is a step; a call is one step for every await at *)
(* which another may run.  A run is stale when its heartbeat is older than *)
(* the reaper allows: time only makes runs go stale.  The reference worker *)
(* runs without an agent id and sends no heartbeat.                        *)
(*                                                                         *)
(* A definition whose name begins with Bug is one the model does not use:  *)
(* its neighbour with a defect the properties must notice.                 *)
(***************************************************************************)
EXTENDS Integers, FiniteSets

CONSTANTS
  Workers, Agents,  \* worker ids and agent ids, the holders of leases
  Nobody,
  MaxJobs,          \* bound: jobs ever created
  MaxRuns,          \* bound: leases ever given
  MaxCalls,         \* bound: worker and submission calls ever made
  MaxHeartbeats,    \* bound: heartbeats ever accepted
  MaxCrashes        \* bound: calls that end with their process

ASSUME JobsAssumption ==
  /\ Nobody \notin Workers \cup Agents /\ Workers \cap Agents = {}
  /\ {MaxJobs, MaxRuns, MaxCalls, MaxHeartbeats, MaxCrashes} \subseteq Nat

Holders == Workers \cup Agents
JobIds == 1 .. MaxJobs
RunIds == 1 .. MaxRuns
CallIds == 1 .. MaxCalls

VARIABLES
  jobs,       \* replication_jobs; "none" before its row is inserted
  runs,       \* replication_job_runs; "none" before its row is inserted
  calls,      \* the calls in progress
  requests,   \* operator_requests: status of the row a call inserted
  onchain,    \* calls whose transaction made a replication
  heartbeats  \* heartbeats accepted so far

jobVars == <<jobs, runs, calls, requests, onchain, heartbeats>>

Job == [status : {"none", "open", "assigned", "completed", "failed"},
        assigned : Holders \cup {Nobody}, replication : CallIds \cup {0}]
Run == [status : {"none", "running", "completed", "failed"},
        job : JobIds \cup {0}, holder : Holders \cup {Nobody}, stale : BOOLEAN]
Call == [pc : {"none", "read", "checked", "requested", "submitted", "marked", "completed",
               "failing", "done", "crashed"},
         who : Holders \cup {Nobody}, job : JobIds \cup {0}, run : RunIds \cup {0}]
RequestStatus == {"none", "prepared", "submitted", "failed"}

JobsInit ==
  /\ jobs = [j \in JobIds |-> [status |-> "none", assigned |-> Nobody, replication |-> 0]]
  /\ runs = [r \in RunIds |-> [status |-> "none", job |-> 0, holder |-> Nobody, stale |-> FALSE]]
  /\ calls = [c \in CallIds |-> [pc |-> "none", who |-> Nobody, job |-> 0, run |-> 0]]
  /\ requests = [c \in CallIds |-> "none"]
  /\ onchain = {}
  /\ heartbeats = 0

CreateReplicationJob(j) ==
  /\ jobs[j].status = "none"
  /\ jobs' = [jobs EXCEPT ![j].status = "open"]
  /\ UNCHANGED <<runs, calls, requests, onchain, heartbeats>>

(***************************************************************************)
(* The lease of a job.                                                     *)
(***************************************************************************)
\* The next ids a serial column gives out.
NextRun(r) == runs[r].status = "none" /\ \A s \in 1 .. r - 1 : runs[s].status # "none"
NextCall(c) == calls[c].pc = "none" /\ \A d \in 1 .. c - 1 : calls[d].pc # "none"

\* The transaction of claimNextOpenReplicationJob and claimReplicationJobById.
\* (The former takes the first open job it can lock.)
Claim(holder, j, r) ==
  /\ jobs[j].status = "open"
  /\ NextRun(r)
  /\ jobs' = [jobs EXCEPT ![j].status = "assigned", ![j].assigned = holder]
  /\ runs' = [runs EXCEPT ![r] =
                [status |-> "running", job |-> j, holder |-> holder, stale |-> FALSE]]

\* A run that is running and whose job is out on a lease.
Leased(r) == runs[r].status = "running" /\ jobs[runs[r].job].status = "assigned"

HeartbeatReplicationJobRun(agent, r) ==
  /\ heartbeats < MaxHeartbeats
  /\ Leased(r)
  /\ runs[r].holder = agent
  /\ runs' = [runs EXCEPT ![r].stale = FALSE]
  /\ heartbeats' = heartbeats + 1
  /\ UNCHANGED <<jobs, calls, requests, onchain>>

\* Nothing has been heard of the run for longer than staleAfterMs.
GoStale(r) ==
  /\ runs[r].status = "running"
  /\ ~runs[r].stale
  /\ runs' = [runs EXCEPT ![r].stale = TRUE]
  /\ UNCHANGED <<jobs, calls, requests, onchain, heartbeats>>

BugExpireKeepsRun(r) ==  \* which stays running
  /\ Leased(r)
  /\ runs[r].stale
  /\ jobs' = [jobs EXCEPT ![runs[r].job].status = "open", ![runs[r].job].assigned = Nobody]
  /\ UNCHANGED <<runs, calls, requests, onchain, heartbeats>>

BugExpireAnyRunning(r) ==  \* whatever became of its job
  /\ runs[r].status = "running"
  /\ runs[r].stale
  /\ runs' = [runs EXCEPT ![r].status = "failed"]
  /\ jobs' = [jobs EXCEPT ![runs[r].job].status = "open", ![runs[r].job].assigned = Nobody]
  /\ UNCHANGED <<calls, requests, onchain, heartbeats>>

\* expireStaleReplicationJobRuns; the loop of one transaction takes several.
ExpireStaleReplicationJobRun(r) ==
  /\ Leased(r)
  /\ runs[r].stale
  /\ runs' = [runs EXCEPT ![r].status = "failed"]
  /\ jobs' = [jobs EXCEPT ![runs[r].job].status = "open", ![runs[r].job].assigned = Nobody]
  /\ UNCHANGED <<calls, requests, onchain, heartbeats>>

\* The updates of completeReplicationJob and failReplicationJob name the job and
\* the run and ask nothing of the status of either.
CompleteReplicationJob(c) ==
  /\ jobs' = [jobs EXCEPT ![calls[c].job].status = "completed",
                          ![calls[c].job].replication = c]
  /\ runs' = [runs EXCEPT ![calls[c].run].status = "completed"]

FailReplicationJob(c) ==
  /\ jobs' = [jobs EXCEPT ![calls[c].job].status = "failed"]
  /\ runs' = [runs EXCEPT ![calls[c].run].status = "failed"]

(***************************************************************************)
(* The executors.                                                          *)
(***************************************************************************)
Goto(c, pc) == calls' = [calls EXCEPT ![c].pc = pc]

InProgress(c) == calls[c].pc \notin {"none", "done", "crashed"}

\* processReplicationJob of a worker with nothing else to do, up to the claim.
StartWorker(c, w, j, r) ==
  /\ NextCall(c)
  /\ \A d \in CallIds : calls[d].who = w => ~InProgress(d)
  /\ Claim(w, j, r)
  /\ calls' = [calls EXCEPT ![c] = [pc |-> "checked", who |-> w, job |-> j, run |-> r]]
  /\ UNCHANGED <<requests, onchain, heartbeats>>

\* The claim route.
AgentClaim(agent, j, r) ==
  /\ Claim(agent, j, r)
  /\ UNCHANGED <<calls, requests, onchain, heartbeats>>

\* The submission route reads the job, then its run, before it awaits anything
\* that changes either; a mismatch is answered with a 409.
StartSubmission(c, agent, j, r) ==
  /\ NextCall(c)
  /\ jobs[j].assigned = agent
  /\ calls' = [calls EXCEPT ![c] = [pc |-> "read", who |-> agent, job |-> j, run |-> r]]
  /\ UNCHANGED <<jobs, runs, requests, onchain, heartbeats>>

CheckRun(c) ==
  LET run == runs[calls[c].run]
  IN /\ calls[c].pc = "read"
     /\ IF run.job = calls[c].job /\ run.status = "running" /\ run.holder = calls[c].who
        THEN Goto(c, "checked")
        ELSE Goto(c, "done")
     /\ UNCHANGED <<jobs, runs, requests, onchain, heartbeats>>

\* submitPersistedReplicationResult, from the request to its outcome.
InsertOperatorRequest(c) ==
  /\ calls[c].pc = "checked"
  /\ requests' = [requests EXCEPT ![c] = "prepared"]
  /\ Goto(c, "requested")
  /\ UNCHANGED <<jobs, runs, onchain, heartbeats>>

BugSubmitOnchainReplication(c) ==  \* before the request row
  /\ calls[c].pc \in {"checked", "requested"}
  /\ onchain' = onchain \cup {c}
  /\ Goto(c, "submitted")
  /\ UNCHANGED <<jobs, runs, requests, heartbeats>>

SubmitOnchainReplication(c) ==
  /\ calls[c].pc = "requested"
  /\ onchain' = onchain \cup {c}
  /\ Goto(c, "submitted")
  /\ UNCHANGED <<jobs, runs, requests, heartbeats>>

MarkOperatorRequestSubmitted(c) ==
  /\ calls[c].pc = "submitted"
  /\ requests' = [requests EXCEPT ![c] = "submitted"]
  /\ Goto(c, "marked")
  /\ UNCHANGED <<jobs, runs, onchain, heartbeats>>

Complete(c) ==
  /\ calls[c].pc = "marked"
  /\ CompleteReplicationJob(c)
  /\ Goto(c, IF calls[c].who \in Agents THEN "completed" ELSE "done")
  /\ UNCHANGED <<requests, onchain, heartbeats>>

\* The route records the agent's request last.
RecordAgentRequest(c) ==
  /\ calls[c].pc = "completed"
  /\ Goto(c, "done")
  /\ UNCHANGED <<jobs, runs, requests, onchain, heartbeats>>

BugThrowEarly(c) ==  \* a worker's as well as an agent's
  /\ calls[c].pc = "checked"
  /\ Goto(c, "failing") \/ Goto(c, "done")
  /\ UNCHANGED <<jobs, runs, requests, onchain, heartbeats>>

\* An error before the request ends a submission call that had not entered its
\* try block, and else leads to failReplicationJob ...
ThrowEarly(c) ==
  /\ calls[c].pc = "checked"
  /\ \/ Goto(c, "failing")
     \/ calls[c].who \in Agents /\ Goto(c, "done")
  /\ UNCHANGED <<jobs, runs, requests, onchain, heartbeats>>

\* ... an error of the submission marks the request failed, if that can still be
\* written, though the transaction may have been mined all the same ...
ThrowSubmitting(c) ==
  /\ calls[c].pc \in {"requested", "submitted"}
  /\ onchain' \in {onchain, onchain \cup {c}}
  /\ requests' \in {requests, [requests EXCEPT ![c] = "failed"]}
  /\ Goto(c, "failing")
  /\ UNCHANGED <<jobs, runs, heartbeats>>

\* ... and so does, to the job, an error once the result is on chain, such as a
\* second use of a request nonce when the agent's request is recorded.
ThrowLate(c) ==
  /\ calls[c].pc \in {"marked", "completed"}
  /\ Goto(c, "failing")
  /\ UNCHANGED <<jobs, runs, requests, onchain, heartbeats>>

Fail(c) ==
  /\ calls[c].pc = "failing"
  /\ FailReplicationJob(c)
  /\ Goto(c, "done")
  /\ UNCHANGED <<requests, onchain, heartbeats>>

Crash(c) ==
  /\ InProgress(c)
  /\ Cardinality({d \in CallIds : calls[d].pc = "crashed"}) < MaxCrashes
  /\ Goto(c, "crashed")
  /\ UNCHANGED <<jobs, runs, requests, onchain, heartbeats>>

CallStep(c) ==
  \/ CheckRun(c) \/ InsertOperatorRequest(c) \/ SubmitOnchainReplication(c)
  \/ MarkOperatorRequestSubmitted(c) \/ Complete(c) \/ RecordAgentRequest(c)
  \/ ThrowEarly(c) \/ ThrowSubmitting(c) \/ ThrowLate(c) \/ Fail(c)

JobsNext ==
  \/ \E j \in JobIds : CreateReplicationJob(j)
  \/ \E j \in JobIds, r \in RunIds :
       \/ \E agent \in Agents : AgentClaim(agent, j, r)
       \/ \E c \in CallIds :
            \/ \E w \in Workers : StartWorker(c, w, j, r)
            \/ \E agent \in Agents : StartSubmission(c, agent, j, r)
  \/ \E r \in RunIds :
       \/ \E agent \in Agents : HeartbeatReplicationJobRun(agent, r)
       \/ GoStale(r)
       \/ ExpireStaleReplicationJobRun(r)
  \/ \E c \in CallIds : CallStep(c) \/ Crash(c)

JobsSpec == JobsInit /\ [][JobsNext]_jobVars

\* A process that is up goes on after each await, and the chain answers it.
CallFairness == \A c \in CallIds : WF_jobVars(CallStep(c))

FairJobsSpec == JobsSpec /\ CallFairness

\* Time passes and the reaper is run again and again.  No process of the
\* repository runs it: docs/agent-artifact-maintenance.md:115 leaves it to
\* "downstream operators", so this is a premise and no part of the system.
OperatorsReap ==
  \A r \in RunIds : WF_jobVars(GoStale(r)) /\ WF_jobVars(ExpireStaleReplicationJobRun(r))

-----------------------------------------------------------------------------
(***************************************************************************)
(* Properties.                                                             *)
(***************************************************************************)

\* Every variable holds a value of its type.
JobsTypeOK ==
  /\ jobs \in [JobIds -> Job]
  /\ runs \in [RunIds -> Run]
  /\ calls \in [CallIds -> Call]
  /\ requests \in [CallIds -> RequestStatus]
  /\ onchain \subseteq CallIds
  /\ heartbeats \in 0 .. MaxHeartbeats

\* A job that is out has exactly one lease, its holder's, and an open job has
\* none, however late the calls of expired leases complete and fail it.
OneLeasePerJob ==
  \A j \in JobIds :
    LET live == {r \in RunIds : runs[r].status = "running" /\ runs[r].job = j}
    IN /\ jobs[j].status = "assigned" => \E r \in RunIds :
            live = {r} /\ runs[r].holder = jobs[j].assigned
       /\ jobs[j].status = "open" => live = {}

\* What a job is to those who work on it, and the lease it is out on.
Phase(j) ==
  CASE jobs[j].status = "none" -> "none"
    [] jobs[j].status = "open" -> "open"
    [] jobs[j].status = "assigned" -> "leased"
    [] OTHER -> "ended"
LeaseOf(j) ==
  IF jobs[j].status = "assigned"
  THEN CHOOSE r \in RunIds : runs[r].status = "running" /\ runs[r].job = j ELSE 0

Leasing == INSTANCE WorkLease WITH
  Works <- JobIds, Leases <- RunIds, NoLease <- 0,
  phase <- [j \in JobIds |-> Phase(j)],
  lease <- [j \in JobIds |-> LeaseOf(j)],
  given <- {r \in RunIds : runs[r].status # "none"}

\* The tables are a queue of leased work: a job is given out on one lease at a time
\* and stays with it until it is taken back, no run is given out twice, and a job
\* that was completed or failed never goes out again, not by the reaper either,
\* though the run of another lease may still be running.
LeaseSpec == Leasing!LeaseSpec

\* A completed job points at a replication that is on chain, was made for this
\* job and whose operator request says so; and no replication is on chain that
\* was not announced by a request first, whatever crashed in between.
EvidenceIsOnChain ==
  /\ \A j \in JobIds : jobs[j].status = "completed" =>
       /\ jobs[j].replication \in onchain
       /\ calls[jobs[j].replication].job = j
       /\ requests[jobs[j].replication] = "submitted"
  /\ \A c \in CallIds :
       /\ c \in onchain => requests[c] # "none"
       /\ requests[c] = "submitted" => c \in onchain

\* A lease whose holder falls silent ends where operators run the reaper, so that
\* no job stays out for good with a crashed worker or an agent that lost interest;
\* and a worker whose process stays up gives its lease back by itself, whatever it
\* runs into on the way: every error of processReplicationJob ends in the
\* completion or the failure of the job, with no reaper to help.
LeasesEnd ==
  /\ OperatorsReap => \A r \in RunIds : Leased(r) ~> ~Leased(r)
  /\ \A r \in RunIds :
       Leased(r) /\ runs[r].holder \in Workers
         ~> ~Leased(r) \/ \E c \in CallIds : calls[c].run = r /\ calls[c].pc = "crashed"

\* "Replication submission rejected: run is not active" (the submission route):
\* a run becomes completed only while it holds the lease of its job.
CompletedByItsLease ==
  [][\A r \in RunIds :
       runs[r].status # "completed" /\ runs'[r].status = "completed" => Leased(r)]_jobVars
=============================================================================
