---------------------------- MODULE QueuesProofs ----------------------------
(***************************************************************************)
(* Proofs about the queues: modules ReplicationJobs, ReviewTasks and       *)
(* Webhooks, for any number of workers, reviewers, dispatchers, jobs,      *)
(* tasks, events, leases, calls and crashes.                               *)
(***************************************************************************)
EXTENDS ReplicationJobs, ReviewTasks, Webhooks, SumTheorems

(***************************************************************************)
(* ReplicationJobs: a job is out on one lease at most, is never given out  *)
(* again once it ended, and what a completed job points at is on chain.    *)
(* A call keeps the job and run it began with while others expire,         *)
(* reassign and end them, so the table of leases is safe only because what *)
(* a call may write is tied to the run it checked.                         *)
(***************************************************************************)

\* A lease that was given names a job that was created, a job that was not
\* created is nobody's.
RunsHaveJobs ==
  /\ \A r \in RunIds : runs[r].status # "none" =>
       runs[r].job # 0 /\ jobs[runs[r].job].status # "none"
  /\ \A j \in JobIds : jobs[j].status = "none" => jobs[j].assigned = Nobody

\* Past its check a call writes to the run it checked and to the job of that run.
Checked == {"checked", "requested", "submitted", "marked", "completed", "failing"}
CallsHoldRuns ==
  \A c \in CallIds :
    /\ calls[c].pc # "none" => /\ calls[c].run # 0 /\ calls[c].job # 0
                               /\ jobs[calls[c].job].status # "none"
    /\ calls[c].pc \in Checked => /\ runs[calls[c].run].status # "none"
                                  /\ runs[calls[c].run].job = calls[c].job

\* The live leases: of no open job, of one holder, and one for every job out.
LeaseTable ==
  /\ \A r \in RunIds : runs[r].status = "running" =>
       /\ jobs[runs[r].job].status \in {"assigned", "completed", "failed"}
       /\ jobs[runs[r].job].status = "assigned" => runs[r].holder = jobs[runs[r].job].assigned
  /\ \A r, s \in RunIds :
       runs[r].status = "running" /\ runs[s].status = "running" /\ runs[r].job = runs[s].job
         /\ jobs[runs[r].job].status = "assigned" => r = s
  /\ \A j \in JobIds : jobs[j].status = "assigned" =>
       \E r \in RunIds : runs[r].status = "running" /\ runs[r].job = j

\* How far a call is, its operator request and the chain agree.
RequestsTrackCalls ==
  \A c \in CallIds :
    /\ calls[c].pc \in {"none", "read", "checked"} => requests[c] = "none"
    /\ calls[c].pc \in {"requested", "submitted"} => requests[c] = "prepared"
    /\ calls[c].pc = "submitted" => c \in onchain
    /\ calls[c].pc \in {"marked", "completed"} => requests[c] = "submitted"

JobsInv ==
  /\ JobsTypeOK
  /\ RunsHaveJobs
  /\ CallsHoldRuns
  /\ LeaseTable
  /\ RequestsTrackCalls
  /\ EvidenceIsOnChain

\* The table of leases is what the property says of it.
LEMMA LeaseTableIsOneLease == JobsTypeOK /\ LeaseTable => OneLeasePerJob
<1> SUFFICES ASSUME JobsTypeOK, LeaseTable, NEW j \in JobIds
             PROVE  LET live == {r \in RunIds : runs[r].status = "running" /\ runs[r].job = j}
                    IN /\ jobs[j].status = "assigned" => \E r \in RunIds :
                            live = {r} /\ runs[r].holder = jobs[j].assigned
                       /\ jobs[j].status = "open" => live = {}
  BY DEF OneLeasePerJob
<1> DEFINE live == {r \in RunIds : runs[r].status = "running" /\ runs[r].job = j}
<1>1. ASSUME jobs[j].status = "assigned"
      PROVE  \E r \in RunIds : live = {r} /\ runs[r].holder = jobs[j].assigned
  <2>1. PICK r \in RunIds : runs[r].status = "running" /\ runs[r].job = j
    BY <1>1 DEF LeaseTable
  <2>2. \A s \in live : s = r
    BY <1>1, <2>1 DEF LeaseTable
  <2> QED
    BY <1>1, <2>1, <2>2 DEF LeaseTable
<1>2. ASSUME jobs[j].status = "open" PROVE live = {}
  BY <1>2 DEF LeaseTable
<1> QED
  BY <1>1, <1>2

(***************************************************************************)
(* Each step keeps the invariant.                                          *)
(***************************************************************************)

\* The empty tables satisfy the invariant.
LEMMA JobsInitInv == JobsInit => JobsInv
<1> SUFFICES ASSUME JobsInit PROVE JobsInv
  OBVIOUS
<1>1. JobsTypeOK
  BY JobsAssumption DEF JobsInit, JobsTypeOK, Job, Run, Call, RequestStatus
<1>2. RunsHaveJobs /\ CallsHoldRuns /\ LeaseTable /\ RequestsTrackCalls /\ EvidenceIsOnChain
  BY DEF JobsInit, RunsHaveJobs, CallsHoldRuns, Checked, LeaseTable, RequestsTrackCalls,
         EvidenceIsOnChain
<1> QED
  BY <1>1, <1>2 DEF JobsInv

\* A job is inserted without a lease.
LEMMA CreateKeepsInv ==
  ASSUME JobsInv, NEW j \in JobIds, CreateReplicationJob(j)
  PROVE  JobsInv'
<1> JobsTypeOK
  BY DEF JobsInv
<1>1. /\ jobs[j].status = "none"
      /\ jobs' = [jobs EXCEPT ![j].status = "open"]
      /\ UNCHANGED <<runs, calls, requests, onchain, heartbeats>>
  BY DEF CreateReplicationJob
<1>2. /\ jobs' \in [JobIds -> Job]
      /\ \A i \in JobIds \ {j} : jobs'[i] = jobs[i]
      /\ jobs'[j].status = "open"
  BY <1>1 DEF JobsTypeOK, Job
<1>3. JobsTypeOK'
  BY <1>1, <1>2 DEF JobsTypeOK
<1>4. \A r \in RunIds : runs[r].status # "none" => runs[r].job \in JobIds \ {j}
  BY <1>1 DEF JobsInv, RunsHaveJobs, JobsTypeOK, Run
<1>5. \A c \in CallIds : calls[c].pc # "none" => calls[c].job \in JobIds \ {j}
  BY <1>1 DEF JobsInv, CallsHoldRuns, JobsTypeOK, Call
<1>6. RunsHaveJobs'
  BY <1>1, <1>2, <1>4 DEF JobsInv, RunsHaveJobs
<1>7. CallsHoldRuns'
  BY <1>1, <1>2, <1>5 DEF JobsInv, CallsHoldRuns
<1>8. LeaseTable'
  BY <1>1, <1>2, <1>4 DEF JobsInv, LeaseTable
<1>9. (RequestsTrackCalls /\ EvidenceIsOnChain)'
  BY <1>1, <1>2 DEF JobsInv, RequestsTrackCalls, EvidenceIsOnChain
<1> QED
  BY <1>3, <1>6, <1>7, <1>8, <1>9 DEF JobsInv

\* A claim gives an open job, which has no lease, its only one.
LEMMA ClaimKeepsInv ==
  ASSUME JobsInv, NEW h \in Holders, NEW j \in JobIds, NEW r \in RunIds, Claim(h, j, r),
         UNCHANGED <<requests, onchain, heartbeats>>,
         \/ UNCHANGED calls
         \/ \E c \in CallIds :
              /\ calls[c].pc = "none"
              /\ calls' = [calls EXCEPT ![c] = [pc |-> "checked", who |-> h, job |-> j, run |-> r]]
  PROVE  JobsInv'
<1> JobsTypeOK
  BY DEF JobsInv
<1>1. /\ jobs[j].status = "open"
      /\ runs[r].status = "none"
      /\ jobs' = [jobs EXCEPT ![j].status = "assigned", ![j].assigned = h]
      /\ runs' = [runs EXCEPT ![r] =
                    [status |-> "running", job |-> j, holder |-> h, stale |-> FALSE]]
  BY DEF Claim, NextRun
<1>2. /\ jobs' \in [JobIds -> Job]
      /\ \A i \in JobIds \ {j} : jobs'[i] = jobs[i]
      /\ jobs'[j].status = "assigned" /\ jobs'[j].assigned = h
  <2>1. /\ [jobs[j] EXCEPT !.status = "assigned", !.assigned = h] \in Job
        /\ [jobs[j] EXCEPT !.status = "assigned", !.assigned = h].status = "assigned"
        /\ [jobs[j] EXCEPT !.status = "assigned", !.assigned = h].assigned = h
    BY ZenonT(60) DEF JobsTypeOK, Job
  <2>2. jobs' = [jobs EXCEPT ![j] = [jobs[j] EXCEPT !.status = "assigned", !.assigned = h]]
    BY <1>1 DEF JobsTypeOK
  <2> QED
    BY <2>1, <2>2 DEF JobsTypeOK
<1>3. /\ runs' \in [RunIds -> Run]
      /\ \A s \in RunIds \ {r} : runs'[s] = runs[s]
      /\ runs'[r].status = "running" /\ runs'[r].job = j /\ runs'[r].holder = h
  BY <1>1 DEF JobsTypeOK, Run
<1>4. calls' \in [CallIds -> Call]
  BY DEF JobsTypeOK, Call
<1>5. \A c \in CallIds : \/ calls'[c] = calls[c]
                         \/ /\ calls[c].pc = "none"
                            /\ calls'[c] = [pc |-> "checked", who |-> h, job |-> j, run |-> r]
  BY DEF JobsTypeOK
<1>6. JobsTypeOK'
  BY <1>2, <1>3, <1>4 DEF JobsTypeOK
<1>7. j # 0 /\ r # 0
  BY DEF JobIds, RunIds
<1>8. RunsHaveJobs'
  BY <1>1, <1>2, <1>3, <1>7 DEF JobsInv, RunsHaveJobs, JobsTypeOK, Run
<1>9. CallsHoldRuns'
  <2> SUFFICES ASSUME NEW c \in CallIds
               PROVE  /\ calls'[c].pc # "none" => /\ calls'[c].run # 0 /\ calls'[c].job # 0
                                                  /\ jobs'[calls'[c].job].status # "none"
                      /\ calls'[c].pc \in Checked => /\ runs'[calls'[c].run].status # "none"
                                                     /\ runs'[calls'[c].run].job = calls'[c].job
    BY DEF CallsHoldRuns
  <2>1. CASE calls'[c] = calls[c]
    BY <1>1, <1>2, <1>3, <2>1 DEF JobsInv, CallsHoldRuns, Checked, JobsTypeOK, Call
  <2>2. CASE calls'[c] = [pc |-> "checked", who |-> h, job |-> j, run |-> r]
    BY <1>2, <1>3, <1>7, <2>2
  <2> QED
    BY <1>5, <2>1, <2>2
<1>10. LeaseTable'
  <2>1. \A s \in RunIds : runs[s].status = "running" => s # r /\ runs[s].job \in JobIds \ {j}
    BY <1>1 DEF JobsInv, LeaseTable, RunsHaveJobs, JobsTypeOK, Run
  <2>2. \A s \in RunIds : runs'[s].status = "running" =>
          /\ jobs'[runs'[s].job].status \in {"assigned", "completed", "failed"}
          /\ jobs'[runs'[s].job].status = "assigned" => runs'[s].holder = jobs'[runs'[s].job].assigned
    BY <1>2, <1>3, <2>1 DEF JobsInv, LeaseTable
  <2>3. \A s, t \in RunIds :
          runs'[s].status = "running" /\ runs'[t].status = "running" /\ runs'[s].job = runs'[t].job
            /\ jobs'[runs'[s].job].status = "assigned" => s = t
    BY <1>2, <1>3, <2>1 DEF JobsInv, LeaseTable
  <2>4. \A i \in JobIds : jobs'[i].status = "assigned" =>
          \E s \in RunIds : runs'[s].status = "running" /\ runs'[s].job = i
    <3> SUFFICES ASSUME NEW i \in JobIds, jobs'[i].status = "assigned"
                 PROVE  \E s \in RunIds : runs'[s].status = "running" /\ runs'[s].job = i
      OBVIOUS
    <3>1. CASE i = j
      BY <1>3, <3>1
    <3>2. CASE i # j
      <4>1. PICK s \in RunIds : runs[s].status = "running" /\ runs[s].job = i
        BY <1>2, <3>2 DEF JobsInv, LeaseTable
      <4> QED
        BY <1>3, <2>1, <4>1
    <3> QED
      BY <3>1, <3>2
  <2> QED
    BY <2>2, <2>3, <2>4 DEF LeaseTable
<1>11. RequestsTrackCalls'
  BY <1>5 DEF JobsInv, RequestsTrackCalls
<1>12. EvidenceIsOnChain'
  <2>1. \A c \in CallIds : requests[c] = "submitted" => calls'[c] = calls[c]
    BY <1>5 DEF JobsInv, RequestsTrackCalls
  <2> QED
    BY <1>2, <2>1 DEF JobsInv, EvidenceIsOnChain, JobsTypeOK, Job
<1> QED
  BY <1>6, <1>8, <1>9, <1>10, <1>11, <1>12 DEF JobsInv

\* The reaper takes the only lease of the job it reopens.
LEMMA ExpireKeepsInv ==
  ASSUME JobsInv, NEW r \in RunIds, ExpireStaleReplicationJobRun(r)
  PROVE  JobsInv'
<1> DEFINE j == runs[r].job
<1> JobsTypeOK
  BY DEF JobsInv
<1> UNCHANGED <<calls, requests, onchain, heartbeats>>
  BY DEF ExpireStaleReplicationJobRun
<1>1. /\ runs[r].status = "running" /\ jobs[j].status = "assigned"
      /\ jobs' = [jobs EXCEPT ![j].status = "open", ![j].assigned = Nobody]
      /\ runs' = [runs EXCEPT ![r].status = "failed"]
  BY DEF ExpireStaleReplicationJobRun, Leased
<1>2. j \in JobIds
  BY <1>1 DEF JobsInv, RunsHaveJobs, JobsTypeOK, Run
<1> HIDE DEF j
<1>3. /\ jobs' \in [JobIds -> Job]
      /\ \A i \in JobIds \ {j} : jobs'[i] = jobs[i]
      /\ jobs'[j].status = "open"
  BY <1>1, <1>2, ZenonT(60) DEF JobsTypeOK, Job
<1>4. /\ runs' \in [RunIds -> Run]
      /\ \A s \in RunIds \ {r} : runs'[s] = runs[s]
      /\ runs'[r].status = "failed" /\ runs'[r].job = runs[r].job
  BY <1>1 DEF JobsTypeOK, Run
<1>5. JobsTypeOK'
  BY <1>3, <1>4 DEF JobsTypeOK
<1>6. RunsHaveJobs'
  <2>1. \A s \in RunIds : runs'[s].status # "none" =>
          /\ runs'[s].job = runs[s].job /\ runs[s].job \in JobIds /\ runs[s].job # 0
          /\ jobs[runs[s].job].status # "none"
    BY <1>1, <1>4 DEF JobsInv, RunsHaveJobs, JobsTypeOK, Run
  <2>2. \A i \in JobIds : jobs'[i].status = "none" => i # j /\ jobs'[i] = jobs[i]
    BY <1>3
  <2>3. \A i \in JobIds : jobs[i].status # "none" => jobs'[i].status # "none"
    BY <1>3
  <2> QED
    BY <2>1, <2>2, <2>3 DEF JobsInv, RunsHaveJobs
<1>7. CallsHoldRuns'
  BY <1>2, <1>3, <1>4 DEF JobsInv, CallsHoldRuns, Checked, JobsTypeOK, Call
<1>8. \A s \in RunIds \ {r} : runs[s].status = "running" => runs[s].job # j
  BY <1>1 DEF JobsInv, LeaseTable, j
<1>9. LeaseTable'
  <2>1. \A s \in RunIds : runs'[s].status = "running" =>
          s # r /\ runs'[s] = runs[s] /\ runs[s].job \in JobIds \ {j}
    BY <1>4, <1>8 DEF JobsInv, RunsHaveJobs, JobsTypeOK, Run
  <2>2. \A i \in JobIds : jobs'[i].status = "assigned" =>
          \E s \in RunIds : runs'[s].status = "running" /\ runs'[s].job = i
    <3> SUFFICES ASSUME NEW i \in JobIds, jobs'[i].status = "assigned"
                 PROVE  \E s \in RunIds : runs'[s].status = "running" /\ runs'[s].job = i
      OBVIOUS
    <3>1. i # j /\ jobs[i].status = "assigned"
      BY <1>3
    <3>2. PICK s \in RunIds : runs[s].status = "running" /\ runs[s].job = i
      BY <3>1 DEF JobsInv, LeaseTable
    <3>3. s # r
      BY <3>1, <3>2 DEF j
    <3> QED
      BY <1>4, <3>2, <3>3
  <2> QED
    BY <1>3, <2>1, <2>2 DEF JobsInv, LeaseTable
<1>10. (RequestsTrackCalls /\ EvidenceIsOnChain)'
  BY <1>2, <1>3 DEF JobsInv, RequestsTrackCalls, EvidenceIsOnChain
<1> QED
  BY <1>5, <1>6, <1>7, <1>9, <1>10 DEF JobsInv

\* A heartbeat and the passing of time only tell whether a lease is stale.
LEMMA StalenessKeepsInv ==
  ASSUME JobsInv, NEW r \in RunIds, NEW b \in BOOLEAN,
         runs' = [runs EXCEPT ![r].stale = b],
         heartbeats' \in 0 .. MaxHeartbeats,
         UNCHANGED <<jobs, calls, requests, onchain>>
  PROVE  JobsInv'
<1> JobsTypeOK
  BY DEF JobsInv
<1>1. /\ runs' \in [RunIds -> Run]
      /\ \A s \in RunIds : /\ runs'[s].status = runs[s].status
                           /\ runs'[s].job = runs[s].job
                           /\ runs'[s].holder = runs[s].holder
  BY DEF JobsTypeOK, Run
<1>2. JobsTypeOK'
  BY <1>1 DEF JobsTypeOK
<1>3. RunsHaveJobs'
  BY <1>1 DEF JobsInv, RunsHaveJobs
<1>4. CallsHoldRuns'
  <2>1. \A c \in CallIds : calls[c].pc \in Checked => calls[c].run \in RunIds
    BY DEF JobsInv, CallsHoldRuns, JobsTypeOK, Call, Checked
  <2> QED
    BY <1>1, <2>1 DEF JobsInv, CallsHoldRuns
<1>5. LeaseTable'
  <2>1. \A i \in JobIds : jobs'[i].status = "assigned" =>
          \E s \in RunIds : runs'[s].status = "running" /\ runs'[s].job = i
    BY <1>1 DEF JobsInv, LeaseTable
  <2> QED
    BY <1>1, <2>1 DEF JobsInv, LeaseTable
<1>6. (RequestsTrackCalls /\ EvidenceIsOnChain)'
  BY DEF JobsInv, RequestsTrackCalls, EvidenceIsOnChain
<1> QED
  BY <1>2, <1>3, <1>4, <1>5, <1>6 DEF JobsInv

\* A step of a call that leaves jobs and runs alone: it goes on, and its request
\* and the chain with it.
LEMMA CallKeepsInv ==
  ASSUME JobsInv, NEW c \in CallIds, NEW pc,
         calls' = [calls EXCEPT ![c].pc = pc],
         [calls[c] EXCEPT !.pc = pc] \in Call,
         calls[c].pc # "none" /\ pc # "none",
         pc \in Checked => /\ runs[calls[c].run].status # "none"
                           /\ runs[calls[c].run].job = calls[c].job,
         UNCHANGED <<jobs, runs, heartbeats>>,
         RequestsTrackCalls',
         requests' \in [CallIds -> RequestStatus], onchain \subseteq onchain', onchain' \subseteq CallIds,
         \A d \in CallIds : /\ requests[d] = "submitted" => requests'[d] = "submitted"
                            /\ d \in onchain' => requests'[d] # "none"
                            /\ requests'[d] = "submitted" => d \in onchain'
  PROVE  JobsInv'
<1> JobsTypeOK
  BY DEF JobsInv
<1>1. /\ calls' \in [CallIds -> Call]
      /\ \A d \in CallIds \ {c} : calls'[d] = calls[d]
      /\ \A d \in CallIds : calls'[d].job = calls[d].job /\ calls'[d].run = calls[d].run
      /\ calls'[c].pc = pc
  BY DEF JobsTypeOK, Call
<1>2. JobsTypeOK'
  BY <1>1 DEF JobsTypeOK
<1>3. (RunsHaveJobs /\ LeaseTable)'
  BY DEF JobsInv, RunsHaveJobs, LeaseTable
<1>4. CallsHoldRuns'
  BY <1>1 DEF JobsInv, CallsHoldRuns
<1>5. EvidenceIsOnChain'
  <2>1. \A j \in JobIds : jobs[j].status = "completed" =>
          jobs[j].replication \in onchain /\ jobs[j].replication \in CallIds
    BY DEF JobsInv, EvidenceIsOnChain, JobsTypeOK
  <2> QED
    BY <1>1, <2>1 DEF JobsInv, EvidenceIsOnChain
<1> QED
  BY <1>2, <1>3, <1>4, <1>5 DEF JobsInv

\* completeReplicationJob and failReplicationJob end the job and the run the call
\* checked, and no lease of another job.
LEMMA EndKeepsInv ==
  ASSUME JobsInv, NEW c \in CallIds, NEW pc \in {"completed", "done"}, NEW i \in JobIds,
         NEW st \in {"completed", "failed"},
         i = calls[c].job, calls[c].pc \in Checked,
         jobs' \in [JobIds -> Job],
         \A k \in JobIds \ {i} : jobs'[k] = jobs[k],
         jobs'[i].status = st,
         st = "completed" => calls[c].pc = "marked" /\ jobs'[i].replication = c,
         pc = "completed" => calls[c].pc = "marked",
         runs' = [runs EXCEPT ![calls[c].run].status = st],
         calls' = [calls EXCEPT ![c].pc = pc],
         UNCHANGED <<requests, onchain, heartbeats>>
  PROVE  JobsInv'
<1> DEFINE r == calls[c].run
<1> JobsTypeOK
  BY DEF JobsInv
<1>1. r \in RunIds /\ runs[r].status # "none" /\ runs[r].job = i
  BY DEF JobsInv, CallsHoldRuns, JobsTypeOK, Call, Checked
<1>2. /\ runs' \in [RunIds -> Run]
      /\ \A s \in RunIds \ {r} : runs'[s] = runs[s]
      /\ runs'[r].status = st
      /\ \A s \in RunIds : runs'[s].job = runs[s].job
  BY <1>1 DEF JobsTypeOK, Run
<1> HIDE DEF r
<1>3. /\ calls' \in [CallIds -> Call]
      /\ \A d \in CallIds \ {c} : calls'[d] = calls[d]
      /\ \A d \in CallIds : calls'[d].job = calls[d].job /\ calls'[d].run = calls[d].run
      /\ calls'[c].pc = pc
  BY DEF JobsTypeOK, Call
<1>4. JobsTypeOK'
  BY <1>2, <1>3 DEF JobsTypeOK
<1>5. \A k \in JobIds : jobs[k].status # "none" => jobs'[k].status # "none"
  OBVIOUS
<1>6. \A k \in JobIds : jobs'[k].status = "none" => jobs'[k] = jobs[k]
  OBVIOUS
<1>7. RunsHaveJobs'
  <2>1. \A s \in RunIds : runs'[s].status # "none" =>
          runs[s].job # 0 /\ runs[s].job \in JobIds /\ jobs[runs[s].job].status # "none"
    BY <1>1, <1>2 DEF JobsInv, RunsHaveJobs, JobsTypeOK, Run
  <2> QED
    BY <1>2, <1>5, <1>6, <2>1 DEF JobsInv, RunsHaveJobs
<1>8. CallsHoldRuns'
  <2>1. \A d \in CallIds : calls'[d].pc # "none" =>
          /\ calls[d].run # 0 /\ calls[d].job # 0 /\ calls[d].job \in JobIds
          /\ jobs[calls[d].job].status # "none"
    BY <1>3 DEF JobsInv, CallsHoldRuns, JobsTypeOK, Call, Checked
  <2>2. \A d \in CallIds : calls'[d].pc \in Checked =>
          /\ calls[d].run \in RunIds /\ runs[calls[d].run].status # "none"
          /\ runs[calls[d].run].job = calls[d].job
    BY <1>3 DEF JobsInv, CallsHoldRuns, JobsTypeOK, Call, Checked
  <2>3. \A s \in RunIds : runs[s].status # "none" => runs'[s].status # "none"
    BY <1>2
  <2> QED
    BY <1>2, <1>3, <1>5, <2>1, <2>2, <2>3 DEF CallsHoldRuns
<1>9. LeaseTable'
  <2>1. \A s \in RunIds : runs'[s].status = "running" =>
          s # r /\ runs'[s] = runs[s] /\ runs[s].job \in JobIds
    BY <1>2 DEF JobsInv, RunsHaveJobs, JobsTypeOK, Run
  <2>2. \A k \in JobIds : jobs'[k].status = "assigned" => k # i /\ jobs'[k] = jobs[k]
    OBVIOUS
  <2>3. \A k \in JobIds : jobs'[k].status = "assigned" =>
          \E s \in RunIds : runs'[s].status = "running" /\ runs'[s].job = k
    <3> SUFFICES ASSUME NEW k \in JobIds, jobs'[k].status = "assigned"
                 PROVE  \E s \in RunIds : runs'[s].status = "running" /\ runs'[s].job = k
      OBVIOUS
    <3>1. PICK s \in RunIds : runs[s].status = "running" /\ runs[s].job = k
      BY <2>2 DEF JobsInv, LeaseTable
    <3>2. s # r
      BY <1>1, <2>2, <3>1
    <3> QED
      BY <1>2, <3>1, <3>2
  <2>4. \A s \in RunIds : runs'[s].status = "running" =>
          /\ jobs'[runs'[s].job].status \in {"assigned", "completed", "failed"}
          /\ jobs'[runs'[s].job].status = "assigned" => runs'[s].holder = jobs'[runs'[s].job].assigned
    BY <2>1, <2>2 DEF JobsInv, LeaseTable
  <2>5. \A s, t \in RunIds :
          runs'[s].status = "running" /\ runs'[t].status = "running" /\ runs'[s].job = runs'[t].job
            /\ jobs'[runs'[s].job].status = "assigned" => s = t
    BY <2>1, <2>2 DEF JobsInv, LeaseTable
  <2> QED
    BY <2>3, <2>4, <2>5 DEF LeaseTable
<1>10. RequestsTrackCalls'
  BY <1>3 DEF JobsInv, RequestsTrackCalls
<1>11. EvidenceIsOnChain'
  <2>1. st = "completed" => c \in onchain /\ requests[c] = "submitted"
    BY DEF JobsInv, RequestsTrackCalls, EvidenceIsOnChain
  <2>2. \A k \in JobIds : jobs'[k].status = "completed" =>
          /\ jobs'[k].replication \in onchain
          /\ jobs'[k].replication \in CallIds
          /\ calls[jobs'[k].replication].job = k
          /\ requests[jobs'[k].replication] = "submitted"
    BY <2>1 DEF JobsInv, EvidenceIsOnChain, JobsTypeOK
  <2> QED
    BY <1>3, <2>2 DEF JobsInv, EvidenceIsOnChain
<1> QED
  BY <1>4, <1>7, <1>8, <1>9, <1>10, <1>11 DEF JobsInv

\* The operations of the two executors keep the invariant.
LEMMA CallStepKeepsInv ==
  ASSUME JobsInv, NEW c \in CallIds, CallStep(c) \/ Crash(c)
  PROVE  JobsInv'
<1> JobsTypeOK
  BY DEF JobsInv
<1>1. ASSUME calls[c].pc \in Checked
      PROVE  runs[calls[c].run].status # "none" /\ runs[calls[c].run].job = calls[c].job
  BY <1>1 DEF JobsInv, CallsHoldRuns
<1>2. \A pc \in {"checked", "requested", "submitted", "marked", "completed", "failing", "done", "crashed"} :
        [calls[c] EXCEPT !.pc = pc] \in Call
  BY DEF JobsTypeOK, Call
<1>3. \A d \in CallIds : /\ d \in onchain => requests[d] # "none"
                         /\ requests[d] = "submitted" => d \in onchain
  BY DEF JobsInv, EvidenceIsOnChain
<1>4. onchain \subseteq CallIds /\ requests \in [CallIds -> RequestStatus]
  BY DEF JobsTypeOK
<1>5. CASE CheckRun(c)
  <2>1. PICK pc \in {"checked", "done"} :
          /\ calls' = [calls EXCEPT ![c].pc = pc]
          /\ pc = "checked" => /\ runs[calls[c].run].status = "running"
                               /\ runs[calls[c].run].job = calls[c].job
    BY <1>5 DEF CheckRun, Goto
  <2>2. calls[c].pc = "read" /\ UNCHANGED <<jobs, runs, requests, onchain, heartbeats>>
    BY <1>5 DEF CheckRun
  <2>3. RequestsTrackCalls'
    BY <2>1, <2>2 DEF JobsInv, RequestsTrackCalls, JobsTypeOK, Call
  <2> QED
    BY <1>2, <1>3, <1>4, <2>1, <2>2, <2>3, CallKeepsInv DEF Checked
<1>6. CASE InsertOperatorRequest(c)
  <2>1. /\ calls[c].pc = "checked" /\ calls' = [calls EXCEPT ![c].pc = "requested"]
        /\ requests' = [requests EXCEPT ![c] = "prepared"]
        /\ UNCHANGED <<jobs, runs, onchain, heartbeats>>
    BY <1>6 DEF InsertOperatorRequest, Goto
  <2>2. requests[c] = "none"
    BY <2>1 DEF JobsInv, RequestsTrackCalls
  <2>3. RequestsTrackCalls' /\ requests' \in [CallIds -> RequestStatus]
    BY <2>1 DEF JobsInv, RequestsTrackCalls, JobsTypeOK, Call, RequestStatus
  <2> QED
    BY <1>1, <1>2, <1>3, <1>4, <2>1, <2>2, <2>3, CallKeepsInv DEF Checked
<1>7. CASE SubmitOnchainReplication(c)
  <2>1. /\ calls[c].pc = "requested" /\ calls' = [calls EXCEPT ![c].pc = "submitted"]
        /\ onchain' = onchain \cup {c}
        /\ UNCHANGED <<jobs, runs, requests, heartbeats>>
    BY <1>7 DEF SubmitOnchainReplication, Goto
  <2>2. requests[c] = "prepared"
    BY <2>1 DEF JobsInv, RequestsTrackCalls
  <2>3. RequestsTrackCalls'
    BY <2>1 DEF JobsInv, RequestsTrackCalls, JobsTypeOK, Call
  <2> QED
    BY <1>1, <1>2, <1>3, <1>4, <2>1, <2>2, <2>3, CallKeepsInv DEF Checked
<1>8. CASE MarkOperatorRequestSubmitted(c)
  <2>1. /\ calls[c].pc = "submitted" /\ calls' = [calls EXCEPT ![c].pc = "marked"]
        /\ requests' = [requests EXCEPT ![c] = "submitted"]
        /\ UNCHANGED <<jobs, runs, onchain, heartbeats>>
    BY <1>8 DEF MarkOperatorRequestSubmitted, Goto
  <2>2. c \in onchain
    BY <2>1 DEF JobsInv, RequestsTrackCalls
  <2>3. RequestsTrackCalls' /\ requests' \in [CallIds -> RequestStatus]
    BY <2>1 DEF JobsInv, RequestsTrackCalls, JobsTypeOK, Call, RequestStatus
  <2> QED
    BY <1>1, <1>2, <1>3, <1>4, <2>1, <2>2, <2>3, CallKeepsInv DEF Checked
<1>9. CASE RecordAgentRequest(c) \/ ThrowEarly(c) \/ ThrowLate(c) \/ Crash(c)
  <2>1. PICK pc \in {"failing", "done", "crashed"} : calls' = [calls EXCEPT ![c].pc = pc]
    BY <1>9 DEF RecordAgentRequest, ThrowEarly, ThrowLate, Crash, Goto
  <2>2. /\ calls[c].pc # "none" /\ (pc = "failing" => calls[c].pc \in Checked)
        /\ UNCHANGED <<jobs, runs, requests, onchain, heartbeats>>
    BY <1>9, <2>1 DEF RecordAgentRequest, ThrowEarly, ThrowLate, Crash, Goto, InProgress, Checked,
                      JobsTypeOK, Call
  <2>3. RequestsTrackCalls'
    BY <2>1, <2>2 DEF JobsInv, RequestsTrackCalls, JobsTypeOK, Call
  <2> QED
    BY <1>1, <1>2, <1>3, <1>4, <2>1, <2>2, <2>3, CallKeepsInv DEF Checked
<1>10. CASE ThrowSubmitting(c)
  <2>1. /\ calls[c].pc \in {"requested", "submitted"}
        /\ calls' = [calls EXCEPT ![c].pc = "failing"]
        /\ onchain' \in {onchain, onchain \cup {c}}
        /\ requests' \in {requests, [requests EXCEPT ![c] = "failed"]}
        /\ UNCHANGED <<jobs, runs, heartbeats>>
    BY <1>10 DEF ThrowSubmitting, Goto
  <2>2. requests[c] = "prepared"
    BY <2>1 DEF JobsInv, RequestsTrackCalls
  <2>3. /\ requests' \in [CallIds -> RequestStatus]
        /\ \A d \in CallIds \ {c} : requests'[d] = requests[d]
        /\ requests'[c] \in {"prepared", "failed"}
    BY <2>1, <2>2, <1>4 DEF RequestStatus
  <2>4. RequestsTrackCalls'
    BY <2>1, <2>3 DEF JobsInv, RequestsTrackCalls, JobsTypeOK, Call
  <2>5. /\ calls[c].pc \in Checked /\ calls[c].pc # "none"
        /\ [calls[c] EXCEPT !.pc = "failing"] \in Call
    BY <1>2, <2>1 DEF Checked
  <2>6. onchain \subseteq onchain' /\ onchain' \subseteq CallIds
    BY <1>4, <2>1
  <2>7. \A d \in CallIds : /\ requests[d] = "submitted" => requests'[d] = "submitted"
                           /\ d \in onchain' => requests'[d] # "none"
                           /\ requests'[d] = "submitted" => d \in onchain'
    <3> SUFFICES ASSUME NEW d \in CallIds
                 PROVE  /\ requests[d] = "submitted" => requests'[d] = "submitted"
                        /\ d \in onchain' => requests'[d] # "none"
                        /\ requests'[d] = "submitted" => d \in onchain'
      OBVIOUS
    <3>1. CASE d = c
      BY <2>2, <2>3, <3>1
    <3>2. CASE d # c
      BY <1>3, <2>1, <2>3, <3>2
    <3> QED
      BY <3>1, <3>2
  <2>8. /\ runs[calls[c].run].status # "none"
        /\ runs[calls[c].run].job = calls[c].job
    BY <1>1, <2>5
  <2> QED
    BY <2>1, <2>3, <2>4, <2>5, <2>6, <2>7, <2>8, CallKeepsInv
<1>11. ASSUME calls[c].pc \in Checked
       PROVE  calls[c].job \in JobIds
  BY <1>11, SMTT(60) DEF JobsInv, CallsHoldRuns, JobsTypeOK, Call, Checked
<1>12. CASE Complete(c)
  <2> DEFINE i == calls[c].job
  <2>1. calls[c].pc = "marked" /\ i \in JobIds
    BY <1>11, <1>12 DEF Complete, Checked
  <2>2. /\ jobs' = [jobs EXCEPT ![i].status = "completed", ![i].replication = c]
        /\ runs' = [runs EXCEPT ![calls[c].run].status = "completed"]
        /\ UNCHANGED <<requests, onchain, heartbeats>>
    BY <1>12 DEF Complete, CompleteReplicationJob
  <2>3. PICK pc \in {"completed", "done"} : calls' = [calls EXCEPT ![c].pc = pc]
    BY <1>12 DEF Complete, Goto
  <2> DEFINE row == [jobs[i] EXCEPT !.status = "completed", !.replication = c]
  <2>4. row \in Job /\ row.status = "completed" /\ row.replication = c
    <3>1. jobs[i] \in Job
      BY <2>1 DEF JobsTypeOK
    <3>2. c \in CallIds
      OBVIOUS
    <3> HIDE DEF i
    <3> QED
      BY <3>1, <3>2 DEF Job
  <2>5. jobs' = [jobs EXCEPT ![i] = row]
    BY <2>1, <2>2 DEF JobsTypeOK
  <2> HIDE DEF i, row
  <2>6. /\ jobs' \in [JobIds -> Job]
        /\ \A k \in JobIds \ {i} : jobs'[k] = jobs[k]
        /\ jobs'[i].status = "completed" /\ jobs'[i].replication = c
    BY <2>1, <2>4, <2>5 DEF JobsTypeOK
  <2>7. i = calls[c].job
    BY DEF i
  <2> QED
    BY <2>1, <2>2, <2>3, <2>6, <2>7, EndKeepsInv DEF Checked
<1>13. CASE Fail(c)
  <2> DEFINE i == calls[c].job
  <2>1. calls[c].pc = "failing" /\ i \in JobIds
    BY <1>11, <1>13 DEF Fail, Checked
  <2>2. /\ jobs' = [jobs EXCEPT ![i].status = "failed"]
        /\ runs' = [runs EXCEPT ![calls[c].run].status = "failed"]
        /\ calls' = [calls EXCEPT ![c].pc = "done"]
        /\ UNCHANGED <<requests, onchain, heartbeats>>
    BY <1>13 DEF Fail, FailReplicationJob, Goto
  <2>3. /\ jobs' \in [JobIds -> Job]
        /\ \A k \in JobIds \ {i} : jobs'[k] = jobs[k]
        /\ jobs'[i].status = "failed"
    BY <2>1, <2>2 DEF JobsTypeOK, Job
  <2> QED
    BY <2>1, <2>2, <2>3, EndKeepsInv DEF Checked
<1> QED
  BY <1>5, <1>6, <1>7, <1>8, <1>9, <1>10, <1>12, <1>13 DEF CallStep

\* A submission starts on a job that is its agent's, whichever run it names.
LEMMA StartSubmissionKeepsInv ==
  ASSUME JobsInv, NEW c \in CallIds, NEW agent \in Agents, NEW j \in JobIds, NEW r \in RunIds,
         StartSubmission(c, agent, j, r)
  PROVE  JobsInv'
<1> JobsTypeOK
  BY DEF JobsInv
<1>1. /\ calls[c].pc = "none" /\ jobs[j].assigned = agent
      /\ calls' = [calls EXCEPT ![c] = [pc |-> "read", who |-> agent, job |-> j, run |-> r]]
      /\ UNCHANGED <<jobs, runs, requests, onchain, heartbeats>>
  BY DEF StartSubmission, NextCall
<1>2. /\ calls' \in [CallIds -> Call]
      /\ \A d \in CallIds \ {c} : calls'[d] = calls[d]
      /\ calls'[c] = [pc |-> "read", who |-> agent, job |-> j, run |-> r]
  BY <1>1 DEF JobsTypeOK, Call, Holders
<1>3. JobsTypeOK'
  BY <1>1, <1>2 DEF JobsTypeOK
<1>4. jobs[j].status # "none" /\ j # 0 /\ r # 0
  BY <1>1, JobsAssumption DEF JobsInv, RunsHaveJobs, JobIds, RunIds
<1>5. CallsHoldRuns'
  BY <1>1, <1>2, <1>4 DEF JobsInv, CallsHoldRuns, Checked
<1>6. (RunsHaveJobs /\ LeaseTable)'
  BY <1>1 DEF JobsInv, RunsHaveJobs, LeaseTable
<1>7. RequestsTrackCalls'
  BY <1>1, <1>2 DEF JobsInv, RequestsTrackCalls
<1>8. EvidenceIsOnChain'
  <2>1. \A d \in CallIds : requests[d] = "submitted" => d # c
    BY <1>1 DEF JobsInv, RequestsTrackCalls
  <2>2. \A k \in JobIds : jobs[k].status = "completed" =>
          jobs[k].replication \in CallIds /\ calls'[jobs[k].replication] = calls[jobs[k].replication]
    BY <1>2, <2>1 DEF JobsInv, EvidenceIsOnChain, JobsTypeOK
  <2> QED
    BY <1>1, <2>2 DEF JobsInv, EvidenceIsOnChain
<1> QED
  BY <1>3, <1>5, <1>6, <1>7, <1>8 DEF JobsInv

\* No step of the executors or the reaper leaves the invariant.
LEMMA JobsNextKeepsInv == JobsInv /\ [JobsNext]_jobVars => JobsInv'
<1> SUFFICES ASSUME JobsInv, [JobsNext]_jobVars PROVE JobsInv'
  OBVIOUS
<1>1. CASE \E j \in JobIds : CreateReplicationJob(j)
  BY <1>1, CreateKeepsInv
<1>2. CASE \E j \in JobIds, r \in RunIds, agent \in Agents : AgentClaim(agent, j, r)
  BY <1>2, ClaimKeepsInv DEF AgentClaim, Holders
<1>3. CASE \E j \in JobIds, r \in RunIds, c \in CallIds, w \in Workers : StartWorker(c, w, j, r)
  BY <1>3, ClaimKeepsInv DEF StartWorker, NextCall, Holders
<1>4. CASE \E j \in JobIds, r \in RunIds, c \in CallIds, agent \in Agents :
             StartSubmission(c, agent, j, r)
  BY <1>4, StartSubmissionKeepsInv
<1>5. CASE \E r \in RunIds, agent \in Agents : HeartbeatReplicationJobRun(agent, r)
  <2>1. heartbeats + 1 \in 0 .. MaxHeartbeats \/ ~(heartbeats < MaxHeartbeats)
    BY JobsAssumption DEF JobsInv, JobsTypeOK
  <2> QED
    BY <1>5, <2>1, StalenessKeepsInv DEF HeartbeatReplicationJobRun
<1>6. CASE \E r \in RunIds : GoStale(r)
  BY <1>6, StalenessKeepsInv DEF GoStale, JobsInv, JobsTypeOK
<1>7. CASE \E r \in RunIds : ExpireStaleReplicationJobRun(r)
  BY <1>7, ExpireKeepsInv
<1>8. CASE \E c \in CallIds : CallStep(c) \/ Crash(c)
  BY <1>8, CallStepKeepsInv
<1>9. CASE UNCHANGED jobVars
  BY <1>9 DEF JobsInv, JobsTypeOK, RunsHaveJobs, CallsHoldRuns, LeaseTable, RequestsTrackCalls,
              EvidenceIsOnChain, jobVars
<1> QED
  BY <1>1, <1>2, <1>3, <1>4, <1>5, <1>6, <1>7, <1>8, <1>9 DEF JobsNext

\* The invariant holds in every state of the job tables.
THEOREM JobsInvariant == JobsSpec => []JobsInv
<1>1. JobsInit => JobsInv
  BY JobsInitInv
<1>2. JobsInv /\ [JobsNext]_jobVars => JobsInv'
  BY JobsNextKeepsInv
<1> QED
  BY <1>1, <1>2, PTL DEF JobsSpec

\* The job tables are type correct.
THEOREM JobsTypeCorrect == JobsSpec => []JobsTypeOK
<1>1. JobsInv => JobsTypeOK
  BY DEF JobsInv
<1> QED
  BY <1>1, JobsInvariant, PTL

\* A job that is out has one lease, its holder's, though the calls of expired
\* leases go on completing and failing jobs and runs.
THEOREM JobsHaveOneLease == JobsSpec => []OneLeasePerJob
<1>1. JobsInv => OneLeasePerJob
  BY LeaseTableIsOneLease DEF JobsInv
<1> QED
  BY <1>1, JobsInvariant, PTL

\* A completed job points at a replication that is on chain and was announced by
\* an operator request, wherever a call fails or crashes.
THEOREM CompletedJobsHaveEvidence == JobsSpec => []EvidenceIsOnChain
<1>1. JobsInv => EvidenceIsOnChain
  BY DEF JobsInv
<1> QED
  BY <1>1, JobsInvariant, PTL

(***************************************************************************)
(* The tables are a queue of leased work: WorkLease, by the phase and the  *)
(* lease of a job and the runs ever inserted.                              *)
(***************************************************************************)

\* The lease of a job is its live run, before a step and after it.
LEMMA LeaseIsLiveRun ==
  ASSUME JobsInv, NEW j \in JobIds, NEW r \in RunIds,
         jobs[j].status = "assigned", runs[r].status = "running", runs[r].job = j
  PROVE  LeaseOf(j) = r
<1>1. \A s \in RunIds : runs[s].status = "running" /\ runs[s].job = j => s = r
  BY DEF JobsInv, LeaseTable
<1> QED
  BY <1>1 DEF LeaseOf

LEMMA NextLeaseIsLiveRun ==
  ASSUME JobsInv', NEW j \in JobIds, NEW r \in RunIds,
         jobs'[j].status = "assigned", runs'[r].status = "running", runs'[r].job = j
  PROVE  LeaseOf(j)' = r
<1>1. \A s \in RunIds : runs'[s].status = "running" /\ runs'[s].job = j => s = r
  BY DEF JobsInv, LeaseTable
<1> QED
  BY <1>1 DEF LeaseOf

\* It stands while the job is out and the run goes on.
LEMMA LeaseStays ==
  ASSUME JobsInv, JobsInv', NEW j \in JobIds, jobs'[j].status = jobs[j].status,
         \A r \in RunIds : runs[r].status = "running" /\ runs[r].job = j =>
           runs'[r].status = "running" /\ runs'[r].job = j
  PROVE  Phase(j)' = Phase(j) /\ LeaseOf(j)' = LeaseOf(j)
<1>1. Phase(j)' = Phase(j)
  BY DEF Phase
<1>2. CASE jobs[j].status = "assigned"
  <2>1. PICK r \in RunIds : runs[r].status = "running" /\ runs[r].job = j
    BY <1>2 DEF JobsInv, LeaseTable
  <2>2. LeaseOf(j) = r
    BY <1>2, <2>1, LeaseIsLiveRun
  <2>3. jobs'[j].status = "assigned" /\ runs'[r].status = "running" /\ runs'[r].job = j
    BY <1>2, <2>1
  <2>4. LeaseOf(j)' = r
    BY <2>3, NextLeaseIsLiveRun
  <2> QED
    BY <1>1, <2>2, <2>4
<1>3. CASE jobs[j].status # "assigned"
  BY <1>1, <1>3 DEF LeaseOf
<1> QED
  BY <1>2, <1>3

\* The state of the queue that the tables stand for, after a step that moves job i
\* alone.
LEMMA OneJobMoves ==
  ASSUME NEW i \in JobIds,
         \A k \in JobIds \ {i} : Phase(k)' = Phase(k) /\ LeaseOf(k)' = LeaseOf(k)
  PROVE  /\ [j \in JobIds |-> Phase(j)]' = [[j \in JobIds |-> Phase(j)] EXCEPT ![i] = Phase(i)']
         /\ [j \in JobIds |-> LeaseOf(j)]'
              = [[j \in JobIds |-> LeaseOf(j)] EXCEPT ![i] = LeaseOf(i)']
OBVIOUS

\* A step that moves no job and inserts no run.
LEMMA NoJobMoves ==
  ASSUME \A k \in JobIds : Phase(k)' = Phase(k) /\ LeaseOf(k)' = LeaseOf(k),
         \A r \in RunIds : (runs'[r].status # "none") <=> (runs[r].status # "none")
  PROVE  UNCHANGED Leasing!leaseVars
BY DEF Leasing!leaseVars

\* An insertion of a job offers it.
LEMMA CreateOffers ==
  ASSUME JobsInv, JobsInv', NEW j \in JobIds, CreateReplicationJob(j)
  PROVE  Leasing!Offer(j)
<1> JobsTypeOK
  BY DEF JobsInv
<1>1. /\ jobs[j].status = "none" /\ runs' = runs
      /\ jobs'[j].status = "open" /\ \A k \in JobIds \ {j} : jobs'[k] = jobs[k]
  BY DEF CreateReplicationJob, JobsTypeOK, Job
<1>2. \A k \in JobIds \ {j} : Phase(k)' = Phase(k) /\ LeaseOf(k)' = LeaseOf(k)
  BY <1>1, LeaseStays
<1>3. Phase(j) = "none" /\ Phase(j)' = "open" /\ LeaseOf(j) = 0 /\ LeaseOf(j)' = 0
  BY <1>1 DEF Phase, LeaseOf
<1>4. \A k \in JobIds : LeaseOf(k)' = LeaseOf(k)
  BY <1>2, <1>3
<1> QED
  BY <1>1, <1>2, <1>3, <1>4, OneJobMoves DEF Leasing!Offer

\* A claim gives it out, on a run that was not there.
LEMMA ClaimGives ==
  ASSUME JobsInv, JobsInv', NEW h \in Holders, NEW j \in JobIds, NEW r \in RunIds, Claim(h, j, r)
  PROVE  Leasing!Give(j, r)
<1> JobsTypeOK
  BY DEF JobsInv
<1>1. /\ jobs[j].status = "open" /\ runs[r].status = "none"
      /\ jobs'[j].status = "assigned" /\ \A k \in JobIds \ {j} : jobs'[k] = jobs[k]
      /\ runs'[r].status = "running" /\ runs'[r].job = j
      /\ \A s \in RunIds \ {r} : runs'[s] = runs[s]
  BY DEF Claim, NextRun, JobsTypeOK, Job
<1>2. \A k \in JobIds \ {j} : Phase(k)' = Phase(k) /\ LeaseOf(k)' = LeaseOf(k)
  BY <1>1, LeaseStays
<1>3. LeaseOf(j)' = r
  BY <1>1, NextLeaseIsLiveRun
<1>4. Phase(j) = "open" /\ Phase(j)' = "leased"
  BY <1>1 DEF Phase
<1>5. {s \in RunIds : runs[s].status # "none"}' = {s \in RunIds : runs[s].status # "none"} \cup {r}
  BY <1>1
<1> QED
  BY <1>1, <1>2, <1>3, <1>4, <1>5, OneJobMoves DEF Leasing!Give

\* The reaper takes it back.
LEMMA ExpireTakesBack ==
  ASSUME JobsInv, JobsInv', NEW r \in RunIds, ExpireStaleReplicationJobRun(r)
  PROVE  Leasing!TakeBack(runs[r].job) /\ runs[r].job \in JobIds
<1> JobsTypeOK
  BY DEF JobsInv
<1>0. PICK j : j = runs[r].job
  OBVIOUS
<1>1. /\ runs[r].status = "running" /\ jobs[j].status = "assigned"
      /\ jobs' = [jobs EXCEPT ![j].status = "open", ![j].assigned = Nobody]
      /\ runs' = [runs EXCEPT ![r].status = "failed"]
  BY <1>0 DEF ExpireStaleReplicationJobRun, Leased
<1>2. j \in JobIds
  BY <1>0, <1>1 DEF JobsInv, RunsHaveJobs, JobsTypeOK, Run
<1>3. jobs'[j].status = "open" /\ \A k \in JobIds \ {j} : jobs'[k] = jobs[k]
  BY <1>1, <1>2, ZenonT(60) DEF JobsTypeOK, Job
<1>4. runs'[r].status = "failed" /\ \A s \in RunIds \ {r} : runs'[s] = runs[s]
  BY <1>1 DEF JobsTypeOK, Run
<1>5. \A k \in JobIds \ {j} : Phase(k)' = Phase(k) /\ LeaseOf(k)' = LeaseOf(k)
  BY <1>0, <1>3, <1>4, LeaseStays
<1>6. Phase(j) = "leased" /\ Phase(j)' = "open" /\ LeaseOf(j)' = 0
  BY <1>1, <1>3 DEF Phase, LeaseOf
<1>7. {s \in RunIds : runs[s].status # "none"}' = {s \in RunIds : runs[s].status # "none"}
  BY <1>1, <1>4
<1> QED
  BY <1>0, <1>2, <1>5, <1>6, <1>7, OneJobMoves DEF Leasing!TakeBack

\* completeReplicationJob and failReplicationJob end the job, whoever has it by then,
\* or find it ended.
LEMMA ReportEnds ==
  ASSUME JobsInv, JobsInv', NEW c \in CallIds, calls[c].pc \in Checked,
         CompleteReplicationJob(c) \/ FailReplicationJob(c)
  PROVE  \E j \in JobIds : Leasing!End(j) \/ UNCHANGED Leasing!leaseVars
<1> JobsTypeOK
  BY DEF JobsInv
<1>0. PICK j, r : j = calls[c].job /\ r = calls[c].run
  OBVIOUS
<1>1. /\ j \in JobIds /\ r \in RunIds /\ jobs[j].status # "none"
      /\ runs[r].status # "none" /\ runs[r].job = j
  BY <1>0 DEF JobsInv, CallsHoldRuns, JobsTypeOK, Call, Checked
<1>2. PICK st \in {"completed", "failed"} :
        /\ jobs' = [jobs EXCEPT ![j].status = st, ![j].replication = c]
             \/ jobs' = [jobs EXCEPT ![j].status = st]
        /\ runs' = [runs EXCEPT ![r].status = st]
  BY <1>0 DEF CompleteReplicationJob, FailReplicationJob
<1>3. jobs'[j].status = st /\ \A k \in JobIds \ {j} : jobs'[k] = jobs[k]
  <2>1. PICK row : jobs' = [jobs EXCEPT ![j] = row] /\ row.status = st
    <3>1. jobs[j] \in Job /\ jobs = [k \in JobIds |-> jobs[k]]
      BY <1>1 DEF JobsTypeOK
    <3>2. [jobs[j] EXCEPT !.status = st].status = st
      BY <3>1 DEF Job
    <3>3. [jobs[j] EXCEPT !.status = st, !.replication = c].status = st
      BY <3>1 DEF Job
    <3> QED
      BY <1>2, <3>1, <3>2, <3>3
  <2> QED
    BY <1>1, <2>1 DEF JobsTypeOK
<1>4. runs'[r].status = st /\ \A s \in RunIds \ {r} : runs'[s] = runs[s]
  BY <1>1, <1>2 DEF JobsTypeOK, Run
<1>5. \A k \in JobIds \ {j} : Phase(k)' = Phase(k) /\ LeaseOf(k)' = LeaseOf(k)
  BY <1>1, <1>3, <1>4, LeaseStays
<1>6. Phase(j)' = "ended" /\ LeaseOf(j)' = 0
  BY <1>3 DEF Phase, LeaseOf
<1>7. \A s \in RunIds : (runs'[s].status # "none") <=> (runs[s].status # "none")
  BY <1>1, <1>4
<1>8. CASE jobs[j].status \in {"open", "assigned"}
  <2>1. Phase(j) \in {"open", "leased"}
    BY <1>8 DEF Phase
  <2>2. {s \in RunIds : runs[s].status # "none"}' = {s \in RunIds : runs[s].status # "none"}
    BY <1>7
  <2> QED
    BY <1>1, <1>5, <1>6, <2>1, <2>2, OneJobMoves DEF Leasing!End
<1>9. CASE jobs[j].status \notin {"open", "assigned"}
  <2>1. Phase(j) = "ended" /\ LeaseOf(j) = 0
    BY <1>1, <1>9 DEF Phase, LeaseOf
  <2>2. \A k \in JobIds : Phase(k)' = Phase(k) /\ LeaseOf(k)' = LeaseOf(k)
    BY <1>5, <1>6, <2>1
  <2> QED
    BY <1>1, <1>7, <2>2, NoJobMoves
<1> QED
  BY <1>8, <1>9

\* The steps that leave the jobs, and of the runs all but their staleness, alone.
LEMMA OthersStutter ==
  ASSUME JobsInv, JobsInv', jobs' = jobs,
         \A r \in RunIds : runs'[r].status = runs[r].status /\ runs'[r].job = runs[r].job
  PROVE  UNCHANGED Leasing!leaseVars
<1>1. \A k \in JobIds : Phase(k)' = Phase(k) /\ LeaseOf(k)' = LeaseOf(k)
  BY LeaseStays
<1> QED
  BY <1>1, NoJobMoves

\* Every step of the executors and the reaper is one of the queue, or none.
LEMMA JobsNextIsLeaseNext ==
  JobsInv /\ JobsInv' /\ [JobsNext]_jobVars => [Leasing!LeaseNext]_Leasing!leaseVars
<1> SUFFICES ASSUME JobsInv, JobsInv', [JobsNext]_jobVars
             PROVE  Leasing!LeaseNext \/ UNCHANGED Leasing!leaseVars
  OBVIOUS
<1> JobsTypeOK
  BY DEF JobsInv
<1>1. CASE \E j \in JobIds : CreateReplicationJob(j)
  BY <1>1, CreateOffers DEF Leasing!LeaseNext
<1>2. CASE \E h \in Holders, j \in JobIds, r \in RunIds : Claim(h, j, r)
  BY <1>2, ClaimGives DEF Leasing!LeaseNext
<1>3. CASE \E r \in RunIds : ExpireStaleReplicationJobRun(r)
  BY <1>3, ExpireTakesBack DEF Leasing!LeaseNext
<1>4. CASE \E c \in CallIds : Complete(c) \/ Fail(c)
  BY <1>4, ReportEnds DEF Leasing!LeaseNext, Complete, Fail, Checked
<1>5. CASE \E r \in RunIds : GoStale(r)
           \/ \E agent \in Agents : HeartbeatReplicationJobRun(agent, r)
  <2>1. PICK r \in RunIds, b \in BOOLEAN : jobs' = jobs /\ runs' = [runs EXCEPT ![r].stale = b]
    BY <1>5 DEF GoStale, HeartbeatReplicationJobRun
  <2>2. \A s \in RunIds : runs'[s].status = runs[s].status /\ runs'[s].job = runs[s].job
    BY <2>1 DEF JobsTypeOK, Run
  <2> QED
    BY <2>1, <2>2, OthersStutter
<1>6. CASE UNCHANGED <<jobs, runs>>
  BY <1>6, OthersStutter
<1> QED
  BY <1>1, <1>2, <1>3, <1>4, <1>5, <1>6
  DEF JobsNext, AgentClaim, StartWorker, StartSubmission, CallStep, CheckRun,
      InsertOperatorRequest, SubmitOnchainReplication, MarkOperatorRequestSubmitted,
      RecordAgentRequest, ThrowEarly, ThrowSubmitting, ThrowLate, Crash, Holders, jobVars

\* Whatever calls of expired leases complete and fail, the tables are a queue of
\* leased work: one lease at a time, no run twice, and what ended stays ended.
THEOREM JobsImplementLeases == JobsSpec => LeaseSpec
<1>1. JobsInit => Leasing!LeaseInit
  <2> SUFFICES ASSUME JobsInit
               PROVE  Leasing!LeaseInit
    OBVIOUS
  <2>1. \A j \in JobIds : Phase(j) = "none" /\ LeaseOf(j) = 0
    BY DEF JobsInit, Phase, LeaseOf
  <2>2. {r \in RunIds : runs[r].status # "none"} = {}
    BY DEF JobsInit
  <2> QED
    BY <2>1, <2>2 DEF Leasing!LeaseInit
<1>2. JobsInv /\ JobsInv' /\ [JobsNext]_jobVars => [Leasing!LeaseNext]_Leasing!leaseVars
  BY JobsNextIsLeaseNext
<1> QED
  BY <1>1, <1>2, JobsInvariant, PTL DEF JobsSpec, LeaseSpec, Leasing!LeaseSpec

-----------------------------------------------------------------------------
(***************************************************************************)
(* ReviewTasks.  A submission takes the place of the run it was made on,   *)
(* so that what a task has of both never grows but by a claim that saw a   *)
(* place free, all of it under the lock of the task's row.                 *)
(***************************************************************************)
ReviewRun ==
  [status : {"none", "running", "failed", "completed"}, task : ReviewTaskIds \cup {0},
   agent : Reviewers \cup {NoReviewer}, stale : BOOLEAN]
ReviewCall ==
  [pc : {"idle", "recording", "failing"}, task : ReviewTaskIds \cup {0},
   run : ReviewRunIds \cup {0}, agent : Reviewers \cup {NoReviewer}, worker : BOOLEAN]

ReviewTypes ==
  /\ reviewTasks \in [ReviewTaskIds ->
       {NoTask} \cup [status : {"open", "completed"}, policy : ReviewPolicies]]
  /\ reviewRuns \in [ReviewRunIds -> ReviewRun]
  /\ reviewSubmissions \subseteq [run : ReviewRunIds, agent : Reviewers \cup {NoReviewer}]
  /\ IsFiniteSet(reviewSubmissions)
  /\ reviewCalls \in [ReviewCallIds -> ReviewCall]

\* A run that was given is of a task that was created.
RunsHaveTasks ==
  /\ \A r \in ReviewRunIds : reviewRuns[r].status # "none" =>
       reviewRuns[r].task # 0 /\ reviewTasks[reviewRuns[r].task] # NoTask
  /\ \A r \in ReviewRunIds : reviewRuns[r].status = "none" => reviewRuns[r] = NoRun

\* A call has a run that was given.
CallsHaveReviews ==
  \A c \in ReviewCallIds : reviewCalls[c].pc # "idle" =>
    reviewCalls[c].run # 0 /\ reviewRuns[reviewCalls[c].run].status # "none"

\* A submission ended its run, which has no other.
RunsSubmitOnce ==
  /\ \A s \in reviewSubmissions : reviewRuns[s.run].status \in {"completed", "failed"}
  /\ \A s, u \in reviewSubmissions : s.run = u.run => s = u
  /\ \A r \in ReviewRunIds : reviewRuns[r].status = "completed" =>
       \E s \in reviewSubmissions : s.run = r

\* Who submitted, and how many places are taken.
TaskInv(t) ==
  LET policy == reviewTasks[t].policy
  IN /\ Cardinality(Submissions(t)) + Cardinality(RunningRuns(t)) <= policy.max
     /\ reviewTasks[t].status = "completed" <=> Cardinality(Submissions(t)) >= policy.min
     /\ \A s, u \in Submissions(t) :
          s # u /\ policy.distinct /\ s.agent # NoReviewer => s.agent # u.agent

ReviewInv ==
  /\ ReviewTypes /\ RunsHaveTasks /\ CallsHaveReviews /\ RunsSubmitOnce
  /\ \A t \in ReviewTaskIds : reviewTasks[t] # NoTask => TaskInv(t)

\* What is counted is finite.
LEMMA PlacesAreFinite ==
  ASSUME ReviewTypes, NEW t
  PROVE  /\ IsFiniteSet(Submissions(t)) /\ IsFiniteSet(RunningRuns(t))
         /\ Cardinality(Submissions(t)) \in Nat /\ Cardinality(RunningRuns(t)) \in Nat
<1>1. 1 \in Int /\ MaxReviewRuns \in Int
  BY ReviewAssumption
<1>2. IsFiniteSet(ReviewRunIds)
  BY <1>1, FS_Interval DEF ReviewRunIds
<1>3. Submissions(t) \in SUBSET reviewSubmissions /\ RunningRuns(t) \in SUBSET ReviewRunIds
  BY DEF Submissions, RunningRuns
<1>4. IsFiniteSet(reviewSubmissions)
  BY DEF ReviewTypes
<1>5. IsFiniteSet(Submissions(t)) /\ IsFiniteSet(RunningRuns(t))
  BY <1>2, <1>3, <1>4, FS_Subset
<1> QED
  BY <1>5, FS_CardinalityType

\* A task whose runs end, or stay as they are, without a submission.
LEMMA PlacesComeFree ==
  ASSUME ReviewTypes, ReviewTypes', NEW t \in ReviewTaskIds, TaskInv(t),
         reviewTasks[t] # NoTask, reviewTasks'[t] = reviewTasks[t],
         Submissions(t)' = Submissions(t), RunningRuns(t)' \subseteq RunningRuns(t)
  PROVE  TaskInv(t)'
<1> DEFINE before == RunningRuns(t)
           after == RunningRuns(t)'
<1>1. /\ IsFiniteSet(before) /\ after \in SUBSET before
      /\ Cardinality(before) \in Nat /\ Cardinality(Submissions(t)) \in Nat
  BY PlacesAreFinite
<1>2. reviewTasks[t].policy.max \in Nat
  BY ReviewAssumption DEF ReviewTypes, ConsensusPolicy
<1> HIDE DEF before, after
<1>3. Cardinality(after) <= Cardinality(before) /\ IsFiniteSet(after)
  BY <1>1, FS_Subset
<1>4. Cardinality(after) \in Nat
  BY <1>3, FS_CardinalityType
<1>5. Cardinality(Submissions(t)) + Cardinality(after) <= reviewTasks[t].policy.max
  BY <1>1, <1>2, <1>3, <1>4 DEF TaskInv, before
<1> QED
  BY <1>5 DEF TaskInv, after

\* The calls of a step keep their runs, or end.
CallsKeepRuns ==
  /\ reviewCalls' \in [ReviewCallIds -> ReviewCall]
  /\ \A c \in ReviewCallIds : reviewCalls'[c].pc # "idle" =>
       reviewCalls[c].pc # "idle" /\ reviewCalls'[c].run = reviewCalls[c].run

\* They do, whether the step succeeds or throws.
LEMMA EndingKeepsRuns ==
  ASSUME ReviewTypes, NEW c \in ReviewCallIds,
         EndReviewCall(c) \/ (reviewCalls[c].pc # "idle" /\ ThrowReview(c))
  PROVE  CallsKeepRuns
<1>1. CASE EndReviewCall(c)
  <2>1. NoReview \in ReviewCall /\ NoReview.pc = "idle"
    BY DEF NoReview, ReviewCall
  <2> QED
    BY <1>1, <2>1 DEF EndReviewCall, ReviewTypes, CallsKeepRuns
<1>2. CASE reviewCalls[c].pc # "idle" /\ reviewCalls' = [reviewCalls EXCEPT ![c].pc = "failing"]
  <2>1. reviewCalls[c] \in ReviewCall
    BY DEF ReviewTypes
  <2>2. /\ [reviewCalls[c] EXCEPT !.pc = "failing"] \in ReviewCall
        /\ [reviewCalls[c] EXCEPT !.pc = "failing"].run = reviewCalls[c].run
    BY <2>1 DEF ReviewCall
  <2> QED
    BY <1>2, <2>2 DEF ReviewTypes, CallsKeepRuns
<1> QED
  BY <1>1, <1>2 DEF ThrowReview

\* A run that goes stale, is kept alive or fails frees a place at most.
LEMMA RunStepsKeepReviews ==
  ASSUME ReviewInv, NEW r \in ReviewRunIds, reviewRuns[r].status # "none",
         reviewRuns' = [reviewRuns EXCEPT ![r] = reviewRuns'[r]], reviewRuns'[r] \in ReviewRun,
         reviewRuns'[r].task = reviewRuns[r].task,
         reviewRuns'[r].status \in {reviewRuns[r].status, "failed"},
         CallsKeepRuns, UNCHANGED <<reviewTasks, reviewSubmissions>>
  PROVE  ReviewInv'
<1> ReviewTypes /\ RunsHaveTasks /\ CallsHaveReviews /\ RunsSubmitOnce
  BY DEF ReviewInv
<1>1. \A q \in ReviewRunIds \ {r} : reviewRuns'[q] = reviewRuns[q]
  BY DEF ReviewTypes
<1>2. ReviewTypes'
  BY DEF ReviewTypes, CallsKeepRuns
<1>3. RunsHaveTasks' /\ CallsHaveReviews'
  <2>1. RunsHaveTasks'
    BY <1>1 DEF RunsHaveTasks
  <2>2. \A c \in ReviewCallIds : reviewCalls[c].run \in ReviewRunIds \cup {0}
    BY DEF ReviewTypes, ReviewCall
  <2>3. CallsHaveReviews'
    BY <1>1, <2>2 DEF CallsHaveReviews, CallsKeepRuns
  <2> QED
    BY <2>1, <2>3
<1>4. \A s \in reviewSubmissions : s.run \in ReviewRunIds
  BY DEF ReviewTypes
<1>5. RunsSubmitOnce'
  <2>1. \A s \in reviewSubmissions : reviewRuns'[s.run].status \in {"completed", "failed"}
    BY <1>1, <1>4 DEF RunsSubmitOnce
  <2>2. \A q \in ReviewRunIds : reviewRuns'[q].status = "completed" =>
          reviewRuns[q].status = "completed"
    BY <1>1
  <2> QED
    BY <2>1, <2>2 DEF RunsSubmitOnce
<1>6. ASSUME NEW t \in ReviewTaskIds, reviewTasks[t] # NoTask
      PROVE  TaskInv(t)'
  <2>1. TaskInv(t)
    BY <1>6 DEF ReviewInv
  <2>2. Submissions(t)' = Submissions(t)
    BY <1>1, <1>4 DEF Submissions
  <2>3. RunningRuns(t)' \subseteq RunningRuns(t)
    BY <1>1 DEF RunningRuns
  <2> QED
    BY <1>2, <1>6, <2>1, <2>2, <2>3, PlacesComeFree
<1> QED
  BY <1>2, <1>3, <1>5, <1>6 DEF ReviewInv

\* Heartbeats, time, the reaper and the failing of runs do no more than that.
LEMMA RunsEndKeepReviews ==
  ASSUME ReviewInv,
         \/ \E r \in ReviewRunIds :
              HeartbeatReviewTaskRun(r) \/ ReviewGoStale(r) \/ ExpireStaleReviewTaskRun(r)
         \/ \E c \in ReviewCallIds : FailReviewTaskRun(c)
  PROVE  ReviewInv'
<1> ReviewTypes
  BY DEF ReviewInv
<1>1. PICK r \in ReviewRunIds :
        /\ reviewRuns[r].status # "none"
        /\ \/ reviewRuns' = [reviewRuns EXCEPT ![r].stale = FALSE]
           \/ reviewRuns' = [reviewRuns EXCEPT ![r].stale = TRUE]
           \/ reviewRuns' = [reviewRuns EXCEPT ![r].status = "failed"]
        /\ UNCHANGED <<reviewTasks, reviewSubmissions>>
        /\ UNCHANGED reviewCalls \/ \E c \in ReviewCallIds : EndReviewCall(c)
  <2>1. CASE \E r \in ReviewRunIds :
               HeartbeatReviewTaskRun(r) \/ ReviewGoStale(r) \/ ExpireStaleReviewTaskRun(r)
    BY <2>1 DEF HeartbeatReviewTaskRun, ReviewGoStale, ExpireStaleReviewTaskRun
  <2>2. ASSUME NEW c \in ReviewCallIds, FailReviewTaskRun(c)
        PROVE  /\ reviewCalls[c].run \in ReviewRunIds
               /\ reviewRuns[reviewCalls[c].run].status # "none"
    BY <2>2 DEF FailReviewTaskRun, ReviewInv, ReviewTypes, CallsHaveReviews, ReviewCall
  <2> QED
    BY <2>1, <2>2 DEF FailReviewTaskRun
<1>2. CallsKeepRuns
  BY <1>1, EndingKeepsRuns DEF CallsKeepRuns, ReviewTypes
<1>3. reviewRuns[r] \in ReviewRun
  BY DEF ReviewTypes
<1>4. /\ reviewRuns'[r] \in ReviewRun /\ reviewRuns'[r].task = reviewRuns[r].task
      /\ reviewRuns'[r].status \in {reviewRuns[r].status, "failed"}
      /\ reviewRuns' = [reviewRuns EXCEPT ![r] = reviewRuns'[r]]
  <2>1. PICK row \in ReviewRun :
          /\ row.task = reviewRuns[r].task /\ row.status \in {reviewRuns[r].status, "failed"}
          /\ reviewRuns' = [reviewRuns EXCEPT ![r] = row]
    <3>1. CASE reviewRuns' = [reviewRuns EXCEPT ![r].stale = FALSE]
      <4> DEFINE row == [reviewRuns[r] EXCEPT !.stale = FALSE]
      <4>1. row \in ReviewRun /\ row.task = reviewRuns[r].task /\ row.status = reviewRuns[r].status
        BY <1>3 DEF ReviewRun
      <4>2. reviewRuns' = [reviewRuns EXCEPT ![r] = row]
        BY <3>1
      <4> QED
        BY <4>1, <4>2
    <3>2. CASE reviewRuns' = [reviewRuns EXCEPT ![r].stale = TRUE]
      <4> DEFINE row == [reviewRuns[r] EXCEPT !.stale = TRUE]
      <4>1. row \in ReviewRun /\ row.task = reviewRuns[r].task /\ row.status = reviewRuns[r].status
        BY <1>3 DEF ReviewRun
      <4>2. reviewRuns' = [reviewRuns EXCEPT ![r] = row]
        BY <3>2
      <4> QED
        BY <4>1, <4>2
    <3>3. CASE reviewRuns' = [reviewRuns EXCEPT ![r].status = "failed"]
      <4> DEFINE row == [reviewRuns[r] EXCEPT !.status = "failed"]
      <4>1. row \in ReviewRun /\ row.task = reviewRuns[r].task /\ row.status = "failed"
        BY <1>3 DEF ReviewRun
      <4>2. reviewRuns' = [reviewRuns EXCEPT ![r] = row]
        BY <3>3
      <4> QED
        BY <4>1, <4>2
    <3> QED
      BY <1>1, <3>1, <3>2, <3>3
  <2>2. reviewRuns'[r] = row
    BY <2>1 DEF ReviewTypes
  <2> QED
    BY <2>1, <2>2
<1> QED
  BY <1>1, <1>2, <1>4, RunStepsKeepReviews

\* A new task has all its places.
LEMMA CreateKeepsReviews ==
  ASSUME ReviewInv, NEW policy \in ReviewPolicies, CreateReviewTask(policy)
  PROVE  ReviewInv'
<1> ReviewTypes /\ RunsHaveTasks /\ CallsHaveReviews /\ RunsSubmitOnce
  BY DEF ReviewInv
<1>1. UNCHANGED <<reviewRuns, reviewSubmissions, reviewCalls>>
  BY DEF CreateReviewTask
<1>2. PICK t \in ReviewTaskIds :
        /\ reviewTasks[t] = NoTask
        /\ reviewTasks' = [reviewTasks EXCEPT ![t] = [status |-> "open", policy |-> policy]]
  BY DEF CreateReviewTask
<1>3. /\ reviewTasks'[t] = [status |-> "open", policy |-> policy]
      /\ \A u \in ReviewTaskIds \ {t} : reviewTasks'[u] = reviewTasks[u]
  BY <1>2 DEF ReviewTypes
<1>4. reviewTasks'[t] # NoTask
  BY <1>3 DEF NoTask
<1>5. ReviewTypes'
  BY <1>1, <1>2, <1>3 DEF ReviewTypes
<1>6. RunsHaveTasks' /\ CallsHaveReviews' /\ RunsSubmitOnce'
  <2>1. RunsHaveTasks'
    BY <1>1, <1>3, <1>4 DEF RunsHaveTasks, ReviewTypes, ReviewRun
  <2> QED
    BY <1>1, <2>1 DEF CallsHaveReviews, RunsSubmitOnce
<1>7. ASSUME NEW u \in ReviewTaskIds \ {t}, reviewTasks'[u] # NoTask
      PROVE  TaskInv(u)'
  <2>1. TaskInv(u) /\ Submissions(u)' = Submissions(u) /\ RunningRuns(u)' = RunningRuns(u)
    BY <1>1, <1>3, <1>7 DEF ReviewInv, Submissions, RunningRuns
  <2> QED
    BY <1>3, <1>5, <1>7, <2>1, PlacesComeFree
<1>8. TaskInv(t)'
  <2>1. Submissions(t)' = {} /\ RunningRuns(t)' = {}
    <3>1. \A r \in ReviewRunIds : reviewRuns[r].task # t
      BY <1>2 DEF RunsHaveTasks, NoRun, ReviewTaskIds
    <3>2. \A s \in reviewSubmissions : s.run \in ReviewRunIds
      BY DEF ReviewTypes
    <3> QED
      BY <1>1, <3>1, <3>2 DEF Submissions, RunningRuns
  <2>2. policy.min \in Nat \ {0} /\ policy.max \in Nat
    BY ReviewAssumption DEF ConsensusPolicy
  <2> QED
    BY <1>3, <2>1, <2>2, FS_EmptySet DEF TaskInv
<1> QED
  BY <1>5, <1>6, <1>7, <1>8 DEF ReviewInv

\* A run is given where a place is free.
LEMMA ClaimingKeepsReviews ==
  ASSUME ReviewInv, NEW r \in ReviewRunIds, NEW t \in ReviewTaskIds,
         NEW agent \in Reviewers \cup {NoReviewer}, InsertReviewRun(r, t, agent),
         UNCHANGED <<reviewTasks, reviewSubmissions>>,
         reviewCalls' \in [ReviewCallIds -> ReviewCall],
         \A c \in ReviewCallIds :
           \/ reviewCalls'[c] = reviewCalls[c]
           \/ reviewCalls'[c].run = r
  PROVE  ReviewInv'
<1> ReviewTypes /\ RunsHaveTasks /\ CallsHaveReviews /\ RunsSubmitOnce
  BY DEF ReviewInv
<1> DEFINE row == [status |-> "running", task |-> t, agent |-> agent, stale |-> FALSE]
<1>1. /\ reviewRuns[r] = NoRun /\ reviewRuns' = [reviewRuns EXCEPT ![r] = row]
      /\ Open(t)
      /\ Cardinality(Submissions(t)) + Cardinality(RunningRuns(t)) < reviewTasks[t].policy.max
  BY DEF InsertReviewRun, Claimable, HasSlot
<1>2. row \in ReviewRun
  BY DEF ReviewRun
<1>3. reviewRuns'[r] = row /\ \A q \in ReviewRunIds \ {r} : reviewRuns'[q] = reviewRuns[q]
  BY <1>1 DEF ReviewTypes
<1>4. ReviewTypes'
  BY <1>1, <1>2, <1>3 DEF ReviewTypes
<1>5. \A s \in reviewSubmissions : s.run \in ReviewRunIds \ {r}
  BY <1>1 DEF ReviewTypes, RunsSubmitOnce, NoRun
<1>6. RunsHaveTasks' /\ RunsSubmitOnce'
  <2>1. reviewTasks[t] # NoTask /\ t # 0
    BY <1>1 DEF Open, NoTask, ReviewTaskIds
  <2>2. RunsHaveTasks'
    BY <1>3, <2>1 DEF RunsHaveTasks
  <2>3. RunsSubmitOnce'
    BY <1>3, <1>5 DEF RunsSubmitOnce
  <2> QED
    BY <2>2, <2>3
<1>7. CallsHaveReviews'
  <2> SUFFICES ASSUME NEW c \in ReviewCallIds, reviewCalls'[c].pc # "idle"
               PROVE  /\ reviewCalls'[c].run # 0
                      /\ reviewRuns'[reviewCalls'[c].run].status # "none"
    BY DEF CallsHaveReviews
  <2>1. CASE reviewCalls'[c].run = r
    BY <1>3, <2>1 DEF ReviewRunIds
  <2>2. CASE reviewCalls'[c] = reviewCalls[c]
    <3>1. /\ reviewCalls[c].run \in ReviewRunIds
          /\ reviewRuns[reviewCalls[c].run].status # "none"
      BY <2>2 DEF CallsHaveReviews, ReviewTypes, ReviewCall
    <3> QED
      BY <1>3, <2>2, <3>1 DEF ReviewRunIds
  <2> QED
    BY <2>1, <2>2
<1>8. ASSUME NEW u \in ReviewTaskIds
      PROVE  Submissions(u)' = Submissions(u)
  BY <1>3, <1>5 DEF Submissions
<1>9. ASSUME NEW u \in ReviewTaskIds \ {t}, reviewTasks'[u] # NoTask
      PROVE  TaskInv(u)'
  <2>1. TaskInv(u) /\ RunningRuns(u)' \subseteq RunningRuns(u)
    BY <1>3, <1>9 DEF ReviewInv, RunningRuns
  <2> QED
    BY <1>4, <1>8, <1>9, <2>1, PlacesComeFree
<1>10. TaskInv(t)'
  <2>1. TaskInv(t)
    BY <1>1 DEF ReviewInv, Open, NoTask
  <2>2. RunningRuns(t)' = RunningRuns(t) \cup {r}
    BY <1>1, <1>3 DEF RunningRuns
  <2>3. r \notin RunningRuns(t)
    BY <1>1 DEF RunningRuns, NoRun
  <2>4. /\ IsFiniteSet(RunningRuns(t)) /\ Cardinality(RunningRuns(t)) \in Nat
        /\ Cardinality(Submissions(t)) \in Nat /\ reviewTasks[t].policy.max \in Nat
    BY <1>1, PlacesAreFinite, ReviewAssumption DEF ReviewTypes, ConsensusPolicy, Open, NoTask
  <2> DEFINE running == RunningRuns(t)
  <2> HIDE DEF running
  <2>5. Cardinality(running \cup {r}) = Cardinality(running) + 1
    BY <2>3, <2>4, FS_AddElement DEF running
  <2>6. Cardinality(Submissions(t)) + Cardinality(running \cup {r}) <= reviewTasks[t].policy.max
    BY <1>1, <2>4, <2>5 DEF running
  <2> QED
    BY <1>8, <2>1, <2>2, <2>6 DEF TaskInv, running
<1> QED
  BY <1>4, <1>6, <1>7, <1>9, <1>10 DEF ReviewInv

\* Agents and workers claim.
LEMMA ClaimsKeepReviews ==
  ASSUME ReviewInv, NEW r \in ReviewRunIds, NEW t \in ReviewTaskIds,
         \/ \E a \in Reviewers : AgentClaimReview(r, t, a)
         \/ \E c \in ReviewCallIds, a \in Reviewers \cup {NoReviewer} :
              WorkerClaimReview(c, r, t, a)
  PROVE  ReviewInv'
<1> ReviewTypes
  BY DEF ReviewInv
<1>1. ASSUME NEW a \in Reviewers, AgentClaimReview(r, t, a)
      PROVE  ReviewInv'
  <2>1. /\ InsertReviewRun(r, t, a)
        /\ UNCHANGED <<reviewTasks, reviewSubmissions, reviewCalls>>
    BY <1>1 DEF AgentClaimReview
  <2>2. reviewCalls' \in [ReviewCallIds -> ReviewCall]
    BY <2>1 DEF ReviewTypes
  <2> QED
    BY <2>1, <2>2, ClaimingKeepsReviews
<1>2. ASSUME NEW c \in ReviewCallIds, NEW a \in Reviewers \cup {NoReviewer},
             WorkerClaimReview(c, r, t, a)
      PROVE  ReviewInv'
  <2> DEFINE call == [pc |-> "recording", task |-> t, run |-> r, agent |-> a, worker |-> TRUE]
  <2>1. /\ InsertReviewRun(r, t, a) /\ UNCHANGED <<reviewTasks, reviewSubmissions>>
        /\ reviewCalls' = [reviewCalls EXCEPT ![c] = call]
    BY <1>2 DEF WorkerClaimReview
  <2>2. call \in ReviewCall /\ call.run = r
    BY DEF ReviewCall
  <2>3. reviewCalls' \in [ReviewCallIds -> ReviewCall]
    BY <2>1, <2>2 DEF ReviewTypes
  <2>4. \A o \in ReviewCallIds : reviewCalls'[o] = reviewCalls[o] \/ reviewCalls'[o].run = r
    BY <2>1, <2>2 DEF ReviewTypes
  <2> QED
    BY <2>1, <2>3, <2>4, ClaimingKeepsReviews
<1> QED
  BY <1>1, <1>2

\* Calls that begin, throw or stop write nothing.
LEMMA CallsKeepReviews ==
  ASSUME ReviewInv, NEW c \in ReviewCallIds,
         \/ \E r \in ReviewRunIds, t \in ReviewTaskIds, a \in Reviewers \cup {NoReviewer} :
              StartReviewSubmission(c, t, r, a)
         \/ ThrowRecording(c) \/ StopReviewCall(c)
  PROVE  ReviewInv'
<1> ReviewTypes /\ CallsHaveReviews /\ RunsHaveTasks
  BY DEF ReviewInv
<1>1. UNCHANGED <<reviewTasks, reviewRuns, reviewSubmissions>>
  BY DEF StartReviewSubmission, ThrowRecording, StopReviewCall
<1>2. reviewCalls' \in [ReviewCallIds -> ReviewCall] /\ CallsHaveReviews'
  <2>1. CASE ThrowRecording(c) \/ StopReviewCall(c)
    <3>1. CallsKeepRuns
      BY <2>1, EndingKeepsRuns DEF ThrowRecording, StopReviewCall
    <3> QED
      BY <1>1, <3>1 DEF CallsKeepRuns, CallsHaveReviews
  <2>2. ASSUME NEW r \in ReviewRunIds, NEW t \in ReviewTaskIds,
               NEW a \in Reviewers \cup {NoReviewer}, StartReviewSubmission(c, t, r, a)
        PROVE  reviewCalls' \in [ReviewCallIds -> ReviewCall] /\ CallsHaveReviews'
    <3> DEFINE call == [pc |-> "recording", task |-> t, run |-> r, agent |-> a, worker |-> FALSE]
    <3>1. reviewCalls' = [reviewCalls EXCEPT ![c] = call] /\ reviewRuns[r].status # "none"
      BY <2>2 DEF StartReviewSubmission, RunsHaveTasks
    <3>2. call \in ReviewCall /\ call.run = r /\ r # 0
      BY DEF ReviewCall, ReviewRunIds
    <3> QED
      BY <1>1, <3>1, <3>2 DEF ReviewTypes, CallsHaveReviews
  <2> QED
    BY <2>1, <2>2
<1>3. ReviewTypes'
  BY <1>1, <1>2 DEF ReviewTypes
<1>4. \A t \in ReviewTaskIds : TaskInv(t)' <=> TaskInv(t)
  BY <1>1 DEF TaskInv, Submissions, RunningRuns
<1> QED
  BY <1>1, <1>2, <1>3, <1>4 DEF ReviewInv, RunsHaveTasks, RunsSubmitOnce

\* A submission takes its run's place.
LEMMA SubmittingKeepsReviews ==
  ASSUME ReviewInv, NEW c \in ReviewCallIds, RecordReviewSubmission(c)
  PROVE  ReviewInv'
<1> ReviewTypes /\ RunsHaveTasks /\ CallsHaveReviews /\ RunsSubmitOnce
  BY DEF ReviewInv
<1>1. PICK r \in ReviewRunIds, t \in ReviewTaskIds, agent \in Reviewers \cup {NoReviewer} :
        /\ r = reviewCalls[c].run /\ t = reviewCalls[c].task /\ agent = reviewCalls[c].agent
        /\ reviewRuns[r].task = t /\ reviewRuns[r].status = "running"
        /\ agent # NoReviewer /\ reviewTasks[t].policy.distinct => ~HasSubmitted(t, agent)
  <2>1. /\ reviewCalls[c] \in ReviewCall /\ reviewCalls[c].run \in ReviewRunIds
        /\ reviewRuns[reviewCalls[c].run].status = "running"
        /\ reviewRuns[reviewCalls[c].run].task = reviewCalls[c].task
    BY DEF RecordReviewSubmission, MaySubmit, ReviewTypes, CallsHaveReviews, ReviewCall
  <2>2. reviewCalls[c].task \in ReviewTaskIds /\ reviewCalls[c].agent \in Reviewers \cup {NoReviewer}
    BY <2>1 DEF RunsHaveTasks, ReviewCall
  <2> QED
    BY <2>1, <2>2 DEF RecordReviewSubmission, MaySubmit
<1> DEFINE new == [run |-> r, agent |-> agent]
           reached == Cardinality(Submissions(t)) + 1 >= reviewTasks[t].policy.min
           done == [reviewRuns[r] EXCEPT !.status = "completed"]
           ended == [reviewTasks[t] EXCEPT !.status = "completed"]
<1>2. /\ reviewSubmissions' = reviewSubmissions \cup {new}
      /\ reviewRuns' = [reviewRuns EXCEPT ![r] = done]
      /\ reached => reviewTasks' = [reviewTasks EXCEPT ![t] = ended]
      /\ ~reached => UNCHANGED reviewTasks
      /\ CallsKeepRuns
  <2>1. reviewCalls[c].pc # "idle" /\ (EndReviewCall(c) \/ ThrowReview(c))
    BY DEF RecordReviewSubmission
  <2> QED
    BY <1>1, <2>1, EndingKeepsRuns DEF RecordReviewSubmission
<1>3. reviewTasks[t] # NoTask /\ reviewTasks[t] \in [status : {"open", "completed"}, policy : ReviewPolicies]
  BY <1>1 DEF RunsHaveTasks, ReviewTypes
<1>4. /\ done \in ReviewRun /\ done.task = t /\ done.status = "completed"
      /\ ended \in [status : {"open", "completed"}, policy : ReviewPolicies]
      /\ ended.status = "completed" /\ ended.policy = reviewTasks[t].policy
      /\ new \in [run : ReviewRunIds, agent : Reviewers \cup {NoReviewer}]
      /\ new.run = r /\ new.agent = agent
  <2>1. reviewRuns[r] \in ReviewRun
    BY DEF ReviewTypes
  <2> QED
    BY <1>1, <1>3, <2>1 DEF ReviewRun
<1> HIDE DEF new, done, ended
<1>5. reviewRuns'[r] = done /\ \A q \in ReviewRunIds \ {r} : reviewRuns'[q] = reviewRuns[q]
  BY <1>2 DEF ReviewTypes
<1>6. /\ \A u \in ReviewTaskIds \ {t} : reviewTasks'[u] = reviewTasks[u]
      /\ reviewTasks'[t] \in [status : {"open", "completed"}, policy : ReviewPolicies]
      /\ reviewTasks'[t].policy = reviewTasks[t].policy
      /\ reviewTasks' \in [ReviewTaskIds ->
           {NoTask} \cup [status : {"open", "completed"}, policy : ReviewPolicies]]
  BY <1>2, <1>3, <1>4 DEF ReviewTypes
<1>7. ReviewTypes'
  <2>1. IsFiniteSet(reviewSubmissions \cup {new})
    BY FS_AddElement DEF ReviewTypes
  <2> QED
    BY <1>2, <1>4, <1>5, <1>6, <2>1 DEF ReviewTypes, CallsKeepRuns
<1>8. \A s \in reviewSubmissions : s.run \in ReviewRunIds \ {r}
  BY <1>1 DEF ReviewTypes, RunsSubmitOnce
<1>9. RunsHaveTasks'
  <2>1. ended # NoTask /\ \A u \in ReviewTaskIds : reviewTasks[u] # NoTask => reviewTasks'[u] # NoTask
    BY <1>2, <1>3, <1>4 DEF NoTask, ReviewTypes
  <2>2. \A q \in ReviewRunIds : reviewRuns[q].task \in ReviewTaskIds \cup {0}
    BY DEF ReviewTypes, ReviewRun
  <2>3. reviewTasks'[t] # NoTask /\ t # 0
    BY <1>1, <1>3, <2>1 DEF RunsHaveTasks
  <2> QED
    BY <1>4, <1>5, <2>1, <2>2, <2>3 DEF RunsHaveTasks
<1>10. CallsHaveReviews'
  <2>1. \A o \in ReviewCallIds : reviewCalls[o].run \in ReviewRunIds \cup {0}
    BY DEF ReviewTypes, ReviewCall
  <2> QED
    BY <1>2, <1>4, <1>5, <2>1 DEF CallsHaveReviews, CallsKeepRuns
<1>11. RunsSubmitOnce'
  <2>1. \A s \in reviewSubmissions' : reviewRuns'[s.run].status \in {"completed", "failed"}
    BY <1>2, <1>4, <1>5, <1>8 DEF RunsSubmitOnce
  <2>2. \A s, u \in reviewSubmissions' : s.run = u.run => s = u
    BY <1>2, <1>4, <1>8 DEF RunsSubmitOnce
  <2>3. \A q \in ReviewRunIds : reviewRuns'[q].status = "completed" =>
          \E s \in reviewSubmissions' : s.run = q
    BY <1>2, <1>4, <1>5 DEF RunsSubmitOnce
  <2> QED
    BY <2>1, <2>2, <2>3 DEF RunsSubmitOnce
<1>12. ASSUME NEW u \in ReviewTaskIds \ {t}, reviewTasks'[u] # NoTask
       PROVE  TaskInv(u)'
  <2>1. TaskInv(u) /\ reviewTasks[u] # NoTask
    BY <1>6, <1>12 DEF ReviewInv
  <2>2. Submissions(u)' = Submissions(u)
    BY <1>2, <1>4, <1>5, <1>8 DEF Submissions
  <2>3. RunningRuns(u)' \subseteq RunningRuns(u)
    BY <1>4, <1>5 DEF RunningRuns
  <2> QED
    BY <1>6, <1>7, <2>1, <2>2, <2>3, PlacesComeFree
<1>13. TaskInv(t)'
  <2> DEFINE submitted == Submissions(t)
             running == RunningRuns(t)
  <2>1. TaskInv(t)
    BY <1>3 DEF ReviewInv
  <2>2. /\ IsFiniteSet(submitted) /\ Cardinality(submitted) \in Nat
        /\ IsFiniteSet(running) /\ Cardinality(running) \in Nat
    BY PlacesAreFinite
  <2>3. Submissions(t)' = submitted \cup {new} /\ new \notin submitted
    BY <1>1, <1>2, <1>4, <1>5, <1>8 DEF Submissions
  <2>4. RunningRuns(t)' = running \ {r} /\ r \in running
    BY <1>1, <1>4, <1>5 DEF RunningRuns
  <2>5. reviewTasks[t].policy.max \in Nat /\ reviewTasks[t].policy.min \in Nat
    BY <1>3, ReviewAssumption DEF ConsensusPolicy
  <2>6. \A s, u \in Submissions(t)' :
          s # u /\ reviewTasks[t].policy.distinct /\ s.agent # NoReviewer => s.agent # u.agent
    <3>1. agent # NoReviewer /\ reviewTasks[t].policy.distinct =>
            \A s \in submitted : s.agent # agent
      BY <1>1 DEF HasSubmitted
    <3> QED
      BY <1>4, <2>1, <2>3, <3>1 DEF TaskInv
  <2>7. /\ Cardinality(submitted) + Cardinality(running) <= reviewTasks[t].policy.max
        /\ reviewTasks[t].status = "completed" <=> Cardinality(submitted) >= reviewTasks[t].policy.min
    BY <2>1 DEF TaskInv
  <2>8. reached <=> Cardinality(submitted) + 1 >= reviewTasks[t].policy.min
    OBVIOUS
  <2> HIDE DEF submitted, running, reached
  <2>9. /\ Cardinality(submitted \cup {new}) = Cardinality(submitted) + 1
        /\ Cardinality(running \ {r}) = Cardinality(running) - 1
    BY <2>2, <2>3, <2>4, FS_AddElement, FS_RemoveElement
  <2>10. reviewTasks'[t].status = "completed" <=>
           Cardinality(submitted) + 1 >= reviewTasks[t].policy.min
    <3>1. CASE reached
      <4>1. reviewTasks'[t] = ended
        BY <1>2, <3>1 DEF ReviewTypes
      <4> QED
        BY <1>4, <2>8, <3>1, <4>1
    <3>2. CASE ~reached
      <4>1. reviewTasks'[t] = reviewTasks[t]
        BY <1>2, <3>2
      <4> QED
        BY <2>2, <2>5, <2>7, <2>8, <3>2, <4>1
    <3> QED
      BY <3>1, <3>2
  <2>11. Cardinality(submitted \cup {new}) + Cardinality(running \ {r}) <= reviewTasks[t].policy.max
    BY <2>2, <2>5, <2>7, <2>9
  <2> QED
    BY <1>6, <2>3, <2>4, <2>6, <2>9, <2>10, <2>11 DEF TaskInv
<1> QED
  BY <1>7, <1>9, <1>10, <1>11, <1>12, <1>13 DEF ReviewInv

\* The invariant of the review tasks.
THEOREM ReviewInvariant == ReviewSpec => []ReviewInv
<1>1. ReviewInit => ReviewInv
  <2> SUFFICES ASSUME ReviewInit PROVE ReviewInv
    OBVIOUS
  <2>1. ReviewTypes
    <3>1. NoRun \in ReviewRun /\ NoReview \in ReviewCall
      BY DEF NoRun, NoReview, ReviewRun, ReviewCall
    <3> QED
      BY <3>1, FS_EmptySet DEF ReviewInit, ReviewTypes
  <2> QED
    BY <2>1 DEF ReviewInit, ReviewInv, RunsHaveTasks, CallsHaveReviews, RunsSubmitOnce, NoRun, NoReview
<1>2. ReviewInv /\ [ReviewNext]_reviewVars => ReviewInv'
  <2> SUFFICES ASSUME ReviewInv, [ReviewNext]_reviewVars PROVE ReviewInv'
    OBVIOUS
  <2>1. CASE UNCHANGED reviewVars
    BY <2>1, ZenonT(60) DEF reviewVars, ReviewInv, ReviewTypes, RunsHaveTasks, CallsHaveReviews,
                RunsSubmitOnce, TaskInv, Submissions, RunningRuns
  <2>2. CASE ReviewNext
    BY <2>2, CreateKeepsReviews, ClaimsKeepReviews, CallsKeepReviews, RunsEndKeepReviews,
       SubmittingKeepsReviews
    DEF ReviewNext, ReviewReaper
  <2> QED
    BY <2>1, <2>2
<1> QED
  BY <1>1, <1>2, PTL DEF ReviewSpec

\* The places of a task are never given out twice, each run submits once, agents are
\* distinct where they must be, and a task is completed exactly when it has enough.
THEOREM ReviewsAreCounted == ReviewSpec => []ReviewsCounted
<1>1. ReviewInv => ReviewsCounted
  <2> SUFFICES ASSUME ReviewInv, NEW t \in ReviewTaskIds, reviewTasks[t] # NoTask
               PROVE  LET policy == reviewTasks[t].policy
                          submitted == Submissions(t)
                          live == {r \in ReviewRunIds :
                                     reviewRuns[r].task = t /\ reviewRuns[r].status = "running"}
                      IN /\ Cardinality(submitted) + Cardinality(live) <= policy.max
                         /\ \A s, u \in submitted :
                              s # u => /\ s.run # u.run
                                       /\ policy.distinct /\ s.agent # NoReviewer =>
                                            s.agent # u.agent
                         /\ reviewTasks[t].status = "completed" <=>
                              Cardinality(submitted) >= policy.min
                         /\ \A r \in ReviewRunIds :
                              reviewRuns[r].task = t /\ reviewRuns[r].status = "completed"
                                => \E s \in submitted : s.run = r
    BY DEF ReviewsCounted
  <2>1. TaskInv(t) /\ RunsSubmitOnce
    BY DEF ReviewInv
  <2>2. \A s, u \in Submissions(t) : s # u => s.run # u.run
    BY <2>1 DEF RunsSubmitOnce, Submissions
  <2>3. \A r \in ReviewRunIds :
          reviewRuns[r].task = t /\ reviewRuns[r].status = "completed"
            => \E s \in Submissions(t) : s.run = r
    BY <2>1 DEF RunsSubmitOnce, Submissions
  <2> QED
    BY <2>1, <2>2, <2>3 DEF TaskInv, RunningRuns
<1> QED
  BY <1>1, ReviewInvariant, PTL

-----------------------------------------------------------------------------
(***************************************************************************)
(* Webhooks.  Once the cursor is past an event nobody looks at it again,   *)
(* so that whoever moves the cursor, forwards or back, must have seen to   *)
(* every event up to there: it has its delivery already, is among those    *)
(* the sync will enqueue first, or lies on a page it has yet to read,      *)
(* where events that come meanwhile can only push it further on.           *)
(***************************************************************************)
Dispatcher ==
  [pc : {"idle", "reading", "enqueuing", "synced", "dispatching", "posting", "delivering",
         "retrying", "failing"},
   since : Events \cup {Origin}, offset : Nat, fresh : SUBSET Events,
   last : Events \cup {Origin}, batch : SUBSET (Events \X Nat),
   current : Events \cup {Origin}, attempts : Nat]
Delivery ==
  [status : {"none", "pending", "retrying", "delivered", "failed"}, attempts : Nat, due : BOOLEAN]

HookTypes ==
  /\ clock \in 1 .. MaxTime
  /\ feed \subseteq Events /\ IsFiniteSet(feed)
  /\ cursor \in Events \cup {Origin}
  /\ deliveries \in [Events -> Delivery]
  /\ dispatchers \in [Dispatchers -> Dispatcher]
  /\ \A d \in Dispatchers : IsFiniteSet(dispatchers[d].fresh)

HasDelivery(e) == deliveries[e].status # "none"

\* The events in the feed that need a delivery.
Owed == {e \in feed : e[3] \in Matching /\ e \notin late}

\* What precedes an event on the pages of a sync.
Newer(since, e) == {f \in feed : f[1] >= since[1] /\ Before(e, f)}

\* A sync knows the newest event it has read, and has seen to those before it.
SyncInv(d) ==
  LET sync == dispatchers[d]
  IN /\ sync.pc = "reading" =>
          /\ sync.fresh = {} => sync.last = Origin
          /\ sync.fresh # {} => sync.last \in sync.fresh
          /\ \A f \in sync.fresh : Before(sync.since, f) /\ (f = sync.last \/ Before(f, sync.last))
          /\ \A e \in Owed : ~Before(sync.since, e) => HasDelivery(e)
          /\ \A e \in Owed : ~Before(sync.last, e) =>
               \/ HasDelivery(e) \/ e \in sync.fresh
               \/ Cardinality(Newer(sync.since, e)) >= sync.offset
     /\ sync.pc = "enqueuing" =>
          /\ sync.last # Origin
          /\ \A e \in Owed : ~Before(sync.last, e) => HasDelivery(e) \/ e \in sync.fresh

\* A dispatcher sends what has a delivery, and marks what was taken.
SendInv(d) ==
  LET sync == dispatchers[d]
  IN /\ \A row \in sync.batch : HasDelivery(row[1])
     /\ sync.pc \in {"posting", "delivering", "retrying", "failing"} =>
          sync.current \in Events /\ HasDelivery(sync.current)
     /\ sync.pc = "delivering" => sync.current \in received

OneEventEach == \A e, f \in feed : e[2] = f[2] => e = f

HookInv ==
  /\ HookTypes /\ OneEventEach
  /\ \A e \in Owed : ~Before(cursor, e) => HasDelivery(e)
  /\ \A e \in Events : HasDelivery(e) => e[3] \in Matching \/ e[2] = 0
  /\ \A e \in Events : deliveries[e].status = "delivered" => e \in received
  /\ \A d \in Dispatchers : SyncInv(d) /\ SendInv(d)

\* Events are in a strict order, after the origin.
LEMMA EventOrder ==
  ASSUME NEW e \in Events \cup {Origin}, NEW f \in Events \cup {Origin}, NEW g \in Events \cup {Origin}
  PROVE  /\ ~Before(e, e)
         /\ Before(e, f) \/ Before(f, e) \/ e = f
         /\ ~(Before(e, f) /\ Before(f, e))
         /\ Before(e, f) /\ Before(f, g) => Before(e, g)
         /\ e \in Events => Before(Origin, e) /\ e # Origin
<1>1. \A x \in Events \cup {Origin} : x \in Nat \X Nat \X Nat
  BY DEF Events, Origin, EventTypes
<1>2. e \in Nat \X Nat \X Nat /\ f \in Nat \X Nat \X Nat /\ g \in Nat \X Nat \X Nat
  BY <1>1
<1>3. e \in Events => e[1] >= 1
  BY WebhookAssumption DEF Events
<1>4. e \in Events => Before(Origin, e) /\ e # Origin
  BY <1>2, <1>3 DEF Before, Origin
<1> QED
  BY <1>2, <1>4 DEF Before

\* A finite set of events has a newest and an oldest.
LEMMA NewestAndOldest ==
  ASSUME NEW S \in SUBSET Events, IsFiniteSet(S), S # {}
  PROVE  /\ \E e \in S : \A f \in S : f = e \/ Before(f, e)
         /\ \E e \in S : \A f \in S : f = e \/ Before(e, f)
<1> DEFINE after(e) == {f \in S : Before(e, f)}
           before(e) == {f \in S : Before(f, e)}
<1>1. \E e \in S : \A f \in S : f = e \/ Before(f, e)
  <2> DEFINE T == {after(e) : e \in S}
  <2>1. T \in SUBSET (SUBSET S) /\ T # {}
    OBVIOUS
  <2>2. PICK s \in T : \A t \in SUBSET s : t \in T => t = s
    <3> HIDE DEF T
    <3> QED
      BY <2>1, MinimalSubset
  <2>3. PICK e \in S : s = after(e)
    BY <2>2
  <2>4. ASSUME NEW f \in S, Before(e, f) PROVE FALSE
    <3>1. after(f) \in T /\ after(f) \in SUBSET s /\ f \in s /\ f \notin after(f)
      BY <2>3, <2>4, EventOrder
    <3> QED
      BY <2>2, <3>1
  <2> QED
    BY <2>4, EventOrder
<1>2. \E e \in S : \A f \in S : f = e \/ Before(e, f)
  <2> DEFINE T == {before(e) : e \in S}
  <2>1. T \in SUBSET (SUBSET S) /\ T # {}
    OBVIOUS
  <2>2. PICK s \in T : \A t \in SUBSET s : t \in T => t = s
    <3> HIDE DEF T
    <3> QED
      BY <2>1, MinimalSubset
  <2>3. PICK e \in S : s = before(e)
    BY <2>2
  <2>4. ASSUME NEW f \in S, Before(f, e) PROVE FALSE
    <3>1. before(f) \in T /\ before(f) \in SUBSET s /\ f \in s /\ f \notin before(f)
      BY <2>3, <2>4, EventOrder
    <3> QED
      BY <2>2, <3>1
  <2> QED
    BY <2>4, EventOrder
<1> QED
  BY <1>1, <1>2

\* Latest is the newest.
LEMMA LatestIsNewest ==
  ASSUME NEW S \in SUBSET Events, IsFiniteSet(S), S # {}
  PROVE  Latest(S) \in S /\ \A f \in S : f = Latest(S) \/ Before(f, Latest(S))
BY NewestAndOldest DEF Latest

\* A page that is not full is the last one.
LEMMA PagesEnd ==
  ASSUME NEW L \in SUBSET Events, IsFiniteSet(L), NEW o \in Nat, NEW n \in Nat \ {0},
         Cardinality({e \in L : Cardinality({f \in L : Before(e, f)}) \in o .. o + n - 1}) < n
  PROVE  \A e \in L : Cardinality({f \in L : Before(e, f)}) < o + n
<1> DEFINE newer(e) == {f \in L : Before(e, f)}
           rank(e) == Cardinality(newer(e))
           read == {e \in L : rank(e) < o}
           page == {e \in L : rank(e) \in o .. o + n - 1}
           rest == {e \in L : rank(e) >= o + n}
<1>1. \A e \in L : newer(e) \in SUBSET L /\ IsFiniteSet(newer(e)) /\ rank(e) \in Nat
  <2> SUFFICES ASSUME NEW e \in L
               PROVE  newer(e) \in SUBSET L /\ IsFiniteSet(newer(e)) /\ rank(e) \in Nat
    OBVIOUS
  <2>1. newer(e) \in SUBSET L
    OBVIOUS
  <2> HIDE DEF newer
  <2> QED
    BY <2>1, FS_Subset, FS_CardinalityType
<1>2. /\ read \in SUBSET L /\ page \in SUBSET L /\ rest \in SUBSET L
      /\ IsFiniteSet(read) /\ IsFiniteSet(page) /\ IsFiniteSet(rest)
      /\ Cardinality(read) \in Nat /\ Cardinality(page) \in Nat
  <2>1. read \in SUBSET L /\ page \in SUBSET L /\ rest \in SUBSET L
    OBVIOUS
  <2> HIDE DEF read, page, rest
  <2> QED
    BY <2>1, FS_Subset, FS_CardinalityType
<1>3. Cardinality(read) <= o
  <2>1. CASE read = {}
    <3> HIDE DEF read
    <3> QED
      BY <2>1, FS_EmptySet
  <2>2. CASE read # {}
    <3>1. PICK a \in read : \A f \in read : f = a \/ Before(a, f)
      BY <1>2, <2>2, NewestAndOldest
    <3>2. read \in SUBSET (newer(a) \cup {a}) /\ rank(a) < o /\ a \in L
      BY <3>1
    <3> HIDE DEF read, newer
    <3>3. IsFiniteSet(newer(a)) /\ rank(a) \in Nat
      BY <1>1, <3>2
    <3>4. /\ IsFiniteSet(newer(a) \cup {a})
          /\ Cardinality(newer(a) \cup {a}) <= rank(a) + 1
      BY <3>3, FS_AddElement
    <3>5. Cardinality(read) <= Cardinality(newer(a) \cup {a})
      BY <3>2, <3>4, FS_Subset
    <3>6. Cardinality(newer(a) \cup {a}) \in Nat
      BY <3>4, FS_CardinalityType
    <3> QED
      BY <1>2, <3>2, <3>3, <3>4, <3>5, <3>6
  <2> QED
    BY <2>1, <2>2
<1>4. ASSUME rest # {} PROVE FALSE
  <2>1. PICK e \in rest : \A f \in rest : f = e \/ Before(f, e)
    BY <1>2, <1>4, NewestAndOldest
  <2>2. newer(e) \subseteq read \cup page
    <3> SUFFICES ASSUME NEW f \in L, Before(e, f) PROVE f \in read \cup page
      OBVIOUS
    <3>1. f \notin rest
      BY <2>1, EventOrder
    <3> QED
      BY <1>1, <3>1, SMTT(60)
  <2>3. e \in L /\ rank(e) >= o + n /\ rank(e) \in Nat
    BY <1>1, <2>1
  <2> HIDE DEF read, page, newer
  <2>4. /\ IsFiniteSet(read \cup page)
        /\ Cardinality(read \cup page) =
             Cardinality(read) + Cardinality(page) - Cardinality(read \cap page)
    BY <1>2, FS_Union
  <2>5. Cardinality(read \cap page) \in Nat
    <3>1. read \cap page \in SUBSET read
      OBVIOUS
    <3> QED
      BY <1>2, <3>1, FS_Subset, FS_CardinalityType
  <2>6. rank(e) <= Cardinality(read \cup page)
    BY <2>2, <2>4, FS_Subset
  <2>7. Cardinality(page) < n
    BY DEF page, newer
  <2> QED
    BY <1>2, <1>3, <2>3, <2>4, <2>5, <2>6, <2>7
<1>5. ASSUME NEW e \in L PROVE rank(e) < o + n
  <2>1. rank(e) \in Nat /\ ~(rank(e) >= o + n)
    BY <1>1, <1>4
  <2> HIDE DEF rank
  <2> QED
    BY <2>1
<1> QED
  BY <1>5

\* Deliveries are added, moved and marked, for what has one to be sent.
DeliveriesGrow ==
  /\ deliveries' \in [Events -> Delivery]
  /\ \A e \in Events : HasDelivery(e) => HasDelivery(e)'
  /\ \A e \in Events : HasDelivery(e)' => e[3] \in Matching \/ e[2] = 0
  /\ received \subseteq received'
  /\ \A e \in Events : deliveries'[e].status = "delivered" => e \in received'

\* They do where nothing is written.
LEMMA NoDeliveryNews ==
  ASSUME HookInv, UNCHANGED <<deliveries, received>>
  PROVE  DeliveriesGrow
BY DEF HookInv, HookTypes, DeliveriesGrow, HasDelivery

\* A step of one dispatcher, or of none, that leaves the feed.
LEMMA HookMoves ==
  ASSUME HookInv, UNCHANGED <<feed, late>>, DeliveriesGrow, NEW d,
         clock' \in 1 .. MaxTime, cursor' \in Events \cup {Origin},
         \A e \in Owed : ~Before(cursor', e) => HasDelivery(e)',
         dispatchers' \in [Dispatchers -> Dispatcher],
         \A o \in Dispatchers \ {d} : dispatchers'[o] = dispatchers[o],
         d \in Dispatchers => IsFiniteSet(dispatchers'[d].fresh) /\ SyncInv(d)' /\ SendInv(d)'
  PROVE  HookInv'
<1> HookTypes
  BY DEF HookInv
<1>1. HookTypes'
  BY DEF HookTypes, DeliveriesGrow
<1>2. Owed' = Owed
  BY DEF Owed
<1>3. ASSUME NEW o \in Dispatchers \ {d}
      PROVE  SyncInv(o)' /\ SendInv(o)'
  <2>1. SyncInv(o) /\ SendInv(o) /\ dispatchers[o] \in Dispatcher
    BY DEF HookInv, HookTypes
  <2>2. \A e \in Owed : e \in Events
    BY DEF Owed, HookTypes
  <2>3. SyncInv(o)'
    BY <1>2, <2>1, <2>2 DEF SyncInv, DeliveriesGrow, Newer
  <2>4. \A row \in dispatchers[o].batch : row[1] \in Events
    BY <2>1 DEF Dispatcher
  <2>5. SendInv(o)'
    BY <2>1, <2>4 DEF SendInv, DeliveriesGrow
  <2> QED
    BY <2>3, <2>5
<1> QED
  BY <1>1, <1>2, <1>3 DEF HookInv, DeliveriesGrow, OneEventEach

\* A dispatcher that moves on by itself.
LEMMA LocalHookSteps ==
  ASSUME HookInv, UNCHANGED <<feed, late, cursor>>, DeliveriesGrow, NEW d,
         clock' \in 1 .. MaxTime,
         dispatchers' \in [Dispatchers -> Dispatcher],
         \A o \in Dispatchers \ {d} : dispatchers'[o] = dispatchers[o],
         d \in Dispatchers => IsFiniteSet(dispatchers'[d].fresh) /\ SyncInv(d)' /\ SendInv(d)'
  PROVE  HookInv'
<1>1. cursor' \in Events \cup {Origin} /\ \A e \in Owed : ~Before(cursor', e) => HasDelivery(e)'
  BY DEF HookInv, HookTypes, DeliveriesGrow, Owed
<1> QED
  BY <1>1, HookMoves

\* Where an event replaces an older one of its subject, the others keep their place
\* on the pages or move on.
LEMMA RanksGrow ==
  ASSUME HookTypes, OneEventEach, NEW since, NEW new \in Events, since[1] \in Nat,
         feed' = {f \in feed : f[2] # new[2]} \cup {new},
         \A f \in feed : f[2] = new[2] => f[1] <= new[1],
         NEW e \in feed, e[2] # new[2]
  PROVE  Cardinality(Newer(since, e)') >= Cardinality(Newer(since, e))
<1> DEFINE before == Newer(since, e)
           after == Newer(since, e)'
<1>a. \A x \in Events : x[1] \in Nat /\ x[2] \in Nat /\ x[3] \in Nat
  BY DEF Events, EventTypes
<1>1. feed \subseteq Events
  BY DEF HookTypes
<1>2. /\ IsFiniteSet(before) /\ IsFiniteSet(after)
      /\ Cardinality(before) \in Nat /\ Cardinality(after) \in Nat
  <2>1. before \in SUBSET feed /\ after \in SUBSET (feed \cup {new})
    BY DEF Newer
  <2>2. IsFiniteSet(feed) /\ IsFiniteSet(feed \cup {new})
    BY FS_AddElement DEF HookTypes
  <2> HIDE DEF before, after
  <2> QED
    BY <2>1, <2>2, FS_Subset, FS_CardinalityType
<1>3. CASE \A f \in before : f[2] # new[2]
  <2>1. before \in SUBSET after
    BY <1>3 DEF Newer
  <2> HIDE DEF before, after
  <2>2. Cardinality(before) <= Cardinality(after)
    BY <1>2, <2>1, FS_Subset
  <2> QED
    BY <1>2, <2>2 DEF before, after
<1>4. ASSUME NEW f \in before, f[2] = new[2]
      PROVE  Cardinality(after) >= Cardinality(before)
  <2>1. f \in feed /\ f[1] >= since[1] /\ Before(e, f) /\ f[1] <= new[1]
    BY <1>4 DEF Newer
  <2>2. new[1] >= since[1] /\ Before(e, new)
    BY <1>a, <1>1, <1>4, <2>1 DEF Before
  <2>3. (before \ {f}) \cup {new} \in SUBSET after
    BY <1>4, <2>1, <2>2 DEF Newer, OneEventEach
  <2>4. new \notin before \ {f}
    BY <1>4, <2>1 DEF Newer, OneEventEach
  <2> HIDE DEF before, after
  <2>5. /\ IsFiniteSet(before \ {f}) /\ Cardinality(before \ {f}) = Cardinality(before) - 1
    BY <1>2, <1>4, FS_RemoveElement
  <2>6. Cardinality((before \ {f}) \cup {new}) = Cardinality(before \ {f}) + 1
    BY <2>4, <2>5, FS_AddElement
  <2>7. Cardinality((before \ {f}) \cup {new}) <= Cardinality(after)
    BY <1>2, <2>3, FS_Subset
  <2> QED
    BY <1>2, <2>5, <2>6, <2>7
<1> QED
  BY <1>3, <1>4

\* An event that appears behind a sync is late, one before it can wait.
LEMMA ShowKeepsHooks ==
  ASSUME HookInv, NEW new \in Events, Show(new),
         \A f \in feed : f[2] = new[2] => f[1] <= new[1]
  PROVE  HookInv'
<1> HookTypes /\ OneEventEach
  BY DEF HookInv
<1>1. /\ feed' = {f \in feed : f[2] # new[2]} \cup {new}
      /\ late' = late \cup {f \in {new} : PassedOver(f)}
      /\ UNCHANGED <<clock, cursor, deliveries, dispatchers, received>>
  BY DEF Show
<1>2. HookTypes' /\ OneEventEach'
  <2>1. {f \in feed : f[2] # new[2]} \in SUBSET feed
    OBVIOUS
  <2>2. IsFiniteSet(feed')
    <3> DEFINE rest == {f \in feed : f[2] # new[2]}
    <3> HIDE DEF rest
    <3>1. IsFiniteSet(rest)
      BY <2>1, FS_Subset DEF rest, HookTypes
    <3>2. IsFiniteSet(rest \cup {new})
      BY <3>1, FS_AddElement
    <3> QED
      BY <1>1, <3>2 DEF rest
  <2> QED
    BY <1>1, <2>2 DEF HookTypes, OneEventEach
<1>3. ASSUME NEW e \in Owed'
      PROVE  \/ e \in Owed /\ e[2] # new[2]
             \/ /\ Before(cursor, e)
                /\ \A d \in Dispatchers :
                     /\ dispatchers[d].pc = "reading" => Before(dispatchers[d].since, e)
                     /\ Before(dispatchers[d].last, e)
  <2>1. CASE e = new
    <3>1. ~PassedOver(e)
      BY <1>1, <2>1 DEF Owed
    <3>2. ASSUME NEW d \in Dispatchers
          PROVE  Before(dispatchers[d].last, e)
      <4>1. Before(Origin, e)
        BY <2>1, EventOrder
      <4> QED
        BY <3>1, <4>1 DEF PassedOver
    <3> QED
      BY <3>1, <3>2 DEF PassedOver
  <2>2. CASE e # new
    BY <1>1, <2>2 DEF Owed
  <2> QED
    BY <2>1, <2>2
<1>4. \A e \in Owed' : ~Before(cursor', e) => HasDelivery(e)'
  BY <1>1, <1>3 DEF HookInv, HasDelivery
<1>5. ASSUME NEW d \in Dispatchers
      PROVE  SyncInv(d)' /\ SendInv(d)'
  <2>1. SyncInv(d) /\ SendInv(d) /\ dispatchers[d] \in Dispatcher
    BY DEF HookInv, HookTypes
  <2>2. SendInv(d)'
    BY <1>1, <2>1 DEF SendInv, HasDelivery
  <2>3. dispatchers[d].since[1] \in Nat
    BY <2>1 DEF Dispatcher, Events, Origin
  <2>4. ASSUME NEW e \in Owed, e[2] # new[2]
        PROVE  Cardinality(Newer(dispatchers[d].since, e)') >=
                 Cardinality(Newer(dispatchers[d].since, e))
    BY <1>1, <2>3, <2>4, RanksGrow DEF Owed
  <2>5. ASSUME NEW e \in Owed'
        PROVE  Cardinality(Newer(dispatchers[d].since, e)') \in Nat
    <3>1. Newer(dispatchers[d].since, e)' \in SUBSET feed' /\ IsFiniteSet(feed')
      BY <1>1, <1>2 DEF Newer, HookTypes
    <3> DEFINE N == Newer(dispatchers[d].since, e)'
    <3> HIDE DEF N
    <3>2. IsFiniteSet(N)
      BY <3>1, FS_Subset DEF N
    <3>3. Cardinality(N) \in Nat
      BY <3>2, FS_CardinalityType
    <3> QED
      BY <3>3 DEF N
  <2>6. ASSUME NEW e \in Owed
        PROVE  Cardinality(Newer(dispatchers[d].since, e)) \in Nat
    <3>1. Newer(dispatchers[d].since, e) \in SUBSET feed /\ IsFiniteSet(feed)
      BY DEF Newer, HookTypes
    <3> QED
      BY <3>1, FS_Subset, FS_CardinalityType
  <2>7. dispatchers[d].offset \in Nat
    BY <2>1 DEF Dispatcher
  <2>8. ASSUME dispatchers[d].pc = "reading", NEW e \in Owed', ~Before(dispatchers[d].last, e)
        PROVE  \/ HasDelivery(e) \/ e \in dispatchers[d].fresh
               \/ Cardinality(Newer(dispatchers[d].since, e)') >= dispatchers[d].offset
    <3>1. e \in Owed /\ e[2] # new[2]
      BY <1>3, <2>8
    <3>2. \/ HasDelivery(e) \/ e \in dispatchers[d].fresh
          \/ Cardinality(Newer(dispatchers[d].since, e)) >= dispatchers[d].offset
      BY <2>1, <2>8, <3>1 DEF SyncInv
    <3> QED
      BY <2>4, <2>5, <2>6, <2>7, <2>8, <3>1, <3>2
  <2>9. SyncInv(d)'
    BY <1>1, <1>3, <2>1, <2>8 DEF SyncInv, HasDelivery
  <2> QED
    BY <2>2, <2>9
<1> QED
  BY <1>1, <1>2, <1>4, <1>5 DEF HookInv, HasDelivery

\* A cycle begins at the cursor, with nothing read, or with nothing to read; or it is
\* given up.
LEMMA FreshCyclesKeepHooks ==
  ASSUME HookInv, NEW d \in Dispatchers, StartCycle(d) \/ StopDispatcher(d)
  PROVE  HookInv'
<1> HookTypes
  BY DEF HookInv
<1>1. UNCHANGED <<clock, feed, cursor, deliveries, received, late>>
  BY DEF StartCycle, StopDispatcher
<1>2. PICK new \in Dispatcher :
        /\ dispatchers' = [dispatchers EXCEPT ![d] = new]
        /\ new.pc \in {"idle", "synced", "reading"}
        /\ new.fresh = {} /\ new.last = Origin /\ new.batch = {}
        /\ new.pc = "reading" => new.since = cursor
  <2>1. Asleep \in Dispatcher /\ cursor \in Events \cup {Origin}
    BY DEF Asleep, Dispatcher, HookTypes
  <2>2. CASE dispatchers' = [dispatchers EXCEPT ![d] = Asleep]
    BY <2>1, <2>2 DEF Asleep
  <2>3. CASE dispatchers' = [dispatchers EXCEPT ![d] = [Asleep EXCEPT !.pc = "synced"]]
    <3> DEFINE new == [Asleep EXCEPT !.pc = "synced"]
    <3>1. /\ new \in Dispatcher /\ new.pc = "synced" /\ new.fresh = {} /\ new.last = Origin
          /\ new.batch = {}
      BY <2>1 DEF Asleep, Dispatcher
    <3> QED
      BY <2>3, <3>1
  <2>4. CASE dispatchers' =
               [dispatchers EXCEPT ![d] = [Asleep EXCEPT !.pc = "reading", !.since = cursor]]
    <3> DEFINE new == [Asleep EXCEPT !.pc = "reading", !.since = cursor]
    <3>1. /\ new \in Dispatcher /\ new.pc = "reading" /\ new.fresh = {} /\ new.last = Origin
          /\ new.batch = {} /\ new.since = cursor
      BY <2>1 DEF Asleep, Dispatcher
    <3> QED
      BY <2>4, <3>1
  <2> QED
    BY <2>2, <2>3, <2>4 DEF StartCycle, StopDispatcher
<1>3. /\ dispatchers' \in [Dispatchers -> Dispatcher] /\ dispatchers'[d] = new
      /\ \A o \in Dispatchers \ {d} : dispatchers'[o] = dispatchers[o]
  BY <1>2 DEF HookTypes
<1>4. Owed' = Owed /\ \A e \in Owed : Before(Origin, e)
  <2>1. \A e \in Owed : e \in Events
    BY DEF Owed, HookTypes
  <2> QED
    BY <1>1, <2>1, EventOrder DEF Owed
<1>5. SyncInv(d)' /\ SendInv(d)' /\ IsFiniteSet(dispatchers'[d].fresh)
  <2>1. \A e \in Owed : ~Before(cursor, e) => HasDelivery(e)
    BY DEF HookInv
  <2>2. SyncInv(d)'
    BY <1>1, <1>2, <1>3, <1>4, <2>1 DEF SyncInv, HasDelivery
  <2> QED
    BY <1>2, <1>3, <2>2, FS_EmptySet DEF SendInv
<1>6. DeliveriesGrow /\ clock' \in 1 .. MaxTime
  BY <1>1, NoDeliveryNews DEF HookTypes
<1> QED
  BY <1>1, <1>3, <1>5, <1>6, LocalHookSteps

\* After a page the sync knows all up to its newest event, but for older pages.
LEMMA ReadPageKeepsHooks ==
  ASSUME HookInv, NEW d \in Dispatchers, ReadPage(d)
  PROVE  HookInv'
<1> HookTypes /\ SyncInv(d) /\ SendInv(d)
  BY SMTT(60) DEF HookInv
<1> DEFINE sync == dispatchers[d]
           new == dispatchers'[d]
           since == sync.since
           listed == {e \in feed : e[1] >= since[1]}
           rank(e) == Cardinality({f \in listed : Before(e, f)})
           page == {e \in listed : rank(e) \in sync.offset .. sync.offset + PageLimit - 1}
           fresh == sync.fresh \cup {e \in page : Before(since, e)}
           done == Cardinality(page) < PageLimit
           newest == IF fresh = {} THEN Origin ELSE Latest(fresh)
           pc == IF ~done THEN sync.pc ELSE IF fresh = {} THEN "synced" ELSE "enqueuing"
           offset == IF done THEN 0 ELSE sync.offset + PageLimit
<1>1. /\ sync.pc = "reading" /\ UNCHANGED <<clock, feed, cursor, deliveries, received, late>>
      /\ dispatchers' = [dispatchers EXCEPT ![d].fresh = fresh, ![d].offset = offset,
                                            ![d].last = newest, ![d].pc = pc]
  BY DEF ReadPage, Page, Doing
<1>2. sync \in Dispatcher /\ IsFiniteSet(sync.fresh) /\ PageLimit \in Nat \ {0}
  BY WebhookAssumption DEF HookTypes
<1>3. /\ listed \in SUBSET feed /\ page \in SUBSET listed /\ listed \in SUBSET Events
      /\ fresh \in SUBSET Events
  BY <1>2 DEF HookTypes, Dispatcher
<1>4. IsFiniteSet(listed) /\ IsFiniteSet(page) /\ IsFiniteSet(fresh)
  <2>1. IsFiniteSet(feed)
    BY DEF HookTypes
  <2> DEFINE found == {e \in page : Before(since, e)}
  <2>2. found \in SUBSET page
    OBVIOUS
  <2>3. fresh = sync.fresh \cup found
    OBVIOUS
  <2> HIDE DEF listed, page, found, fresh
  <2>4. IsFiniteSet(listed) /\ IsFiniteSet(page) /\ IsFiniteSet(found)
    BY <1>3, <2>1, <2>2, FS_Subset
  <2> QED
    BY <1>2, <2>3, <2>4, FS_Union
<1>5. /\ newest \in Events \cup {Origin}
      /\ fresh = {} => newest = Origin
      /\ fresh # {} => newest \in fresh /\ \A f \in fresh : f = newest \/ Before(f, newest)
  <2> HIDE DEF fresh
  <2> QED
    BY <1>3, <1>4, LatestIsNewest
<1>6. \A e \in feed : e \in listed => {f \in listed : Before(e, f)} = Newer(since, e)
  BY DEF Newer
<1>7. ASSUME NEW e \in Events
      PROVE  /\ {f \in listed : Before(e, f)} \in SUBSET listed
             /\ IsFiniteSet({f \in listed : Before(e, f)}) /\ rank(e) \in Nat
  <2> DEFINE N == {f \in listed : Before(e, f)}
  <2>1. N \in SUBSET listed
    OBVIOUS
  <2> HIDE DEF N, listed
  <2>2. IsFiniteSet(N)
    BY <1>4, <2>1, FS_Subset
  <2>3. Cardinality(N) \in Nat
    BY <2>2, FS_CardinalityType
  <2> QED
    BY <2>1, <2>2, <2>3 DEF N
<1>8. done => \A e \in listed : rank(e) < sync.offset + PageLimit
  BY <1>2, <1>3, <1>4, PagesEnd DEF Dispatcher
<1>9. offset \in Nat
  BY <1>2 DEF Dispatcher
<1>10. ASSUME NEW e \in Owed, ~Before(newest, e), ~HasDelivery(e)
       PROVE  e \in fresh \/ (~done /\ Cardinality(Newer(since, e)) >= offset)
  <2>1. e \in Events /\ e \in feed /\ Before(since, e)
    BY <1>1, <1>10 DEF Owed, HookTypes, SyncInv
  <2>2. e \in listed
    <3>1. since \in Events \cup {Origin}
      BY <1>2 DEF Dispatcher
    <3>2. since[1] \in Nat /\ e[1] \in Nat
      BY <2>1, <3>1 DEF Events, Origin
    <3> QED
      BY <2>1, <3>2 DEF Before
  <2>3. rank(e) = Cardinality(Newer(since, e)) /\ rank(e) \in Nat
    BY <1>6, <1>7, <2>1, <2>2
  <2>4. CASE rank(e) < sync.offset
    <3>1. CASE ~Before(sync.last, e)
      <4>1. \/ HasDelivery(e) \/ e \in sync.fresh
            \/ Cardinality(Newer(since, e)) >= sync.offset
        BY <1>1, <1>10, <3>1 DEF SyncInv
      <4>2. Cardinality(Newer(since, e)) \in Nat /\ Cardinality(Newer(since, e)) < sync.offset
        <5> HIDE DEF rank, since, sync
        <5> QED
          BY <2>3, <2>4
      <4>3. sync.offset \in Nat
        BY <1>2 DEF Dispatcher
      <4>4. e \in sync.fresh
        <5> HIDE DEF since, sync
        <5> QED
          BY <1>10, <4>1, <4>2, <4>3
      <4> QED
        BY <4>4
    <3>2. CASE Before(sync.last, e)
      <4>1. newest # Origin
        BY <1>10, <2>1, EventOrder, SMTT(60)
      <4>2. newest \in fresh /\ newest \in Events
        BY <1>3, <1>5, <4>1, SMTT(60)
      <4>3. newest \notin sync.fresh
        <5>1. SUFFICES ASSUME newest \in sync.fresh PROVE FALSE
          OBVIOUS
        <5>2. sync.last \in sync.fresh /\ (newest = sync.last \/ Before(newest, sync.last))
          BY <1>1, <5>1 DEF SyncInv
        <5>3. sync.last \in Events
          BY <1>2, <5>2 DEF Dispatcher
        <5> QED
          BY <1>10, <2>1, <3>2, <4>2, <5>2, <5>3, EventOrder
      <4>4. newest \in listed /\ rank(newest) >= sync.offset
        <5>1. newest \in page
          <6> HIDE DEF newest, page
          <6> QED
            BY <4>2, <4>3
        <5>2. sync.offset \in Nat
          BY <1>2 DEF Dispatcher
        <5> HIDE DEF newest, rank, listed
        <5>3. newest \in listed /\ rank(newest) \in sync.offset .. sync.offset + PageLimit - 1
          BY <5>1
        <5> HIDE DEF sync
        <5> QED
          BY <1>2, <5>2, <5>3
      <4>5. CASE e = newest
        BY <4>2, <4>5
      <4>6. CASE e # newest
        <5>1. Before(e, newest)
          BY <1>10, <2>1, <4>2, <4>6, EventOrder
        <5>2. {f \in listed : Before(newest, f)} \in SUBSET {f \in listed : Before(e, f)}
          <6> SUFFICES ASSUME NEW f \in listed, Before(newest, f) PROVE Before(e, f)
            OBVIOUS
          <6>1. f \in Events /\ newest \in Events /\ e \in Events
            BY <1>3, <2>1, <4>2
          <6> QED
            BY <5>1, <6>1, EventOrder
        <5>3. rank(newest) <= rank(e)
          <6> DEFINE A == {f \in listed : Before(newest, f)}
                     B == {f \in listed : Before(e, f)}
          <6>1. A \in SUBSET B /\ IsFiniteSet(B)
            BY <1>7, <2>1, <5>2
          <6> HIDE DEF A, B
          <6>2. Cardinality(A) <= Cardinality(B)
            BY <6>1, FS_Subset
          <6> QED
            BY <6>2 DEF A, B
        <5>4. rank(newest) \in Nat
          BY <1>7, <4>2
        <5> HIDE DEF rank, newest
        <5> QED
          BY <1>2, <2>3, <2>4, <4>4, <5>3, <5>4, SMTT(60) DEF Dispatcher
      <4> QED
        BY <4>5, <4>6
    <3> QED
      BY <3>1, <3>2
  <2>5. CASE rank(e) >= sync.offset /\ rank(e) < sync.offset + PageLimit
    <3>1. e \in page
      BY <1>2, <2>2, <2>3, <2>5 DEF Dispatcher
    <3> QED
      BY <2>1, <3>1
  <2>6. CASE rank(e) >= sync.offset + PageLimit
    <3>1. ~done
      BY <1>2, <1>8, <2>2, <2>3, <2>6 DEF Dispatcher
    <3> QED
      BY <2>3, <2>6, <3>1
  <2> QED
    BY <1>2, <2>3, <2>4, <2>5, <2>6 DEF Dispatcher
<1>11. \A f \in fresh : Before(since, f)
  BY <1>1, ZenonT(60) DEF SyncInv
<1>12. pc \in {"reading", "synced", "enqueuing"}
  BY <1>1, ZenonT(60)
<1>13. /\ pc = "reading" => ~done
       /\ pc = "enqueuing" => done /\ fresh # {}
  BY <1>1
<1> HIDE DEF pc, newest, fresh, offset, done
<1>14. new = [sync EXCEPT !.fresh = fresh, !.offset = offset, !.last = newest, !.pc = pc]
  BY <1>1 DEF HookTypes
<1>15. /\ new \in Dispatcher /\ new.fresh = fresh /\ new.offset = offset /\ new.last = newest
       /\ new.pc = pc /\ new.since = since /\ new.batch = sync.batch
  BY <1>2, <1>3, <1>5, <1>9, <1>12, <1>14, ZenonT(60) DEF Dispatcher
<1>16. /\ dispatchers' \in [Dispatchers -> Dispatcher]
       /\ \A o \in Dispatchers \ {d} : dispatchers'[o] = dispatchers[o]
  <2>1. dispatchers' = [dispatchers EXCEPT ![d] = new]
    BY <1>1, <1>14
  <2> QED
    BY <1>15, <2>1 DEF HookTypes
<1>17. Owed' = Owed /\ \A e \in Owed : Newer(since, e)' = Newer(since, e)
  <2>1. Owed' = Owed
    BY <1>1 DEF Owed
  <2> QED
    BY <1>1, <1>15, <2>1 DEF Newer
<1>18. SyncInv(d)'
  <2>1. ASSUME new.pc = "reading"
        PROVE  /\ new.fresh = {} => new.last = Origin
               /\ new.fresh # {} => new.last \in new.fresh
               /\ \A f \in new.fresh : Before(new.since, f) /\ (f = new.last \/ Before(f, new.last))
               /\ \A e \in Owed : ~Before(new.since, e) => HasDelivery(e)
               /\ \A e \in Owed : ~Before(new.last, e) =>
                    \/ HasDelivery(e) \/ e \in new.fresh
                    \/ Cardinality(Newer(since, e)) >= new.offset
    BY <1>1, <1>5, <1>10, <1>11, <1>15, <2>1 DEF SyncInv
  <2>2. ASSUME new.pc = "enqueuing"
        PROVE  /\ new.last # Origin
               /\ \A e \in Owed : ~Before(new.last, e) => HasDelivery(e) \/ e \in new.fresh
    <3>1. newest \in Events
      BY <1>3, <1>5, <1>13, <1>15, <2>2
    <3>2. newest # Origin
      BY <3>1, EventOrder
    <3> QED
      BY <1>10, <1>13, <1>15, <2>2, <3>2
  <2>3. \A e \in Events : HasDelivery(e)' <=> HasDelivery(e)
    BY <1>1 DEF HasDelivery
  <2>4. \A e \in Owed : e \in Events
    BY DEF Owed, HookTypes
  <2> QED
    BY <1>17, <2>1, <2>2, <2>3, <2>4 DEF SyncInv
<1>19. SendInv(d)'
  BY <1>1, <1>12, <1>15 DEF SendInv, HasDelivery
<1>20. DeliveriesGrow /\ clock' \in 1 .. MaxTime /\ IsFiniteSet(new.fresh)
  BY <1>1, <1>4, <1>15, NoDeliveryNews DEF HookTypes
<1> QED
  BY <1>1, <1>16, <1>18, <1>19, <1>20, LocalHookSteps

\* Enqueueing an event, again or not, leaves it with its delivery.
LEMMA EnqueuedGrows ==
  ASSUME HookInv, NEW e \in Events, e[3] \in Matching \/ e[2] = 0,
         deliveries' = Enqueued(e), UNCHANGED received
  PROVE  DeliveriesGrow /\ HasDelivery(e)'
BY DEF HookInv, HookTypes, DeliveriesGrow, HasDelivery, Enqueued, Delivery

\* A mark is put on a delivery that is there.
LEMMA MarkedGrows ==
  ASSUME HookInv, NEW e \in Events, HasDelivery(e), NEW n \in Nat,
         NEW s \in {"delivered", "retrying", "failed"}, s = "delivered" => e \in received,
         deliveries' = [deliveries EXCEPT ![e] = [status |-> s, attempts |-> n, due |-> FALSE]],
         UNCHANGED received
  PROVE  DeliveriesGrow
BY DEF HookInv, HookTypes, DeliveriesGrow, HasDelivery, Delivery

\* The oldest of what was read gets its delivery, or needs none.
LEMMA EnqueueDeliveryKeepsHooks ==
  ASSUME HookInv, NEW d \in Dispatchers, EnqueueDelivery(d)
  PROVE  HookInv'
<1> HookTypes /\ SyncInv(d) /\ SendInv(d)
  BY DEF HookInv
<1> DEFINE sync == dispatchers[d]
<1>1. PICK e \in sync.fresh :
        /\ sync.pc = "enqueuing"
        /\ deliveries' = IF e[3] \in Matching THEN Enqueued(e) ELSE deliveries
        /\ dispatchers' = [dispatchers EXCEPT ![d].fresh = @ \ {e}]
        /\ UNCHANGED <<clock, feed, cursor, received, late>>
  BY DEF EnqueueDelivery, Doing
<1>2. sync \in Dispatcher /\ IsFiniteSet(sync.fresh) /\ e \in Events
  BY DEF HookTypes, Dispatcher
<1>3. DeliveriesGrow /\ (e[3] \in Matching => HasDelivery(e)')
  <2>1. CASE e[3] \in Matching
    BY <1>1, <1>2, <2>1, EnqueuedGrows
  <2>2. CASE e[3] \notin Matching
    BY <1>1, <2>2, NoDeliveryNews
  <2> QED
    BY <2>1, <2>2
<1>4. /\ dispatchers' \in [Dispatchers -> Dispatcher]
      /\ dispatchers'[d] = [sync EXCEPT !.fresh = sync.fresh \ {e}]
      /\ \A o \in Dispatchers \ {d} : dispatchers'[o] = dispatchers[o]
  <2>1. [sync EXCEPT !.fresh = sync.fresh \ {e}] \in Dispatcher
    BY <1>2 DEF Dispatcher
  <2> QED
    BY <1>1, <2>1 DEF HookTypes
<1>5. IsFiniteSet(dispatchers'[d].fresh)
  BY <1>2, <1>4, FS_RemoveElement DEF Dispatcher
<1>6. /\ dispatchers'[d].pc = "enqueuing" /\ dispatchers'[d].fresh = sync.fresh \ {e}
      /\ dispatchers'[d].last = sync.last /\ dispatchers'[d].batch = sync.batch
  BY <1>1, <1>2, <1>4 DEF Dispatcher
<1>7. Owed' = Owed /\ \A f \in Owed : f \in Events /\ f[3] \in Matching
  BY <1>1 DEF Owed, HookTypes
<1>8. SyncInv(d)'
  <2>1. /\ sync.last # Origin
        /\ \A f \in Owed : ~Before(sync.last, f) => HasDelivery(f) \/ f \in sync.fresh
    BY <1>1 DEF SyncInv
  <2>2. \A f \in Owed : ~Before(sync.last, f) => HasDelivery(f)' \/ f \in sync.fresh \ {e}
    BY <1>3, <1>7, <2>1 DEF DeliveriesGrow
  <2> QED
    BY <1>6, <1>7, <2>1, <2>2 DEF SyncInv
<1>9. SendInv(d)'
  <2>1. \A row \in sync.batch : row[1] \in Events /\ HasDelivery(row[1])
    BY <1>2 DEF SendInv, Dispatcher
  <2> QED
    BY <1>3, <1>6, <2>1 DEF SendInv, DeliveriesGrow
<1> QED
  BY <1>1, <1>3, <1>4, <1>5, <1>8, <1>9, LocalHookSteps DEF HookTypes

\* The cursor comes to the newest event of a sync, which has seen to the others.
LEMMA UpdateCursorKeepsHooks ==
  ASSUME HookInv, NEW d \in Dispatchers, UpdateCursor(d)
  PROVE  HookInv'
<1> HookTypes /\ SyncInv(d) /\ SendInv(d)
  BY DEF HookInv
<1> DEFINE sync == dispatchers[d]
<1>1. /\ sync.pc = "enqueuing" /\ sync.fresh = {} /\ cursor' = sync.last
      /\ dispatchers' = [dispatchers EXCEPT ![d].pc = "synced", ![d].last = Origin,
                                            ![d].since = Origin]
      /\ UNCHANGED <<clock, feed, deliveries, received, late>>
  BY DEF UpdateCursor, Doing
<1>2. sync \in Dispatcher
  BY DEF HookTypes
<1>3. DeliveriesGrow
  BY <1>1, NoDeliveryNews
<1>4. /\ dispatchers' \in [Dispatchers -> Dispatcher]
      /\ dispatchers'[d] = [sync EXCEPT !.pc = "synced", !.last = Origin, !.since = Origin]
      /\ \A o \in Dispatchers \ {d} : dispatchers'[o] = dispatchers[o]
  <2>1. [sync EXCEPT !.pc = "synced", !.last = Origin, !.since = Origin] \in Dispatcher
    BY <1>2 DEF Dispatcher
  <2> QED
    BY <1>1, <2>1 DEF HookTypes
<1>5. /\ dispatchers'[d].pc = "synced" /\ dispatchers'[d].fresh = {}
      /\ dispatchers'[d].batch = sync.batch
  BY <1>1, <1>2, <1>4 DEF Dispatcher
<1>6. cursor' \in Events \cup {Origin} /\ \A e \in Owed : ~Before(cursor', e) => HasDelivery(e)'
  BY <1>1, <1>2 DEF SyncInv, Dispatcher, HasDelivery
<1>7. SyncInv(d)' /\ SendInv(d)' /\ IsFiniteSet(dispatchers'[d].fresh)
  BY <1>1, <1>5, FS_EmptySet DEF SyncInv, SendInv, HasDelivery
<1> QED
  BY <1>1, <1>3, <1>4, <1>6, <1>7, HookMoves DEF HookTypes

\* Outside of a sync a dispatcher keeps to what has a delivery.
LEMMA SendingKeepsHooks ==
  ASSUME HookInv, NEW d \in Dispatchers, NEW new \in Dispatcher,
         UNCHANGED <<clock, feed, cursor, late>>, DeliveriesGrow,
         dispatchers' = [dispatchers EXCEPT ![d] = new],
         IsFiniteSet(new.fresh), new.pc \notin {"reading", "enqueuing"},
         \A row \in new.batch : HasDelivery(row[1]),
         new.pc \in {"posting", "delivering", "retrying", "failing"} =>
           new.current \in Events /\ HasDelivery(new.current),
         new.pc = "delivering" => new.current \in received'
  PROVE  HookInv'
<1> HookTypes
  BY DEF HookInv
<1>1. /\ dispatchers' \in [Dispatchers -> Dispatcher] /\ dispatchers'[d] = new
      /\ \A o \in Dispatchers \ {d} : dispatchers'[o] = dispatchers[o]
  BY DEF HookTypes
<1>2. SyncInv(d)'
  BY <1>1 DEF SyncInv
<1>3. \A row \in new.batch : row[1] \in Events
  BY DEF Dispatcher
<1>4. SendInv(d)'
  BY <1>1, <1>3 DEF SendInv, DeliveriesGrow
<1> QED
  BY <1>1, <1>2, <1>4, LocalHookSteps DEF HookTypes

\* The due deliveries are there.
LEMMA ReadDueKeepsHooks ==
  ASSUME HookInv, NEW d \in Dispatchers, ReadDue(d)
  PROVE  HookInv'
<1> HookTypes
  BY DEF HookInv
<1> DEFINE rows == {<<e, deliveries[e].attempts>> : e \in {f \in Events : Due(f)}}
           new == [Asleep EXCEPT !.pc = "dispatching", !.batch = rows]
<1>1. /\ dispatchers' = [dispatchers EXCEPT ![d] = new]
      /\ UNCHANGED <<clock, feed, cursor, deliveries, received, late>>
  BY DEF ReadDue
<1>2. rows \in SUBSET (Events \X Nat) /\ \A row \in rows : HasDelivery(row[1])
  BY DEF HookTypes, Delivery, HasDelivery, Due
<1> HIDE DEF rows
<1>3. new \in Dispatcher /\ new.pc = "dispatching" /\ new.batch = rows /\ new.fresh = {}
  BY <1>2 DEF Asleep, Dispatcher
<1>4. DeliveriesGrow
  BY <1>1, NoDeliveryNews
<1> HIDE DEF new
<1> QED
  BY <1>1, <1>2, <1>3, <1>4, SendingKeepsHooks, FS_EmptySet, ZenonT(60)

\* Each row of the batch is tried in turn, and posted or not.
LEMMA DispatchKeepsHooks ==
  ASSUME HookInv, NEW d \in Dispatchers,
         \/ \E row \in dispatchers[d].batch : ReadSubscription(d, row)
         \/ EndCycle(d)
         \/ \E taken, answered \in BOOLEAN : Post(d, taken, answered)
  PROVE  HookInv'
<1> HookTypes /\ SendInv(d)
  BY DEF HookInv
<1> DEFINE sync == dispatchers[d]
<1>1. sync \in Dispatcher /\ IsFiniteSet(sync.fresh)
  BY DEF HookTypes
<1>2. ASSUME NEW row \in sync.batch, ReadSubscription(d, row)
      PROVE  HookInv'
  <2>1. PICK pc \in {"posting", "failing"} :
          dispatchers' = [dispatchers EXCEPT
            ![d].batch = @ \ {row}, ![d].current = row[1], ![d].attempts = row[2] + 1, ![d].pc = pc]
    BY <1>2 DEF ReadSubscription
  <2> DEFINE new == [sync EXCEPT !.batch = @ \ {row}, !.current = row[1],
                                 !.attempts = row[2] + 1, !.pc = pc]
  <2>2. row \in Events \X Nat /\ HasDelivery(row[1])
    BY <1>1 DEF SendInv, Dispatcher
  <2>3. /\ new \in Dispatcher /\ new.pc = pc /\ new.batch = sync.batch \ {row}
        /\ new.current = row[1] /\ new.fresh = sync.fresh
    <3>1. /\ row[1] \in Events /\ row[2] + 1 \in Nat
          /\ sync.batch \ {row} \in SUBSET (Events \X Nat)
      BY <1>1, <2>2 DEF Dispatcher
    <3> QED
      BY <1>1, <3>1 DEF Dispatcher
  <2>4. dispatchers' = [dispatchers EXCEPT ![d] = new]
    BY <2>1
  <2>5. UNCHANGED <<clock, feed, cursor, late>> /\ DeliveriesGrow
    BY <1>2, NoDeliveryNews DEF ReadSubscription
  <2>6. row[1] \in Events /\ \A r \in sync.batch : HasDelivery(r[1])
    BY <2>2 DEF SendInv
  <2> HIDE DEF new
  <2> QED
    BY <1>1, <2>2, <2>3, <2>4, <2>5, <2>6, SendingKeepsHooks
<1>3. CASE EndCycle(d)
  <2> DEFINE new == [sync EXCEPT !.pc = "idle"]
  <2>1. dispatchers' = [dispatchers EXCEPT ![d] = new] /\ sync.batch = {}
    BY <1>3 DEF EndCycle, DispatcherGoto
  <2>2. new \in Dispatcher /\ new.pc = "idle" /\ new.batch = {} /\ new.fresh = sync.fresh
    BY <1>1, <2>1 DEF Dispatcher
  <2>3. UNCHANGED <<clock, feed, cursor, late>> /\ DeliveriesGrow
    BY <1>3, NoDeliveryNews DEF EndCycle
  <2> HIDE DEF new
  <2> QED
    BY <1>1, <2>1, <2>2, <2>3, SendingKeepsHooks
<1>4. ASSUME NEW taken \in BOOLEAN, NEW answered \in BOOLEAN, Post(d, taken, answered)
      PROVE  HookInv'
  <2>1. /\ sync.pc = "posting" /\ UNCHANGED <<clock, feed, cursor, deliveries, late>>
        /\ received' = IF taken THEN received \cup {sync.current} ELSE received
    BY <1>4 DEF Post, Doing
  <2>2. PICK pc \in {"delivering", "failing", "retrying"} :
          /\ dispatchers' = [dispatchers EXCEPT ![d].pc = pc]
          /\ pc = "delivering" => taken
    BY <1>4 DEF Post, DispatcherGoto, RetryOrFail
  <2> DEFINE new == [sync EXCEPT !.pc = pc]
  <2>3. /\ new \in Dispatcher /\ new.pc = pc /\ new.batch = sync.batch
        /\ new.current = sync.current /\ new.fresh = sync.fresh
    BY <1>1 DEF Dispatcher
  <2>4. dispatchers' = [dispatchers EXCEPT ![d] = new]
    BY <2>2
  <2>5. /\ sync.current \in Events /\ HasDelivery(sync.current)
        /\ \A r \in sync.batch : HasDelivery(r[1])
    BY <2>1 DEF SendInv
  <2>6. DeliveriesGrow
    BY <2>1 DEF HookInv, HookTypes, DeliveriesGrow, HasDelivery
  <2>7. pc = "delivering" => sync.current \in received'
    BY <2>1, <2>2
  <2> HIDE DEF new
  <2> QED
    BY <1>1, <2>1, <2>3, <2>4, <2>5, <2>6, <2>7, SendingKeepsHooks
<1> QED
  BY <1>2, <1>3, <1>4

\* The outcome is written, by whoever holds the row.
LEMMA MarkKeepsHooks ==
  ASSUME HookInv, NEW d \in Dispatchers,
         MarkDelivered(d) \/ ThrowMarking(d) \/ MarkRetrying(d) \/ MarkFailed(d)
  PROVE  HookInv'
<1> HookTypes /\ SendInv(d)
  BY DEF HookInv
<1> DEFINE sync == dispatchers[d]
<1>1. /\ sync \in Dispatcher /\ IsFiniteSet(sync.fresh) /\ sync.attempts \in Nat
      /\ \A r \in sync.batch : HasDelivery(r[1])
  BY DEF HookTypes, Dispatcher, SendInv
<1>2. CASE ThrowMarking(d)
  <2>1. /\ sync.pc = "delivering" /\ UNCHANGED <<clock, feed, cursor, received, late>>
        /\ deliveries' \in {deliveries, Marked(d, "delivered", sync.attempts)}
    BY <1>2 DEF ThrowMarking, Doing
  <2>2. PICK pc \in {"failing", "retrying"} : dispatchers' = [dispatchers EXCEPT ![d].pc = pc]
    BY <1>2 DEF ThrowMarking, DispatcherGoto, RetryOrFail
  <2> DEFINE new == [sync EXCEPT !.pc = pc]
  <2>3. /\ new \in Dispatcher /\ new.pc = pc /\ new.batch = sync.batch
        /\ new.current = sync.current /\ new.fresh = sync.fresh
    BY <1>1 DEF Dispatcher
  <2>4. dispatchers' = [dispatchers EXCEPT ![d] = new]
    BY <2>2
  <2>5. sync.current \in Events /\ HasDelivery(sync.current) /\ sync.current \in received
    BY <2>1 DEF SendInv
  <2>6. DeliveriesGrow
    <3>1. CASE deliveries' = deliveries
      BY <2>1, <3>1, NoDeliveryNews
    <3>2. CASE deliveries' = Marked(d, "delivered", sync.attempts)
      BY <1>1, <2>1, <2>5, <3>2, MarkedGrows DEF Marked
    <3> QED
      BY <2>1, <3>1, <3>2
  <2> HIDE DEF new
  <2> QED
    BY <1>1, <2>1, <2>3, <2>4, <2>5, <2>6, SendingKeepsHooks
<1>3. CASE MarkDelivered(d) \/ MarkRetrying(d) \/ MarkFailed(d)
  <2>1. PICK s \in {"delivered", "retrying", "failed"} :
          /\ MarkDelivery(d, s, sync.attempts)
          /\ sync.pc \in {"delivering", "retrying", "failing"}
          /\ s = "delivered" => sync.pc = "delivering"
    BY <1>3 DEF MarkDelivered, MarkRetrying, MarkFailed, Doing
  <2>2. /\ deliveries' = Marked(d, s, sync.attempts)
        /\ dispatchers' = [dispatchers EXCEPT ![d].pc = "dispatching", ![d].current = Origin,
                                              ![d].attempts = 0]
        /\ UNCHANGED <<clock, feed, cursor, received, late>>
    BY <2>1 DEF MarkDelivery
  <2> DEFINE new == [sync EXCEPT !.pc = "dispatching", !.current = Origin, !.attempts = 0]
  <2>3. /\ new \in Dispatcher /\ new.pc = "dispatching" /\ new.batch = sync.batch
        /\ new.fresh = sync.fresh
    BY <1>1 DEF Dispatcher
  <2>4. dispatchers' = [dispatchers EXCEPT ![d] = new]
    BY <2>2
  <2>5. /\ sync.current \in Events /\ HasDelivery(sync.current)
        /\ s = "delivered" => sync.current \in received
    BY <2>1 DEF SendInv
  <2>6. DeliveriesGrow
    BY <1>1, <2>2, <2>5, MarkedGrows DEF Marked
  <2> HIDE DEF new
  <2> QED
    BY <1>1, <2>2, <2>3, <2>4, <2>6, SendingKeepsHooks
<1> QED
  BY <1>2, <1>3

\* Time, pings, retries that fall due and the subscription's status.
LEMMA OutsideKeepsHooks ==
  ASSUME HookInv, Tick \/ Ping \/ Deactivate \/ \E e \in Events : FallDue(e)
  PROVE  HookInv'
<1> HookTypes
  BY DEF HookInv
<1>1. UNCHANGED <<feed, cursor, dispatchers, received, late>> /\ clock' \in 1 .. MaxTime
  BY WebhookAssumption DEF Tick, Ping, Deactivate, FallDue, HookTypes
<1>2. DeliveriesGrow
  <2>1. CASE Tick \/ Deactivate
    BY <1>1, <2>1, NoDeliveryNews DEF Tick, Deactivate
  <2>2. CASE Ping
    <3>1. <<clock, 0, 1>> \in Events
      BY WebhookAssumption DEF Events, EventTypes, HookTypes
    <3> QED
      BY <1>1, <2>2, <3>1, EnqueuedGrows DEF Ping
  <2>3. ASSUME NEW e \in Events, FallDue(e)
        PROVE  DeliveriesGrow
    BY <1>1, <2>3, ZenonT(60) DEF FallDue, HookInv, HookTypes, DeliveriesGrow, HasDelivery, Delivery
  <2> QED
    BY <2>1, <2>2, <2>3
<1> DEFINE nobody == {d \in Dispatchers : d \notin d}
<1>3. nobody \notin Dispatchers
  OBVIOUS
<1> HIDE DEF nobody
<1> QED
  BY <1>1, <1>2, <1>3, LocalHookSteps DEF HookTypes
\* Every step keeps what the dispatchers rely on.
THEOREM HookInvariant == HooksSpec => []HookInv
<1>1. HooksInit => HookInv
  <2> SUFFICES ASSUME HooksInit PROVE HookInv
    OBVIOUS
  <2>1. Asleep \in Dispatcher /\ NoDelivery \in Delivery
    BY DEF Asleep, NoDelivery, Dispatcher, Delivery
  <2>2. HookTypes
    <3>1. Asleep.fresh = {} /\ 1 \in 1 .. MaxTime
      BY WebhookAssumption DEF Asleep
    <3>2. \A d \in Dispatchers : dispatchers[d].fresh = {}
      BY <3>1 DEF HooksInit
    <3> QED
      BY <2>1, <3>1, <3>2, FS_EmptySet DEF HooksInit, HookTypes
  <2>3. \A d \in Dispatchers : SyncInv(d) /\ SendInv(d)
    BY DEF HooksInit, SyncInv, SendInv, Asleep
  <2> QED
    BY <2>2, <2>3 DEF HooksInit, HookInv, OneEventEach, Owed, HasDelivery, NoDelivery
<1>2. HookInv /\ [HooksNext]_hookVars => HookInv'
  <2> SUFFICES ASSUME HookInv, [HooksNext]_hookVars PROVE HookInv'
    OBVIOUS
  <2> HookTypes
    BY DEF HookInv
  <2>1. CASE Tick \/ Ping \/ Deactivate \/ \E e \in Events : FallDue(e)
    BY <2>1, OutsideKeepsHooks
  <2>2. ASSUME NEW s \in Subjects, NEW t \in 1 .. MaxTime, NEW type \in EventTypes,
               UpdateSubject(s, t, type)
        PROVE  HookInv'
    <3> DEFINE new == <<t, s, type>>
    <3>1. new \in Events /\ Show(new) /\ \A f \in feed : f[2] = new[2] => f[1] <= new[1]
      <4>1. t \in Nat /\ \A f \in feed : f[1] \in Nat
        BY DEF HookTypes, Events
      <4> QED
        BY <2>2, <4>1, WebhookAssumption DEF UpdateSubject, Events, Subjects
    <3> HIDE DEF new
    <3> QED
      BY <3>1, ShowKeepsHooks
  <2>3. ASSUME NEW e \in feed, NEW type \in EventTypes, Reclassify(e, type)
        PROVE  HookInv'
    <3> DEFINE new == <<e[1], e[2], type>>
    <3>1. e \in Events
      BY DEF HookTypes
    <3>2. new \in Events /\ Show(new) /\ new[1] = e[1] /\ new[2] = e[2] /\ e[1] \in Nat
      BY <2>3, <3>1 DEF Reclassify, Events
    <3>3. \A f \in feed : f[2] = new[2] => f[1] <= new[1]
      BY <3>2 DEF HookInv, OneEventEach
    <3> HIDE DEF new
    <3> QED
      BY <3>2, <3>3, ShowKeepsHooks
  <2>4. ASSUME NEW d \in Dispatchers, CycleStep(d) \/ StopDispatcher(d)
        PROVE  HookInv'
    BY <2>4, FreshCyclesKeepHooks, ReadPageKeepsHooks, EnqueueDeliveryKeepsHooks,
       UpdateCursorKeepsHooks, ReadDueKeepsHooks, DispatchKeepsHooks, MarkKeepsHooks DEF CycleStep
  <2>5. CASE UNCHANGED hookVars
    BY <2>5 DEF hookVars, HookInv, HookTypes, OneEventEach, Owed, HasDelivery, SyncInv, SendInv,
                Newer
  <2> QED
    BY <2>1, <2>2, <2>3, <2>4, <2>5 DEF HooksNext, WorldStep
<1> QED
  BY <1>1, <1>2, PTL DEF HooksSpec

\* DeliveriesFaithful: an event the subscription asked for and that the feed still
\* shows has its delivery once the cursor is past it, unless it came too late to be
\* seen; nothing else has one; and what is marked delivered was taken.
THEOREM DeliveriesStayFaithful == HooksSpec => []DeliveriesFaithful
<1>1. HookInv => DeliveriesFaithful
  BY DEF HookInv, DeliveriesFaithful, Owed, HasDelivery
<1> QED
  BY <1>1, HookInvariant, PTL
=============================================================================
