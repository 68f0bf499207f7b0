--------------------------- MODULE ResolutionRuns ---------------------------
(***************************************************************************)
(* src/resolver: resolveReplicationJob, run for completed jobs by any      *)
(* number of processes, over the claim registry.  A call makes an operator *)
(* request and a resolution run in the database, sends up to three         *)
(* transactions, and marks both rows by how it went.  A step is the part   *)
(* of a call between two awaits; a transaction that reverts throws.  Other *)
(* accounts use the registries meanwhile.                                  *)
(*                                                                         *)
(* A definition whose name begins with Bug is one the model does not use:  *)
(* its neighbour with a defect the properties must notice.                 *)
(***************************************************************************)
EXTENDS ClaimRegistry

CONSTANTS
  Resolvers,   \* processes, one call at a time
  MaxRequests  \* bound: operator requests ever inserted

ASSUME ResolverAssumption == MaxRequests \in Nat

RequestIds == 1 .. MaxRequests

VARIABLES
  resolutions,       \* per process, the locals of its call
  resolutionRuns,    \* resolution_runs, by replication: its key is unique
  operatorRequests,  \* operator_requests: status by id
  nextRequestId

runVars == <<resolutions, resolutionRuns, operatorRequests, nextRequestId>>
resolverVars == <<claimVars, runVars>>

RowStatus == {"none", "prepared", "submitted", "failed"}
NoCall ==
  [pc |-> "idle", replication |-> 0, outcome |-> "Pending", seen |-> "Draft",
   request |-> 0, hasRun |-> FALSE]
NoRun == [status |-> "none", outcome |-> "Pending", request |-> 0]

RunsInit ==
  /\ resolutions = [p \in Resolvers |-> NoCall]
  /\ resolutionRuns = [r \in ReplicationIds |-> NoRun]
  /\ operatorRequests = [q \in RequestIds |-> "none"]
  /\ nextRequestId = 1

Subject(p) == resolutions[p].replication
SubjectClaim(p) == replications[Subject(p)].claimId
ResolverAt(p, pc) == resolutions' = [resolutions EXCEPT ![p].pc = pc]

\* The job is completed, its replication on chain and without a run so far ...
StartResolution(p, r) ==
  /\ resolutions[p].pc = "idle"
  /\ ReplicationExists(r)
  /\ resolutionRuns[r].status = "none"
  /\ resolutions' = [resolutions EXCEPT ![p] = [NoCall EXCEPT !.pc = "started", !.replication = r]]
  /\ UNCHANGED <<claimVars, resolutionRuns, operatorRequests, nextRequestId>>

\* ... its claim is read, and what to propose taken from the options or the domain.
ProposeResolution(p, outcome) ==
  /\ resolutions[p].pc = "started"
  /\ resolutions' = [resolutions EXCEPT ![p].pc = "proposed", ![p].outcome = outcome,
                                        ![p].seen = claims[SubjectClaim(p)].status]
  /\ UNCHANGED <<claimVars, resolutionRuns, operatorRequests, nextRequestId>>

PrepareRequest(p) ==
  /\ resolutions[p].pc = "proposed"
  /\ nextRequestId <= MaxRequests
  /\ operatorRequests' = [operatorRequests EXCEPT ![nextRequestId] = "prepared"]
  /\ nextRequestId' = nextRequestId + 1
  /\ resolutions' = [resolutions EXCEPT ![p].pc = "requested", ![p].request = nextRequestId]
  /\ UNCHANGED <<claimVars, resolutionRuns>>

\* A run inserted by another call since violates the unique key; and reading
\* the new row back may fail, which leaves it behind.
InsertResolutionRun(p) ==
  /\ resolutions[p].pc = "requested"
  /\ IF resolutionRuns[Subject(p)].status = "none"
     THEN /\ resolutionRuns' = [resolutionRuns EXCEPT ![Subject(p)] =
               [status |-> "prepared", outcome |-> resolutions[p].outcome,
                request |-> resolutions[p].request]]
          /\ \/ resolutions' = [resolutions EXCEPT ![p].pc = "running", ![p].hasRun = TRUE]
             \/ ResolverAt(p, "failing")
     ELSE ResolverAt(p, "failing") /\ UNCHANGED resolutionRuns
  /\ UNCHANGED <<claimVars, operatorRequests, nextRequestId>>

\* A transaction of the call: sent and mined, or refused.
Transact(p, accepted, transaction, next) ==
  /\ \/ accepted /\ transaction /\ ResolverAt(p, next)
     \/ ~accepted /\ UNCHANGED claimVars /\ ResolverAt(p, "failing")
  /\ UNCHANGED <<resolutionRuns, operatorRequests, nextRequestId>>

\* maybeMoveClaimIntoReplication, by the status that was read.
MoveClaimIntoReplication(p) ==
  LET c == SubjectClaim(p)
  IN /\ resolutions[p].pc = "running"
     /\ IF resolutions[p].seen = "Published"
        THEN Transact(p, "UnderReplication" \in AllowedTransition(claims[c].status),
                      SetClaimStatus(c, "UnderReplication", TRUE), "moved")
        ELSE Transact(p, TRUE, UNCHANGED claimVars, "moved")

ResolveOutcome(p) ==
  LET r == Subject(p)
      module == claims[SubjectClaim(p)].resolutionModule
  IN /\ resolutions[p].pc = "moved"
     /\ Transact(p, /\ ~IsReplicationResolved(r)
                    /\ resolutions[p].outcome \in AcceptedStatuses(ModuleKind[module]),
                 Resolve(r, resolutions[p].outcome), "resolved")

BugFinalizeDecision(p) ==  \* not waiting for the receipt
  /\ resolutions[p].pc = "resolved"
  /\ ResolverAt(p, "decided")
  /\ \/ FinalizeClaimResolution(SubjectClaim(p), Subject(p))
     \/ UNCHANGED claimVars
  /\ UNCHANGED <<resolutionRuns, operatorRequests, nextRequestId>>

FinalizeDecision(p) ==
  /\ resolutions[p].pc = "resolved"
  /\ nextResolutionDecisionId <= MaxDecisions
  /\ Transact(p, Finalizable(SubjectClaim(p), Subject(p)),
              FinalizeClaimResolution(SubjectClaim(p), Subject(p)), "decided")

MarkRequest(p, status) ==
  operatorRequests' = [operatorRequests EXCEPT ![resolutions[p].request] = status]
MarkRun(p, status) ==
  resolutionRuns' = [resolutionRuns EXCEPT ![Subject(p)].status = status]
EndCall(p) == resolutions' = [resolutions EXCEPT ![p] = NoCall]

MarkRequestSubmitted(p) ==
  /\ resolutions[p].pc = "decided"
  /\ MarkRequest(p, "submitted")
  /\ ResolverAt(p, "marked")
  /\ UNCHANGED <<claimVars, resolutionRuns, nextRequestId>>

MarkResolutionRunSubmitted(p) ==
  /\ resolutions[p].pc = "marked"
  /\ MarkRun(p, "submitted")
  /\ EndCall(p)
  /\ UNCHANGED <<claimVars, operatorRequests, nextRequestId>>

\* Inside the try any await may throw, after a transaction was mined too.
ThrowResolving(p) ==
  /\ resolutions[p].pc \in {"requested", "running", "moved", "resolved", "decided", "marked"}
  /\ ResolverAt(p, "failing")
  /\ UNCHANGED <<claimVars, resolutionRuns, operatorRequests, nextRequestId>>

MarkRequestFailed(p) ==
  /\ resolutions[p].pc = "failing"
  /\ MarkRequest(p, "failed")
  /\ IF resolutions[p].hasRun THEN ResolverAt(p, "failed") ELSE EndCall(p)
  /\ UNCHANGED <<claimVars, resolutionRuns, nextRequestId>>

MarkResolutionRunFailed(p) ==
  /\ resolutions[p].pc = "failed"
  /\ MarkRun(p, "failed")
  /\ EndCall(p)
  /\ UNCHANGED <<claimVars, operatorRequests, nextRequestId>>

\* The process dies, or an await outside the try throws: the rows stay as they are.
CrashResolving(p) ==
  /\ resolutions[p].pc # "idle"
  /\ EndCall(p)
  /\ UNCHANGED <<claimVars, resolutionRuns, operatorRequests, nextRequestId>>

ResolverStep(p) ==
  \/ \E r \in ReplicationIds : StartResolution(p, r)
  \/ \E outcome \in ResolutionStatus : ProposeResolution(p, outcome)
  \/ PrepareRequest(p) \/ InsertResolutionRun(p)
  \/ MoveClaimIntoReplication(p) \/ ResolveOutcome(p) \/ FinalizeDecision(p)
  \/ MarkRequestSubmitted(p) \/ MarkResolutionRunSubmitted(p)
  \/ ThrowResolving(p) \/ MarkRequestFailed(p) \/ MarkResolutionRunFailed(p)
  \/ CrashResolving(p)

RunsNext ==
  \/ Next /\ UNCHANGED runVars
  \/ \E p \in Resolvers : ResolverStep(p)

RunsSpec == Init /\ RunsInit /\ [][RunsNext]_resolverVars

-----------------------------------------------------------------------------
(***************************************************************************)
(* Properties.                                                             *)
(***************************************************************************)

\* The replication of run r was decided, with the outcome of the run.
DecidedAs(r) ==
  /\ replications[r].status = resolutionRuns[r].outcome
  /\ replicationDecisionId[r] # 0

\* What the database says was done is done, though another resolver, an error
\* after any transaction or a crash may have come between: a submitted run is of
\* a replication decided with its outcome, by a request that is submitted too,
\* and a submitted request belongs to such a run, submitted or not.
SubmittedRunsDecided ==
  /\ \A r \in ReplicationIds : resolutionRuns[r].status = "submitted" =>
       DecidedAs(r) /\ operatorRequests[resolutionRuns[r].request] = "submitted"
  /\ \A q \in RequestIds : operatorRequests[q] = "submitted" =>
       \E r \in ReplicationIds : resolutionRuns[r].request = q /\ DecidedAs(r)
=============================================================================
