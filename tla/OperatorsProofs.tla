-------------------------- MODULE OperatorsProofs --------------------------
(***************************************************************************)
(* Proofs about the services that write to the chain: modules              *)
(* ResolutionRuns, AppealsRegistry, PublicWrites and SourcePublication,    *)
(* each by itself, for any number of processes, requests, appeals and      *)
(* sources, among all the other uses of the claim registry; and            *)
(* Checkpoints, for any number of engines, publishers and subjects.        *)
(***************************************************************************)
EXTENDS ResolutionRuns, AppealsRegistry, PublicWrites, SourcePublication, Checkpoints,
        ClaimRegistryProofs, SumTheorems

(***************************************************************************)
(* What a service may rely on between two of its own transactions.         *)
(***************************************************************************)

\* What nobody can undo: a request's claim, the existence of claims and
\* replications, that a claim has left the drafts, and the outcome and decision of
\* a replication.
Keeps ==
  /\ \A h \in RequestHashes : delegatedClaimRequestIds[h] # 0 =>
       delegatedClaimRequestIds'[h] = delegatedClaimRequestIds[h]
  /\ \A c \in ClaimIds : /\ ClaimExists(c) => ClaimExists(c)'
                         /\ claims[c].status # "Draft" => claims'[c].status # "Draft"
  /\ \A r \in ReplicationIds :
       /\ ReplicationExists(r) => replications'[r].claimId = replications[r].claimId
       /\ IsReplicationResolved(r) => replications'[r].status = replications[r].status
       /\ replicationDecisionId[r] # 0 => replicationDecisionId'[r] # 0

\* Every step of the registries keeps that.
LEMMA RegistryKeeps ==
  ASSUME Inv, [Next]_claimVars
  PROVE  Keeps
<1> USE DEF moduleVars, replicationVars, recordVars, decisionVars
<1> TypeOK
  BY DEF Inv
<1>1. CASE ModuleAdministration \/ UNCHANGED claimVars
  BY <1>1 DEF ModuleAdministration, claimVars, Keeps, ClaimExists, ReplicationExists,
              IsReplicationResolved
<1>2. CASE CreationStep
  <2>1. UNCHANGED <<replications, replicationDecisionId>>
    BY <1>2, CreationCases
  <2>2. CASE UNCHANGED recordVars
    BY <2>1, <2>2 DEF Keeps, ClaimExists, ReplicationExists, IsReplicationResolved
  <2>3. CASE \E a \in Actors, b \in Bonds, p \in ClaimIds \cup {0},
               m \in Modules \cup {NoModule} : Creates(a, b, p, m)
    <3>1. \A h \in RequestHashes : delegatedClaimRequestIds[h] # 0 =>
            delegatedClaimRequestIds'[h] = delegatedClaimRequestIds[h]
      BY <2>3 DEF Creates, TypeOK
    <3>2. /\ nextClaimId \in ClaimIds /\ claims[nextClaimId] = ZeroClaim
          /\ \A c \in ClaimIds : c # nextClaimId => claims'[c] = claims[c]
      BY <2>3, ReplicationAssumption DEF Creates, NewClaim, Inv, Fresh, TypeOK, ClaimIds
    <3> QED
      BY <2>1, <3>1, <3>2
      DEF Keeps, ClaimExists, ReplicationExists, IsReplicationResolved, ZeroClaim
  <2> QED
    BY <1>2, <2>2, <2>3, CreationCases
<1>3. CASE \E a \in Actors, c \in ClaimIds : Submit(a, c)
  <2>1. /\ nextReplicationId \in ReplicationIds /\ replications[nextReplicationId] = ZeroReplication
        /\ \A r \in ReplicationIds : r # nextReplicationId => replications'[r] = replications[r]
        /\ UNCHANGED <<recordVars, decisionVars>>
    BY <1>3, ReplicationAssumption
    DEF Submit, SubmitReplication, Inv, Fresh, TypeOK, ReplicationIds
  <2>2. replicationDecisionId[nextReplicationId] = 0
    BY <2>1 DEF Inv, ResolutionsAccepted, IsReplicationResolved, ZeroReplication
  <2> QED
    BY <2>1, <2>2 DEF Keeps, ClaimExists, ReplicationExists, IsReplicationResolved, ZeroReplication
<1>4. CASE \E r \in ReplicationIds, s \in ResolutionStatus : Resolve(r, s)
  BY <1>4 DEF Resolve, ResolveReplicationOutcome, Keeps, ClaimExists, ReplicationExists,
              IsReplicationResolved, TypeOK, ReplicationRecord
<1>5. CASE \E c \in ClaimIds, r \in ReplicationIds : FinalizeClaimResolution(c, r)
  <2>1. PICK c \in ClaimIds, r \in ReplicationIds : FinalizeClaimResolution(c, r)
    BY <1>5
  <2> DEFINE s == ClaimStatusForResolution(replications[r].status)
             d == nextResolutionDecisionId
  <2>2. /\ d \in DecisionIds
        /\ s \in ResolutionDerived \cup {"UnderReplication"}
        /\ replicationDecisionId' = [replicationDecisionId EXCEPT ![r] = d]
        /\ claims' = claims \/ claims' = [claims EXCEPT ![c].status = s]
        /\ UNCHANGED <<replicationVars, delegatedClaimRequestIds>>
    BY <2>1, FinalizeFacts
  <2> HIDE DEF s, d
  <2>3. s # "Draft" /\ d # 0
    BY <2>2 DEF ResolutionDerived, DecisionIds
  <2> QED
    BY <2>2, <2>3
    DEF Keeps, ClaimExists, ReplicationExists, IsReplicationResolved, TypeOK, ClaimRecord
<1>6. CASE \E c \in ClaimIds, s \in ClaimStatus, bondSatisfied \in BOOLEAN :
             SetClaimStatus(c, s, bondSatisfied)
  <2>1. PICK c \in ClaimIds, s \in ClaimStatus, bondSatisfied \in BOOLEAN :
          SetClaimStatus(c, s, bondSatisfied)
    BY <1>6
  <2>2. s # "Draft"
    BY <2>1, TransitionsStrengthen DEF SetClaimStatus, TypeOK, ClaimRecord
  <2> QED
    BY <2>1, <2>2
    DEF SetClaimStatus, Keeps, ClaimExists, ReplicationExists, IsReplicationResolved, TypeOK,
        ClaimRecord
<1> QED
  BY <1>1, <1>2, <1>3, <1>4, <1>5, <1>6 DEF Next, RegistryStep, EvidenceStep

-----------------------------------------------------------------------------
(***************************************************************************)
(* ResolutionRuns.  SubmittedRunsDecided is not inductive: that the rows a *)
(* call marks are the ones it prepared needs that requests have one call,  *)
(* that the run of a call stays the one it inserted, and that the chain is *)
(* where the call believes it to be.                                       *)
(***************************************************************************)
CallPcs ==
  {"idle", "started", "proposed", "requested", "running", "moved", "resolved", "decided",
   "marked", "failing", "failed"}

\* Where a call has a request, and where it has a run too.
Requesting == CallPcs \ {"idle", "started", "proposed"}
Running == {"running", "moved", "resolved", "decided", "marked", "failed"}

RunTypes ==
  /\ resolutions \in [Resolvers ->
       [pc : CallPcs, replication : ReplicationIds \cup {0}, outcome : ResolutionStatus,
        seen : ClaimStatus, request : Nat, hasRun : BOOLEAN]]
  /\ resolutionRuns \in [ReplicationIds ->
       [status : RowStatus, outcome : ResolutionStatus, request : Nat]]
  /\ operatorRequests \in [RequestIds -> RowStatus]
  /\ nextRequestId \in Nat \ {0}

\* A call's replication exists; its run is as it inserted it; its request and the
\* replication are as far as its transactions and updates went.
CallInv(p) ==
  LET call == resolutions[p]
  IN /\ call.pc # "idle" => call.replication \in ReplicationIds /\ ReplicationExists(call.replication)
     /\ call.pc \in Requesting => call.request \in RequestIds /\ call.request < nextRequestId
     /\ call.pc \in Running => call.hasRun
     /\ call.pc \in {"idle", "started", "proposed", "requested"} => ~call.hasRun
     /\ call.hasRun => resolutionRuns[call.replication] =
          [status |-> "prepared", outcome |-> call.outcome, request |-> call.request]
     /\ call.pc \in {"resolved", "decided", "marked"} =>
          /\ call.outcome # "Pending"
          /\ replications[call.replication].status = call.outcome
     /\ call.pc \in {"decided", "marked"} => replicationDecisionId[call.replication] # 0
     /\ call.pc = "marked" => operatorRequests[call.request] = "submitted"

\* No two calls have one request.
RequestsApart ==
  \A p, o \in Resolvers :
    p # o /\ resolutions[p].pc \in Requesting /\ resolutions[o].pc \in Requesting =>
      resolutions[p].request # resolutions[o].request

\* A run has a request that was made, and is not marked while a call has it.
RunInv(r) ==
  /\ resolutionRuns[r].status = "none" <=> resolutionRuns[r].request = 0
  /\ resolutionRuns[r].request < nextRequestId
  /\ resolutionRuns[r].status # "none" => resolutionRuns[r].request \in RequestIds
  /\ \A p \in Resolvers :
       resolutions[p].pc \in Requesting /\ resolutionRuns[r].request = resolutions[p].request =>
         resolutionRuns[r].status = "prepared"

\* Requests to come are not in use.
FreshRequests == \A q \in RequestIds : q >= nextRequestId => operatorRequests[q] = "none"

ResolverInv ==
  /\ Inv
  /\ RunTypes
  /\ \A p \in Resolvers : CallInv(p)
  /\ RequestsApart
  /\ \A r \in ReplicationIds : RunInv(r)
  /\ FreshRequests
  /\ SubmittedRunsDecided

\* A call that another one is not, and the rows it relies on, are as they were.
LEMMA OtherCallsKeep ==
  ASSUME ResolverInv, Keeps, NEW o \in Resolvers, resolutions'[o] = resolutions[o],
         nextRequestId' \in Nat, nextRequestId' >= nextRequestId,
         resolutions[o].hasRun =>
           resolutionRuns'[resolutions[o].replication] = resolutionRuns[resolutions[o].replication],
         resolutions[o].pc = "marked" =>
           operatorRequests'[resolutions[o].request] = operatorRequests[resolutions[o].request]
  PROVE  CallInv(o)'
<1>1. CallInv(o) /\ RunTypes
  BY DEF ResolverInv
<1>2. resolutions[o].pc # "idle" => resolutions[o].replication \in ReplicationIds
  BY <1>1 DEF CallInv
<1> QED
  BY <1>1, <1>2
  DEF CallInv, RunTypes, Keeps, ReplicationExists, IsReplicationResolved, RequestIds, CallPcs

\* A decided run stays decided.
LEMMA DecidedStays ==
  ASSUME Inv, Keeps, NEW r \in ReplicationIds, DecidedAs(r),
         resolutionRuns'[r].outcome = resolutionRuns[r].outcome
  PROVE  DecidedAs(r)'
BY DEF Inv, ResolutionsAccepted, Keeps, DecidedAs

\* A step of a call that writes no row.
LEMMA CallMoves ==
  ASSUME ResolverInv, Keeps, Inv', NEW p \in Resolvers, RunTypes', CallInv(p)',
         UNCHANGED <<resolutionRuns, operatorRequests, nextRequestId>>,
         \A o \in Resolvers \ {p} : resolutions'[o] = resolutions[o],
         resolutions'[p].pc \in Requesting =>
           resolutions[p].pc \in Requesting /\ resolutions'[p].request = resolutions[p].request
  PROVE  ResolverInv'
<1> RunTypes
  BY DEF ResolverInv
<1>1. \A o \in Resolvers : CallInv(o)'
  BY OtherCallsKeep DEF RunTypes
<1>2. RequestsApart'
  BY DEF ResolverInv, RequestsApart
<1>3. \A r \in ReplicationIds : RunInv(r)'
  BY DEF ResolverInv, RunInv
<1>4. FreshRequests'
  BY DEF ResolverInv, FreshRequests
<1>5. \A r \in ReplicationIds : DecidedAs(r) => DecidedAs(r)'
  BY DecidedStays DEF ResolverInv
<1>6. SubmittedRunsDecided'
  BY <1>5 DEF ResolverInv, SubmittedRunsDecided
<1> QED
  BY <1>1, <1>2, <1>3, <1>4, <1>6 DEF ResolverInv

\* What other accounts do on chain takes nothing back from a call.
LEMMA RegistryKeepsCalls ==
  ASSUME ResolverInv, Keeps, Inv', UNCHANGED runVars
  PROVE  ResolverInv'
<1> USE DEF runVars
<1> RunTypes
  BY DEF ResolverInv
<1>1. \A o \in Resolvers : CallInv(o)'
  BY OtherCallsKeep DEF RunTypes
<1>2. RunTypes' /\ RequestsApart' /\ FreshRequests'
  BY DEF ResolverInv, RunTypes, RequestsApart, FreshRequests
<1>3. \A r \in ReplicationIds : RunInv(r)'
  BY DEF ResolverInv, RunInv
<1>4. \A r \in ReplicationIds : DecidedAs(r) => DecidedAs(r)'
  BY DecidedStays DEF ResolverInv
<1>5. SubmittedRunsDecided'
  BY <1>4 DEF ResolverInv, SubmittedRunsDecided
<1> QED
  BY <1>1, <1>2, <1>3, <1>5 DEF ResolverInv

\* A call begins, reads, throws or ends without writing a row.
LEMMA LocalStepsKeepCalls ==
  ASSUME ResolverInv, NEW p \in Resolvers,
         \/ \E r \in ReplicationIds : StartResolution(p, r)
         \/ \E outcome \in ResolutionStatus : ProposeResolution(p, outcome)
         \/ ThrowResolving(p) \/ CrashResolving(p)
  PROVE  ResolverInv'
<1> RunTypes /\ CallInv(p) /\ Inv
  BY DEF ResolverInv
<1> UNCHANGED <<claimVars, resolutionRuns, operatorRequests, nextRequestId>>
  BY DEF StartResolution, ProposeResolution, ThrowResolving, CrashResolving
<1>1. Keeps /\ Inv'
  BY RegistryKeeps, NextKeepsInv
<1>2. resolutions[p].pc = "started" => claims[SubjectClaim(p)].status \in ClaimStatus
  BY DEF CallInv, Inv, TypeOK, SubjectClaim, Subject, ReplicationExists, ReplicationRecord, ClaimRecord
<1>3. "Pending" \in ResolutionStatus /\ "Draft" \in ClaimStatus
  BY DEF ResolutionStatus, ClaimStatus
<1> DEFINE Follows ==
             /\ RunTypes' /\ CallInv(p)'
             /\ \A o \in Resolvers \ {p} : resolutions'[o] = resolutions[o]
             /\ resolutions'[p].pc \in Requesting =>
                  /\ resolutions[p].pc \in Requesting
                  /\ resolutions'[p].request = resolutions[p].request
<1> USE DEF RunTypes, CallPcs, Requesting, Running, ReplicationExists, ResolverAt, EndCall, NoCall
<1>4. ASSUME NEW r \in ReplicationIds, StartResolution(p, r)
      PROVE  Follows
  BY <1>1, <1>3, <1>4 DEF StartResolution, CallInv, claimVars, replicationVars
<1>5. ASSUME NEW outcome \in ResolutionStatus, ProposeResolution(p, outcome)
      PROVE  Follows
  <2> DEFINE call == [resolutions[p] EXCEPT !.pc = "proposed", !.outcome = outcome,
                                            !.seen = claims[SubjectClaim(p)].status]
  <2>1. resolutions[p].pc = "started" /\ resolutions' = [resolutions EXCEPT ![p] = call]
    BY <1>5 DEF ProposeResolution
  <2>2. /\ call.pc = "proposed" /\ call.replication = resolutions[p].replication
        /\ call.hasRun = resolutions[p].hasRun
        /\ call \in [pc : CallPcs, replication : ReplicationIds \cup {0},
                     outcome : ResolutionStatus, seen : ClaimStatus, request : Nat,
                     hasRun : BOOLEAN]
    BY <1>2, <2>1, ZenonT(60)
  <2> HIDE DEF call
  <2> QED
    BY <1>1, <2>1, <2>2 DEF CallInv, claimVars, replicationVars
<1>6. CASE ThrowResolving(p)
  <2>1. Follows
    BY <1>1, <1>6 DEF ThrowResolving, CallInv, claimVars, replicationVars
  <2> QED
    BY <1>1, <2>1, CallMoves
<1>7. CASE CrashResolving(p)
  <2>1. Follows
    BY <1>3, <1>7 DEF CrashResolving, CallInv
  <2> QED
    BY <1>1, <2>1, CallMoves
<1> QED
  BY <1>1, <1>4, <1>5, <1>6, <1>7, CallMoves

\* A transaction of a call is one of the registries', or there was none.
LEMMA TransactionsAreSteps ==
  ASSUME ResolverInv, NEW p \in Resolvers,
         MoveClaimIntoReplication(p) \/ ResolveOutcome(p) \/ FinalizeDecision(p)
  PROVE  [Next]_claimVars
<1>1. Subject(p) \in ReplicationIds /\ SubjectClaim(p) \in ClaimIds
  BY ZenonT(60) DEF ResolverInv, CallInv, Inv, TypeOK, MoveClaimIntoReplication, ResolveOutcome,
         FinalizeDecision, Subject, SubjectClaim, ReplicationExists, ReplicationRecord
<1>2. resolutions[p].outcome \in ResolutionStatus /\ "UnderReplication" \in ClaimStatus
  BY DEF ResolverInv, RunTypes, ClaimStatus
<1>3. CASE MoveClaimIntoReplication(p)
  <2>1. \/ SetClaimStatus(SubjectClaim(p), "UnderReplication", TRUE)
        \/ UNCHANGED claimVars
    BY <1>3 DEF MoveClaimIntoReplication, Transact
  <2> QED
    BY <1>1, <1>2, <2>1 DEF Next
<1>4. CASE ResolveOutcome(p)
  <2>1. Resolve(Subject(p), resolutions[p].outcome) \/ UNCHANGED claimVars
    BY <1>4 DEF ResolveOutcome, Transact
  <2> QED
    BY <1>1, <1>2, <2>1 DEF Next, RegistryStep, EvidenceStep
<1>5. CASE FinalizeDecision(p)
  <2>1. FinalizeClaimResolution(SubjectClaim(p), Subject(p)) \/ UNCHANGED claimVars
    BY <1>5 DEF FinalizeDecision, Transact
  <2> QED
    BY <1>1, <2>1 DEF Next, RegistryStep, EvidenceStep
<1> QED
  BY <1>3, <1>4, <1>5

\* A transaction takes the call on when it was mined, or the call fails.
LEMMA TransactionsKeepCalls ==
  ASSUME ResolverInv, NEW p \in Resolvers,
         MoveClaimIntoReplication(p) \/ ResolveOutcome(p) \/ FinalizeDecision(p)
  PROVE  ResolverInv'
<1> RunTypes /\ CallInv(p) /\ Inv
  BY DEF ResolverInv
<1>1. Keeps /\ Inv' /\ [Next]_claimVars
  BY TransactionsAreSteps, RegistryKeeps, NextKeepsInv
<1>2. PICK n \in {"moved", "resolved", "decided", "failing"} :
        /\ resolutions[p].pc \in {"running", "moved", "resolved"}
        /\ n = "resolved" => resolutions[p].pc = "moved"
        /\ n = "decided" => resolutions[p].pc = "resolved"
        /\ n = "moved" => resolutions[p].pc = "running"
        /\ n # "failing" => \/ n = "moved"
                            \/ n = "resolved" /\ ResolveOutcome(p)
                                 /\ Resolve(Subject(p), resolutions[p].outcome)
                                 /\ resolutions[p].outcome
                                      \in AcceptedStatuses(ModuleKind[claims[SubjectClaim(p)].resolutionModule])
                            \/ n = "decided" /\ FinalizeClaimResolution(SubjectClaim(p), Subject(p))
        /\ resolutions' = [resolutions EXCEPT ![p].pc = n]
  BY DEF MoveClaimIntoReplication, ResolveOutcome, FinalizeDecision, Transact, ResolverAt
<1>3. UNCHANGED <<resolutionRuns, operatorRequests, nextRequestId>>
  BY DEF MoveClaimIntoReplication, ResolveOutcome, FinalizeDecision, Transact
<1>4. Subject(p) = resolutions[p].replication /\ Subject(p) \in ReplicationIds
  BY <1>2 DEF CallInv, Subject
<1>5. n = "resolved" =>
        /\ resolutions[p].outcome # "Pending"
        /\ replications'[Subject(p)].status = resolutions[p].outcome
  BY <1>2, <1>4, AcceptedAreResolutions
  DEF Resolve, ResolveReplicationOutcome, Inv, TypeOK, ReplicationRecord
<1>6. n = "decided" => replicationDecisionId'[Subject(p)] # 0
  <2> SUFFICES ASSUME n = "decided" PROVE replicationDecisionId'[Subject(p)] # 0
    OBVIOUS
  <2>1. FinalizeClaimResolution(SubjectClaim(p), Subject(p))
    BY <1>2
  <2> QED
    BY <1>4, <2>1 DEF FinalizeClaimResolution, RecordDecision, Inv, TypeOK, DecisionIds
<1>7. /\ resolutions'[p] = [resolutions[p] EXCEPT !.pc = n]
      /\ \A o \in Resolvers \ {p} : resolutions'[o] = resolutions[o]
  BY <1>2 DEF RunTypes
<1>8. RunTypes'
  BY <1>2, <1>3 DEF RunTypes, CallPcs
<1>9. CallInv(p)'
  BY <1>1, <1>2, <1>3, <1>4, <1>5, <1>6, <1>7
  DEF CallInv, RunTypes, CallPcs, Requesting, Running, Keeps, ReplicationExists,
      IsReplicationResolved
<1>10. resolutions'[p].pc \in Requesting =>
         resolutions[p].pc \in Requesting /\ resolutions'[p].request = resolutions[p].request
  BY <1>2, <1>7 DEF RunTypes, CallPcs, Requesting
<1> QED
  BY <1>1, <1>3, <1>7, <1>8, <1>9, <1>10, CallMoves

\* What CallInv says of the rows of a call.
LEMMA CallRows ==
  ASSUME ResolverInv, NEW o \in Resolvers
  PROVE  /\ resolutions[o].pc \in Requesting =>
              /\ resolutions[o].request \in RequestIds /\ resolutions[o].request \in Nat
              /\ resolutions[o].request < nextRequestId /\ resolutions[o].request # 0
         /\ resolutions[o].hasRun =>
              /\ resolutions[o].replication \in ReplicationIds
              /\ resolutionRuns[resolutions[o].replication].status = "prepared"
              /\ resolutions[o].pc \in Requesting
<1>1. CallInv(o) /\ RunTypes
  BY DEF ResolverInv
<1>2. resolutions[o].pc \in CallPcs
  BY <1>1 DEF RunTypes
<1> QED
  BY <1>1, <1>2 DEF CallInv, RequestIds, Requesting, CallPcs

\* The request of a call is a new one.
LEMMA PrepareRequestKeepsCalls ==
  ASSUME ResolverInv, NEW p \in Resolvers, PrepareRequest(p)
  PROVE  ResolverInv'
<1> USE DEF PrepareRequest
<1> RunTypes /\ CallInv(p) /\ Inv
  BY DEF ResolverInv
<1> DEFINE q == nextRequestId
<1>1. Keeps /\ Inv'
  BY RegistryKeeps, NextKeepsInv
<1>2. q \in RequestIds /\ q \in Nat /\ operatorRequests[q] = "none"
  BY ResolverAssumption DEF RunTypes, RequestIds, ResolverInv, FreshRequests
<1>3. /\ operatorRequests' = [operatorRequests EXCEPT ![q] = "prepared"]
      /\ nextRequestId' = q + 1
      /\ resolutions' = [resolutions EXCEPT ![p].pc = "requested", ![p].request = q]
      /\ UNCHANGED <<claimVars, resolutionRuns>>
  OBVIOUS
<1> HIDE DEF q, PrepareRequest
<1>4. /\ resolutions'[p] = [resolutions[p] EXCEPT !.pc = "requested", !.request = q]
      /\ \A o \in Resolvers \ {p} : resolutions'[o] = resolutions[o]
  BY <1>3 DEF RunTypes
<1>5. RunTypes'
  <2>1. resolutions'[p] \in
          [pc : CallPcs, replication : ReplicationIds \cup {0}, outcome : ResolutionStatus,
           seen : ClaimStatus, request : Nat, hasRun : BOOLEAN]
    <3>1. resolutions[p] \in
            [pc : CallPcs, replication : ReplicationIds \cup {0}, outcome : ResolutionStatus,
             seen : ClaimStatus, request : Nat, hasRun : BOOLEAN]
      BY DEF RunTypes
    <3>2. "requested" \in CallPcs
      BY DEF CallPcs
    <3> QED
      BY <1>2, <1>4, <3>1, <3>2
  <2>2. q + 1 \in Nat \ {0}
    BY <1>2
  <2> QED
    BY <1>2, <1>3, <2>1, <2>2 DEF RunTypes, RowStatus
<1>6. ASSUME NEW o \in Resolvers, resolutions[o].pc \in Requesting
      PROVE  resolutions[o].request # q
  BY <1>2, <1>6, CallRows DEF q
<1>7. CallInv(p)'
  <2>1. resolutions[p].pc = "proposed"
    BY DEF PrepareRequest
  <2> QED
    BY <1>2, <1>3, <1>4, <2>1
    DEF CallInv, RunTypes, CallPcs, Requesting, Running, claimVars, replicationVars, ReplicationExists
<1>8. ASSUME NEW o \in Resolvers \ {p} PROVE CallInv(o)'
  <2>1. resolutions[o].pc = "marked" => resolutions[o].request # q
    BY <1>6 DEF Requesting, CallPcs
  <2>2. resolutions[o].pc = "marked" =>
          operatorRequests'[resolutions[o].request] = operatorRequests[resolutions[o].request]
    BY <1>3, <2>1 DEF ResolverInv, CallInv, Requesting, CallPcs, RunTypes
  <2> QED
    <3>1. nextRequestId' \in Nat /\ nextRequestId' >= nextRequestId
      BY <1>2, <1>3 DEF q
    <3> QED
      BY <1>1, <1>3, <1>4, <2>2, <3>1, OtherCallsKeep
<1>9. RequestsApart'
  <2>1. resolutions'[p].request = q
    BY <1>4 DEF RunTypes
  <2>2. RequestsApart
    BY DEF ResolverInv
  <2> QED
    BY <1>4, <1>6, <2>1, <2>2, ZenonT(60) DEF RequestsApart
<1>10. ASSUME NEW r \in ReplicationIds
       PROVE  RunInv(r)' /\ resolutionRuns'[r] = resolutionRuns[r] /\ resolutionRuns[r].request # q
  BY <1>2, <1>3, <1>4 DEF ResolverInv, RunInv, RunTypes, RequestIds, q
<1>11. FreshRequests'
  <2>1. \A i \in RequestIds : i >= q + 1 => i >= q /\ i # q
    BY <1>2 DEF RequestIds
  <2> QED
    BY <1>2, <1>3, <2>1 DEF ResolverInv, FreshRequests, RunTypes, q
<1>12. \A r \in ReplicationIds : DecidedAs(r) => DecidedAs(r)'
  BY <1>1, <1>10, DecidedStays
<1>13. SubmittedRunsDecided'
  BY <1>2, <1>3, <1>10, <1>12 DEF ResolverInv, SubmittedRunsDecided, RunTypes
<1> QED
  BY <1>1, <1>5, <1>7, <1>8, <1>9, <1>10, <1>11, <1>13 DEF ResolverInv

\* A run is inserted where there was none.
LEMMA InsertResolutionRunKeepsCalls ==
  ASSUME ResolverInv, NEW p \in Resolvers, InsertResolutionRun(p)
  PROVE  ResolverInv'
<1> RunTypes /\ CallInv(p) /\ Inv
  BY DEF ResolverInv
<1> DEFINE t == resolutions[p].replication
           run == [status |-> "prepared", outcome |-> resolutions[p].outcome,
                   request |-> resolutions[p].request]
<1>1. Keeps /\ Inv'
  BY RegistryKeeps, NextKeepsInv DEF InsertResolutionRun
<1>2. /\ resolutions[p].pc = "requested" /\ t \in ReplicationIds
      /\ resolutions[p].request \in RequestIds /\ ~resolutions[p].hasRun
  BY DEF InsertResolutionRun, CallInv, CallPcs, Requesting
<1>3. PICK pc \in {"running", "failing"}, has \in BOOLEAN :
        /\ resolutions' = [resolutions EXCEPT ![p].pc = pc, ![p].hasRun = has]
        /\ pc = "running" <=> has
        /\ \/ ~has /\ UNCHANGED resolutionRuns
           \/ /\ resolutionRuns[t].status = "none"
              /\ resolutionRuns' = [resolutionRuns EXCEPT ![t] = run]
        /\ UNCHANGED <<claimVars, operatorRequests, nextRequestId>>
        /\ has => resolutionRuns' = [resolutionRuns EXCEPT ![t] = run]
  <2>1. CASE resolutions' = [resolutions EXCEPT ![p].pc = "running", ![p].hasRun = TRUE]
             /\ resolutionRuns[Subject(p)].status = "none"
    BY <2>1 DEF InsertResolutionRun, Subject
  <2>2. CASE ResolverAt(p, "failing")
    <3>1. resolutions' = [resolutions EXCEPT ![p].pc = "failing", ![p].hasRun = FALSE]
      BY <1>2, <2>2 DEF ResolverAt, RunTypes
    <3> QED
      BY <1>2, <2>2, <3>1 DEF InsertResolutionRun, Subject
  <2> QED
    BY <2>1, <2>2 DEF InsertResolutionRun
<1>4. /\ resolutions'[p] = [resolutions[p] EXCEPT !.pc = pc, !.hasRun = has]
      /\ \A o \in Resolvers \ {p} : resolutions'[o] = resolutions[o]
  BY <1>3 DEF RunTypes
<1>5. run \in [status : RowStatus, outcome : ResolutionStatus, request : Nat]
  BY DEF RunTypes, RowStatus
<1>6. RunTypes'
  <2>1. resolutions'[p] \in
          [pc : CallPcs, replication : ReplicationIds \cup {0}, outcome : ResolutionStatus,
           seen : ClaimStatus, request : Nat, hasRun : BOOLEAN]
    <3>1. resolutions[p] \in
            [pc : CallPcs, replication : ReplicationIds \cup {0}, outcome : ResolutionStatus,
             seen : ClaimStatus, request : Nat, hasRun : BOOLEAN]
      BY DEF RunTypes
    <3>2. pc \in CallPcs
      BY <1>3 DEF CallPcs
    <3>3. PICK call : call = resolutions[p]
      OBVIOUS
    <3>4. [call EXCEPT !.pc = pc, !.hasRun = has] \in
            [pc : CallPcs, replication : ReplicationIds \cup {0}, outcome : ResolutionStatus,
             seen : ClaimStatus, request : Nat, hasRun : BOOLEAN]
      BY <3>1, <3>2, <3>3
    <3> QED
      BY <1>4, <3>3, <3>4
  <2>2. resolutionRuns' \in
          [ReplicationIds -> [status : RowStatus, outcome : ResolutionStatus, request : Nat]]
    <3> HIDE DEF run
    <3> QED
      BY <1>2, <1>3, <1>5 DEF RunTypes
  <2> QED
    BY <1>3, <2>1, <2>2 DEF RunTypes
<1>7. ASSUME NEW r \in ReplicationIds, resolutionRuns[r].status # "none"
      PROVE  resolutionRuns'[r] = resolutionRuns[r]
  BY <1>3, <1>7 DEF RunTypes
<1>8. CallInv(p)'
  BY <1>1, <1>2, <1>3, <1>4
  DEF CallInv, RunTypes, CallPcs, Requesting, Running, Keeps, ReplicationExists, RequestIds
<1>9. ASSUME NEW o \in Resolvers \ {p} PROVE CallInv(o)'
  <2>1. resolutions[o].hasRun => /\ resolutions[o].replication \in ReplicationIds
                                 /\ resolutionRuns[resolutions[o].replication].status # "none"
    BY CallRows
  <2> QED
    BY <1>1, <1>3, <1>4, <1>7, <2>1, OtherCallsKeep DEF RunTypes
<1>10. RequestsApart'
  <2>1. resolutions'[p].request = resolutions[p].request /\ resolutions[p].pc \in Requesting
    BY <1>2, <1>4 DEF RunTypes, Requesting, CallPcs
  <2> QED
    BY <1>4, <2>1, ZenonT(60) DEF ResolverInv, RequestsApart
<1>11. ASSUME NEW r \in ReplicationIds PROVE RunInv(r)'
  <2>1. RunInv(r)
    BY DEF ResolverInv
  <2>2. CASE resolutionRuns'[r] = resolutionRuns[r]
    BY <1>2, <1>3, <1>4, <2>1, <2>2 DEF RunInv, RunTypes, Requesting, CallPcs
  <2>3. CASE resolutionRuns'[r] = run
    <3>1. run.status = "prepared" /\ run.request = resolutions[p].request
      OBVIOUS
    <3>2. run.request < nextRequestId
      BY <1>2 DEF CallInv, Requesting, CallPcs
    <3> QED
      BY <1>2, <1>3, <2>3, <3>1, <3>2 DEF RunInv, RequestIds
  <2> QED
    BY <1>3, <2>2, <2>3 DEF RunTypes
<1>12. FreshRequests'
  BY <1>3 DEF ResolverInv, FreshRequests
<1>13. ASSUME NEW r \in ReplicationIds, resolutionRuns[r].request # 0, DecidedAs(r)
       PROVE  DecidedAs(r)' /\ resolutionRuns'[r] = resolutionRuns[r]
  BY <1>1, <1>7, <1>13, DecidedStays DEF ResolverInv, RunInv
<1>14. SubmittedRunsDecided'
  <2>1. ASSUME NEW r \in ReplicationIds, resolutionRuns'[r].status = "submitted"
        PROVE  DecidedAs(r)' /\ operatorRequests'[resolutionRuns'[r].request] = "submitted"
    <3>1. resolutionRuns'[r] = resolutionRuns[r]
      BY <1>3, <2>1 DEF RunTypes
    <3>2. resolutionRuns[r].request # 0
      BY <2>1, <3>1 DEF ResolverInv, RunInv
    <3> QED
      BY <1>3, <1>13, <2>1, <3>1, <3>2 DEF ResolverInv, SubmittedRunsDecided
  <2>2. ASSUME NEW q \in RequestIds, operatorRequests'[q] = "submitted"
        PROVE  \E r \in ReplicationIds : resolutionRuns'[r].request = q /\ DecidedAs(r)'
    <3>1. PICK r \in ReplicationIds : resolutionRuns[r].request = q /\ DecidedAs(r)
      BY <1>3, <2>2 DEF ResolverInv, SubmittedRunsDecided
    <3>2. q # 0
      BY DEF RequestIds
    <3> QED
      BY <1>13, <3>1, <3>2
  <2> QED
    BY <2>1, <2>2 DEF SubmittedRunsDecided
<1> QED
  BY <1>1, <1>6, <1>8, <1>9, <1>10, <1>11, <1>12, <1>14 DEF ResolverInv

\* A request is marked by the one call that has it; if it was submitted with a run,
\* that run is not submitted yet.
LEMMA MarkingRequestsKeepsCalls ==
  ASSUME ResolverInv, NEW p \in Resolvers, MarkRequestSubmitted(p) \/ MarkRequestFailed(p)
  PROVE  ResolverInv'
<1> RunTypes /\ CallInv(p) /\ Inv
  BY DEF ResolverInv
<1> DEFINE q == resolutions[p].request
<1>1. UNCHANGED <<claimVars, resolutionRuns, nextRequestId>>
  BY DEF MarkRequestSubmitted, MarkRequestFailed
<1>2. Keeps /\ Inv'
  BY <1>1, RegistryKeeps, NextKeepsInv
<1>3. resolutions[p].pc \in Requesting
  BY DEF MarkRequestSubmitted, MarkRequestFailed, Requesting, CallPcs
<1>4. q \in RequestIds /\ q \in Nat /\ q < nextRequestId
  BY <1>3, CallRows
<1>5. PICK status \in {"submitted", "failed"} :
        /\ operatorRequests' = [operatorRequests EXCEPT ![q] = status]
        /\ status = "submitted" => resolutions[p].pc = "decided" /\ ResolverAt(p, "marked")
        /\ status = "failed" =>
             \/ resolutions[p].hasRun /\ ResolverAt(p, "failed")
             \/ resolutions' = [resolutions EXCEPT ![p] = NoCall]
  BY DEF MarkRequestSubmitted, MarkRequestFailed, MarkRequest, EndCall
<1> HIDE DEF q
<1>6. NoCall \in [pc : CallPcs, replication : ReplicationIds \cup {0}, outcome : ResolutionStatus,
                  seen : ClaimStatus, request : Nat, hasRun : BOOLEAN]
  BY DEF NoCall, CallPcs, ResolutionStatus, ClaimStatus
<1>7. /\ \A o \in Resolvers \ {p} : resolutions'[o] = resolutions[o]
      /\ \/ resolutions'[p] = NoCall
         \/ resolutions'[p] = [resolutions[p] EXCEPT !.pc = "marked"] /\ status = "submitted"
         \/ resolutions'[p] = [resolutions[p] EXCEPT !.pc = "failed"] /\ resolutions[p].hasRun
              /\ status = "failed"
      /\ resolutions' = [resolutions EXCEPT ![p] = resolutions'[p]]
  BY <1>5 DEF RunTypes, ResolverAt
<1>8. RunTypes'
  <2>1. resolutions'[p] \in
          [pc : CallPcs, replication : ReplicationIds \cup {0}, outcome : ResolutionStatus,
           seen : ClaimStatus, request : Nat, hasRun : BOOLEAN]
    BY <1>6, <1>7, SMTT(60) DEF RunTypes, CallPcs
  <2> QED
    BY <1>1, <1>4, <1>5, <1>7, <2>1 DEF RunTypes, RowStatus
<1>9. CallInv(p)'
  <2>1. CASE resolutions'[p] = NoCall
    BY <2>1 DEF CallInv, NoCall, Requesting, Running
  <2>2. CASE resolutions'[p] = [resolutions[p] EXCEPT !.pc = "marked"] /\ status = "submitted"
    BY <1>1, <1>4, <1>5, <2>2
    DEF CallInv, RunTypes, CallPcs, Requesting, Running, ReplicationExists, q,
        claimVars, replicationVars, decisionVars
  <2>3. CASE resolutions'[p] = [resolutions[p] EXCEPT !.pc = "failed"] /\ resolutions[p].hasRun
               /\ status = "failed"
    <3>1. resolutions[p].pc = "failing"
      BY <1>5, <2>3 DEF MarkRequestSubmitted, MarkRequestFailed, ResolverAt, MarkRequest, RunTypes
    <3> QED
      BY <1>1, <1>4, <2>3, <3>1
      DEF CallInv, RunTypes, CallPcs, Requesting, Running, ReplicationExists, q,
          claimVars, replicationVars, decisionVars
  <2> QED
    BY <1>7, <2>1, <2>2, <2>3
<1>10. ASSUME NEW o \in Resolvers \ {p} PROVE CallInv(o)'
  <2>1. resolutions[o].pc \in Requesting => resolutions[o].request # q
    BY <1>3 DEF ResolverInv, RequestsApart, q
  <2>2. resolutions[o].pc = "marked" =>
          operatorRequests'[resolutions[o].request] = operatorRequests[resolutions[o].request]
    BY <1>5, <2>1 DEF RunTypes, Requesting, CallPcs
  <2> QED
    BY <1>1, <1>2, <1>7, <2>2, OtherCallsKeep DEF RunTypes
<1>11. resolutions'[p].pc \in Requesting => resolutions'[p].request = q
  BY <1>7 DEF NoCall, Requesting, RunTypes, q
<1>12. RequestsApart'
  BY <1>3, <1>7, <1>11 DEF ResolverInv, RequestsApart, q
<1>13. ASSUME NEW r \in ReplicationIds PROVE RunInv(r)'
  BY <1>1, <1>3, <1>7, <1>11 DEF ResolverInv, RunInv, q
<1>14. FreshRequests'
  BY <1>1, <1>4, <1>5 DEF ResolverInv, FreshRequests, RunTypes, RequestIds
<1>15. \A r \in ReplicationIds : DecidedAs(r) => DecidedAs(r)'
  BY <1>1, <1>2, DecidedStays
<1>16. ASSUME NEW r \in ReplicationIds, resolutionRuns[r].status = "submitted"
       PROVE  resolutionRuns[r].request # q /\ resolutionRuns[r].request \in RequestIds
  BY <1>3, <1>16 DEF ResolverInv, RunInv, q
<1>17. status = "submitted" =>
         \E r \in ReplicationIds : resolutionRuns[r].request = q /\ DecidedAs(r)
  BY <1>5 DEF CallInv, CallPcs, Running, DecidedAs, q
<1>18. SubmittedRunsDecided'
  <2>1. \A r \in ReplicationIds : resolutionRuns'[r].status = "submitted" =>
          DecidedAs(r)' /\ operatorRequests'[resolutionRuns'[r].request] = "submitted"
    BY <1>1, <1>5, <1>15, <1>16 DEF ResolverInv, SubmittedRunsDecided, RunTypes
  <2>2. \A i \in RequestIds : operatorRequests'[i] = "submitted" =>
          \E r \in ReplicationIds : resolutionRuns'[r].request = i /\ DecidedAs(r)'
    BY <1>1, <1>4, <1>5, <1>15, <1>17 DEF ResolverInv, SubmittedRunsDecided, RunTypes
  <2> QED
    BY <2>1, <2>2 DEF SubmittedRunsDecided
<1> QED
  BY <1>2, <1>8, <1>9, <1>10, <1>12, <1>13, <1>14, <1>18 DEF ResolverInv

\* A run is marked by its call, which then ends.
LEMMA MarkingRunsKeepsCalls ==
  ASSUME ResolverInv, NEW p \in Resolvers,
         MarkResolutionRunSubmitted(p) \/ MarkResolutionRunFailed(p)
  PROVE  ResolverInv'
<1> RunTypes /\ CallInv(p) /\ Inv
  BY DEF ResolverInv
<1> DEFINE t == resolutions[p].replication
<1>1. /\ UNCHANGED <<claimVars, operatorRequests, nextRequestId>>
      /\ resolutions' = [resolutions EXCEPT ![p] = NoCall]
  BY DEF MarkResolutionRunSubmitted, MarkResolutionRunFailed, EndCall
<1>2. Keeps /\ Inv'
  BY <1>1, RegistryKeeps, NextKeepsInv
<1>3. resolutions[p].hasRun /\ resolutions[p].pc \in Requesting
  BY DEF MarkResolutionRunSubmitted, MarkResolutionRunFailed, CallInv, Running, Requesting, CallPcs
<1>4. /\ t \in ReplicationIds
      /\ resolutionRuns[t].request = resolutions[p].request
      /\ resolutionRuns[t].outcome = resolutions[p].outcome
      /\ resolutionRuns[t].status = "prepared"
  BY <1>3, CallRows DEF CallInv
<1>5. PICK status \in {"submitted", "failed"} :
        /\ resolutionRuns' = [resolutionRuns EXCEPT ![t].status = status]
        /\ status = "submitted" => resolutions[p].pc = "marked"
  BY DEF MarkResolutionRunSubmitted, MarkResolutionRunFailed, MarkRun, Subject
<1>6. NoCall \in [pc : CallPcs, replication : ReplicationIds \cup {0}, outcome : ResolutionStatus,
                  seen : ClaimStatus, request : Nat, hasRun : BOOLEAN]
  BY DEF NoCall, CallPcs, ResolutionStatus, ClaimStatus
<1>7. /\ resolutions'[p] = NoCall
      /\ \A o \in Resolvers \ {p} : resolutions'[o] = resolutions[o]
  BY <1>1 DEF RunTypes
<1>8. /\ resolutionRuns'[t] = [resolutionRuns[t] EXCEPT !.status = status]
      /\ \A r \in ReplicationIds \ {t} : resolutionRuns'[r] = resolutionRuns[r]
  BY <1>4, <1>5 DEF RunTypes
<1>9. RunTypes'
  <2>1. resolutionRuns'[t] \in [status : RowStatus, outcome : ResolutionStatus, request : Nat]
    BY <1>4, <1>8 DEF RunTypes, RowStatus
  <2>2. resolutionRuns' = [resolutionRuns EXCEPT ![t] = resolutionRuns'[t]]
    BY <1>5, <1>8 DEF RunTypes
  <2> QED
    BY <1>1, <1>6, <2>1, <2>2 DEF RunTypes
<1>10. CallInv(p)'
  BY <1>7 DEF CallInv, NoCall, Requesting, Running
<1>11. ASSUME NEW o \in Resolvers \ {p} PROVE CallInv(o)'
  <2>1. resolutions[o].hasRun => resolutions[o].replication # t
    <3> SUFFICES ASSUME resolutions[o].hasRun, resolutions[o].replication = t PROVE FALSE
      OBVIOUS
    <3>1. o \in Resolvers /\ CallInv(o) /\ resolutions[o].pc \in Requesting
      BY CallRows DEF ResolverInv
    <3>2. resolutionRuns[t].request = resolutions[o].request
      BY <3>1 DEF CallInv
    <3> QED
      BY <1>3, <1>4, <3>1, <3>2 DEF ResolverInv, RequestsApart
  <2>2. resolutions[o].hasRun => resolutions[o].replication \in ReplicationIds
    BY CallRows
  <2> QED
    BY <1>1, <1>2, <1>7, <1>8, <2>1, <2>2, OtherCallsKeep DEF RunTypes
<1>12. RequestsApart'
  BY <1>7 DEF ResolverInv, RequestsApart, NoCall, Requesting
<1>13. ASSUME NEW r \in ReplicationIds
       PROVE  /\ resolutionRuns'[r].request = resolutionRuns[r].request
              /\ resolutionRuns'[r].outcome = resolutionRuns[r].outcome
              /\ r # t => resolutionRuns'[r].status = resolutionRuns[r].status
              /\ r = t => resolutionRuns'[r].status = status
  BY <1>8 DEF RunTypes
<1>14. ASSUME NEW r \in ReplicationIds PROVE RunInv(r)'
  <2>1. RunInv(r)
    BY DEF ResolverInv
  <2>2. CASE r = t
    <3>1. ASSUME NEW o \in Resolvers, resolutions'[o].pc \in Requesting
          PROVE  resolutions'[o].request # resolutionRuns[t].request
      BY <1>3, <1>4, <1>7, <3>1 DEF ResolverInv, RequestsApart, NoCall, Requesting
    <3> QED
      BY <1>1, <1>4, <1>5, <1>13, <2>1, <2>2, <3>1 DEF RunInv
  <2>3. CASE r # t
    BY <1>1, <1>7, <1>13, <2>1, <2>3 DEF RunInv, NoCall, Requesting
  <2> QED
    BY <2>2, <2>3
<1>15. FreshRequests'
  BY <1>1 DEF ResolverInv, FreshRequests
<1>16. \A r \in ReplicationIds : DecidedAs(r) => DecidedAs(r)'
  BY <1>2, <1>13, DecidedStays
<1>17. status = "submitted" =>
         DecidedAs(t) /\ operatorRequests[resolutionRuns[t].request] = "submitted"
  BY <1>4, <1>5 DEF CallInv, DecidedAs
<1>18. SubmittedRunsDecided'
  BY <1>1, <1>4, <1>13, <1>16, <1>17 DEF ResolverInv, SubmittedRunsDecided
<1> QED
  BY <1>2, <1>9, <1>10, <1>11, <1>12, <1>14, <1>15, <1>18 DEF ResolverInv

\* Before any call the invariant holds.
LEMMA InitResolverInv == Init /\ RunsInit => ResolverInv
<1> SUFFICES ASSUME Init, RunsInit PROVE ResolverInv
  OBVIOUS
<1>1. Inv
  BY InitInv
<1>2. /\ "Pending" \in ResolutionStatus /\ "Draft" \in ClaimStatus
      /\ "none" \in RowStatus /\ "idle" \in CallPcs
  BY DEF ResolutionStatus, ClaimStatus, RowStatus, CallPcs
<1>3. RunTypes
  BY <1>2 DEF RunsInit, RunTypes, NoCall, NoRun
<1>4. \A p \in Resolvers : resolutions[p] = NoCall
  BY DEF RunsInit
<1>5. \A r \in ReplicationIds : resolutionRuns[r] = NoRun
  BY DEF RunsInit
<1>6. \A p \in Resolvers : CallInv(p)
  BY <1>4 DEF CallInv, NoCall, Requesting, Running
<1>7. RequestsApart
  BY <1>4 DEF RequestsApart, NoCall, Requesting
<1>8. \A r \in ReplicationIds : RunInv(r)
  BY <1>4, <1>5 DEF RunInv, NoRun, NoCall, Requesting, RunsInit
<1>9. FreshRequests /\ SubmittedRunsDecided
  BY <1>5 DEF FreshRequests, SubmittedRunsDecided, NoRun, RunsInit
<1> QED
  BY <1>1, <1>3, <1>6, <1>7, <1>8, <1>9 DEF ResolverInv

\* The invariant of the resolution service, whatever interleaves.
THEOREM ResolverInvariant == RunsSpec => []ResolverInv
<1>1. Init /\ RunsInit => ResolverInv
  BY InitResolverInv
<1>2. ResolverInv /\ [RunsNext]_resolverVars => ResolverInv'
  <2> SUFFICES ASSUME ResolverInv, [RunsNext]_resolverVars PROVE ResolverInv'
    OBVIOUS
  <2>1. CASE Next /\ UNCHANGED runVars
    <3>1. Keeps /\ Inv'
      BY <2>1, RegistryKeeps, NextKeepsInv DEF ResolverInv
    <3> QED
      BY <2>1, <3>1, RegistryKeepsCalls
  <2>2. CASE UNCHANGED resolverVars
    <3>1. Keeps /\ Inv' /\ UNCHANGED runVars
      BY <2>2, RegistryKeeps, NextKeepsInv DEF ResolverInv, resolverVars
    <3> QED
      BY <3>1, RegistryKeepsCalls
  <2>3. ASSUME NEW p \in Resolvers, ResolverStep(p) PROVE ResolverInv'
    BY <2>3, LocalStepsKeepCalls, TransactionsKeepCalls, PrepareRequestKeepsCalls,
       InsertResolutionRunKeepsCalls, MarkingRequestsKeepsCalls, MarkingRunsKeepsCalls
    DEF ResolverStep
  <2> QED
    BY <2>1, <2>2, <2>3 DEF RunsNext
<1> QED
  BY <1>1, <1>2, PTL DEF RunsSpec

\* What resolution_runs and operator_requests say was submitted is decided on
\* chain, with that outcome.
THEOREM SubmittedRunsAreDecided == RunsSpec => []SubmittedRunsDecided
<1>1. ResolverInv => SubmittedRunsDecided
  BY DEF ResolverInv
<1> QED
  BY <1>1, ResolverInvariant, PTL

-----------------------------------------------------------------------------
(***************************************************************************)
(* AppealsRegistry.  The bonds are accounted for by induction over the     *)
(* calls: an appeal that was not filed yet counts nowhere, since it has no *)
(* bond and no appellant.                                                  *)
(***************************************************************************)
AppealTypes ==
  /\ appeals \in [AppealIds ->
       [claimId : ClaimIds \cup {0}, appellant : Actors \cup {ZeroAddress},
        status : AppealStatus, bondAmount : Nat]]
  /\ nextAppealId \in Nat \ {0}
  /\ refundableBondBalances \in [Actors -> Nat]
  /\ withdrawn \in [Actors -> Nat]
  /\ forfeited \in Nat
  /\ appealBalance \in Int

AppealsFiled ==
  \A i \in AppealIds : /\ i >= nextAppealId => appeals[i] = NoAppeal
                       /\ appeals[i].claimId # 0 => appeals[i].appellant \in Actors

AppealInv == AppealTypes /\ AppealsFiled /\ BondsFollowVerdicts

Bond == [i \in AppealIds |-> appeals[i].bondAmount]

\* Appeals are finite in number.
LEMMA FiniteAppeals == IsFiniteSet(AppealIds)
<1>1. 1 \in Int /\ MaxAppeals \in Int
  BY AppealAssumption
<1> QED
  BY <1>1, FS_Interval DEF AppealIds

\* What a change of one appeal does to the bonds of a set of appeals.
LEMMA BondsChange ==
  ASSUME AppealTypes, AppealTypes', NEW x \in AppealIds,
         \A y \in AppealIds \ {x} : appeals'[y] = appeals[y],
         NEW T \in SUBSET AppealIds, NEW U \in SUBSET AppealIds,
         \A y \in AppealIds \ {x} : y \in U <=> y \in T
  PROVE  SumFunctionOnSet(Bond', U)
           = BondsOf(T) + ((IF x \in U THEN appeals'[x].bondAmount ELSE 0)
                           - (IF x \in T THEN appeals[x].bondAmount ELSE 0))
<1>1. IsFiniteSet(AppealIds)
  BY FiniteAppeals
<1>2. /\ \A y \in AppealIds : Bond[y] = appeals[y].bondAmount /\ Bond[y] \in Int
      /\ \A y \in AppealIds : Bond'[y] = appeals'[y].bondAmount /\ Bond'[y] \in Int
  BY DEF Bond, AppealTypes
<1>3. BondsOf(T) = SumFunctionOnSet(Bond, T)
  BY DEF BondsOf, Bond
<1>4. PICK f, g : f = Bond /\ g = Bond'
  OBVIOUS
<1>5. /\ \A y \in AppealIds : f[y] \in Int
      /\ g[x] \in Int
      /\ \A y \in AppealIds \ {x} : g[y] = f[y] /\ (y \in U <=> y \in T)
  BY <1>2, <1>4
<1>6. SumFunctionOnSet(g, U)
        = SumFunctionOnSet(f, T) + ((IF x \in U THEN g[x] ELSE 0) - (IF x \in T THEN f[x] ELSE 0))
  BY <1>1, <1>5, PartChange
<1> QED
  BY <1>2, <1>3, <1>4, <1>6

\* The bonds of a set of appeals are a natural number.
LEMMA BondsAreNatural ==
  ASSUME AppealTypes, NEW T \in SUBSET AppealIds
  PROVE  BondsOf(T) \in Nat
<1>1. IsFiniteSet(T)
  BY FiniteAppeals, FS_Subset
<1>2. \A y \in T : Bond[y] \in Nat
  BY DEF Bond, AppealTypes
<1> HIDE DEF Bond
<1>3. SumFunctionOnSet(Bond, T) \in Nat
  BY <1>1, <1>2, SumNat
<1> QED
  BY <1>3 DEF BondsOf, Bond

\* The verdicts that give a bond back.
GivesBack == AppealStatus \ (LosingStatus \cup {"Filed"})

\* The appeals a bond of which is with a, with the treasury, or held.
WonBy(a) == Owned(a, GivesBack)
Lost == {i \in AppealIds : appeals[i].status \in LosingStatus}
Open == {i \in AppealIds : appeals[i].status = "Filed"}

\* BondsFollowVerdicts in those words.
BondsAsJudged ==
  /\ \A a \in Actors : withdrawn[a] + refundableBondBalances[a] = BondsOf(WonBy(a))
  /\ forfeited = BondsOf(Lost)
  /\ appealBalance = BondsOf(Open) + SumFunctionOnSet(refundableBondBalances, Actors)

\* It says the same.
LEMMA VerdictsInOtherWords == BondsFollowVerdicts <=> BondsAsJudged
BY DEF BondsFollowVerdicts, BondsAsJudged, WonBy, Lost, Open, GivesBack

\* A filed appeal adds its bond to those held.
LEMMA FileAppealKeepsBonds ==
  ASSUME AppealInv, NEW a \in Actors, NEW c \in ClaimIds, NEW r \in ReplicationIds \cup {0},
         NEW n \in 1 .. MaxAppealBond, FileAppeal(a, c, r, n)
  PROVE  AppealInv'
<1> DEFINE x == nextAppealId
<1> AppealTypes
  BY DEF AppealInv
<1>1. x \in AppealIds /\ x \in Nat /\ n \in Nat
  BY AppealAssumption DEF FileAppeal, AppealTypes, AppealIds
<1>2. appeals[x] = NoAppeal
  BY <1>1 DEF AppealInv, AppealsFiled
<1>3. appeals'[x] = [claimId |-> c, appellant |-> a, status |-> "Filed", bondAmount |-> n]
  BY <1>1 DEF FileAppeal, AppealTypes
<1>4. \A y \in AppealIds \ {x} : appeals'[y] = appeals[y]
  BY <1>1 DEF FileAppeal, AppealTypes
<1>5. AppealTypes'
  <2>1. appeals'[x] \in [claimId : ClaimIds \cup {0}, appellant : Actors \cup {ZeroAddress},
                         status : AppealStatus, bondAmount : Nat]
    BY <1>1, <1>3 DEF AppealStatus
  <2>2. appeals' = [appeals EXCEPT ![x] = appeals'[x]]
    BY <1>3 DEF FileAppeal
  <2> QED
    BY <1>1, <2>1, <2>2 DEF FileAppeal, AppealTypes
<1>6. AppealsFiled'
  <2>1. \A i \in AppealIds : i >= x + 1 => i >= x /\ i # x
    BY <1>1 DEF AppealIds
  <2> QED
    BY <1>1, <1>3, <1>4, <2>1 DEF AppealInv, AppealsFiled, FileAppeal
<1>7. ASSUME NEW b \in Actors
      PROVE  BondsOf(WonBy(b))' = BondsOf(WonBy(b))
  <2>1. SumFunctionOnSet(Bond', WonBy(b)') = BondsOf(WonBy(b)) + (0 - 0)
    <3>1. x \notin WonBy(b)' /\ x \notin WonBy(b)
      BY <1>2, <1>3 DEF WonBy, Owned, GivesBack, NoAppeal
    <3>2. \A y \in AppealIds \ {x} : y \in WonBy(b)' <=> y \in WonBy(b)
      BY <1>4 DEF WonBy, Owned
    <3>3. WonBy(b) \in SUBSET AppealIds /\ WonBy(b)' \in SUBSET AppealIds
      BY DEF WonBy, Owned
    <3>4. PICK T, U : T = WonBy(b) /\ U = WonBy(b)'
      OBVIOUS
    <3>5. T \in SUBSET AppealIds /\ U \in SUBSET AppealIds
      BY <3>3, <3>4
    <3>6. SumFunctionOnSet(Bond', U)
            = BondsOf(T) + ((IF x \in U THEN appeals'[x].bondAmount ELSE 0)
                            - (IF x \in T THEN appeals[x].bondAmount ELSE 0))
      BY <1>1, <1>4, <1>5, <3>2, <3>4, <3>5, BondsChange
    <3> QED
      BY <3>1, <3>4, <3>6
  <2>2. BondsOf(WonBy(b)) \in Nat
    BY BondsAreNatural DEF WonBy, Owned
  <2>3. BondsOf(WonBy(b))' = SumFunctionOnSet(Bond', WonBy(b)')
    BY DEF BondsOf, Bond
  <2> QED
    BY <2>1, <2>2, <2>3
<1>8. BondsOf(Lost)' = BondsOf(Lost)
  <2>1. SumFunctionOnSet(Bond', Lost') = BondsOf(Lost) + (0 - 0)
    <3>1. x \notin Lost' /\ x \notin Lost
      BY <1>2, <1>3 DEF Lost, LosingStatus, NoAppeal
    <3>2. \A y \in AppealIds \ {x} : y \in Lost' <=> y \in Lost
      BY <1>4 DEF Lost
    <3>3. Lost \in SUBSET AppealIds /\ Lost' \in SUBSET AppealIds
      BY DEF Lost
    <3>4. PICK T, U : T = Lost /\ U = Lost'
      OBVIOUS
    <3>5. T \in SUBSET AppealIds /\ U \in SUBSET AppealIds
      BY <3>3, <3>4
    <3>6. SumFunctionOnSet(Bond', U)
            = BondsOf(T) + ((IF x \in U THEN appeals'[x].bondAmount ELSE 0)
                            - (IF x \in T THEN appeals[x].bondAmount ELSE 0))
      BY <1>1, <1>4, <1>5, <3>2, <3>4, <3>5, BondsChange
    <3> QED
      BY <3>1, <3>4, <3>6
  <2>2. BondsOf(Lost) \in Nat
    BY BondsAreNatural DEF Lost
  <2>3. BondsOf(Lost)' = SumFunctionOnSet(Bond', Lost')
    BY DEF BondsOf, Bond
  <2> QED
    BY <2>1, <2>2, <2>3
<1>9. BondsOf(Open)' = BondsOf(Open) + n
  <2>1. SumFunctionOnSet(Bond', Open') = BondsOf(Open) + (n - 0)
    <3>1. x \in Open' /\ x \in Open /\ appeals[x].bondAmount = 0 /\ appeals'[x].bondAmount = n
      BY <1>1, <1>2, <1>3 DEF Open, NoAppeal
    <3>2. \A y \in AppealIds \ {x} : y \in Open' <=> y \in Open
      BY <1>4 DEF Open
    <3>3. Open \in SUBSET AppealIds /\ Open' \in SUBSET AppealIds
      BY DEF Open
    <3> QED
      BY <1>1, <1>4, <1>5, <3>1, <3>2, <3>3, BondsChange
  <2>2. BondsOf(Open) \in Nat
    BY BondsAreNatural DEF Open
  <2>3. BondsOf(Open)' = SumFunctionOnSet(Bond', Open')
    BY DEF BondsOf, Bond
  <2> QED
    BY <1>1, <2>1, <2>2, <2>3
<1>10. UNCHANGED <<refundableBondBalances, forfeited, withdrawn>> /\ appealBalance' = appealBalance + n
  BY DEF FileAppeal
<1>11. BondsAsJudged'
  <2>1. SumFunctionOnSet(refundableBondBalances, Actors) \in Nat /\ BondsOf(Open) \in Nat
    BY AppealAssumption, SumNat, BondsAreNatural DEF AppealTypes, Open
  <2>2. BondsAsJudged
    BY VerdictsInOtherWords DEF AppealInv
  <2>3. appealBalance' = BondsOf(Open)' + SumFunctionOnSet(refundableBondBalances', Actors)
    BY <1>1, <1>9, <1>10, <2>1, <2>2 DEF BondsAsJudged
  <2> QED
    BY <1>7, <1>8, <1>10, <2>2, <2>3 DEF BondsAsJudged
<1>12. BondsFollowVerdicts'
  BY <1>11, VerdictsInOtherWords, PTL
<1> QED
  BY <1>5, <1>6, <1>12 DEF AppealInv

\* A verdict takes the bond of a filed appeal from those held to one side.
LEMMA AdjudicateAppealKeepsBonds ==
  ASSUME AppealInv, NEW x \in AppealIds, NEW s \in AppealStatus, AdjudicateAppeal(x, s)
  PROVE  AppealInv'
<1> DEFINE n == appeals[x].bondAmount
           owner == appeals[x].appellant
<1> AppealTypes
  BY DEF AppealInv
<1>1. /\ appeals[x].claimId # 0 /\ appeals[x].status = "Filed" /\ s # "Filed"
      /\ appeals'[x] = [appeals[x] EXCEPT !.status = s]
      /\ \A y \in AppealIds \ {x} : appeals'[y] = appeals[y]
      /\ n \in Nat
  BY DEF AdjudicateAppeal, AppealTypes
<1>2. owner \in Actors
  BY <1>1 DEF AppealInv, AppealsFiled
<1>3. /\ appeals'[x].bondAmount = n /\ appeals'[x].appellant = owner /\ appeals'[x].status = s
      /\ appeals'[x].claimId = appeals[x].claimId
  BY <1>1 DEF AppealTypes
<1>4. IF s \in LosingStatus
      THEN /\ appealBalance' = appealBalance + (-n)
           /\ forfeited' = forfeited + n
           /\ UNCHANGED refundableBondBalances
      ELSE /\ refundableBondBalances' = [refundableBondBalances EXCEPT ![owner] = @ + n]
           /\ UNCHANGED <<appealBalance, forfeited>>
  BY <1>1 DEF AdjudicateAppeal, AppealTypes
<1>5. AppealTypes'
  <2>1. appeals'[x] \in [claimId : ClaimIds \cup {0}, appellant : Actors \cup {ZeroAddress},
                         status : AppealStatus, bondAmount : Nat]
    BY <1>1 DEF AppealTypes
  <2>2. appeals' = [appeals EXCEPT ![x] = appeals'[x]]
    BY <1>1 DEF AdjudicateAppeal, AppealTypes
  <2>3. appeals' \in [AppealIds ->
          [claimId : ClaimIds \cup {0}, appellant : Actors \cup {ZeroAddress},
           status : AppealStatus, bondAmount : Nat]]
    BY <2>1, <2>2 DEF AppealTypes
  <2>4. /\ refundableBondBalances' \in [Actors -> Nat]
        /\ forfeited' \in Nat /\ appealBalance' \in Int
    BY <1>1, <1>2, <1>4 DEF AppealTypes
  <2> QED
    BY <2>3, <2>4 DEF AdjudicateAppeal, AppealTypes
<1>6. AppealsFiled'
  <2>1. x < nextAppealId
    BY <1>1 DEF AppealInv, AppealsFiled, AppealTypes, NoAppeal, AppealIds
  <2> QED
    BY <1>1, <1>2, <1>3, <2>1
    DEF AppealInv, AppealsFiled, AppealTypes, AdjudicateAppeal, AppealIds
<1> HIDE DEF n, owner
<1>7. ASSUME NEW T \in SUBSET AppealIds, NEW U \in SUBSET AppealIds,
             \A y \in AppealIds \ {x} : y \in U <=> y \in T
      PROVE  SumFunctionOnSet(Bond', U)
               = BondsOf(T) + ((IF x \in U THEN n ELSE 0) - (IF x \in T THEN n ELSE 0))
  <2>1. appeals[x].bondAmount = n /\ appeals'[x].bondAmount = n
    BY <1>3 DEF n
  <2>2. SumFunctionOnSet(Bond', U)
          = BondsOf(T) + ((IF x \in U THEN appeals'[x].bondAmount ELSE 0)
                          - (IF x \in T THEN appeals[x].bondAmount ELSE 0))
    <3>1. \A y \in AppealIds \ {x} : appeals'[y] = appeals[y]
      BY <1>1
    <3> QED
      BY ONLY AppealTypes, <1>5, <1>7, <3>1, BondsChange, x \in AppealIds
  <2> QED
    BY <2>1, <2>2
<1>8. BondsOf(Open)' = BondsOf(Open) + (-n)
  <2>1. PICK T, U : T = Open /\ U = Open'
    OBVIOUS
  <2>2. /\ T \in SUBSET AppealIds /\ U \in SUBSET AppealIds
        /\ \A y \in AppealIds \ {x} : y \in U <=> y \in T
        /\ x \in T /\ x \notin U
    BY <1>1, <1>3, <2>1 DEF Open
  <2>3. SumFunctionOnSet(Bond', U)
          = BondsOf(T) + ((IF x \in U THEN n ELSE 0) - (IF x \in T THEN n ELSE 0))
    BY <1>7, <2>2
  <2>4. BondsOf(Open)' = SumFunctionOnSet(Bond', Open')
    BY DEF BondsOf, Bond
  <2>5. BondsOf(T) \in Nat
    BY <2>2, BondsAreNatural
  <2> QED
    BY <1>1, <2>1, <2>2, <2>3, <2>4, <2>5 DEF n
<1>9. BondsOf(Lost)' = BondsOf(Lost) + (IF s \in LosingStatus THEN n ELSE 0)
  <2>1. PICK T, U : T = Lost /\ U = Lost'
    OBVIOUS
  <2>2. /\ T \in SUBSET AppealIds /\ U \in SUBSET AppealIds
        /\ \A y \in AppealIds \ {x} : y \in U <=> y \in T
        /\ x \notin T
        /\ x \in U <=> s \in LosingStatus
    BY <1>1, <1>3, <2>1 DEF Lost, LosingStatus
  <2>3. SumFunctionOnSet(Bond', U)
          = BondsOf(T) + ((IF x \in U THEN n ELSE 0) - (IF x \in T THEN n ELSE 0))
    BY <1>7, <2>2
  <2>4. BondsOf(Lost)' = SumFunctionOnSet(Bond', Lost')
    BY DEF BondsOf, Bond
  <2>5. BondsOf(T) \in Nat
    BY <2>2, BondsAreNatural
  <2> QED
    BY <1>1, <2>1, <2>2, <2>3, <2>4, <2>5 DEF n
<1>10. ASSUME NEW b \in Actors
       PROVE  BondsOf(WonBy(b))'
                = BondsOf(WonBy(b)) + (IF b = owner /\ s \notin LosingStatus THEN n ELSE 0)
  <2>1. PICK T, U : T = WonBy(b) /\ U = WonBy(b)'
    OBVIOUS
  <2>2. /\ T \in SUBSET AppealIds /\ U \in SUBSET AppealIds
        /\ \A y \in AppealIds \ {x} : y \in U <=> y \in T
        /\ x \notin T
        /\ x \in U <=> b = owner /\ s \notin LosingStatus
    BY <1>1, <1>3, <2>1 DEF WonBy, Owned, GivesBack, owner
  <2>3. SumFunctionOnSet(Bond', U)
          = BondsOf(T) + ((IF x \in U THEN n ELSE 0) - (IF x \in T THEN n ELSE 0))
    BY <1>7, <2>2
  <2>4. BondsOf(WonBy(b))' = SumFunctionOnSet(Bond', WonBy(b)')
    BY DEF BondsOf, Bond
  <2>5. BondsOf(T) \in Nat
    BY <2>2, BondsAreNatural
  <2> QED
    BY <1>1, <2>1, <2>2, <2>3, <2>4, <2>5 DEF n
<1>11. UNCHANGED withdrawn
  BY DEF AdjudicateAppeal
<1>12. BondsAsJudged
  BY VerdictsInOtherWords DEF AppealInv
<1>13. /\ SumFunctionOnSet(refundableBondBalances, Actors) \in Nat
       /\ BondsOf(Open) \in Nat /\ BondsOf(Lost) \in Nat /\ \A b \in Actors : BondsOf(WonBy(b)) \in Nat
       /\ n \in Nat
  BY <1>1, AppealAssumption, SumNat, BondsAreNatural DEF AppealTypes, Open, Lost, WonBy, Owned, n
<1>14. BondsAsJudged'
  <2>1. CASE s \in LosingStatus
    BY <1>4, <1>8, <1>9, <1>10, <1>11, <1>12, <1>13, <2>1 DEF BondsAsJudged
  <2>2. CASE s \notin LosingStatus
    <3>1. refundableBondBalances' = [refundableBondBalances EXCEPT ![owner] = refundableBondBalances[owner] + n]
      BY <1>4, <2>2
    <3>2. /\ refundableBondBalances \in [Actors -> Int]
          /\ refundableBondBalances[owner] \in Nat /\ refundableBondBalances[owner] + n \in Int
      BY <1>2, <1>13 DEF AppealTypes, owner
    <3>3. SumFunctionOnSet(refundableBondBalances', Actors)
            = SumFunctionOnSet(refundableBondBalances, Actors)
              + ((refundableBondBalances[owner] + n) - refundableBondBalances[owner])
      BY <1>2, <3>1, <3>2, AppealAssumption, SumExcept DEF owner
    <3>4. \A b \in Actors :
            /\ refundableBondBalances[b] \in Nat /\ withdrawn[b] \in Nat
            /\ refundableBondBalances'[b]
                 = refundableBondBalances[b] + (IF b = owner THEN n ELSE 0)
      BY <1>13, <3>1, <3>2 DEF AppealTypes
    <3>5. \A b \in Actors : withdrawn'[b] + refundableBondBalances'[b] = BondsOf(WonBy(b))'
      BY <1>10, <1>11, <1>12, <1>13, <2>2, <3>4 DEF BondsAsJudged
    <3>6. appealBalance' = BondsOf(Open)' + SumFunctionOnSet(refundableBondBalances', Actors)
      BY <1>4, <1>8, <1>12, <1>13, <2>2, <3>2, <3>3 DEF BondsAsJudged
    <3>7. forfeited' = BondsOf(Lost)'
      BY <1>4, <1>9, <1>12, <1>13, <2>2 DEF BondsAsJudged
    <3> QED
      BY <3>5, <3>6, <3>7 DEF BondsAsJudged
  <2> QED
    BY <2>1, <2>2
<1>15. BondsFollowVerdicts'
  BY <1>14, VerdictsInOtherWords, PTL
<1> QED
  BY <1>5, <1>6, <1>15 DEF AppealInv

\* A withdrawal leaves the appeals and takes what was credited.
LEMMA WithdrawRefundedBondKeepsBonds ==
  ASSUME AppealInv, NEW a \in Actors, NEW n \in Nat, WithdrawRefundedBond(a, n)
  PROVE  AppealInv'
<1> AppealTypes
  BY DEF AppealInv
<1>1. /\ n <= refundableBondBalances[a]
      /\ refundableBondBalances' = [refundableBondBalances EXCEPT ![a] = refundableBondBalances[a] - n]
      /\ appealBalance' = appealBalance - n
      /\ withdrawn' = [withdrawn EXCEPT ![a] = withdrawn[a] + n]
      /\ UNCHANGED <<appeals, nextAppealId, appealDepositsPaused, forfeited>>
  BY DEF WithdrawRefundedBond
<1>2. /\ refundableBondBalances \in [Actors -> Int]
      /\ refundableBondBalances[a] \in Nat /\ refundableBondBalances[a] - n \in Nat
      /\ withdrawn[a] \in Nat
  BY <1>1 DEF AppealTypes
<1>3. AppealTypes'
  BY <1>1, <1>2 DEF AppealTypes
<1>4. AppealsFiled'
  BY <1>1 DEF AppealInv, AppealsFiled
<1>5. SumFunctionOnSet(refundableBondBalances', Actors)
        = SumFunctionOnSet(refundableBondBalances, Actors)
          + ((refundableBondBalances[a] - n) - refundableBondBalances[a])
  <2> DEFINE v == refundableBondBalances[a] - n
  <2>1. v \in Int /\ refundableBondBalances' = [refundableBondBalances EXCEPT ![a] = v]
    BY <1>1, <1>2
  <2> HIDE DEF v
  <2>2. SumFunctionOnSet(refundableBondBalances', Actors)
          = SumFunctionOnSet(refundableBondBalances, Actors) + (v - refundableBondBalances[a])
    BY <1>2, <2>1, AppealAssumption, SumExcept
  <2> QED
    BY <2>2 DEF v
<1>6. BondsAsJudged
  BY VerdictsInOtherWords DEF AppealInv
<1>7. SumFunctionOnSet(refundableBondBalances, Actors) \in Nat /\ BondsOf(Open) \in Nat
  BY AppealAssumption, SumNat, BondsAreNatural DEF AppealTypes, Open
<1>8. /\ \A b \in Actors : BondsOf(WonBy(b))' = BondsOf(WonBy(b))
      /\ BondsOf(Open)' = BondsOf(Open) /\ BondsOf(Lost)' = BondsOf(Lost)
  BY <1>1 DEF BondsOf, WonBy, Owned, Open, Lost
<1>9. \A b \in Actors :
        withdrawn'[b] + refundableBondBalances'[b] = withdrawn[b] + refundableBondBalances[b]
  BY <1>1, <1>2 DEF AppealTypes
<1>10. appealBalance' = BondsOf(Open)' + SumFunctionOnSet(refundableBondBalances', Actors)
  BY <1>1, <1>2, <1>5, <1>6, <1>7, <1>8 DEF BondsAsJudged
<1>11. BondsAsJudged'
  BY <1>1, <1>6, <1>8, <1>9, <1>10 DEF BondsAsJudged
<1>12. BondsFollowVerdicts'
  BY <1>11, VerdictsInOtherWords, PTL
<1> QED
  BY <1>3, <1>4, <1>12 DEF AppealInv

\* What changes no appeal and no balance keeps the bonds.
LEMMA OthersKeepBonds ==
  ASSUME AppealInv,
         UNCHANGED <<appeals, nextAppealId, refundableBondBalances, appealBalance, forfeited,
                     withdrawn>>
  PROVE  AppealInv'
BY DEF AppealInv, AppealTypes, AppealsFiled, BondsFollowVerdicts, BondsOf, Owned

\* The invariant of the appeals.
THEOREM AppealInvariant == AppealsSpec => []AppealInv
<1>1. Init /\ AppealsInit => AppealInv
  <2> SUFFICES ASSUME AppealsInit PROVE AppealInv
    OBVIOUS
  <2>1. \A i \in AppealIds : appeals[i] = NoAppeal
    BY DEF AppealsInit
  <2>2. AppealTypes /\ AppealsFiled
    BY DEF AppealsInit, AppealTypes, AppealsFiled, NoAppeal, AppealStatus
  <2>3. ASSUME NEW T \in SUBSET AppealIds PROVE BondsOf(T) = 0
    <3>1. IsFiniteSet(T) /\ \A i \in T : Bond[i] = 0
      BY <2>1, FiniteAppeals, FS_Subset DEF Bond, NoAppeal
    <3> HIDE DEF Bond
    <3>2. SumFunctionOnSet(Bond, T) = 0
      BY <3>1, SumZero
    <3> QED
      BY <3>2 DEF BondsOf, Bond
  <2>4. SumFunctionOnSet(refundableBondBalances, Actors) = 0
    BY AppealAssumption, SumZero DEF AppealsInit
  <2>5. BondsAsJudged
    BY <2>3, <2>4 DEF BondsAsJudged, AppealsInit, Open, Lost, WonBy, Owned
  <2> QED
    BY <2>2, <2>5, VerdictsInOtherWords DEF AppealInv
<1>2. AppealInv /\ [AppealsNext]_<<claimVars, appealVars>> => AppealInv'
  <2> SUFFICES ASSUME AppealInv, [AppealsNext]_<<claimVars, appealVars>> PROVE AppealInv'
    OBVIOUS
  <2>1. CASE UNCHANGED appealVars
    BY <2>1, OthersKeepBonds DEF appealVars
  <2>2. ASSUME NEW a \in Actors, NEW c \in ClaimIds, NEW r \in ReplicationIds \cup {0},
               NEW n \in 1 .. MaxAppealBond, FileAppeal(a, c, r, n)
        PROVE  AppealInv'
    BY <2>2, FileAppealKeepsBonds
  <2>3. ASSUME NEW i \in AppealIds, NEW s \in AppealStatus, AdjudicateAppeal(i, s)
        PROVE  AppealInv'
    BY <2>3, AdjudicateAppealKeepsBonds
  <2>4. ASSUME NEW a \in Actors, NEW n \in 1 .. MaxAppeals * MaxAppealBond,
               WithdrawRefundedBond(a, n)
        PROVE  AppealInv'
    <3>1. n \in Nat
      BY AppealAssumption
    <3> QED
      BY <2>4, <3>1, WithdrawRefundedBondKeepsBonds
  <2>5. ASSUME NEW paused \in BOOLEAN, SetAppealDepositsPaused(paused)
        PROVE  AppealInv'
    BY <2>5, OthersKeepBonds DEF SetAppealDepositsPaused
  <2> QED
    BY <2>1, <2>2, <2>3, <2>4, <2>5 DEF AppealsNext, AppealStep
<1> QED
  BY <1>1, <1>2, PTL DEF AppealsSpec

\* Every appeal bond goes one way, once, by the verdict on its own appeal, and the
\* contract holds exactly the rest.
THEOREM BondsAlwaysFollowVerdicts == AppealsSpec => []BondsFollowVerdicts
<1>1. AppealInv => BondsFollowVerdicts
  BY DEF AppealInv
<1> QED
  BY <1>1, AppealInvariant, PTL

-----------------------------------------------------------------------------
(***************************************************************************)
(* PublicWrites.  That a claim has one artifact of the saga rests on the   *)
(* lease: while no lease was lost between its check and the receipt, who   *)
(* is attaching owns the lease of the one request of the claim.            *)
(***************************************************************************)
WritePcs ==
  {"idle", "authenticated", "reserved", "absent", "creating", "created", "checkpointed",
   "unattached", "attaching", "publishable", "publishing", "effected", "releasing",
   "rejecting", "owned"}

SomeRequest == CHOOSE q \in WriteRequests : TRUE

WriteTypes ==
  /\ writeRequests \in [WriteRequests ->
       [status : {"none", "pending", "accepted", "rejected"}, claim : ClaimIds \cup {0},
        owner : Executors \cup {NoExecutor}, expired : BOOLEAN]]
  /\ executions \in [Executors ->
       [pc : WritePcs, request : WriteRequests \cup {SomeRequest}, claim : ClaimIds \cup {0}]]
  /\ claimArtifacts \in [ClaimIds -> Nat]
  /\ mempool \in [ClaimIds -> Nat]
  /\ stray \in BOOLEAN

\* An execution of a claim_create knows the claim of its request once there is one,
\* and one of a claim_publish the claim its row names; what was effected is so.
ExecutionInv(x) ==
  LET e == executions[x]
  IN /\ e.pc # "idle" => e.request \in WriteRequests
     /\ e.pc \in {"absent", "creating", "created", "checkpointed", "unattached", "attaching"} =>
          e.request \in RequestHashes
     /\ e.pc \in {"publishable", "publishing"} => e.request \in PublishRequests
     /\ (\/ e.pc \in {"created", "checkpointed", "unattached", "attaching"}
         \/ e.pc = "effected" /\ e.request \in RequestHashes) =>
          e.claim # 0 /\ e.claim = delegatedClaimRequestIds[e.request]
     /\ e.pc = "effected" /\ e.request \in RequestHashes => claimArtifacts[e.claim] > 0
     /\ e.pc # "idle" /\ e.request \in PublishRequests =>
          /\ e.claim # 0 /\ e.claim = writeRequests[e.request].claim
          /\ writeRequests[e.request].status # "none"
          /\ e.pc = "effected" => claims[e.claim].status # "Draft"

\* The effects that WritesComplete promises.
EffectsDone ==
  /\ \A q \in RequestHashes : writeRequests[q].status = "accepted" =>
       /\ delegatedClaimRequestIds[q] # 0
       /\ claimArtifacts[delegatedClaimRequestIds[q]] > 0
  /\ \A q \in PublishRequests : writeRequests[q].status = "accepted" =>
       writeRequests[q].claim # 0 /\ claims[writeRequests[q].claim].status # "Draft"

\* While no execution went astray.
LeasesHold ==
  stray = FALSE =>
    /\ \A c \in ClaimIds : mempool[c] = 0 /\ claimArtifacts[c] <= 1
    /\ \A x \in Executors :
         /\ executions[x].pc = "attaching" => OwnsLease(x)
         /\ executions[x].pc \in {"unattached", "attaching"} /\ OwnsLease(x) =>
              claimArtifacts[executions[x].claim] = 0

WriteInv ==
  /\ Inv
  /\ WriteTypes
  /\ \A x \in Executors : ExecutionInv(x)
  /\ EffectsDone
  /\ LeasesHold

Execution ==
  [pc : WritePcs, request : WriteRequests \cup {SomeRequest}, claim : ClaimIds \cup {0}]

\* A row that exists stays, and names the same claim; artifacts are only added.
RowsKeep ==
  /\ \A q \in WriteRequests : writeRequests[q].status # "none" =>
       writeRequests'[q].status # "none" /\ writeRequests'[q].claim = writeRequests[q].claim
  /\ \A c \in ClaimIds : claimArtifacts'[c] >= claimArtifacts[c]

\* An execution that another one is not remains where it is, and right.
LEMMA OtherExecutionsKeep ==
  ASSUME WriteInv, WriteTypes', Keeps, RowsKeep, NEW o \in Executors,
         executions'[o] = executions[o]
  PROVE  ExecutionInv(o)'
<1>1. ExecutionInv(o) /\ WriteTypes
  BY DEF WriteInv
<1>2. executions[o].claim # 0 => executions[o].claim \in ClaimIds
  BY <1>1 DEF WriteTypes
<1>3. \A c \in ClaimIds : claimArtifacts[c] > 0 => claimArtifacts'[c] > 0
  BY <1>1 DEF RowsKeep, WriteTypes
<1>4. ASSUME executions[o].request \in RequestHashes,
             executions[o].claim # 0, executions[o].claim = delegatedClaimRequestIds[executions[o].request]
      PROVE  executions[o].claim = delegatedClaimRequestIds'[executions[o].request]
  BY <1>4 DEF Keeps
<1>5. executions[o].pc = "effected" /\ executions[o].request \in PublishRequests =>
        claims'[executions[o].claim].status # "Draft"
  BY <1>1, <1>2 DEF ExecutionInv, Keeps
<1>6. ASSUME executions[o].request \in PublishRequests, executions[o].pc # "idle"
      PROVE  /\ executions[o].claim = writeRequests'[executions[o].request].claim
             /\ writeRequests'[executions[o].request].status # "none"
  BY <1>1, <1>6 DEF ExecutionInv, RowsKeep
<1> QED
  BY <1>1, <1>2, <1>3, <1>4, <1>5, <1>6 DEF ExecutionInv

\* What was effected and accepted stays so, when nothing else is accepted.
LEMMA EffectsStay ==
  ASSUME WriteInv, WriteTypes', Keeps, RowsKeep,
         \A q \in WriteRequests :
           writeRequests'[q].status = "accepted" => writeRequests[q].status = "accepted"
  PROVE  EffectsDone'
<1> WriteTypes /\ EffectsDone /\ Inv
  BY DEF WriteInv
<1>1. ASSUME NEW q \in RequestHashes, writeRequests'[q].status = "accepted"
      PROVE  /\ delegatedClaimRequestIds'[q] # 0
             /\ claimArtifacts'[delegatedClaimRequestIds'[q]] > 0
  <2>1. /\ delegatedClaimRequestIds[q] # 0
        /\ claimArtifacts[delegatedClaimRequestIds[q]] > 0
    BY <1>1 DEF EffectsDone, WriteRequests
  <2>2. delegatedClaimRequestIds'[q] = delegatedClaimRequestIds[q]
    BY <2>1 DEF Keeps
  <2>3. delegatedClaimRequestIds[q] \in ClaimIds
    BY <2>1 DEF Inv, TypeOK
  <2>4. /\ claimArtifacts[delegatedClaimRequestIds[q]] \in Nat
        /\ claimArtifacts'[delegatedClaimRequestIds[q]] >= claimArtifacts[delegatedClaimRequestIds[q]]
    BY <2>3 DEF RowsKeep, WriteTypes
  <2>5. claimArtifacts'[delegatedClaimRequestIds[q]] \in Nat
    BY <2>3 DEF WriteTypes
  <2> QED
    BY <2>1, <2>2, <2>4, <2>5
<1>2. ASSUME NEW q \in PublishRequests, writeRequests'[q].status = "accepted"
      PROVE  writeRequests'[q].claim # 0 /\ claims'[writeRequests'[q].claim].status # "Draft"
  <2>1. /\ writeRequests[q].status = "accepted"
        /\ writeRequests[q].claim # 0 /\ claims[writeRequests[q].claim].status # "Draft"
    BY <1>2 DEF EffectsDone, WriteRequests
  <2>2. writeRequests'[q].claim = writeRequests[q].claim /\ writeRequests[q].claim \in ClaimIds
    BY <2>1 DEF RowsKeep, WriteRequests, WriteTypes
  <2> QED
    BY <2>1, <2>2 DEF Keeps
<1> QED
  BY <1>1, <1>2 DEF EffectsDone

\* The leases hold when nobody comes to attach who did not, and who did keeps the
\* lease or loses it unseen.
LEMMA LeasesStay ==
  ASSUME WriteInv, stray' = FALSE => stray = FALSE, UNCHANGED <<mempool, claimArtifacts>>,
         \A o \in Executors :
           stray' = FALSE /\ executions'[o].pc \in {"unattached", "attaching"} =>
             /\ executions'[o] = executions[o]
             /\ OwnsLease(o)' => OwnsLease(o)
             /\ executions[o].pc = "attaching" => OwnsLease(o)'
  PROVE  LeasesHold'
BY DEF WriteInv, LeasesHold

\* A step of one execution, or of none.
LEMMA ExecutionMoves ==
  ASSUME WriteInv, Inv', WriteTypes', Keeps, RowsKeep, NEW x,
         \A o \in Executors \ {x} : executions'[o] = executions[o],
         x \in Executors => ExecutionInv(x)',
         EffectsDone', LeasesHold'
  PROVE  WriteInv'
<1>1. \A o \in Executors : ExecutionInv(o)'
  BY OtherExecutionsKeep
<1> QED
  BY <1>1 DEF WriteInv

\* What other accounts do on chain disturbs no execution.
LEMMA RegistryKeepsWrites ==
  ASSUME WriteInv, Keeps, Inv', UNCHANGED writeVars
  PROVE  WriteInv'
<1> USE DEF writeVars
<1> WriteTypes
  BY DEF WriteInv
<1>1. WriteTypes'
  BY DEF WriteTypes
<1>2. RowsKeep
  BY DEF RowsKeep, WriteTypes
<1>3. EffectsDone'
  BY <1>1, <1>2, EffectsStay
<1>4. LeasesHold'
  BY DEF WriteInv, LeasesHold, OwnsLease, Row, Request
<1>5. PICK x : x \notin Executors
  BY WriteAssumption
<1> QED
  BY <1>1, <1>2, <1>3, <1>4, <1>5, ExecutionMoves

\* An execution reads, checks its lease, or looks for its claim or artifact.
LEMMA ReadingKeepsWrites ==
  ASSUME WriteInv, NEW x \in Executors,
         \/ AssertLease(x, "absent", "creating") \/ AssertLease(x, "publishable", "publishing")
         \/ AssertLease(x, "unattached", "attaching")
         \/ FindClaim(x) \/ FindArtifact(x) \/ CheckOwnership(x)
         \/ \E satisfied \in BOOLEAN : ReadForPublication(x, satisfied)
  PROVE  WriteInv'
<1> WriteTypes /\ ExecutionInv(x) /\ Inv
  BY DEF WriteInv
<1>1. UNCHANGED <<claimVars, writeRequests, claimArtifacts, mempool, stray>>
  BY DEF AssertLease, FindClaim, FindArtifact, CheckOwnership, ReadForPublication
<1>2. Keeps /\ Inv'
  BY <1>1, RegistryKeeps, NextKeepsInv
<1> DEFINE pc == executions'[x].pc
           c == executions'[x].claim
           old == executions[x]
           Moved == /\ executions' = [executions EXCEPT ![x] = executions'[x]]
                    /\ executions'[x] \in Execution
                    /\ executions'[x].request = old.request
                    /\ old.request \in PublishRequests => c = old.claim
                    /\ old.pc # "idle" /\ pc \notin {"checkpointed", "idle"}
           Creating == /\ pc \in {"absent", "creating"} => old.request \in RequestHashes
                       /\ pc \in {"created", "unattached", "attaching"} =>
                            /\ old.request \in RequestHashes
                            /\ c # 0 /\ c = delegatedClaimRequestIds[old.request]
                       /\ pc = "unattached" => claimArtifacts[c] = 0
                       /\ pc = "attaching" =>
                            c = old.claim /\ old.pc = "unattached" /\ OwnsLease(x)
                       /\ pc = "effected" /\ old.request \in RequestHashes =>
                            /\ c # 0 /\ c = delegatedClaimRequestIds[old.request]
                            /\ claimArtifacts[c] > 0
           Publication == /\ pc \in {"publishable", "publishing"} => old.request \in PublishRequests
                          /\ pc = "effected" /\ old.request \in PublishRequests =>
                               claims[c].status # "Draft"
<1>a. old \in Execution /\ RequestHashes \cap PublishRequests = {}
  BY WriteAssumption DEF WriteTypes, Execution
<1>3. Moved /\ Creating /\ Publication
  <2>1. ASSUME NEW n \in WritePcs \ {"checkpointed", "idle"}, ExecutionGoto(x, n),
               old.pc # "idle"
        PROVE  Moved /\ c = old.claim /\ pc = n
    BY <1>a, <2>1 DEF ExecutionGoto, WriteTypes, Execution
  <2> HIDE DEF Moved
  <2>2. ASSUME NEW satisfied \in BOOLEAN, ReadForPublication(x, satisfied)
        PROVE  Moved /\ Creating /\ Publication
    <3>1. PICK n \in {"effected", "rejecting", "publishable"} :
            /\ ExecutionGoto(x, n) /\ old.pc = "reserved" /\ old.request \in PublishRequests
            /\ n = "effected" => claims[old.claim].status # "Draft"
      BY <2>2 DEF ReadForPublication, At, Request, WrittenClaim
    <3> QED
      BY <1>a, <2>1, <3>1 DEF WritePcs
  <2>3. CASE FindClaim(x)
    <3>1. PICK n \in {"absent", "created"}, d \in ClaimIds \cup {0} :
            /\ executions' = [executions EXCEPT ![x].claim = d, ![x].pc = n]
            /\ old.pc = "reserved" /\ old.request \in RequestHashes
            /\ d = delegatedClaimRequestIds[old.request]
            /\ n = "created" => d # 0
      BY <2>3 DEF FindClaim, At, Request, Inv, TypeOK
    <3>2. executions'[x] = [old EXCEPT !.claim = d, !.pc = n]
      BY <3>1 DEF WriteTypes
    <3>3. executions' = [executions EXCEPT ![x] = executions'[x]]
      BY <3>1, <3>2
    <3>4. n \in WritePcs \ {"checkpointed", "idle"} /\ old.request \notin PublishRequests
      BY <1>a, <3>1 DEF WritePcs
    <3>5. /\ executions'[x] \in Execution /\ pc = n /\ c = d
          /\ executions'[x].request = old.request
      BY <1>a, <3>2, <3>4 DEF Execution
    <3>6. Moved
      BY <3>1, <3>3, <3>4, <3>5 DEF Moved
    <3> QED
      BY <3>1, <3>4, <3>5, <3>6
  <2>4. CASE FindArtifact(x)
    <3>1. PICK n \in {"effected", "unattached"} :
            /\ ExecutionGoto(x, n) /\ old.pc = "checkpointed"
            /\ n = "effected" => claimArtifacts[old.claim] > 0
            /\ n = "unattached" => ~(claimArtifacts[old.claim] > 0)
      BY <2>4 DEF FindArtifact, At, WrittenClaim
    <3>2. /\ old.request \in RequestHashes /\ old.claim # 0
          /\ old.claim = delegatedClaimRequestIds[old.request]
      BY <3>1 DEF ExecutionInv
    <3>3. claimArtifacts[old.claim] \in Nat
      BY <1>a, <3>2 DEF WriteTypes, Execution
    <3> QED
      BY <1>a, <2>1, <3>1, <3>2, <3>3 DEF WritePcs
  <2>5. CASE CheckOwnership(x)
    <3>1. PICK n \in {"owned", "releasing"} : ExecutionGoto(x, n) /\ old.pc = "rejecting"
      BY <2>5 DEF CheckOwnership, At
    <3> QED
      BY <2>1, <3>1 DEF WritePcs
  <2>6. CASE \/ AssertLease(x, "absent", "creating")
             \/ AssertLease(x, "publishable", "publishing")
             \/ AssertLease(x, "unattached", "attaching")
    <3>1. PICK n \in {"creating", "publishing", "attaching", "rejecting"} :
            /\ ExecutionGoto(x, n)
            /\ old.pc \in {"absent", "publishable", "unattached"}
            /\ n = "creating" => old.pc = "absent"
            /\ n = "publishing" => old.pc = "publishable"
            /\ n = "attaching" => old.pc = "unattached" /\ OwnsLease(x)
      BY <2>6 DEF AssertLease, At
    <3>2. /\ n = "creating" => old.request \in RequestHashes
          /\ n = "publishing" => old.request \in PublishRequests
          /\ n = "attaching" =>
               /\ old.request \in RequestHashes
               /\ old.claim # 0 /\ old.claim = delegatedClaimRequestIds[old.request]
      BY <3>1 DEF ExecutionInv
    <3>3. Moved /\ c = old.claim /\ pc = n
      BY <2>1, <3>1 DEF WritePcs
    <3> HIDE DEF pc, c, old
    <3> QED
      BY <3>1, <3>2, <3>3
  <2> QED
    BY <2>2, <2>3, <2>4, <2>5, <2>6
<1>4. \A o \in Executors \ {x} : executions'[o] = executions[o]
  BY <1>3 DEF WriteTypes
<1>5. WriteTypes'
  BY <1>1, <1>3 DEF WriteTypes, Execution
<1>6. RowsKeep
  BY <1>1 DEF RowsKeep, WriteTypes
<1>7. ExecutionInv(x)'
  BY <1>1, <1>2, <1>3, <1>4
  DEF ExecutionInv, claimVars, recordVars
<1>8. EffectsDone'
  BY <1>1, <1>2, <1>5, <1>6, EffectsStay
<1>9. LeasesHold'
  <2>1. \A o \in Executors : OwnsLease(o)' <=> OwnsLease(o)
    BY <1>1, <1>3, <1>4 DEF OwnsLease, Row, Request
  <2>2. stray = FALSE /\ pc = "attaching" => claimArtifacts[c] = 0
    BY <1>3 DEF WriteInv, LeasesHold
  <2> QED
    BY <1>1, <1>3, <1>4, <2>1, <2>2 DEF WriteInv, LeasesHold
<1> QED
  BY <1>2, <1>4, <1>5, <1>6, <1>7, <1>8, <1>9, ExecutionMoves

\* Setting the status of a row leaves its claim and its lease.
LEMMA StatusSet ==
  ASSUME WriteTypes, NEW x \in Executors, Request(x) \in WriteRequests,
         NEW status \in {"pending", "accepted", "rejected"}, SetStatus(x, status)
  PROVE  /\ writeRequests' \in [WriteRequests ->
              [status : {"none", "pending", "accepted", "rejected"}, claim : ClaimIds \cup {0},
               owner : Executors \cup {NoExecutor}, expired : BOOLEAN]]
         /\ \A q \in WriteRequests :
              /\ writeRequests'[q].claim = writeRequests[q].claim
              /\ writeRequests'[q].owner = writeRequests[q].owner
              /\ writeRequests'[q].expired = writeRequests[q].expired
              /\ writeRequests[q].status # "none" => writeRequests'[q].status # "none"
              /\ writeRequests'[q].status = "accepted" =>
                   \/ writeRequests[q].status = "accepted"
                   \/ q = Request(x) /\ status = "accepted"
BY DEF SetStatus, WriteTypes, Row

\* An execution sets the status of its row: to pending or rejected at will, to
\* accepted after its effect.
LEMMA SettingStatusKeepsWrites ==
  ASSUME WriteInv, NEW x \in Executors, Checkpoint(x) \/ MarkAccepted(x) \/ MarkRejected(x)
  PROVE  WriteInv'
<1> WriteTypes /\ ExecutionInv(x) /\ Inv /\ EffectsDone
  BY DEF WriteInv
<1>1. UNCHANGED <<claimVars, claimArtifacts, mempool, stray>>
  BY DEF Checkpoint, MarkAccepted, MarkRejected
<1>2. Keeps /\ Inv'
  BY <1>1, RegistryKeeps, NextKeepsInv
<1>3. executions[x] \in Execution /\ RequestHashes \cap PublishRequests = {}
  BY WriteAssumption DEF WriteTypes, Execution
<1>4. PICK pc \in {"checkpointed", "releasing"}, status \in {"pending", "accepted", "rejected"} :
        /\ ExecutionGoto(x, pc)
        /\ SetStatus(x, status) \/ UNCHANGED writeRequests
        /\ executions[x].pc \in {"created", "effected", "owned"}
        /\ pc = "checkpointed" => executions[x].pc = "created"
        /\ status = "accepted" => executions[x].pc = "effected"
  BY DEF Checkpoint, MarkAccepted, MarkRejected, At
<1>5. Request(x) \in WriteRequests
  BY <1>4 DEF ExecutionInv, Request
<1>6. /\ writeRequests' \in [WriteRequests ->
           [status : {"none", "pending", "accepted", "rejected"}, claim : ClaimIds \cup {0},
            owner : Executors \cup {NoExecutor}, expired : BOOLEAN]]
      /\ \A q \in WriteRequests :
           /\ writeRequests'[q].claim = writeRequests[q].claim
           /\ writeRequests'[q].owner = writeRequests[q].owner
           /\ writeRequests'[q].expired = writeRequests[q].expired
           /\ writeRequests[q].status # "none" => writeRequests'[q].status # "none"
           /\ writeRequests'[q].status = "accepted" =>
                \/ writeRequests[q].status = "accepted"
                \/ q = Request(x) /\ status = "accepted"
  <2>1. CASE UNCHANGED writeRequests
    BY <2>1 DEF WriteTypes
  <2>2. CASE SetStatus(x, status)
    BY <1>5, <2>2, StatusSet
  <2> QED
    BY <1>4, <2>1, <2>2
<1>7. /\ executions'[x] = [executions[x] EXCEPT !.pc = pc]
      /\ \A o \in Executors \ {x} : executions'[o] = executions[o]
  BY <1>4 DEF ExecutionGoto, WriteTypes
<1>8. WriteTypes'
  <2>1. executions'[x] \in Execution
    BY <1>3, <1>4, <1>7 DEF Execution, WritePcs
  <2>2. executions' \in [Executors -> Execution]
    BY <1>4, <1>7, <2>1 DEF ExecutionGoto, WriteTypes, Execution
  <2> QED
    BY <1>1, <1>6, <2>2 DEF WriteTypes, Execution
<1>9. RowsKeep
  BY <1>1, <1>6 DEF RowsKeep, WriteTypes
<1>10. ExecutionInv(x)'
  <2>1. /\ executions'[x].pc = pc /\ executions'[x].request = executions[x].request
        /\ executions'[x].claim = executions[x].claim
    BY <1>3, <1>7 DEF Execution
  <2>2. /\ writeRequests'[executions[x].request].claim = writeRequests[executions[x].request].claim
        /\ writeRequests[executions[x].request].status # "none" =>
             writeRequests'[executions[x].request].status # "none"
    BY <1>5, <1>6 DEF Request
  <2> QED
    BY <1>1, <1>3, <1>4, <2>1, <2>2 DEF ExecutionInv, claimVars, recordVars
<1>11. EffectsDone'
  <2>1. CASE status # "accepted"
    BY <1>2, <1>6, <1>8, <1>9, <2>1, EffectsStay
  <2>2. CASE status = "accepted"
    <3>1. executions[x].pc = "effected"
      BY <1>4, <2>2
    <3>2. ASSUME NEW q \in RequestHashes, writeRequests'[q].status = "accepted"
          PROVE  /\ delegatedClaimRequestIds[q] # 0
                 /\ claimArtifacts[delegatedClaimRequestIds[q]] > 0
      BY <1>6, <3>1, <3>2 DEF EffectsDone, ExecutionInv, Request, WriteRequests
    <3>3. ASSUME NEW q \in PublishRequests, writeRequests'[q].status = "accepted"
          PROVE  writeRequests[q].claim # 0 /\ claims[writeRequests[q].claim].status # "Draft"
      BY <1>6, <3>1, <3>3 DEF EffectsDone, ExecutionInv, Request, WriteRequests
    <3>4. \A q \in PublishRequests : writeRequests'[q].claim = writeRequests[q].claim
      BY <1>6 DEF WriteRequests
    <3> QED
      BY <1>1, <3>2, <3>3, <3>4 DEF EffectsDone, claimVars, recordVars
  <2> QED
    BY <2>1, <2>2
<1>12. LeasesHold'
  <2>1. \A o \in Executors \ {x} : executions[o].request \in WriteRequests =>
          (OwnsLease(o)' <=> OwnsLease(o))
    BY <1>6, <1>7 DEF OwnsLease, Row, Request
  <2>2. \A o \in Executors : executions[o].pc \in {"unattached", "attaching"} =>
          executions[o].request \in WriteRequests
    BY DEF WriteInv, ExecutionInv
  <2>3. executions'[x].pc \notin {"unattached", "attaching"}
    BY <1>3, <1>4, <1>7 DEF Execution
  <2>4. \A o \in Executors : executions'[o].pc \in {"unattached", "attaching"} =>
          /\ executions'[o] = executions[o]
          /\ OwnsLease(o)' <=> OwnsLease(o)
    BY <1>7, <2>1, <2>2, <2>3
  <2> QED
    BY <1>1, <2>4 DEF WriteInv, LeasesHold
<1> QED
  BY <1>2, <1>7, <1>8, <1>9, <1>10, <1>11, <1>12, ExecutionMoves

\* A request is recorded, or found with the claim it was recorded with.
LEMMA AuthenticateKeepsWrites ==
  ASSUME WriteInv, NEW x \in Executors, NEW q \in WriteRequests, NEW c \in ClaimIds \cup {0},
         Authenticate(x, q, c)
  PROVE  WriteInv'
<1> WriteTypes /\ ExecutionInv(x) /\ Inv
  BY DEF WriteInv
<1>1. UNCHANGED <<claimVars, claimArtifacts, mempool, stray>>
  BY DEF Authenticate
<1>2. Keeps /\ Inv'
  BY <1>1, RegistryKeeps, NextKeepsInv
<1>3. /\ executions'[x] = [pc |-> "authenticated", request |-> q, claim |-> c]
      /\ \A o \in Executors \ {x} : executions'[o] = executions[o]
      /\ q \in PublishRequests <=> c # 0
  BY DEF Authenticate, WriteTypes
<1>4. \/ /\ writeRequests[q].status = "none"
         /\ writeRequests' = [writeRequests EXCEPT ![q].status = "pending", ![q].claim = c]
      \/ /\ writeRequests[q].status # "none"
         /\ c = writeRequests[q].claim /\ UNCHANGED writeRequests
  BY DEF Authenticate
<1>5. WriteTypes'
  <2>1. writeRequests' \in [WriteRequests ->
          [status : {"none", "pending", "accepted", "rejected"}, claim : ClaimIds \cup {0},
           owner : Executors \cup {NoExecutor}, expired : BOOLEAN]]
    <3>1. /\ writeRequests \in [WriteRequests ->
                [status : {"none", "pending", "accepted", "rejected"}, claim : ClaimIds \cup {0},
                 owner : Executors \cup {NoExecutor}, expired : BOOLEAN]]
          /\ c \in ClaimIds \cup {0}
      BY DEF WriteTypes
    <3>2. CASE UNCHANGED writeRequests
      BY <3>1, <3>2
    <3>3. CASE writeRequests' =
                 [writeRequests EXCEPT ![q].status = "pending", ![q].claim = c]
      BY <3>1, <3>3
    <3> QED
      BY <1>4, <3>2, <3>3
  <2> QED
    BY <1>1, <2>1 DEF Authenticate, WriteTypes, WritePcs
<1>6. /\ \A p \in WriteRequests \ {q} : writeRequests'[p] = writeRequests[p]
      /\ writeRequests'[q].claim = c
      /\ writeRequests'[q].status # "none"
      /\ writeRequests'[q].status = "accepted" => writeRequests[q].status = "accepted"
      /\ writeRequests'[q].owner = writeRequests[q].owner
      /\ writeRequests'[q].expired = writeRequests[q].expired
      /\ writeRequests[q].status # "none" => writeRequests[q].claim = c
  BY <1>4 DEF WriteTypes
<1>7. RowsKeep
  BY <1>1, <1>6 DEF RowsKeep, WriteTypes
<1>8. ExecutionInv(x)'
  BY <1>3, <1>6, WriteAssumption DEF ExecutionInv
<1>9. EffectsDone'
  <2>1. \A p \in WriteRequests :
          writeRequests'[p].status = "accepted" => writeRequests[p].status = "accepted"
    BY <1>6
  <2> QED
    BY <1>2, <1>5, <1>7, <2>1, EffectsStay
<1>10. LeasesHold'
  <2>1. \A p \in WriteRequests : /\ writeRequests'[p].owner = writeRequests[p].owner
                                 /\ writeRequests'[p].expired = writeRequests[p].expired
    BY <1>6
  <2>2. \A o \in Executors : executions[o].pc \in {"unattached", "attaching"} =>
          executions[o].request \in WriteRequests
    BY DEF WriteInv, ExecutionInv
  <2>3. \A o \in Executors : executions'[o].pc \in {"unattached", "attaching"} =>
          /\ executions'[o] = executions[o]
          /\ OwnsLease(o)' <=> OwnsLease(o)
    BY <1>3, <2>1, <2>2 DEF OwnsLease, Row, Request
  <2> QED
    BY <1>1, <2>3 DEF WriteInv, LeasesHold
<1> QED
  BY <1>2, <1>3, <1>5, <1>7, <1>8, <1>9, <1>10, ExecutionMoves

\* A lease is taken where there is none or an expired one, and given up by its
\* owner, who attaches nothing then; who is attaching keeps his.
LEMMA LeaseStepsKeepWrites ==
  ASSUME WriteInv, NEW x \in Executors, ReserveExecution(x) \/ ReleaseExecution(x)
  PROVE  WriteInv'
<1> WriteTypes /\ ExecutionInv(x) /\ Inv
  BY DEF WriteInv
<1> DEFINE q == executions[x].request
<1>1. UNCHANGED <<claimVars, claimArtifacts, mempool, stray>>
  BY DEF ReserveExecution, ReleaseExecution
<1>2. Keeps /\ Inv'
  BY <1>1, RegistryKeeps, NextKeepsInv
<1>3. q \in WriteRequests /\ executions[x].pc \in {"authenticated", "releasing"}
  BY DEF ExecutionInv, ReserveExecution, ReleaseExecution, At
<1>4. PICK owner \in {x, NoExecutor} :
        \/ UNCHANGED writeRequests
        \/ /\ writeRequests' = [writeRequests EXCEPT ![q].owner = owner, ![q].expired = FALSE]
           /\ \/ writeRequests[q].owner = NoExecutor
              \/ writeRequests[q].expired
              \/ writeRequests[q].owner = x
  BY DEF ReserveExecution, ReleaseExecution, Row, Request
<1>5. /\ \A o \in Executors \ {x} : executions'[o] = executions[o]
      /\ \/ executions'[x] = NoExecution
         \/ /\ executions'[x] = [executions[x] EXCEPT !.pc = "reserved"]
            /\ executions[x].pc = "authenticated"
         \/ executions'[x] = [executions[x] EXCEPT !.pc = "idle"]
      /\ executions' = [executions EXCEPT ![x] = executions'[x]]
  BY DEF ReserveExecution, ReleaseExecution, ExecutionGoto, WriteTypes, At
<1>6. executions[x] \in Execution /\ NoExecution \in Execution
  BY DEF WriteTypes, Execution, NoExecution, SomeRequest, WritePcs
<1>7. /\ executions'[x] \in Execution
      /\ executions'[x].pc \in {"idle", "reserved"}
      /\ executions'[x].pc = "reserved" =>
           /\ executions[x].pc = "authenticated"
           /\ executions'[x].request = q /\ executions'[x].claim = executions[x].claim
  BY <1>5, <1>6 DEF Execution, NoExecution, WritePcs
<1>8. /\ writeRequests' \in [WriteRequests ->
           [status : {"none", "pending", "accepted", "rejected"}, claim : ClaimIds \cup {0},
            owner : Executors \cup {NoExecutor}, expired : BOOLEAN]]
      /\ \A p \in WriteRequests : /\ writeRequests'[p].status = writeRequests[p].status
                                  /\ writeRequests'[p].claim = writeRequests[p].claim
      /\ \A p \in WriteRequests \ {q} : writeRequests'[p] = writeRequests[p]
      /\ writeRequests'[q] = writeRequests[q] \/ writeRequests'[q].owner = owner
  BY <1>3, <1>4, SMTT(60) DEF WriteTypes
<1>9. WriteTypes'
  BY <1>1, <1>5, <1>7, <1>8 DEF WriteTypes, Execution
<1>10. RowsKeep
  BY <1>1, <1>8 DEF RowsKeep, WriteTypes
<1>11. ExecutionInv(x)'
  BY <1>3, <1>7, <1>8 DEF ExecutionInv
<1>12. EffectsDone'
  BY <1>2, <1>8, <1>9, <1>10, EffectsStay
<1>13. LeasesHold'
  <2>1. ASSUME stray = FALSE, NEW o \in Executors, executions'[o].pc \in {"unattached", "attaching"}
        PROVE  /\ executions'[o] = executions[o]
               /\ OwnsLease(o)' => OwnsLease(o)
               /\ executions[o].pc = "attaching" => OwnsLease(o)'
    <3>1. o # x /\ executions'[o] = executions[o]
      BY <1>5, <1>7, <2>1
    <3>2. executions[o].request \in WriteRequests
      BY <2>1, <3>1 DEF WriteInv, ExecutionInv
    <3>3. executions[o].pc = "attaching" => OwnsLease(o)
      BY <2>1 DEF WriteInv, LeasesHold
    <3>4. CASE writeRequests'[executions[o].request] = writeRequests[executions[o].request]
      BY <3>1, <3>3, <3>4 DEF OwnsLease, Row, Request
    <3>5. CASE /\ executions[o].request = q
               /\ writeRequests'[q].owner = owner
               /\ writeRequests'[q] # writeRequests[q]
      <4>1. ~(OwnsLease(o)')
        BY <3>1, <3>5, WriteAssumption DEF OwnsLease, Row, Request
      <4>2. ~OwnsLease(o)
        BY <1>4, <3>1, <3>5, WriteAssumption DEF OwnsLease, Row, Request
      <4> QED
        BY <3>1, <3>3, <4>1, <4>2
    <3> QED
      BY <1>8, <3>2, <3>4, <3>5
  <2> QED
    BY <1>1, <2>1, LeasesStay
<1> QED
  BY <1>2, <1>5, <1>9, <1>10, <1>11, <1>12, <1>13, ExecutionMoves

\* A lease may expire at any time; under an execution that is attaching, that is
\* what goes astray.
LEMMA ExpireLeaseKeepsWrites ==
  ASSUME WriteInv, NEW q \in WriteRequests, ExpireLease(q)
  PROVE  WriteInv'
<1> WriteTypes /\ Inv
  BY DEF WriteInv
<1> DEFINE x == writeRequests[q].owner
<1>1. /\ UNCHANGED <<claimVars, executions, claimArtifacts, mempool>>
      /\ writeRequests' = [writeRequests EXCEPT ![q].expired = TRUE]
      /\ x # NoExecutor /\ ~writeRequests[q].expired
      /\ stray' = (stray \/ (At(x, "attaching") /\ Request(x) = q))
  BY DEF ExpireLease
<1>2. Keeps /\ Inv'
  BY <1>1, RegistryKeeps, NextKeepsInv
<1>3. x \in Executors
  BY <1>1 DEF WriteTypes
<1>4. stray' \in BOOLEAN
  BY <1>1, Zenon
<1>5. stray \in BOOLEAN
  BY DEF WriteTypes
<1>6. stray' = FALSE => stray = FALSE /\ ~(At(x, "attaching") /\ Request(x) = q)
  BY <1>1, <1>5, Zenon
<1>7. /\ writeRequests' \in [WriteRequests ->
           [status : {"none", "pending", "accepted", "rejected"}, claim : ClaimIds \cup {0},
            owner : Executors \cup {NoExecutor}, expired : BOOLEAN]]
      /\ \A p \in WriteRequests : /\ writeRequests'[p].status = writeRequests[p].status
                                  /\ writeRequests'[p].claim = writeRequests[p].claim
                                  /\ writeRequests'[p].owner = writeRequests[p].owner
      /\ \A p \in WriteRequests \ {q} : writeRequests'[p] = writeRequests[p]
      /\ writeRequests'[q].expired
  BY <1>1, ZenonT(60) DEF WriteTypes
<1>8. WriteTypes'
  BY <1>1, <1>4, <1>7 DEF WriteTypes
<1>9. RowsKeep
  BY <1>1, <1>7 DEF RowsKeep, WriteTypes
<1>10. EffectsDone'
  BY <1>2, <1>7, <1>8, <1>9, EffectsStay
<1>11. LeasesHold'
  <2>1. ASSUME stray' = FALSE, NEW o \in Executors, executions'[o].pc \in {"unattached", "attaching"}
        PROVE  /\ OwnsLease(o)' => OwnsLease(o)
               /\ executions[o].pc = "attaching" => OwnsLease(o)'
    <3>1. executions[o].request \in WriteRequests
      BY <1>1, <2>1 DEF WriteInv, ExecutionInv
    <3>2. executions[o].pc = "attaching" => OwnsLease(o)
      BY <1>6, <2>1 DEF WriteInv, LeasesHold
    <3>3. CASE executions[o].request # q
      BY <1>1, <1>7, <3>1, <3>2, <3>3 DEF OwnsLease, Row, Request
    <3>4. CASE executions[o].request = q
      <4>1. ~(OwnsLease(o)')
        BY <1>1, <1>7, <3>4 DEF OwnsLease, Row, Request
      <4>2. executions[o].pc # "attaching"
        BY <1>6, <2>1, <3>2, <3>4 DEF OwnsLease, Row, Request, At
      <4> QED
        BY <4>1, <4>2
    <3> QED
      BY <3>3, <3>4
  <2>2. stray' = FALSE => stray = FALSE
    BY <1>6
  <2> QED
    BY <1>1, <2>1, <2>2, LeasesStay
<1>12. PICK y : y \notin Executors
  BY WriteAssumption
<1> QED
  BY <1>1, <1>2, <1>8, <1>9, <1>10, <1>11, <1>12, ExecutionMoves

\* An execution that throws or dies while attaching leaves its transaction behind.
LEMMA StoppingKeepsWrites ==
  ASSUME WriteInv, NEW x \in Executors, ThrowWriting(x) \/ CrashWriting(x)
  PROVE  WriteInv'
<1> WriteTypes /\ ExecutionInv(x) /\ Inv
  BY DEF WriteInv
<1>1. UNCHANGED <<claimVars, writeRequests, claimArtifacts>> /\ LeaveInFlight(x)
  BY DEF ThrowWriting, CrashWriting
<1>2. Keeps /\ Inv'
  BY <1>1, RegistryKeeps, NextKeepsInv
<1>3. executions[x] \in Execution /\ NoExecution \in Execution
  BY DEF WriteTypes, Execution, NoExecution, SomeRequest, WritePcs
<1>4. /\ \A o \in Executors \ {x} : executions'[o] = executions[o]
      /\ \/ executions'[x] = NoExecution
         \/ executions'[x] = [executions[x] EXCEPT !.pc = "rejecting"] /\ executions[x].pc # "idle"
      /\ executions' = [executions EXCEPT ![x] = executions'[x]]
  BY DEF ThrowWriting, CrashWriting, ExecutionGoto, WriteTypes
<1>5. /\ executions'[x] \in Execution
      /\ executions'[x].pc \in {"idle", "rejecting"}
      /\ executions'[x].pc = "rejecting" =>
           /\ executions[x].pc # "idle"
           /\ executions'[x].request = executions[x].request
           /\ executions'[x].claim = executions[x].claim
  BY <1>3, <1>4 DEF Execution, NoExecution, WritePcs
<1>6. /\ mempool' \in [ClaimIds -> Nat]
      /\ stray' = TRUE \/ UNCHANGED <<mempool, stray>>
  <2>1. mempool \in [ClaimIds -> Nat]
    BY DEF WriteTypes
  <2>2. ASSUME NEW c
        PROVE  [mempool EXCEPT ![c] = @ + 1] \in [ClaimIds -> Nat]
    <3>1. CASE c \in ClaimIds
      <4>1. mempool[c] + 1 \in Nat
        BY <2>1, <3>1
      <4> QED
        BY <2>1, <4>1
    <3>2. CASE c \notin ClaimIds
      BY <2>1, <3>2
    <3> QED
      BY <3>1, <3>2
  <2>3. /\ mempool' = mempool \/ mempool' = [mempool EXCEPT ![WrittenClaim(x)] = @ + 1]
        /\ stray' = TRUE \/ UNCHANGED <<mempool, stray>>
    BY <1>1 DEF LeaveInFlight
  <2> QED
    BY <2>1, <2>2, <2>3
<1>7. WriteTypes'
  BY <1>1, <1>4, <1>5, <1>6 DEF WriteTypes, Execution
<1>8. RowsKeep
  BY <1>1 DEF RowsKeep, WriteTypes
<1>9. ExecutionInv(x)'
  BY <1>1, <1>5 DEF ExecutionInv
<1>10. EffectsDone'
  BY <1>1, <1>2, <1>7, <1>8, EffectsStay
<1>11. LeasesHold'
  <2>1. CASE stray' = TRUE
    BY <2>1 DEF LeasesHold
  <2>2. CASE UNCHANGED <<mempool, stray>>
    <3>1. \A o \in Executors : executions'[o].pc \in {"unattached", "attaching"} =>
            /\ executions'[o] = executions[o]
            /\ OwnsLease(o)' <=> OwnsLease(o)
      BY <1>1, <1>4, <1>5 DEF OwnsLease, Row, Request
    <3> QED
      BY <1>1, <2>2, <3>1 DEF WriteInv, LeasesHold
  <2> QED
    BY <1>6, <2>1, <2>2
<1> QED
  BY <1>2, <1>4, <1>7, <1>8, <1>9, <1>10, <1>11, ExecutionMoves

\* The transactions on the claim registry: after them the request has a claim, and
\* the claim to publish is no draft.
LEMMA ClaimTransactionsKeepWrites ==
  ASSUME WriteInv, NEW x \in Executors,
         \/ \E a \in Actors, b \in Bonds : SendCreateClaim(x, a, b)
         \/ \E satisfied \in BOOLEAN : SendPublication(x, satisfied)
  PROVE  WriteInv'
<1> WriteTypes /\ ExecutionInv(x) /\ Inv
  BY DEF WriteInv
<1>1. UNCHANGED <<writeRequests, claimArtifacts, mempool, stray>>
  BY DEF SendCreateClaim, SendPublication
<1>2. executions[x] \in Execution /\ RequestHashes \cap PublishRequests = {}
  BY WriteAssumption DEF WriteTypes, Execution
<1>3. [Next]_claimVars
  <2>1. ASSUME NEW a \in Actors, NEW b \in Bonds, SendCreateClaim(x, a, b)
        PROVE  [Next]_claimVars
    <3>1. Request(x) \in RequestHashes
      BY <2>1 DEF SendCreateClaim, At, ExecutionInv, Request
    <3>2. CreateClaimOnBehalfWithRequestHash(a, b, NoModule, Request(x))
      BY <2>1 DEF SendCreateClaim
    <3> QED
      BY <3>1, <3>2 DEF Next, RegistryStep, CreationStep
  <2>2. ASSUME NEW satisfied \in BOOLEAN, SendPublication(x, satisfied)
        PROVE  [Next]_claimVars
    <3>1. WrittenClaim(x) \in ClaimIds /\ "Published" \in ClaimStatus
      BY <1>2, <2>2 DEF SendPublication, At, ExecutionInv, WrittenClaim, Execution, ClaimStatus
    <3>2. SetClaimStatus(WrittenClaim(x), "Published", satisfied)
      BY <2>2 DEF SendPublication
    <3> QED
      BY <3>1, <3>2 DEF Next
  <2> QED
    BY <2>1, <2>2
<1>4. Keeps /\ Inv'
  BY <1>3, RegistryKeeps, NextKeepsInv
<1>5. /\ executions'[x] \in Execution
      /\ executions' = [executions EXCEPT ![x] = executions'[x]]
      /\ executions'[x].request = executions[x].request
      /\ \/ /\ executions'[x].pc = "created" /\ executions[x].request \in RequestHashes
            /\ executions'[x].claim # 0
            /\ executions'[x].claim = delegatedClaimRequestIds'[executions[x].request]
         \/ /\ executions'[x].pc = "effected" /\ executions[x].request \in PublishRequests
            /\ executions'[x].claim = executions[x].claim
            /\ executions[x].pc # "idle"
            /\ claims'[executions[x].claim].status # "Draft"
  <2>1. ASSUME NEW a \in Actors, NEW b \in Bonds, SendCreateClaim(x, a, b)
        PROVE  /\ executions'[x] \in Execution
               /\ executions' = [executions EXCEPT ![x] = executions'[x]]
               /\ executions'[x].request = executions[x].request
               /\ executions'[x].pc = "created" /\ executions[x].request \in RequestHashes
               /\ executions'[x].claim # 0
               /\ executions'[x].claim = delegatedClaimRequestIds'[executions[x].request]
    <3> DEFINE h == executions[x].request
               d == delegatedClaimRequestIds'[h]
    <3>1. h \in RequestHashes
      BY <2>1 DEF SendCreateClaim, At, ExecutionInv
    <3>2. d \in ClaimIds \cup {0}
      BY <1>4, <3>1 DEF Inv, TypeOK
    <3>3. d # 0
      BY <2>1, <3>1, ReplicationAssumption
      DEF SendCreateClaim, CreateClaimOnBehalfWithRequestHash, Request, recordVars, Inv, TypeOK
    <3>4. executions' = [executions EXCEPT ![x].claim = d, ![x].pc = "created"]
      BY <2>1 DEF SendCreateClaim, Request
    <3> HIDE DEF d
    <3>5. executions'[x] = [executions[x] EXCEPT !.claim = d, !.pc = "created"]
      BY <3>4 DEF WriteTypes
    <3>6. executions' = [executions EXCEPT ![x] = executions'[x]]
      BY <3>4, <3>5
    <3>7. "created" \in WritePcs
      BY DEF WritePcs
    <3>8. /\ executions'[x] \in Execution
          /\ executions'[x].request = h /\ executions'[x].pc = "created" /\ executions'[x].claim = d
      BY <1>2, <3>2, <3>5, <3>7 DEF Execution
    <3> QED
      BY <3>1, <3>3, <3>6, <3>8 DEF d
  <2>2. ASSUME NEW satisfied \in BOOLEAN, SendPublication(x, satisfied)
        PROVE  /\ executions'[x] \in Execution
               /\ executions' = [executions EXCEPT ![x] = executions'[x]]
               /\ executions'[x].request = executions[x].request
               /\ executions'[x].pc = "effected" /\ executions[x].request \in PublishRequests
               /\ executions'[x].claim = executions[x].claim
               /\ executions[x].pc # "idle"
               /\ claims'[executions[x].claim].status # "Draft"
    <3>1. executions[x].pc = "publishing" /\ executions[x].request \in PublishRequests
      BY <2>2 DEF SendPublication, At, ExecutionInv
    <3>2. executions[x].claim \in ClaimIds
      BY <1>2, <3>1 DEF ExecutionInv, Execution
    <3>3. claims'[executions[x].claim].status = "Published"
      BY <2>2, <3>2 DEF SendPublication, SetClaimStatus, WrittenClaim, Inv, TypeOK, ClaimRecord
    <3>4. executions' = [executions EXCEPT ![x].pc = "effected"] /\ "effected" \in WritePcs
      BY <2>2 DEF SendPublication, ExecutionGoto, WritePcs
    <3>5. executions'[x] = [executions[x] EXCEPT !.pc = "effected"]
      BY <3>4 DEF WriteTypes
    <3>6. executions[x] \in Execution
      BY <1>2
    <3>7. executions'[x] \in Execution
      BY <3>4, <3>5, <3>6 DEF Execution
    <3>8. /\ executions'[x].request = executions[x].request
          /\ executions'[x].claim = executions[x].claim
          /\ executions'[x].pc = "effected"
      BY <3>5, <3>6 DEF Execution
    <3> QED
      BY <3>1, <3>3, <3>4, <3>5, <3>7, <3>8
  <2> QED
    BY <2>1, <2>2
<1>6. \A o \in Executors \ {x} : executions'[o] = executions[o]
  BY <1>5 DEF WriteTypes
<1>7. WriteTypes'
  BY <1>1, <1>5 DEF WriteTypes, Execution
<1>8. RowsKeep
  BY <1>1 DEF RowsKeep, WriteTypes
<1>9. ExecutionInv(x)'
  BY <1>1, <1>2, <1>5, <1>6 DEF ExecutionInv, WriteRequests
<1>10. EffectsDone'
  BY <1>1, <1>4, <1>7, <1>8, EffectsStay
<1>11. LeasesHold'
  <2>1. \A o \in Executors : executions'[o].pc \in {"unattached", "attaching"} =>
          /\ executions'[o] = executions[o]
          /\ OwnsLease(o)' <=> OwnsLease(o)
    BY <1>1, <1>5, <1>6 DEF OwnsLease, Row, Request
  <2> QED
    BY <1>1, <2>1 DEF WriteInv, LeasesHold
<1> QED
  BY <1>4, <1>6, <1>7, <1>8, <1>9, <1>10, <1>11, ExecutionMoves

\* An artifact is attached by who owns the lease of the claim's one request, unless
\* something went astray.
LEMMA AttachArtifactKeepsWrites ==
  ASSUME WriteInv, NEW x \in Executors, AttachArtifact(x)
  PROVE  WriteInv'
<1> WriteTypes /\ ExecutionInv(x) /\ Inv
  BY DEF WriteInv
<1> DEFINE c == executions[x].claim
           h == executions[x].request
<1>1. /\ UNCHANGED <<claimVars, writeRequests, mempool, stray>>
      /\ executions[x].pc = "attaching"
      /\ executions' = [executions EXCEPT ![x].pc = "effected"]
      /\ claimArtifacts' = [claimArtifacts EXCEPT ![c] = @ + 1]
  BY DEF AttachArtifact, At, ExecutionGoto, AddArtifact, WrittenClaim
<1>2. Keeps /\ Inv'
  BY <1>1, RegistryKeeps, NextKeepsInv
<1>3. executions[x] \in Execution /\ RequestHashes \cap PublishRequests = {} /\ "effected" \in WritePcs
  BY WriteAssumption DEF WriteTypes, Execution, WritePcs
<1>4. h \in RequestHashes /\ c \in ClaimIds /\ c = delegatedClaimRequestIds[h] /\ c # 0
  BY <1>1, <1>3 DEF ExecutionInv, Execution
<1>5. /\ executions'[x] = [executions[x] EXCEPT !.pc = "effected"]
      /\ executions'[x] \in Execution
      /\ executions'[x].pc = "effected" /\ executions'[x].request = h /\ executions'[x].claim = c
      /\ \A o \in Executors \ {x} : executions'[o] = executions[o]
  BY <1>1, <1>3 DEF WriteTypes, Execution
<1>6. /\ claimArtifacts' \in [ClaimIds -> Nat]
      /\ claimArtifacts'[c] = claimArtifacts[c] + 1
      /\ \A d \in ClaimIds \ {c} : claimArtifacts'[d] = claimArtifacts[d]
  BY <1>1, <1>4 DEF WriteTypes
<1>7. WriteTypes'
  BY <1>1, <1>3, <1>6 DEF WriteTypes, Execution
<1>8. RowsKeep
  BY <1>1, <1>6 DEF RowsKeep, WriteTypes
<1>9. ExecutionInv(x)'
  <2>1. claimArtifacts'[c] > 0
    BY <1>4, <1>6 DEF WriteTypes
  <2> QED
    BY <1>1, <1>3, <1>4, <1>5, <2>1 DEF ExecutionInv, WriteRequests, claimVars, recordVars
<1>10. EffectsDone'
  BY <1>1, <1>2, <1>7, <1>8, EffectsStay
<1>11. LeasesHold'
  <2> SUFFICES ASSUME stray = FALSE PROVE LeasesHold'
    BY <1>1 DEF LeasesHold
  <2>1. OwnsLease(x) /\ claimArtifacts[c] = 0
    BY <1>1 DEF WriteInv, LeasesHold
  <2>2. \A d \in ClaimIds : mempool'[d] = 0 /\ claimArtifacts'[d] <= 1
    BY <1>1, <1>4, <1>6, <2>1 DEF WriteInv, LeasesHold
  <2>3. \A o \in Executors : OwnsLease(o)' <=> OwnsLease(o)
    BY <1>1, <1>5 DEF OwnsLease, Row, Request
  <2>4. ASSUME NEW o \in Executors \ {x}, executions[o].pc \in {"unattached", "attaching"},
               OwnsLease(o)
        PROVE  /\ executions[o].claim \in ClaimIds \ {c}
               /\ claimArtifacts[executions[o].claim] = 0
    <3>1. /\ executions[o].request \in RequestHashes /\ executions[o].claim # 0
          /\ executions[o].claim = delegatedClaimRequestIds[executions[o].request]
      BY <2>4 DEF WriteInv, ExecutionInv
    <3>2. executions[o].request # h
      BY <2>1, <2>4 DEF OwnsLease, Row, Request
    <3>3. executions[o].claim # c
      BY <1>4, <3>1, <3>2 DEF Inv, RequestsOwnClaims
    <3>4. executions[o].claim \in ClaimIds
      BY <3>1 DEF WriteTypes
    <3>5. claimArtifacts[executions[o].claim] = 0
      BY <2>4 DEF WriteInv, LeasesHold
    <3> QED
      BY <3>3, <3>4, <3>5
  <2>5. ASSUME NEW o \in Executors
        PROVE  /\ executions'[o].pc = "attaching" => OwnsLease(o)'
               /\ executions'[o].pc \in {"unattached", "attaching"} /\ OwnsLease(o)' =>
                    claimArtifacts'[executions'[o].claim] = 0
    <3>1. CASE o = x
      BY <1>5, <3>1
    <3>2. CASE o # x
      <4>1. executions[o].pc = "attaching" => OwnsLease(o)
        BY DEF WriteInv, LeasesHold
      <4> QED
        BY <1>5, <1>6, <2>3, <2>4, <3>2, <4>1
    <3> QED
      BY <3>1, <3>2
  <2> QED
    BY <2>2, <2>5 DEF LeasesHold
<1> QED
  BY <1>2, <1>5, <1>7, <1>8, <1>9, <1>10, <1>11, ExecutionMoves

\* A transaction that was left behind is mined after something went astray.
LEMMA MineStrayKeepsWrites ==
  ASSUME WriteInv, NEW c \in ClaimIds, MineStray(c)
  PROVE  WriteInv'
<1> WriteTypes /\ Inv
  BY DEF WriteInv
<1>1. /\ UNCHANGED <<claimVars, writeRequests, executions, stray>>
      /\ mempool[c] > 0
      /\ claimArtifacts' = [claimArtifacts EXCEPT ![c] = @ + 1]
      /\ mempool' = [mempool EXCEPT ![c] = @ - 1]
  BY DEF MineStray, AddArtifact
<1>2. Keeps /\ Inv'
  BY <1>1, RegistryKeeps, NextKeepsInv
<1>3. WriteTypes'
  BY <1>1 DEF WriteTypes
<1>4. RowsKeep
  BY <1>1 DEF RowsKeep, WriteTypes
<1>5. EffectsDone'
  BY <1>1, <1>2, <1>3, <1>4, EffectsStay
<1>6. LeasesHold'
  <2> SUFFICES ASSUME stray = FALSE PROVE FALSE
    BY <1>1, Zenon DEF LeasesHold
  <2>1. LeasesHold
    BY DEF WriteInv
  <2>2. mempool[c] = 0
    BY <2>1 DEF LeasesHold
  <2> QED
    BY <1>1, <2>2
<1>7. PICK y : y \notin Executors
  BY WriteAssumption
<1> QED
  BY <1>1, <1>2, <1>3, <1>4, <1>5, <1>6, <1>7, ExecutionMoves

\* The invariant of the signed writes.
THEOREM WriteInvariant == WritesSpec => []WriteInv
<1>1. Init /\ WritesInit => WriteInv
  <2> SUFFICES ASSUME Init, WritesInit PROVE WriteInv
    OBVIOUS
  <2>1. Inv
    BY InitInv
  <2>2. WriteTypes
    BY DEF WritesInit, WriteTypes, NoRequest, NoExecution, SomeRequest, WritePcs
  <2>3. \A x \in Executors : executions[x].pc = "idle"
    BY DEF WritesInit, NoExecution
  <2>4. \A q \in WriteRequests : writeRequests[q].status = "none"
    BY DEF WritesInit, NoRequest
  <2>5. \A x \in Executors : ExecutionInv(x)
    BY <2>3 DEF ExecutionInv
  <2>6. EffectsDone
    BY <2>4 DEF EffectsDone, WriteRequests
  <2>7. LeasesHold
    BY <2>3 DEF LeasesHold, WritesInit
  <2> QED
    BY <2>1, <2>2, <2>5, <2>6, <2>7 DEF WriteInv
<1>2. WriteInv /\ [WritesNext]_<<claimVars, writeVars>> => WriteInv'
  <2> SUFFICES ASSUME WriteInv, [WritesNext]_<<claimVars, writeVars>> PROVE WriteInv'
    OBVIOUS
  <2>1. CASE [Next]_claimVars /\ UNCHANGED writeVars
    <3>1. Keeps /\ Inv'
      BY <2>1, RegistryKeeps, NextKeepsInv DEF WriteInv
    <3> QED
      BY <2>1, <3>1, RegistryKeepsWrites
  <2>2. ASSUME NEW x \in Executors, ExecutionStep(x) PROVE WriteInv'
    BY <2>2, AuthenticateKeepsWrites, LeaseStepsKeepWrites, ReadingKeepsWrites,
       ClaimTransactionsKeepWrites, SettingStatusKeepsWrites, AttachArtifactKeepsWrites,
       StoppingKeepsWrites
    DEF ExecutionStep, CreateRequestStep, PublishRequestStep
  <2>3. ASSUME NEW q \in WriteRequests, ExpireLease(q) PROVE WriteInv'
    BY <2>3, ExpireLeaseKeepsWrites
  <2>4. ASSUME NEW c \in ClaimIds, MineStray(c) PROVE WriteInv'
    BY <2>4, MineStrayKeepsWrites
  <2> QED
    BY <2>1, <2>2, <2>3, <2>4 DEF WritesNext, WriteStep
<1> QED
  BY <1>1, <1>2, PTL DEF WritesSpec

\* An accepted request had its effect on chain, and a claim gets one artifact, unless
\* an execution went astray while it attached one.
THEOREM WritesAreComplete == WritesSpec => []WritesComplete
<1>1. WriteInv => WritesComplete
  <2> SUFFICES ASSUME WriteInv PROVE WritesComplete
    OBVIOUS
  <2>1. EffectsDone /\ stray \in BOOLEAN
    BY DEF WriteInv, WriteTypes
  <2>2. stray = FALSE => \A c \in ClaimIds : claimArtifacts[c] <= 1
    BY DEF WriteInv, LeasesHold
  <2>3. ~stray => \A c \in ClaimIds : claimArtifacts[c] <= 1
    BY <2>1, <2>2, Zenon
  <2> QED
    BY <2>1, <2>3, Zenon DEF WritesComplete, EffectsDone
<1> QED
  BY <1>1, WriteInvariant, PTL

-----------------------------------------------------------------------------
(***************************************************************************)
(* SourcePublication.  One claim per source is a token that is handed on:  *)
(* an attempt not yet reserved, the one call that is creating, the one     *)
(* transaction it may leave behind, or the claim.                          *)
(***************************************************************************)
PublicationPcs ==
  {"idle", "reserving", "rejecting", "parking", "creating", "attaching", "publishing",
   "marking", "completing", "failing"}

SomeSource == CHOOSE s \in Sources : TRUE

SourceTypes ==
  /\ sources \in [Sources ->
       [status : {"discovered", "ready_for_publication", "rejected", "published"},
        published : ClaimIds \cup {0},
        attempt : [status : {"none", "pending", "claim_ready", "completed",
                             "reconciliation_required"},
                   mode : {"none", "auto", "manual"}, candidate : Candidates \cup {NoCandidate},
                   claim : ClaimIds \cup {0}]]]
  /\ publications \in [Publishers ->
       [pc : PublicationPcs, source : Sources \cup {SomeSource}, mode : {"none", "auto", "manual"},
        candidate : Candidates \cup {NoCandidate}, claim : ClaimIds \cup {0}]]
  /\ sourceMempool \in [Sources -> Nat]
  /\ sourceClaims \in [Sources -> SUBSET ClaimIds]

\* Nobody has the transaction of source s yet to send.
NobodyCreates(s) ==
  \A p \in Publishers : ~(publications[p].pc = "creating" /\ publications[p].source = s)

TokenInv(s) ==
  /\ sources[s].attempt.status = "none" =>
       sources[s].attempt = NoAttempt /\ NobodyCreates(s) /\ sourceMempool[s] = 0 /\ sourceClaims[s] = {}
  /\ \A p, o \in Publishers :
       (/\ publications[p].pc = "creating" /\ publications[p].source = s
        /\ publications[o].pc = "creating" /\ publications[o].source = s) => p = o
  /\ ~NobodyCreates(s) => sourceMempool[s] = 0 /\ sourceClaims[s] = {}
  /\ sourceMempool[s] <= 1
  /\ sourceMempool[s] = 1 => sourceClaims[s] = {}
  /\ sourceClaims[s] = {} \/ \E c \in ClaimIds : sourceClaims[s] = {c}

\* The attempt knows that claim, and the source is published with it.
AttemptInv(s) ==
  LET attempt == sources[s].attempt
      published == sources[s].published
  IN /\ attempt.claim # 0 => attempt.claim \in sourceClaims[s]
     /\ attempt.status \in {"claim_ready", "completed"} => attempt.claim # 0
     /\ published # 0 => published = attempt.claim /\ claims[published].status # "Draft"

PublicationInv(p) ==
  LET call == publications[p]
  IN /\ call.pc # "idle" => call.source \in Sources
     /\ call.pc = "attaching" => call.claim # 0 /\ call.claim \in sourceClaims[call.source]
     /\ call.pc \in {"publishing", "marking", "completing"} =>
          call.claim # 0 /\ call.claim = sources[call.source].attempt.claim
     /\ call.pc \in {"marking", "completing"} => claims[call.claim].status # "Draft"

SourceInv ==
  /\ Inv
  /\ SourceTypes
  /\ \A s \in Sources : TokenInv(s) /\ AttemptInv(s)
  /\ \A p \in Publishers : PublicationInv(p)


\* Claims and rows that a source has stay with it.
SourcesKeep ==
  \A s \in Sources :
    /\ sourceClaims[s] \subseteq sourceClaims'[s]
    /\ sources[s].attempt.claim # 0 => sources'[s].attempt.claim = sources[s].attempt.claim

\* A source whose token does not move: no call begins to create, and no transaction
\* is left behind or mined.
LEMMA TokenStays ==
  ASSUME NEW s \in Sources, TokenInv(s),
         \/ sources'[s].attempt = sources[s].attempt
         \/ sources[s].attempt.status # "none" /\ sources'[s].attempt.status # "none",
         sourceMempool'[s] = sourceMempool[s], sourceClaims'[s] = sourceClaims[s],
         \A p \in Publishers :
           publications'[p].pc = "creating" /\ publications'[p].source = s =>
             publications[p].pc = "creating" /\ publications[p].source = s
  PROVE  TokenInv(s)'
BY DEF TokenInv, NobodyCreates

\* A source whose row changes in its status at most.
LEMMA AttemptStays ==
  ASSUME Keeps, SourcesKeep, SourceTypes, NEW s \in Sources, AttemptInv(s),
         sources'[s].attempt.claim = sources[s].attempt.claim,
         sources'[s].attempt.status \in {"claim_ready", "completed"} =>
           sources[s].attempt.claim # 0,
         sources'[s].published = sources[s].published
  PROVE  AttemptInv(s)'
<1>1. sources[s].published \in ClaimIds \cup {0}
  BY DEF SourceTypes
<1> QED
  BY <1>1 DEF AttemptInv, Keeps, SourcesKeep

\* A step of one call, or of none.
LEMMA PublicationMoves ==
  ASSUME SourceInv, Inv', SourceTypes', Keeps, SourcesKeep, NEW p,
         \A o \in Publishers \ {p} : publications'[o] = publications[o],
         \A s \in Sources : TokenInv(s)' /\ AttemptInv(s)',
         p \in Publishers => PublicationInv(p)'
  PROVE  SourceInv'
<1>1. ASSUME NEW o \in Publishers \ {p}
      PROVE  PublicationInv(o)'
  <2>1. PublicationInv(o)
    BY DEF SourceInv
  <2>2. publications[o].claim \in ClaimIds \cup {0}
    BY DEF SourceInv, SourceTypes
  <2> QED
    BY <1>1, <2>1, <2>2 DEF PublicationInv, Keeps, SourcesKeep
<1> QED
  BY <1>1 DEF SourceInv

\* What other accounts do on chain disturbs no publication.
LEMMA RegistryKeepsSources ==
  ASSUME SourceInv, Keeps, Inv', UNCHANGED sourceVars
  PROVE  SourceInv'
<1> USE DEF sourceVars
<1> SourceTypes
  BY DEF SourceInv
<1>1. SourceTypes' /\ SourcesKeep
  BY DEF SourceTypes, SourcesKeep
<1>2. ASSUME NEW s \in Sources
      PROVE  TokenInv(s)' /\ AttemptInv(s)'
  <2>1. TokenInv(s) /\ AttemptInv(s)
    BY DEF SourceInv
  <2> QED
    BY <1>1, <2>1, TokenStays, AttemptStays DEF AttemptInv
<1>3. ASSUME NEW o \in Publishers
      PROVE  PublicationInv(o)'
  <2>1. PublicationInv(o) /\ publications[o].claim \in ClaimIds \cup {0}
    BY DEF SourceInv, SourceTypes
  <2> QED
    BY <2>1 DEF PublicationInv, Keeps
<1> QED
  BY <1>1, <1>2, <1>3 DEF SourceInv

Call ==
  [pc : PublicationPcs, source : Sources \cup {SomeSource}, mode : {"none", "auto", "manual"},
   candidate : Candidates \cup {NoCandidate}, claim : ClaimIds \cup {0}]

\* A call that moves on by itself, to anything but a creation.
LEMMA LocalStepsKeepSources ==
  ASSUME SourceInv, NEW p \in Publishers,
         UNCHANGED <<claimVars, sources, sourceMempool, sourceClaims>>,
         publications' = [publications EXCEPT ![p] = publications'[p]],
         publications'[p] \in Call, publications'[p].pc # "creating", PublicationInv(p)'
  PROVE  SourceInv'
<1> SourceTypes
  BY DEF SourceInv
<1>1. Keeps /\ Inv'
  BY RegistryKeeps, NextKeepsInv DEF SourceInv
<1>2. publications' \in [Publishers -> Call]
  BY DEF SourceTypes, Call
<1>3. SourceTypes' /\ SourcesKeep
  BY <1>2 DEF SourceTypes, SourcesKeep, Call
<1>4. \A o \in Publishers \ {p} : publications'[o] = publications[o]
  BY DEF SourceTypes
<1>5. ASSUME NEW s \in Sources
      PROVE  TokenInv(s)' /\ AttemptInv(s)'
  <2>1. TokenInv(s) /\ AttemptInv(s)
    BY DEF SourceInv
  <2>2. \A o \in Publishers : publications'[o].pc = "creating" => publications'[o] = publications[o]
    BY <1>4
  <2> QED
    BY <1>1, <1>3, <2>1, <2>2, TokenStays, AttemptStays DEF AttemptInv
<1> QED
  BY <1>1, <1>3, <1>4, <1>5, PublicationMoves

\* A call begins.
LEMMA StartingKeepsSources ==
  ASSUME SourceInv, NEW p \in Publishers, NEW s \in Sources,
         \/ StartRejection(p, s)
         \/ \E w \in Candidates : StartConfirmation(p, s, w)
         \/ \E w \in Candidates \cup {NoCandidate} : StartAutoPublication(p, s, w)
  PROVE  SourceInv'
<1>1. PICK pc \in {"rejecting", "parking", "reserving"}, mode \in {"auto", "manual"},
           w \in Candidates \cup {NoCandidate} : StartPublication(p, pc, s, mode, w)
  BY DEF StartRejection, StartConfirmation, StartAutoPublication
<1>2. publications'[p] = [pc |-> pc, source |-> s, mode |-> mode, candidate |-> w, claim |-> 0]
  BY <1>1 DEF StartPublication, SourceInv, SourceTypes
<1>3. /\ publications' = [publications EXCEPT ![p] = publications'[p]]
      /\ UNCHANGED <<claimVars, sources, sourceMempool, sourceClaims>>
  BY <1>1, <1>2 DEF StartPublication
<1>4. publications'[p] \in Call /\ publications'[p].pc # "creating" /\ PublicationInv(p)'
  BY <1>2 DEF Call, PublicationPcs, PublicationInv
<1> QED
  BY <1>3, <1>4, LocalStepsKeepSources

AttemptRow ==
  [status : {"none", "pending", "claim_ready", "completed", "reconciliation_required"},
   mode : {"none", "auto", "manual"}, candidate : Candidates \cup {NoCandidate},
   claim : ClaimIds \cup {0}]

SourceRow ==
  [status : {"discovered", "ready_for_publication", "rejected", "published"},
   published : ClaimIds \cup {0}, attempt : AttemptRow]

\* A call that writes its source's row, once that has an attempt or without one.
LEMMA RowStepsKeepSources ==
  ASSUME SourceInv, NEW p \in Publishers, NEW s \in Sources,
         UNCHANGED <<claimVars, sourceMempool, sourceClaims>>,
         publications' = [publications EXCEPT ![p] = publications'[p]],
         publications'[p] \in Call, publications'[p].pc # "creating", PublicationInv(p)',
         sources' = [sources EXCEPT ![s] = sources'[s]], sources'[s] \in SourceRow,
         sources[s].attempt.claim # 0 => sources'[s].attempt.claim = sources[s].attempt.claim,
         \/ sources'[s].attempt = sources[s].attempt
         \/ sources[s].attempt.status # "none" /\ sources'[s].attempt.status # "none",
         AttemptInv(s)'
  PROVE  SourceInv'
<1> SourceTypes
  BY DEF SourceInv
<1>1. Keeps /\ Inv'
  BY RegistryKeeps, NextKeepsInv DEF SourceInv
<1>2. publications' \in [Publishers -> Call]
  BY DEF SourceTypes, Call
<1>3. sources' \in [Sources -> SourceRow]
  BY DEF SourceTypes, SourceRow, AttemptRow
<1>4. SourceTypes'
  BY <1>2, <1>3 DEF SourceTypes, Call, SourceRow, AttemptRow
<1>5. \A o \in Publishers \ {p} : publications'[o] = publications[o]
  BY DEF SourceTypes
<1>6. \A t \in Sources \ {s} : sources'[t] = sources[t]
  BY DEF SourceTypes
<1>7. SourcesKeep
  BY <1>6 DEF SourcesKeep
<1>8. ASSUME NEW t \in Sources
      PROVE  TokenInv(t)'
  <2>1. TokenInv(t)
    BY DEF SourceInv
  <2>2. \A o \in Publishers : publications'[o].pc = "creating" => publications'[o] = publications[o]
    BY <1>5
  <2>3. \/ sources'[t].attempt = sources[t].attempt
        \/ sources[t].attempt.status # "none" /\ sources'[t].attempt.status # "none"
    BY <1>6
  <2> QED
    BY <2>1, <2>2, <2>3, TokenStays
<1>9. ASSUME NEW t \in Sources \ {s}
      PROVE  AttemptInv(t)'
  <2>1. AttemptInv(t)
    BY DEF SourceInv
  <2> QED
    BY <1>1, <1>6, <1>7, <1>9, <2>1, AttemptStays DEF AttemptInv
<1> QED
  BY <1>1, <1>4, <1>5, <1>7, <1>8, <1>9, PublicationMoves

\* A call that ends has nothing to keep.
LEMMA EndedCalls ==
  ASSUME SourceTypes, NEW p \in Publishers, EndPublication(p)
  PROVE  /\ publications' = [publications EXCEPT ![p] = publications'[p]]
         /\ publications'[p] \in Call /\ publications'[p].pc = "idle" /\ PublicationInv(p)'
<1>1. publications'[p] = NoPublication
  BY DEF EndPublication, SourceTypes
<1>2. NoPublication \in Call /\ NoPublication.pc = "idle"
  BY DEF NoPublication, Call, PublicationPcs, SomeSource
<1> QED
  BY <1>1, <1>2 DEF EndPublication, PublicationInv

\* A call that goes on keeps all but its place.
LEMMA CallsGoOn ==
  ASSUME SourceTypes, NEW p \in Publishers, NEW pc \in PublicationPcs, PublicationGoto(p, pc)
  PROVE  /\ publications' = [publications EXCEPT ![p] = publications'[p]]
         /\ publications'[p] \in Call /\ publications'[p].pc = pc
         /\ publications'[p].source = publications[p].source
         /\ publications'[p].claim = publications[p].claim
         /\ publications'[p].mode = publications[p].mode
         /\ publications'[p].candidate = publications[p].candidate
<1>1. publications[p] \in Call
  BY DEF SourceTypes, Call
<1>2. publications'[p] = [publications[p] EXCEPT !.pc = pc]
  BY DEF PublicationGoto, SourceTypes
<1>3. publications' = [publications EXCEPT ![p] = publications'[p]]
  BY <1>2 DEF PublicationGoto
<1> QED
  BY <1>1, <1>2, <1>3 DEF Call

\* A rejection or a parking writes the source's status.
LEMMA MarkingSourceKeepsSources ==
  ASSUME SourceInv, NEW p \in Publishers, RejectSource(p) \/ ParkSource(p)
  PROVE  SourceInv'
<1> SourceTypes /\ PublicationInv(p)
  BY DEF SourceInv
<1>2. PICK s \in Sources : s = publications[p].source
  BY DEF RejectSource, ParkSource, MarkSource, Publishing, PublicationInv
<1>1. PICK status \in {"rejected", "ready_for_publication"} :
        /\ EndPublication(p) /\ UNCHANGED <<claimVars, sourceMempool, sourceClaims>>
        /\ sources' = [sources EXCEPT ![s].status = status]
  BY <1>2 DEF RejectSource, ParkSource, MarkSource, Publishing, SourceOf
<1>3. sources[s] \in SourceRow /\ AttemptInv(s)
  BY <1>2 DEF SourceInv, SourceTypes, SourceRow, AttemptRow
<1>4. sources'[s] = [sources[s] EXCEPT !.status = status]
  BY <1>1, <1>2 DEF SourceTypes
<1>5. /\ sources'[s] \in SourceRow
      /\ sources'[s].attempt = sources[s].attempt /\ sources'[s].published = sources[s].published
  BY <1>3, <1>4 DEF SourceRow
<1>6. sources' = [sources EXCEPT ![s] = sources'[s]]
  BY <1>1, <1>4
<1>7. AttemptInv(s)'
  BY <1>1, <1>3, <1>5 DEF AttemptInv, claimVars, recordVars
<1> QED
  BY <1>1, <1>2, <1>5, <1>6, <1>7, EndedCalls, RowStepsKeepSources

\* Whoever created the source's claim records it: it has no other.
LEMMA MarkReadyKeepsSources ==
  ASSUME SourceInv, NEW p \in Publishers, MarkSourcePublicationClaimReady(p)
  PROVE  SourceInv'
<1> SourceTypes /\ PublicationInv(p)
  BY DEF SourceInv
<1>2. PICK s \in Sources, c \in ClaimIds :
        /\ s = publications[p].source /\ c = publications[p].claim
        /\ c # 0 /\ c \in sourceClaims[s]
  BY DEF MarkSourcePublicationClaimReady, Publishing, PublicationInv, SourceTypes
<1>1. /\ PublicationGoto(p, "parking") /\ UNCHANGED <<claimVars, sourceMempool, sourceClaims>>
      /\ sources' = [sources EXCEPT ![s].attempt.status = "claim_ready", ![s].attempt.claim = c]
  BY <1>2 DEF MarkSourcePublicationClaimReady, SourceOf
<1>3. sources[s] \in SourceRow /\ AttemptInv(s) /\ TokenInv(s)
  BY <1>2 DEF SourceInv, SourceTypes, SourceRow, AttemptRow
<1> DEFINE attempt == [sources[s].attempt EXCEPT !.status = "claim_ready", !.claim = c]
<1>4. sources'[s] = [sources[s] EXCEPT !.attempt = attempt]
  BY <1>1, <1>2 DEF SourceTypes
<1>5. attempt \in AttemptRow /\ attempt.status = "claim_ready" /\ attempt.claim = c
  BY <1>2, <1>3 DEF SourceRow, AttemptRow
<1> HIDE DEF attempt
<1>6. /\ sources'[s] \in SourceRow
      /\ sources'[s].attempt = attempt /\ sources'[s].published = sources[s].published
  BY <1>3, <1>4, <1>5 DEF SourceRow
<1>7. sources' = [sources EXCEPT ![s] = sources'[s]]
  BY <1>1, <1>4 DEF attempt
<1>8. sources[s].attempt.claim # 0 => sources[s].attempt.claim = c
  BY <1>2, <1>3 DEF AttemptInv, TokenInv
<1>9. sources[s].attempt.status # "none"
  BY <1>2, <1>3 DEF TokenInv
<1>10. AttemptInv(s)'
  BY <1>1, <1>2, <1>3, <1>5, <1>6, <1>8 DEF AttemptInv, claimVars, recordVars
<1>11. /\ publications' = [publications EXCEPT ![p] = publications'[p]]
       /\ publications'[p] \in Call /\ publications'[p].pc = "parking"
       /\ publications'[p].source = s
  BY <1>1, <1>2, CallsGoOn DEF PublicationPcs
<1>12. PublicationInv(p)'
  BY <1>2, <1>11 DEF PublicationInv
<1> QED
  BY <1>1, <1>2, <1>5, <1>6, <1>7, <1>8, <1>9, <1>10, <1>11, <1>12, RowStepsKeepSources

\* A source is published with the claim of its attempt, which left the drafts.
LEMMA MarkPublishedKeepsSources ==
  ASSUME SourceInv, NEW p \in Publishers, MarkSourcePublished(p)
  PROVE  SourceInv'
<1> SourceTypes /\ PublicationInv(p)
  BY DEF SourceInv
<1>2. PICK s \in Sources, c \in ClaimIds :
        /\ s = publications[p].source /\ c = publications[p].claim
        /\ c # 0 /\ c = sources[s].attempt.claim /\ claims[c].status # "Draft"
  BY DEF MarkSourcePublished, Publishing, PublicationInv, SourceTypes
<1>1. /\ PublicationGoto(p, "completing")
      /\ UNCHANGED <<claimVars, sourceMempool, sourceClaims>>
      /\ sources' = [sources EXCEPT ![s].published = c, ![s].status = "published"]
  BY <1>2 DEF MarkSourcePublished, SourceOf
<1>11. /\ publications' = [publications EXCEPT ![p] = publications'[p]]
       /\ publications'[p] \in Call /\ publications'[p].pc = "completing"
       /\ publications'[p].source = s /\ publications'[p].claim = c
  BY <1>1, <1>2, CallsGoOn DEF PublicationPcs
<1>3. sources[s] \in SourceRow /\ AttemptInv(s)
  BY <1>2 DEF SourceInv, SourceTypes, SourceRow, AttemptRow
<1>4. sources'[s] = [sources[s] EXCEPT !.published = c, !.status = "published"]
  BY <1>1, <1>2 DEF SourceTypes
<1>5. /\ sources'[s] \in SourceRow
      /\ sources'[s].attempt = sources[s].attempt /\ sources'[s].published = c
  BY <1>2, <1>3, <1>4 DEF SourceRow
<1>6. sources' = [sources EXCEPT ![s] = sources'[s]]
  BY <1>1, <1>4
<1>7. AttemptInv(s)'
  BY <1>1, <1>2, <1>3, <1>5 DEF AttemptInv, claimVars, recordVars
<1>12. PublicationInv(p)'
  BY <1>1, <1>2, <1>5, <1>11 DEF PublicationInv, claimVars, recordVars
<1> QED
  BY <1>1, <1>2, <1>5, <1>6, <1>7, <1>11, <1>12, RowStepsKeepSources

\* An attempt that has its claim is completed, one that has none goes wrong.
LEMMA MarkingAttemptKeepsSources ==
  ASSUME SourceInv, NEW p \in Publishers,
         \/ MarkSourcePublicationAttemptCompleted(p)
         \/ MarkSourcePublicationReconciliationRequired(p)
  PROVE  SourceInv'
<1> SourceTypes /\ PublicationInv(p)
  BY DEF SourceInv
<1>1. EndPublication(p) /\ UNCHANGED <<claimVars, sourceMempool, sourceClaims>>
  BY DEF MarkSourcePublicationAttemptCompleted, MarkSourcePublicationReconciliationRequired
<1>2. PICK s \in Sources : s = publications[p].source
  BY DEF MarkSourcePublicationAttemptCompleted, MarkSourcePublicationReconciliationRequired,
         Publishing, PublicationInv
<1>3. CASE UNCHANGED sources
  BY <1>1, <1>3, EndedCalls, LocalStepsKeepSources
<1>4. CASE sources' # sources
  <2>1. PICK status \in {"completed", "reconciliation_required"} :
          /\ sources' = [sources EXCEPT ![s].attempt.status = status]
          /\ status = "completed" => sources[s].attempt.claim # 0
          /\ status # "completed" => sources[s].attempt.status = "pending"
    BY <1>2, <1>4 DEF MarkSourcePublicationAttemptCompleted,
                      MarkSourcePublicationReconciliationRequired, Attempt, SourceOf
  <2>2. sources[s] \in SourceRow /\ AttemptInv(s) /\ TokenInv(s)
    BY <1>2 DEF SourceInv, SourceTypes, SourceRow, AttemptRow
  <2> DEFINE attempt == [sources[s].attempt EXCEPT !.status = status]
  <2>3. sources'[s] = [sources[s] EXCEPT !.attempt = attempt]
    BY <1>2, <2>1 DEF SourceTypes
  <2>4. /\ attempt \in AttemptRow /\ attempt.status = status
        /\ attempt.claim = sources[s].attempt.claim
    BY <2>2 DEF SourceRow, AttemptRow
  <2> HIDE DEF attempt
  <2>5. /\ sources'[s] \in SourceRow
        /\ sources'[s].attempt = attempt /\ sources'[s].published = sources[s].published
    BY <2>2, <2>3, <2>4 DEF SourceRow
  <2>6. sources' = [sources EXCEPT ![s] = sources'[s]]
    BY <2>1, <2>3 DEF attempt
  <2>7. sources[s].attempt.status # "none"
    BY <1>2, <2>1, <2>2 DEF TokenInv, AttemptInv, NoAttempt
  <2>8. AttemptInv(s)'
    BY <1>1, <1>2, <2>1, <2>2, <2>4, <2>5 DEF AttemptInv, claimVars, recordVars
  <2> QED
    BY <1>1, <1>2, <2>1, <2>4, <2>5, <2>6, <2>7, <2>8, EndedCalls, RowStepsKeepSources, ZenonT(60)
<1> QED
  BY <1>3, <1>4

\* A draft that is ready is left or published with the claim of its attempt.
LEMMA ResumingKeepsSources ==
  ASSUME SourceInv, NEW p \in Publishers, Publishing(p, "reserving"), ResumeAttempt(p),
         UNCHANGED <<claimVars, sources, sourceMempool, sourceClaims>>
  PROVE  SourceInv'
<1> SourceTypes
  BY DEF SourceInv
<1>1. CASE EndPublication(p)
  BY <1>1, EndedCalls, LocalStepsKeepSources
<1>2. CASE ~EndPublication(p)
  <2>1. PICK s \in Sources : s = publications[p].source
    BY DEF Publishing, PublicationInv, SourceInv
  <2>2. PICK pc \in {"parking", "publishing"}, c \in ClaimIds \cup {0} :
          /\ publications' = [publications EXCEPT ![p].pc = pc, ![p].claim = c]
          /\ c = sources[s].attempt.claim /\ sources[s].attempt.status = "claim_ready"
    BY <1>2, <2>1 DEF ResumeAttempt, Attempt, SourceOf, SourceTypes
  <2>3. publications'[p] = [publications[p] EXCEPT !.pc = pc, !.claim = c]
    BY <2>2 DEF SourceTypes
  <2>4. publications' = [publications EXCEPT ![p] = publications'[p]]
    BY <2>2, <2>3
  <2>5. publications[p] \in Call /\ pc \in PublicationPcs /\ AttemptInv(s)
    BY DEF SourceTypes, Call, PublicationPcs, SourceInv
  <2>6. /\ publications'[p] \in Call /\ publications'[p].pc = pc
        /\ publications'[p].claim = c /\ publications'[p].source = s
    BY <2>1, <2>3, <2>5 DEF Call
  <2>7. PublicationInv(p)'
    BY <2>2, <2>5, <2>6 DEF PublicationInv, AttemptInv
  <2> QED
    BY <2>2, <2>4, <2>6, <2>7, LocalStepsKeepSources
<1> QED
  BY <1>1, <1>2

\* A call that reserves the attempt takes the token of its source.
LEMMA ReservingKeepsSources ==
  ASSUME SourceInv, NEW p \in Publishers, ReserveSourcePublicationAttempt(p)
  PROVE  SourceInv'
<1> SourceTypes /\ PublicationInv(p)
  BY DEF SourceInv
<1>1. Publishing(p, "reserving") /\ UNCHANGED <<claimVars, sourceMempool, sourceClaims>>
  BY DEF ReserveSourcePublicationAttempt
<1>2. CASE ResumeAttempt(p) /\ UNCHANGED sources
  BY <1>1, <1>2, ResumingKeepsSources
<1>3. CASE Reservable(p)
  <2>1. PICK s \in Sources : s = publications[p].source
    BY <1>1 DEF Publishing, PublicationInv
  <2> DEFINE attempt == [NoAttempt EXCEPT !.status = "pending", !.mode = publications[p].mode,
                                          !.candidate = publications[p].candidate]
  <2>2. /\ sources[s].attempt.status = "none" /\ PublicationGoto(p, "creating")
        /\ sources' = [sources EXCEPT ![s].attempt = attempt]
    BY <1>3, <2>1 DEF ReserveSourcePublicationAttempt, Reservable, Attempt, SourceOf
  <2>3. sources[s] \in SourceRow /\ TokenInv(s) /\ AttemptInv(s)
    BY DEF SourceInv, SourceTypes, SourceRow, AttemptRow
  <2>4. publications[p] \in Call
    BY DEF SourceTypes, Call
  <2>5. /\ attempt \in AttemptRow /\ attempt.status = "pending" /\ attempt.claim = 0
    BY <2>4 DEF NoAttempt, AttemptRow, Call
  <2> HIDE DEF attempt
  <2>6. sources'[s] = [sources[s] EXCEPT !.attempt = attempt]
    BY <2>2 DEF SourceTypes
  <2>7. /\ sources'[s] \in SourceRow
        /\ sources'[s].attempt = attempt /\ sources'[s].published = sources[s].published
    BY <2>3, <2>5, <2>6 DEF SourceRow
  <2>8. /\ \A t \in Sources \ {s} : sources'[t] = sources[t]
        /\ \A o \in Publishers \ {p} : publications'[o] = publications[o]
    BY <2>2 DEF SourceTypes, PublicationGoto
  <2>9. /\ publications' = [publications EXCEPT ![p] = publications'[p]]
        /\ publications'[p] \in Call /\ publications'[p].pc = "creating"
        /\ publications'[p].source = s
    BY <2>1, <2>2, CallsGoOn DEF PublicationPcs
  <2>10. SourceTypes'
    <3>1. publications' \in [Publishers -> Call]
      BY <2>9 DEF SourceTypes, Call
    <3>2. sources' \in [Sources -> SourceRow]
      BY <2>2, <2>7, <2>8 DEF SourceTypes, SourceRow, AttemptRow
    <3> QED
      BY <1>1, <3>1, <3>2 DEF SourceTypes, Call, SourceRow, AttemptRow
  <2>11. Keeps /\ Inv'
    BY <1>1, RegistryKeeps, NextKeepsInv DEF SourceInv
  <2>12. /\ sources[s].attempt = NoAttempt /\ NobodyCreates(s) /\ sourceMempool[s] = 0
         /\ sourceClaims[s] = {}
    BY <2>2, <2>3 DEF TokenInv
  <2>13. SourcesKeep
    BY <1>1, <2>8, <2>12 DEF SourcesKeep, NoAttempt
  <2>14. TokenInv(s)' /\ AttemptInv(s)'
    <3>1. \A o \in Publishers :
            publications'[o].pc = "creating" /\ publications'[o].source = s => o = p
      BY <2>8, <2>12 DEF NobodyCreates
    <3>2. sources'[s].published = 0
      BY <2>3, <2>7, <2>12 DEF AttemptInv, NoAttempt
    <3> QED
      BY <1>1, <2>5, <2>7, <2>12, <3>1, <3>2 DEF TokenInv, AttemptInv
  <2>15. ASSUME NEW t \in Sources \ {s}
         PROVE  TokenInv(t)' /\ AttemptInv(t)'
    <3>1. TokenInv(t) /\ AttemptInv(t)
      BY DEF SourceInv
    <3>2. \A o \in Publishers :
            publications'[o].pc = "creating" /\ publications'[o].source = t =>
              publications[o].pc = "creating" /\ publications[o].source = t
      BY <2>8, <2>9
    <3> QED
      BY <1>1, <2>8, <2>11, <2>13, <3>1, <3>2, TokenStays, AttemptStays DEF AttemptInv
  <2>16. PublicationInv(p)'
    BY <2>9 DEF PublicationInv
  <2> QED
    BY <2>8, <2>10, <2>11, <2>13, <2>14, <2>15, <2>16, PublicationMoves
<1> QED
  BY <1>2, <1>3 DEF ReserveSourcePublicationAttempt

\* A call goes wrong or ends while it creates, and its transaction stays behind.
LEMMA LeavingKeepsSources ==
  ASSUME SourceInv, NEW p \in Publishers, ThrowCreating(p) \/ StopPublication(p)
  PROVE  SourceInv'
<1> SourceTypes /\ PublicationInv(p)
  BY DEF SourceInv
<1>1. UNCHANGED <<claimVars, sources, sourceClaims>> /\ LeaveCreation(p)
  BY DEF ThrowCreating, StopPublication
<1>2. /\ publications' = [publications EXCEPT ![p] = publications'[p]]
      /\ publications'[p] \in Call /\ publications'[p].pc \in {"failing", "idle"}
      /\ PublicationInv(p)'
  <2>1. CASE StopPublication(p)
    BY <2>1, EndedCalls DEF StopPublication
  <2>2. CASE ThrowCreating(p)
    <3>1. PublicationGoto(p, "failing") /\ publications[p].source \in Sources
      BY <2>2 DEF ThrowCreating, PublicationInv
    <3> QED
      BY <3>1, CallsGoOn DEF PublicationPcs, PublicationInv
  <2> QED
    BY <2>1, <2>2
<1>3. CASE UNCHANGED sourceMempool
  BY <1>1, <1>2, <1>3, LocalStepsKeepSources
<1>4. CASE sourceMempool' # sourceMempool
  <2>1. PICK s \in Sources : s = publications[p].source
    BY <1>1, <1>4 DEF LeaveCreation, Publishing, PublicationInv
  <2>2. /\ publications[p].pc = "creating"
        /\ sourceMempool' = [sourceMempool EXCEPT ![s] = @ + 1]
    BY <1>1, <1>4, <2>1 DEF LeaveCreation, Publishing, SourceOf
  <2>3. TokenInv(s) /\ AttemptInv(s) /\ sourceMempool[s] = 0 /\ sourceClaims[s] = {}
    BY <2>1, <2>2 DEF SourceInv, TokenInv, NobodyCreates
  <2>4. \A o \in Publishers \ {p} : publications'[o] = publications[o]
    BY <1>2 DEF SourceTypes
  <2>5. Keeps /\ Inv'
    BY <1>1, RegistryKeeps, NextKeepsInv DEF SourceInv
  <2>6. publications' \in [Publishers -> Call] /\ sourceMempool' \in [Sources -> Nat]
    <3>1. publications' \in [Publishers -> Call]
      BY <1>2 DEF SourceTypes, Call
    <3>2. sourceMempool' \in [Sources -> Nat]
      BY <2>2 DEF SourceTypes
    <3> QED
      BY <3>1, <3>2
  <2>7. SourceTypes' /\ SourcesKeep
    BY <1>1, <2>6 DEF SourceTypes, SourcesKeep, Call
  <2>8. sourceMempool'[s] = 1 /\ \A t \in Sources \ {s} : sourceMempool'[t] = sourceMempool[t]
    BY <2>2, <2>3 DEF SourceTypes
  <2>9. NobodyCreates(s)'
    <3>1. \A o \in Publishers \ {p} :
            ~(publications[o].pc = "creating" /\ publications[o].source = s)
      BY <2>1, <2>2, <2>3 DEF TokenInv
    <3> QED
      BY <1>2, <2>4, <3>1 DEF NobodyCreates
  <2>10. TokenInv(s)'
    <3>1. sources[s].attempt.status # "none"
      BY <2>1, <2>2, <2>3 DEF TokenInv, NobodyCreates
    <3> QED
      BY <1>1, <2>3, <2>8, <2>9, <3>1 DEF TokenInv, NobodyCreates
  <2>11. ASSUME NEW t \in Sources \ {s}
         PROVE  TokenInv(t)'
    <3>1. TokenInv(t)
      BY DEF SourceInv
    <3>2. \A o \in Publishers :
            publications'[o].pc = "creating" /\ publications'[o].source = t =>
              publications[o].pc = "creating" /\ publications[o].source = t
      BY <1>2, <2>4
    <3> QED
      BY <1>1, <2>8, <3>1, <3>2, TokenStays
  <2>12. ASSUME NEW t \in Sources
         PROVE  AttemptInv(t)'
    <3>1. AttemptInv(t)
      BY DEF SourceInv
    <3> QED
      BY <1>1, <2>5, <2>7, <3>1, AttemptStays DEF AttemptInv
  <2> QED
    BY <1>2, <2>4, <2>5, <2>7, <2>10, <2>11, <2>12, PublicationMoves
<1> QED
  BY <1>3, <1>4

\* A creation is a step of the registry that makes the next claim.
LEMMA CreationMakesClaim ==
  ASSUME Inv, NEW s \in Sources, NEW a \in Actors, NEW b \in Bonds, MakeSourceClaim(s, a, b)
  PROVE  /\ Keeps /\ Inv' /\ nextClaimId \in ClaimIds
         /\ sourceClaims' = [sourceClaims EXCEPT ![s] = @ \cup {nextClaimId}]
<1>1. CreateClaimOnBehalf(a, b, NoModule)
  BY DEF MakeSourceClaim
<1>2. [Next]_claimVars
  BY <1>1 DEF Next, RegistryStep, CreationStep
<1>3. nextClaimId \in ClaimIds
  BY <1>1, ReplicationAssumption DEF CreateClaimOnBehalf, NewClaim, ClaimIds, Inv, TypeOK
<1> QED
  BY <1>2, <1>3, RegistryKeeps, NextKeepsInv DEF MakeSourceClaim

\* The call that has the token of its source, or the transaction it left behind,
\* makes the source's claim.
LEMMA CreatingKeepsSources ==
  ASSUME SourceInv, NEW s \in Sources, NEW a \in Actors, NEW b \in Bonds,
         MakeSourceClaim(s, a, b), UNCHANGED sources, NEW p,
         \/ /\ p \in Publishers /\ publications[p].source = s /\ publications[p].pc = "creating"
            /\ publications' =
                 [publications EXCEPT ![p].pc = "attaching", ![p].claim = nextClaimId]
            /\ UNCHANGED sourceMempool
         \/ /\ p \notin Publishers /\ UNCHANGED publications /\ sourceMempool[s] > 0
            /\ sourceMempool' = [sourceMempool EXCEPT ![s] = @ - 1]
  PROVE  SourceInv'
<1> SourceTypes /\ TokenInv(s)
  BY DEF SourceInv
<1>1. /\ Keeps /\ Inv' /\ nextClaimId \in ClaimIds
      /\ sourceClaims' = [sourceClaims EXCEPT ![s] = @ \cup {nextClaimId}]
  BY CreationMakesClaim DEF SourceInv
<1>2. PICK c \in ClaimIds : c = nextClaimId
  BY <1>1
<1>3. sourceMempool[s] \in Nat /\ sources[s].attempt.status # "none" /\ sourceClaims[s] = {}
  BY DEF SourceTypes, TokenInv, NobodyCreates
<1>4. /\ sourceClaims'[s] = {c}
      /\ \A t \in Sources \ {s} : sourceClaims'[t] = sourceClaims[t]
  BY <1>1, <1>2, <1>3 DEF SourceTypes
<1>5. \A o \in Publishers \ {p} : publications'[o] = publications[o]
  BY DEF SourceTypes
<1>6. p \in Publishers =>
        /\ publications'[p] \in Call /\ publications'[p].pc = "attaching"
        /\ publications'[p].claim = c /\ publications'[p].source = s
  <2> SUFFICES ASSUME p \in Publishers
               PROVE  /\ publications'[p] \in Call /\ publications'[p].pc = "attaching"
                      /\ publications'[p].claim = c /\ publications'[p].source = s
    OBVIOUS
  <2>1. publications[p] \in Call /\ "attaching" \in PublicationPcs
    BY DEF SourceTypes, Call, PublicationPcs
  <2>2. publications'[p] = [publications[p] EXCEPT !.pc = "attaching", !.claim = c]
    BY <1>2 DEF SourceTypes
  <2> QED
    BY <2>1, <2>2 DEF Call
<1>7. publications' \in [Publishers -> Call]
  <2>1. publications \in [Publishers -> Call]
    BY DEF SourceTypes, Call
  <2> QED
    BY <1>6, <2>1
<1>8. /\ sourceMempool'[s] = 0 /\ sourceMempool' \in [Sources -> Nat]
      /\ \A t \in Sources \ {s} : sourceMempool'[t] = sourceMempool[t]
  BY <1>3 DEF SourceTypes, TokenInv, NobodyCreates
<1>9. NobodyCreates(s)'
  BY <1>5, <1>6 DEF TokenInv, NobodyCreates
<1>10. SourceTypes'
  <2>1. sourceClaims' \in [Sources -> SUBSET ClaimIds]
    BY <1>1 DEF SourceTypes
  <2> QED
    BY <1>7, <1>8, <2>1 DEF SourceTypes, Call
<1>11. SourcesKeep
  BY <1>3, <1>4 DEF SourcesKeep
<1>12. TokenInv(s)'
  BY <1>3, <1>4, <1>8, <1>9 DEF TokenInv, NobodyCreates
<1>13. ASSUME NEW t \in Sources \ {s}
       PROVE  TokenInv(t)'
  <2>1. TokenInv(t)
    BY DEF SourceInv
  <2>2. \A o \in Publishers :
          publications'[o].pc = "creating" /\ publications'[o].source = t =>
            publications[o].pc = "creating" /\ publications[o].source = t
    BY <1>5, <1>6
  <2> QED
    BY <1>4, <1>8, <2>1, <2>2, TokenStays
<1>14. ASSUME NEW t \in Sources
       PROVE  AttemptInv(t)'
  <2>1. AttemptInv(t)
    BY DEF SourceInv
  <2> QED
    BY <1>1, <1>11, <2>1, AttemptStays DEF AttemptInv
<1>15. p \in Publishers => PublicationInv(p)'
  <2>1. c # 0
    BY ReplicationAssumption DEF ClaimIds
  <2> QED
    BY <1>4, <1>6, <2>1 DEF PublicationInv
<1> QED
  BY <1>1, <1>5, <1>10, <1>11, <1>12, <1>13, <1>14, <1>15, PublicationMoves

\* A publication leaves the drafts behind, or found its claim past them.
LEMMA PublishingKeepsSources ==
  ASSUME SourceInv, NEW p \in Publishers, NEW satisfied \in BOOLEAN,
         PublishSourceClaim(p, satisfied)
  PROVE  SourceInv'
<1> SourceTypes /\ PublicationInv(p)
  BY DEF SourceInv
<1>1. PublicationGoto(p, "marking") /\ UNCHANGED <<sources, sourceMempool, sourceClaims>>
  BY DEF PublishSourceClaim
<1>2. PICK s \in Sources, c \in ClaimIds :
        /\ s = publications[p].source /\ c = publications[p].claim
        /\ c # 0 /\ c = sources[s].attempt.claim
  BY DEF PublishSourceClaim, Publishing, PublicationInv, SourceTypes
<1>3. /\ [Next]_claimVars
      /\ claims'[c].status # "Draft"
  <2>1. CASE claims[c].status \in {"Draft", "Deprecated"}
    <3>1. SetClaimStatus(c, "Published", satisfied) /\ "Published" \in ClaimStatus
      BY <1>2, <2>1 DEF PublishSourceClaim, ClaimStatus
    <3>2. claims' = [claims EXCEPT ![c].status = "Published"]
      BY <3>1 DEF SetClaimStatus
    <3>3. claims'[c].status = "Published"
      BY <3>2 DEF SourceInv, Inv, TypeOK, ClaimRecord
    <3> QED
      BY <3>1, <3>3 DEF Next
  <2>2. CASE claims[c].status \notin {"Draft", "Deprecated"}
    BY <1>2, <2>2 DEF PublishSourceClaim, claimVars, recordVars
  <2> QED
    BY <2>1, <2>2
<1>4. Keeps /\ Inv'
  BY <1>3, RegistryKeeps, NextKeepsInv DEF SourceInv
<1>5. /\ publications' = [publications EXCEPT ![p] = publications'[p]]
      /\ publications'[p] \in Call /\ publications'[p].pc = "marking"
      /\ publications'[p].source = s /\ publications'[p].claim = c
  BY <1>1, <1>2, CallsGoOn DEF PublicationPcs
<1>6. /\ \A o \in Publishers \ {p} : publications'[o] = publications[o]
      /\ publications' \in [Publishers -> Call]
  BY <1>5 DEF SourceTypes, Call
<1>7. SourceTypes' /\ SourcesKeep
  BY <1>1, <1>6 DEF SourceTypes, SourcesKeep, Call
<1>8. ASSUME NEW t \in Sources
      PROVE  TokenInv(t)' /\ AttemptInv(t)'
  <2>1. TokenInv(t) /\ AttemptInv(t)
    BY DEF SourceInv
  <2>2. \A o \in Publishers : publications'[o].pc = "creating" => publications'[o] = publications[o]
    BY <1>5, <1>6
  <2> QED
    BY <1>1, <1>4, <1>7, <2>1, <2>2, TokenStays, AttemptStays DEF AttemptInv
<1>9. PublicationInv(p)'
  BY <1>1, <1>2, <1>3, <1>5 DEF PublicationInv
<1> QED
  BY <1>4, <1>6, <1>7, <1>8, <1>9, PublicationMoves

\* The invariant of the sources.
THEOREM SourceInvariant == SourcesSpec => []SourceInv
<1>1. Init /\ SourcesInit => SourceInv
  <2> SUFFICES ASSUME Init, SourcesInit PROVE SourceInv
    OBVIOUS
  <2>1. Inv
    BY InitInv
  <2>2. NewSource \in SourceRow /\ NewSource.published = 0 /\ NewSource.attempt = NoAttempt
    BY DEF NewSource, NoAttempt, SourceRow, AttemptRow
  <2>3. NoPublication \in Call /\ NoPublication.pc = "idle"
    BY DEF NoPublication, Call, PublicationPcs, SomeSource
  <2>4. SourceTypes
    BY <2>2, <2>3 DEF SourcesInit, SourceTypes, SourceRow, AttemptRow, Call
  <2>5. ASSUME NEW s \in Sources
        PROVE  TokenInv(s) /\ AttemptInv(s)
    BY <2>2, <2>3 DEF SourcesInit, TokenInv, AttemptInv, NobodyCreates, NoAttempt
  <2>6. ASSUME NEW p \in Publishers
        PROVE  PublicationInv(p)
    BY <2>3 DEF SourcesInit, PublicationInv
  <2> QED
    BY <2>1, <2>4, <2>5, <2>6 DEF SourceInv
<1>2. SourceInv /\ [SourcesNext]_<<claimVars, sourceVars>> => SourceInv'
  <2> SUFFICES ASSUME SourceInv, [SourcesNext]_<<claimVars, sourceVars>> PROVE SourceInv'
    OBVIOUS
  <2>1. CASE [Next]_claimVars /\ UNCHANGED sourceVars
    <3>1. Keeps /\ Inv'
      BY <2>1, RegistryKeeps, NextKeepsInv DEF SourceInv
    <3> QED
      BY <2>1, <3>1, RegistryKeepsSources
  <2>2. ASSUME NEW p \in Publishers, PublicationStep(p) PROVE SourceInv'
    <3>1. ASSUME NEW a \in Actors, NEW b \in Bonds, CreateSourceClaim(p, a, b) PROVE SourceInv'
      <4>1. PICK s \in Sources : s = publications[p].source
        BY <3>1 DEF CreateSourceClaim, Publishing, SourceInv, PublicationInv
      <4> QED
        BY <3>1, <4>1, CreatingKeepsSources DEF CreateSourceClaim, Publishing, SourceOf
    <3> QED
      BY <2>2, <3>1, StartingKeepsSources, ReservingKeepsSources, MarkingSourceKeepsSources,
         PublishingKeepsSources, MarkReadyKeepsSources, MarkPublishedKeepsSources,
         MarkingAttemptKeepsSources, LeavingKeepsSources
      DEF PublicationStep
  <2>3. ASSUME NEW s \in Sources, NEW a \in Actors, NEW b \in Bonds, MineSourceClaim(s, a, b)
        PROVE  SourceInv'
    <3>1. PICK p : p \notin Publishers
      <4> DEFINE someone == {x \in Publishers : x \notin x}  \* not a publisher
      <4>1. someone \notin Publishers
        OBVIOUS
      <4> QED
        BY <4>1, Zenon
    <3> QED
      BY <2>3, <3>1, CreatingKeepsSources DEF MineSourceClaim
  <2> QED
    BY <2>1, <2>2, <2>3 DEF SourcesNext
<1> QED
  BY <1>1, <1>2, PTL DEF SourcesSpec

\* A source makes one claim at most, its attempt knows no other, and it is published
\* with that claim only.
THEOREM SourcesMakeOneClaim == SourcesSpec => []OneClaimPerSource
<1>1. SourceInv => OneClaimPerSource
  <2> SUFFICES ASSUME SourceInv, NEW s \in Sources
               PROVE  /\ Cardinality(sourceClaims[s]) + sourceMempool[s] <= 1
                      /\ AttemptInv(s)
    BY DEF OneClaimPerSource, AttemptInv
  <2>1. AttemptInv(s) /\ TokenInv(s) /\ sourceMempool[s] \in Nat
    BY DEF SourceInv, SourceTypes
  <2>2. CASE sourceClaims[s] = {}
    BY <2>1, <2>2, FS_EmptySet DEF TokenInv
  <2>3. ASSUME NEW c \in ClaimIds, sourceClaims[s] = {c}
        PROVE  Cardinality(sourceClaims[s]) + sourceMempool[s] <= 1
    <3>1. Cardinality({c}) = 1
      BY FS_Singleton
    <3>2. sourceMempool[s] = 0
      BY <2>1, <2>3 DEF TokenInv
    <3> QED
      BY <2>3, <3>1, <3>2
  <2> QED
    BY <2>1, <2>2, <2>3 DEF TokenInv
<1> QED
  BY <1>1, SourceInvariant, PTL

-----------------------------------------------------------------------------
(***************************************************************************)
(* Sequences of whatever they hold.                                        *)
(***************************************************************************)
IsSeq(s) == \E S : s \in Seq(S)

\* Appending adds an element behind the others.
LEMMA SeqAppend ==
  ASSUME NEW s, IsSeq(s), NEW x
  PROVE  /\ IsSeq(Append(s, x)) /\ Len(s) \in Nat /\ Len(Append(s, x)) = Len(s) + 1
         /\ Append(s, x)[Len(s) + 1] = x /\ \A i \in 1 .. Len(s) : Append(s, x)[i] = s[i]
         /\ DOMAIN s = 1 .. Len(s)
<1>1. PICK S : s \in Seq(S)
  BY DEF IsSeq
<1> DEFINE T == S \cup {x}
<1>2. s \in Seq(T) /\ x \in T
  BY <1>1
<1> HIDE DEF T
<1>3. Append(s, x) \in Seq(T)
  BY <1>2
<1> QED
  BY <1>2, <1>3 DEF IsSeq

\* A change of one element.
LEMMA SeqExcept ==
  ASSUME NEW s, IsSeq(s), NEW i \in 1 .. Len(s), NEW x
  PROVE  /\ IsSeq([s EXCEPT ![i] = x]) /\ Len([s EXCEPT ![i] = x]) = Len(s)
         /\ [s EXCEPT ![i] = x][i] = x
         /\ \A j \in 1 .. Len(s) : j # i => [s EXCEPT ![i] = x][j] = s[j]
<1>1. PICK S : s \in Seq(S)
  BY DEF IsSeq
<1> DEFINE T == S \cup {x}
<1>2. s \in Seq(T) /\ x \in T
  BY <1>1
<1> HIDE DEF T
<1>3. [s EXCEPT ![i] = x] \in Seq(T)
  BY <1>2
<1> QED
  BY <1>2, <1>3 DEF IsSeq

\* One sequence behind another.
Joins(u, s, t) ==
  /\ IsSeq(u) /\ Len(u) = Len(s) + Len(t) /\ Len(s) \in Nat /\ Len(t) \in Nat
  /\ \A i \in 1 .. Len(u) :
       (i \in 1 .. Len(s) /\ u[i] = s[i]) \/ \E j \in 1 .. Len(t) : u[i] = t[j]

LEMMA SeqConcat ==
  ASSUME NEW s, IsSeq(s), NEW t, IsSeq(t)
  PROVE  Joins(s \o t, s, t)
<1>1. PICK S, T : s \in Seq(S) /\ t \in Seq(T)
  BY DEF IsSeq
<1> DEFINE U == S \cup T
<1>2. s \in Seq(U) /\ t \in Seq(U)
  BY <1>1
<1> HIDE DEF U
<1>3. /\ s \o t \in Seq(U) /\ Len(s \o t) = Len(s) + Len(t) /\ Len(s) \in Nat /\ Len(t) \in Nat
      /\ \A i \in 1 .. Len(s) + Len(t) :
           (s \o t)[i] = IF i <= Len(s) THEN s[i] ELSE t[i - Len(s)]
  BY <1>2
<1>4. ASSUME NEW i \in 1 .. Len(s \o t)
      PROVE  \/ i \in 1 .. Len(s) /\ (s \o t)[i] = s[i]
             \/ \E j \in 1 .. Len(t) : (s \o t)[i] = t[j]
  <2>1. CASE i <= Len(s)
    BY <1>3, <2>1
  <2>2. CASE ~(i <= Len(s))
    <3>1. i - Len(s) \in 1 .. Len(t) /\ (s \o t)[i] = t[i - Len(s)]
      BY <1>3, <2>2
    <3> QED
      BY <3>1
  <2> QED
    BY <2>1, <2>2
<1> QED
  BY <1>3, <1>4 DEF IsSeq, Joins

\* All but the first.
LEMMA SeqTail ==
  ASSUME NEW s, IsSeq(s), Len(s) > 0
  PROVE  /\ IsSeq(Tail(s)) /\ Len(Tail(s)) = Len(s) - 1 /\ Len(s) \in Nat /\ Head(s) = s[1]
         /\ \A i \in 1 .. Len(Tail(s)) : i + 1 \in 1 .. Len(s) /\ Tail(s)[i] = s[i + 1]
<1>1. PICK S : s \in Seq(S)
  BY DEF IsSeq
<1>2. s # <<>>
  BY <1>1
<1>3. Tail(s) \in Seq(S)
  BY <1>1, <1>2
<1> QED
  BY <1>1, <1>2, <1>3 DEF IsSeq

\* Sequences given element by element, and that of a finite set.
LEMMA SeqFunction ==
  ASSUME NEW n \in Nat, NEW s, s = [i \in 1 .. n |-> s[i]]
  PROVE  IsSeq(s) /\ Len(s) = n
<1> DEFINE S == {s[i] : i \in 1 .. n}
<1>1. s \in [1 .. n -> S]
  OBVIOUS
<1> HIDE DEF S
<1>2. s \in Seq(S) /\ Len(s) = n
  BY <1>1
<1> QED
  BY <1>2 DEF IsSeq

LEMMA SeqOfSet ==
  ASSUME NEW S, IsFiniteSet(S)
  PROVE  IsSeq(SetToSeq(S)) /\ \A i \in 1 .. Len(SetToSeq(S)) : SetToSeq(S)[i] \in S
<1>1. Cardinality(S) \in Nat /\ ExistsBijection(1 .. Cardinality(S), S)
  BY FS_CardinalityType
<1>2. PICK f \in [1 .. Cardinality(S) -> S] : IsInjective(f)
  BY <1>1 DEF ExistsBijection, Bijection, Injection, IsInjective
<1>3. SetToSeq(S) \in [1 .. Cardinality(S) -> S]
  BY <1>2 DEF SetToSeq
<1>4. SetToSeq(S) \in Seq(S) /\ Len(SetToSeq(S)) = Cardinality(S)
  <2>1. PICK g \in [1 .. Cardinality(S) -> S] : g = SetToSeq(S)
    BY <1>3
  <2>2. g \in Seq(S) /\ Len(g) = Cardinality(S)
    BY <1>1
  <2> QED
    BY <2>1, <2>2
<1> QED
  BY <1>1, <1>3, <1>4 DEF IsSeq

(***************************************************************************)
(* Checkpoints.  A publisher that has made a request owns it, and the row  *)
(* it writes for it; a row that is submitted has been told of a checkpoint *)
(* nobody else was told of; and every checkpoint has a row of its own,     *)
(* which is not one whose transaction is still to come.                    *)
(***************************************************************************)
PublisherStates ==
  {"idle", "reading", "subject", "requested", "prepared", "mined", "marked", "failing", "failed"}
Publisher(S) ==
  [pc : PublisherStates, payload : Int, offset : Int, paged : BOOLEAN, quiet : BOOLEAN,
   subjects : S, publication : Nat, request : Nat, checkpoint : Nat]
PublicationRow(S) ==
  [status : {"prepared", "submitted", "failed"}, request : Nat, checkpoint : Nat, payload : Int,
   subject : S, quiet : BOOLEAN]

OwnsRequest(r) == r.pc \in {"requested", "prepared", "mined", "marked", "failing", "failed"}
Mined(r) == r.pc \in {"mined", "marked"}

\* The entry published with a payload is one of it.
OfPayload(subject, payload) == subject.type = "Actor" => subject.entry[1] = payload

RowInv(row, requests, records) ==
  /\ row \in PublicationRow({row.subject})
  /\ row.request \in 1 .. Len(requests)
  /\ row.status # "submitted" => row.checkpoint = 0
  /\ row.status = "submitted" =>
       /\ row.checkpoint \in 1 .. Len(records)
       /\ records[row.checkpoint] = Content(row)
       /\ requests[row.request] = "submitted"
  /\ row.quiet => OfPayload(row.subject, row.payload)

\* The publication a publisher has the row of.
OwnRow(r, row) ==
  /\ row.request = r.request /\ row.status = "prepared"
  /\ r.pc = "prepared" =>
       /\ row.subject = Head(r.subjects) /\ row.payload = r.payload

PublisherInv(r, rows, requests, records, latest) ==
  /\ r \in Publisher({r.subjects}) /\ IsSeq(r.subjects)
  /\ r.pc = "idle" => r = NoPublisher
  /\ r.pc \in {"reading", "subject", "requested"} => r.publication = 0
  /\ r.pc \in {"prepared", "mined", "marked", "failed"} => r.publication # 0
  /\ r.pc = "reading" /\ r.quiet =>
       r.payload \in {-1, latest} /\ \A i \in 1 .. Len(r.subjects) : OfPayload(r.subjects[i], latest)
  /\ r.pc \notin {"idle", "reading"} =>
       /\ Len(r.subjects) > 0
       /\ r.quiet => \A i \in 1 .. Len(r.subjects) : OfPayload(r.subjects[i], r.payload)
  /\ OwnsRequest(r) =>
       /\ r.request \in 1 .. Len(requests)
       /\ r.publication = 0 => \A i \in 1 .. Len(rows) : rows[i].request # r.request
       /\ r.publication # 0 => r.publication \in 1 .. Len(rows) /\ OwnRow(r, rows[r.publication])
  /\ Mined(r) =>
       /\ r.checkpoint \in 1 .. Len(records) /\ records[r.checkpoint] = Content(rows[r.publication])
       /\ \A i \in 1 .. Len(rows) : rows[i].checkpoint # r.checkpoint
  /\ r.pc = "marked" => requests[r.request] = "submitted"

Apart(r, s) ==
  /\ OwnsRequest(r) /\ OwnsRequest(s) => r.request # s.request
  /\ Mined(r) /\ Mined(s) => r.checkpoint # s.checkpoint

RowsApart(rows) ==
  \A i, j \in 1 .. Len(rows) : i # j =>
    /\ rows[i].request # rows[j].request
    /\ rows[i].checkpoint # 0 => rows[i].checkpoint # rows[j].checkpoint

\* The row of each checkpoint.
Accounts(f, rows, records) ==
  /\ f \in [1 .. Len(records) -> 1 .. Len(rows)]
  /\ \A k, l \in 1 .. Len(records) : f[k] = f[l] => k = l
  /\ \A k \in 1 .. Len(records) : Content(rows[f[k]]) = records[k]
Awaited(f, r, n) == r.pc = "prepared" => \A k \in 1 .. n : f[k] # r.publication

CheckpointsInv ==
  /\ IsSeq(checkpoints) /\ IsSeq(checkpointRows) /\ IsSeq(payloads)
  /\ checkpointRequests \in Seq({"prepared", "submitted", "failed"})
  /\ publishers = [p \in CheckpointPublishers |-> publishers[p]]
  /\ RowsApart(checkpointRows)
  /\ \A i \in 1 .. Len(checkpointRows) : RowInv(checkpointRows[i], checkpointRequests, checkpoints)
  /\ \A p \in CheckpointPublishers :
       PublisherInv(publishers[p], checkpointRows, checkpointRequests, checkpoints, Len(payloads))
  /\ \A p, q \in CheckpointPublishers : p # q => Apart(publishers[p], publishers[q])
  /\ \E f : /\ Accounts(f, checkpointRows, checkpoints)
            /\ \A p \in CheckpointPublishers : Awaited(f, publishers[p], Len(checkpoints))

\* No publisher is at work.
LEMMA NoPublisherInv ==
  ASSUME NEW rows, NEW requests, NEW records, NEW latest
  PROVE  PublisherInv(NoPublisher, rows, requests, records, latest)
<1>1. IsSeq(<<>>)
  BY DEF IsSeq
<1>2. NoPublisher.pc = "idle" /\ NoPublisher.subjects = <<>>
  BY DEF NoPublisher
<1>3. NoPublisher \in Publisher({<<>>})
  BY DEF NoPublisher, Publisher, PublisherStates
<1> QED
  BY <1>1, <1>2, <1>3 DEF PublisherInv, OwnsRequest, Mined

\* Initially nothing is there.
LEMMA InitCheckpoints == CheckpointsInit => CheckpointsInv
<1> SUFFICES ASSUME CheckpointsInit PROVE CheckpointsInv
  OBVIOUS
<1>1. /\ checkpoints = <<>> /\ checkpointRows = <<>> /\ payloads = <<>> /\ checkpointRequests = <<>>
      /\ publishers = [p \in CheckpointPublishers |-> NoPublisher]
  BY DEF CheckpointsInit
<1>2. IsSeq(<<>>) /\ Len(<<>>) = 0 /\ <<>> \in Seq({"prepared", "submitted", "failed"})
  BY DEF IsSeq
<1>3. \A p \in CheckpointPublishers :
        PublisherInv(publishers[p], checkpointRows, checkpointRequests, checkpoints, Len(payloads))
  BY <1>1, NoPublisherInv
<1>4. NoPublisher.pc = "idle"
  BY DEF NoPublisher
<1>5. Accounts(<<>>, <<>>, <<>>)
  BY <1>2 DEF Accounts
<1>6. \A p \in CheckpointPublishers : Awaited(<<>>, publishers[p], Len(checkpoints))
  BY <1>1, <1>4 DEF Awaited
<1>7. \A p, q \in CheckpointPublishers : p # q => Apart(publishers[p], publishers[q])
  BY <1>1, <1>4 DEF Apart, OwnsRequest, Mined
<1> QED
  BY <1>1, <1>2, <1>3, <1>5, <1>6, <1>7 DEF CheckpointsInv, RowsApart

\* What a publisher does for itself leaves the others as they were.
LEMMA PublisherMoves ==
  ASSUME CheckpointsInv, NEW p \in CheckpointPublishers, NEW new,
         publishers' = [publishers EXCEPT ![p] = new],
         UNCHANGED <<checkpoints, checkpointRequests, checkpointRows, payloads>>,
         PublisherInv(new, checkpointRows, checkpointRequests, checkpoints, Len(payloads)),
         OwnsRequest(new) => OwnsRequest(publishers[p]) /\ new.request = publishers[p].request,
         ~Mined(new), new.pc # "prepared"
  PROVE  CheckpointsInv'
<1>1. /\ \A q \in CheckpointPublishers \ {p} : publishers'[q] = publishers[q]
      /\ publishers'[p] = new
      /\ publishers' = [q \in CheckpointPublishers |-> publishers'[q]]
  BY DEF CheckpointsInv
<1>2. \A q \in CheckpointPublishers :
        PublisherInv(publishers'[q], checkpointRows, checkpointRequests, checkpoints, Len(payloads))
  BY <1>1 DEF CheckpointsInv
<1>3. \A q, r \in CheckpointPublishers : q # r => Apart(publishers'[q], publishers'[r])
  BY <1>1 DEF CheckpointsInv, Apart
<1>4. \E f : /\ Accounts(f, checkpointRows, checkpoints)
             /\ \A q \in CheckpointPublishers : Awaited(f, publishers'[q], Len(checkpoints))
  <2>1. PICK f : /\ Accounts(f, checkpointRows, checkpoints)
                 /\ \A q \in CheckpointPublishers : Awaited(f, publishers[q], Len(checkpoints))
    BY DEF CheckpointsInv
  <2>2. \A q \in CheckpointPublishers : Awaited(f, publishers'[q], Len(checkpoints))
    BY <1>1, <2>1 DEF Awaited
  <2> QED
    BY <2>1, <2>2
<1> QED
  BY <1>1, <1>2, <1>3, <1>4 DEF CheckpointsInv

\* What a publisher reads before its first request, and how it gives up.
LEMMA PublisherReads ==
  ASSUME CheckpointsInv, NEW p \in CheckpointPublishers,
         \/ StartPublisher(p) \/ ReadLatestReputationPayload(p) \/ ReadLeaderboardPage(p)
         \/ ReadSubjects(p) \/ ThrowInTry(p) \/ PublisherStops(p)
  PROVE  CheckpointsInv'
<1> DEFINE r == publishers[p]
           Fits(s) == PublisherInv(s, checkpointRows, checkpointRequests, checkpoints, Len(payloads))
<1>1. Fits(r) /\ r \in Publisher({r.subjects}) /\ IsSeq(r.subjects) /\ Len(payloads) \in Nat
  BY SeqAppend, ZenonT(60) DEF CheckpointsInv, PublisherInv
<1>2. UNCHANGED <<checkpoints, checkpointRequests, checkpointRows, payloads>>
  BY DEF StartPublisher, ReadLatestReputationPayload, ReadLeaderboardPage, ReadSubjects, ThrowInTry,
         PublisherStops
<1>3. SUFFICES \E new : /\ publishers' = [publishers EXCEPT ![p] = new] /\ Fits(new)
                        /\ OwnsRequest(new) => OwnsRequest(r) /\ new.request = r.request
                        /\ ~Mined(new) /\ new.pc # "prepared"
  BY <1>2, PublisherMoves
<1>4. /\ Fits(NoPublisher) /\ ~OwnsRequest(NoPublisher) /\ ~Mined(NoPublisher)
      /\ NoPublisher.pc # "prepared"
  BY NoPublisherInv DEF NoPublisher, OwnsRequest, Mined
<1>5. CASE PublisherStops(p)
  BY <1>4, <1>5 DEF PublisherStops, EndPublisher
<1>6. CASE StartPublisher(p)
  <2> DEFINE new == [r EXCEPT !.pc = "reading", !.quiet = TRUE]
  <2>1. publishers' = [publishers EXCEPT ![p] = new] /\ r.pc = "idle"
    BY <1>6 DEF StartPublisher, PublisherAt
  <2>2. /\ new \in Publisher({new.subjects}) /\ new.pc = "reading"
        /\ new.subjects = r.subjects /\ new.payload = r.payload /\ new.publication = r.publication
    BY <1>1 DEF Publisher, PublisherStates
  <2>3. r.subjects = <<>> /\ r.payload = -1 /\ r.publication = 0
    BY <1>1, <2>1 DEF PublisherInv, NoPublisher
  <2> HIDE DEF new
  <2>4. Fits(new) /\ ~OwnsRequest(new) /\ ~Mined(new)
    BY <1>1, <2>2, <2>3 DEF PublisherInv, OwnsRequest, Mined
  <2> QED
    BY <2>1, <2>2, <2>4
<1>7. CASE ReadLatestReputationPayload(p)
  <2> DEFINE new == [r EXCEPT !.payload = Len(payloads)]
  <2>1. publishers' = [publishers EXCEPT ![p] = new] /\ r.pc = "reading"
    BY <1>7 DEF ReadLatestReputationPayload, PublisherAt
  <2>2. /\ new \in Publisher({new.subjects}) /\ new.pc = "reading" /\ new.subjects = r.subjects
        /\ new.payload = Len(payloads) /\ new.publication = r.publication /\ new.quiet = r.quiet
    BY <1>1, <2>1 DEF Publisher
  <2> HIDE DEF new
  <2>3. Fits(new) /\ ~OwnsRequest(new) /\ ~Mined(new)
    BY <1>1, <2>1, <2>2 DEF PublisherInv, OwnsRequest, Mined
  <2> QED
    BY <2>1, <2>2, <2>3
<1>8. CASE ReadLeaderboardPage(p)
  <2> DEFINE latest == Len(payloads)
             ranks == IF latest = 0 THEN {} ELSE DOMAIN payloads[latest]
             from == r.offset
             size == Cardinality(ranks \cap (from + 1 .. from + LeaderboardPage))
             page == [i \in 1 .. size |->
                        [type |-> "Actor", subject |-> payloads[latest][from + i].actor,
                         entry |-> <<latest, from + i>>]]
             over == size = 0 \/ \A rank \in ranks : rank <= from + size
             new == [r EXCEPT !.subjects = r.subjects \o page, !.offset = from + size, !.paged = over]
  <2>1. publishers' = [publishers EXCEPT ![p] = new] /\ r.pc = "reading"
    BY <1>8, ZenonT(60) DEF ReadLeaderboardPage, PublisherAt
  <2>2. size \in Nat /\ from \in Int /\ over \in BOOLEAN
    <3>1. from \in Int /\ LeaderboardPage \in Int
      BY <1>1, CheckpointsAssumption DEF Publisher
    <3>2. IsFiniteSet(from + 1 .. from + LeaderboardPage)
      BY <3>1, FS_Interval
    <3>3. IsFiniteSet(ranks \cap (from + 1 .. from + LeaderboardPage))
      BY <3>2, FS_Subset
    <3> QED
      BY <3>1, <3>3, FS_CardinalityType
  <2> HIDE DEF size, ranks, over
  <2>3. IsSeq(page) /\ Len(page) = size /\ \A i \in 1 .. Len(page) : OfPayload(page[i], latest)
    <3>1. page = [i \in 1 .. size |-> page[i]]
      OBVIOUS
    <3>2. \A i \in 1 .. size : page[i].entry = <<latest, from + i>>
      OBVIOUS
    <3> HIDE DEF page
    <3> QED
      BY <2>2, <3>1, <3>2, SeqFunction DEF OfPayload
  <2> HIDE DEF page
  <2>4. /\ new \in Publisher({new.subjects}) /\ new.pc = "reading" /\ new.subjects = r.subjects \o page
        /\ new.payload = r.payload /\ new.publication = r.publication /\ new.quiet = r.quiet
    <3>1. PICK offset, paged, subjects :
            offset \in Int /\ paged \in BOOLEAN /\ offset = from + size /\ paged = over /\ subjects = r.subjects \o page
      <4>1. from + size \in Int
        BY <2>2
      <4> HIDE DEF from
      <4> QED
        BY <2>2, <4>1
    <3>2. new = [r EXCEPT !.subjects = subjects, !.offset = offset, !.paged = paged]
      BY <3>1
    <3> HIDE DEF new
    <3> QED
      BY <1>1, <2>1, <3>1, <3>2 DEF Publisher
  <2> HIDE DEF new, latest, from
  <2>5. /\ IsSeq(new.subjects)
        /\ \A i \in 1 .. Len(new.subjects) :
             \/ i \in 1 .. Len(r.subjects) /\ new.subjects[i] = r.subjects[i]
             \/ \E j \in 1 .. Len(page) : new.subjects[i] = page[j]
    <3>1. PICK s : s = r.subjects
      OBVIOUS
    <3>2. IsSeq(s)
      BY <1>1, <3>1
    <3>3. Joins(s \o page, s, page)
      BY <2>3, <3>2, SeqConcat, Zenon
    <3>4. Joins(new.subjects, r.subjects, page)
      BY <2>4, <3>1, <3>3
    <3> QED
      BY <3>4 DEF Joins
  <2>6. r.quiet => \A i \in 1 .. Len(new.subjects) : OfPayload(new.subjects[i], latest)
    BY <1>1, <2>1, <2>3, <2>5 DEF PublisherInv, latest
  <2>7. Fits(new) /\ ~OwnsRequest(new) /\ ~Mined(new)
    BY <1>1, <2>1, <2>4, <2>5, <2>6 DEF PublisherInv, OwnsRequest, Mined, latest
  <2> QED
    BY <2>1, <2>4, <2>7
<1>9. CASE ReadSubjects(p) /\ ~EndPublisher(p)
  <2>1. r.pc = "reading" /\ r.payload # -1
    BY <1>9 DEF ReadSubjects, PublisherAt
  <2>2. PICK agents \in SUBSET DomainAgents :
          publishers' = [publishers EXCEPT
            ![p].pc = "subject",
            ![p].subjects =
               @ \o SetToSeq({[type |-> "Agent", subject |-> a, entry |-> <<>>] : a \in agents})
                 \o <<[type |-> "Module", subject |-> moduleAddress, entry |-> <<>>]>>]
    BY <1>9 DEF ReadSubjects
  <2> DEFINE S == {[type |-> "Agent", subject |-> a, entry |-> <<>>] : a \in agents}
             module == [type |-> "Module", subject |-> moduleAddress, entry |-> <<>>]
             after == r.subjects \o SetToSeq(S)
             new == [r EXCEPT !.pc = "subject", !.subjects = after \o <<module>>]
  <2>3. publishers' = [publishers EXCEPT ![p] = new]
    BY <2>2
  <2>4. IsFiniteSet(S) /\ \A s \in S : s.type # "Actor"
    <3>1. IsFiniteSet(agents)
      BY CheckpointsAssumption, FS_Subset
    <3> DEFINE g == [a \in agents |-> [type |-> "Agent", subject |-> a, entry |-> <<>>]]
    <3>2. g \in Surjection(agents, S)
      BY DEF Surjection
    <3> HIDE DEF g
    <3>3. IsFiniteSet(S)
      BY <3>1, <3>2, FS_Surjection
    <3> QED
      BY <3>3
  <2>5. module.type # "Actor"
    OBVIOUS
  <2> HIDE DEF S, module
  <2>6. /\ IsSeq(SetToSeq(S))
        /\ \A i \in 1 .. Len(SetToSeq(S)) : SetToSeq(S)[i].type # "Actor"
    BY <2>4, SeqOfSet
  <2>7. /\ IsSeq(after) /\ Len(after) \in Nat
        /\ \A i \in 1 .. Len(after) :
             after[i].type = "Actor" => i \in 1 .. Len(r.subjects) /\ after[i] = r.subjects[i]
    <3>1. PICK s, t : s = r.subjects /\ t = SetToSeq(S)
      OBVIOUS
    <3>2. IsSeq(s) /\ IsSeq(t) /\ \A i \in 1 .. Len(t) : t[i].type # "Actor"
      BY <1>1, <2>6, <3>1
    <3>3. Joins(s \o t, s, t)
      BY <3>2, SeqConcat, Zenon
    <3>4. Joins(after, s, t)
      BY <3>1, <3>3
    <3> HIDE DEF after
    <3> QED
      BY <3>1, <3>2, <3>4 DEF Joins
  <2> HIDE DEF after
  <2>8. /\ IsSeq(after \o <<module>>) /\ Len(after \o <<module>>) > 0
        /\ \A i \in 1 .. Len(after \o <<module>>) :
             (after \o <<module>>)[i].type = "Actor" =>
               i \in 1 .. Len(after) /\ (after \o <<module>>)[i] = after[i]
    <3>1. IsSeq(<<module>>) /\ Len(<<module>>) = 1 /\ <<module>>[1].type # "Actor"
      <4>1. <<module>> \in Seq({module})
        OBVIOUS
      <4> QED
        BY <2>5, <4>1 DEF IsSeq
    <3> DEFINE one == <<module>>
    <3>2. \A i \in 1 .. Len(one) : one[i].type # "Actor"
      BY <3>1
    <3>3. IsSeq(one) /\ Len(one) = 1
      BY <3>1
    <3> HIDE DEF one
    <3>4. /\ IsSeq(after \o one) /\ Len(after \o one) > 0
          /\ \A i \in 1 .. Len(after \o one) :
               (after \o one)[i].type = "Actor" => i \in 1 .. Len(after) /\ (after \o one)[i] = after[i]
      <4>1. Joins(after \o one, after, one)
        BY <2>7, <3>3, SeqConcat, Zenon
      <4>2. PICK u : u = after \o one
        OBVIOUS
      <4>3. /\ IsSeq(u) /\ Len(u) > 0
            /\ \A i \in 1 .. Len(u) :
                 u[i].type = "Actor" => i \in 1 .. Len(after) /\ u[i] = after[i]
        BY <3>2, <3>3, <4>1, <4>2 DEF Joins
      <4> QED
        BY <4>2, <4>3
    <3> QED
      BY <3>4 DEF one
  <2>9. /\ new \in Publisher({new.subjects}) /\ new.pc = "subject"
        /\ new.subjects = after \o <<module>>
        /\ new.payload = r.payload /\ new.publication = r.publication /\ new.quiet = r.quiet
    BY <1>1, <2>1 DEF Publisher, PublisherStates
  <2> HIDE DEF new
  <2>10. r.quiet => \A i \in 1 .. Len(new.subjects) : OfPayload(new.subjects[i], r.payload)
    <3> SUFFICES ASSUME r.quiet, NEW i \in 1 .. Len(new.subjects), new.subjects[i].type = "Actor"
                 PROVE  new.subjects[i].entry[1] = r.payload
      BY DEF OfPayload
    <3>1. i \in 1 .. Len(r.subjects) /\ new.subjects[i] = r.subjects[i]
      BY <2>7, <2>8, <2>9
    <3>2. r.payload = Len(payloads) /\ OfPayload(r.subjects[i], Len(payloads))
      BY <1>1, <2>1, <3>1 DEF PublisherInv
    <3> QED
      BY <3>1, <3>2 DEF OfPayload
  <2>11. Fits(new) /\ ~OwnsRequest(new) /\ ~Mined(new)
    BY <1>1, <2>1, <2>8, <2>9, <2>10 DEF PublisherInv, OwnsRequest, Mined
  <2> QED
    BY <2>3, <2>9, <2>11
<1>10. CASE ThrowInTry(p)
  <2> DEFINE new == [r EXCEPT !.pc = "failing"]
  <2>1. publishers' = [publishers EXCEPT ![p] = new] /\ r.pc \in {"requested", "prepared", "mined"}
    BY <1>10 DEF ThrowInTry, PublisherGoto
  <2>2. /\ new \in Publisher({new.subjects}) /\ new.pc = "failing" /\ new.subjects = r.subjects
        /\ new.payload = r.payload /\ new.publication = r.publication /\ new.quiet = r.quiet
        /\ new.request = r.request
    BY <1>1, <2>1 DEF Publisher, PublisherStates
  <2> HIDE DEF new
  <2>3. Fits(new) /\ OwnsRequest(r) /\ ~Mined(new)
    BY <1>1, <2>1, <2>2 DEF PublisherInv, OwnsRequest, Mined, OwnRow
  <2> QED
    BY <2>1, <2>2, <2>3
<1>11. CASE EndPublisher(p)
  BY <1>4, <1>11 DEF EndPublisher
<1> QED
  BY <1>5, <1>6, <1>7, <1>8, <1>9, <1>10, <1>11

\* A step of one publisher that writes: what it has to keep of the others.
LEMMA PublisherWrites ==
  ASSUME CheckpointsInv, NEW p \in CheckpointPublishers, NEW new,
         publishers' = [publishers EXCEPT ![p] = new], UNCHANGED payloads,
         IsSeq(checkpoints'), IsSeq(checkpointRows'),
         checkpointRequests' \in Seq({"prepared", "submitted", "failed"}),
         RowsApart(checkpointRows'),
         \A i \in 1 .. Len(checkpointRows') :
           RowInv(checkpointRows'[i], checkpointRequests', checkpoints'),
         PublisherInv(new, checkpointRows', checkpointRequests', checkpoints', Len(payloads)),
         \A q \in CheckpointPublishers \ {p} :
           /\ PublisherInv(publishers[q], checkpointRows', checkpointRequests', checkpoints',
                           Len(payloads))
           /\ Apart(publishers[q], new),
         \E f : /\ Accounts(f, checkpointRows', checkpoints') /\ Awaited(f, new, Len(checkpoints'))
                /\ \A q \in CheckpointPublishers \ {p} :
                     Awaited(f, publishers[q], Len(checkpoints'))
  PROVE  CheckpointsInv'
<1>1. /\ \A q \in CheckpointPublishers \ {p} : publishers'[q] = publishers[q]
      /\ publishers'[p] = new
      /\ publishers' = [q \in CheckpointPublishers |-> publishers'[q]]
  BY DEF CheckpointsInv
<1>2. \A q \in CheckpointPublishers :
        PublisherInv(publishers'[q], checkpointRows', checkpointRequests', checkpoints', Len(payloads))
  BY <1>1
<1>3. \A q, r \in CheckpointPublishers : q # r => Apart(publishers'[q], publishers'[r])
  <2> SUFFICES ASSUME NEW q \in CheckpointPublishers, NEW r \in CheckpointPublishers, q # r
               PROVE  Apart(publishers'[q], publishers'[r])
    OBVIOUS
  <2>1. CASE q # p /\ r # p
    BY <1>1, <2>1 DEF CheckpointsInv
  <2>2. CASE r = p
    BY <1>1, <2>2
  <2>3. CASE q = p
    <3>1. Apart(publishers[r], new)
      BY <2>3
    <3> QED
      BY <1>1, <2>3, <3>1 DEF Apart
  <2> QED
    BY <2>1, <2>2, <2>3
<1>4. \E f : /\ Accounts(f, checkpointRows', checkpoints')
             /\ \A q \in CheckpointPublishers : Awaited(f, publishers'[q], Len(checkpoints'))
  <2>1. PICK f : /\ Accounts(f, checkpointRows', checkpoints') /\ Awaited(f, new, Len(checkpoints'))
                 /\ \A q \in CheckpointPublishers \ {p} :
                      Awaited(f, publishers[q], Len(checkpoints'))
    OBVIOUS
  <2>2. \A q \in CheckpointPublishers : Awaited(f, publishers'[q], Len(checkpoints'))
    BY <1>1, <2>1
  <2> QED
    BY <2>1, <2>2
<1>5. IsSeq(payloads') /\ Len(payloads') = Len(payloads)
  BY DEF CheckpointsInv
<1> QED
  BY <1>1, <1>2, <1>3, <1>4, <1>5 DEF CheckpointsInv

\* More requests, rows and records, none of them this publisher's, and none of its own changed.
LEMMA OthersStay ==
  ASSUME NEW r, NEW rows, NEW requests, NEW records, NEW latest,
         PublisherInv(r, rows, requests, records, latest),
         NEW rows2, NEW requests2, NEW records2,
         Len(requests) \in Nat, Len(requests2) \in Nat, Len(requests) <= Len(requests2),
         Len(records) \in Nat, Len(records2) \in Nat, Len(records) <= Len(records2),
         Len(rows) \in Nat, Len(rows2) \in Nat, Len(rows) <= Len(rows2),
         \A k \in 1 .. Len(records) : records2[k] = records[k],
         OwnsRequest(r) => requests2[r.request] \in {requests[r.request], "submitted"},
         \A i \in 1 .. Len(rows) : OwnsRequest(r) /\ r.publication = i => rows2[i] = rows[i],
         \A i \in 1 .. Len(rows2) :
           \/ /\ i \in 1 .. Len(rows) /\ rows2[i].request = rows[i].request
              /\ rows2[i].checkpoint = rows[i].checkpoint
           \/ /\ OwnsRequest(r) => rows2[i].request # r.request
              /\ Mined(r) => rows2[i].checkpoint # r.checkpoint
           \/ /\ i \in 1 .. Len(rows) /\ rows2[i].request = rows[i].request
              /\ Mined(r) => rows2[i].checkpoint # r.checkpoint
  PROVE  PublisherInv(r, rows2, requests2, records2, latest)
<1>1. OwnsRequest(r) =>
        /\ r.request \in 1 .. Len(requests2)
        /\ r.publication = 0 => \A i \in 1 .. Len(rows2) : rows2[i].request # r.request
        /\ r.publication # 0 => r.publication \in 1 .. Len(rows2) /\ OwnRow(r, rows2[r.publication])
  <2> SUFFICES ASSUME OwnsRequest(r)
               PROVE  /\ r.request \in 1 .. Len(requests2)
                      /\ r.publication = 0 => \A i \in 1 .. Len(rows2) : rows2[i].request # r.request
                      /\ r.publication # 0 =>
                           r.publication \in 1 .. Len(rows2) /\ OwnRow(r, rows2[r.publication])
    OBVIOUS
  <2>1. r.request \in 1 .. Len(requests2)
    BY DEF PublisherInv
  <2>2. r.publication = 0 => \A i \in 1 .. Len(rows2) : rows2[i].request # r.request
    BY DEF PublisherInv
  <2>3. r.publication # 0 => /\ r.publication \in 1 .. Len(rows)
                             /\ rows2[r.publication] = rows[r.publication]
                             /\ OwnRow(r, rows[r.publication])
    BY DEF PublisherInv
  <2> QED
    BY <2>1, <2>2, <2>3
<1>2. Mined(r) =>
        /\ r.checkpoint \in 1 .. Len(records2)
        /\ records2[r.checkpoint] = Content(rows2[r.publication])
        /\ \A i \in 1 .. Len(rows2) : rows2[i].checkpoint # r.checkpoint
  <2> SUFFICES ASSUME Mined(r)
               PROVE  /\ r.checkpoint \in 1 .. Len(records2)
                      /\ records2[r.checkpoint] = Content(rows2[r.publication])
                      /\ \A i \in 1 .. Len(rows2) : rows2[i].checkpoint # r.checkpoint
    OBVIOUS
  <2>1. /\ r.checkpoint \in 1 .. Len(records) /\ records[r.checkpoint] = Content(rows[r.publication])
        /\ \A i \in 1 .. Len(rows) : rows[i].checkpoint # r.checkpoint
    BY DEF PublisherInv
  <2>2. rows2[r.publication] = rows[r.publication]
    BY DEF PublisherInv, Mined, OwnsRequest
  <2>3. \A i \in 1 .. Len(rows2) : rows2[i].checkpoint # r.checkpoint
    BY <2>1
  <2> QED
    BY <2>1, <2>2, <2>3
<1>3. r.pc = "marked" => requests2[r.request] = "submitted"
  BY DEF PublisherInv, OwnsRequest
<1> QED
  BY <1>1, <1>2, <1>3 DEF PublisherInv

\* The same for a row.
LEMMA RowStays ==
  ASSUME NEW row, NEW requests, NEW records, RowInv(row, requests, records),
         NEW requests2, NEW records2,
         Len(requests) \in Nat, Len(requests2) \in Nat, Len(requests) <= Len(requests2),
         Len(records) \in Nat, Len(records2) \in Nat, Len(records) <= Len(records2),
         \A k \in 1 .. Len(records) : records2[k] = records[k],
         row.status = "submitted" => requests2[row.request] \in {requests[row.request], "submitted"}
  PROVE  RowInv(row, requests2, records2)
<1>1. row.request \in 1 .. Len(requests2)
  BY DEF RowInv
<1>2. row.status = "submitted" =>
        /\ row.checkpoint \in 1 .. Len(records2) /\ records2[row.checkpoint] = Content(row)
        /\ requests2[row.request] = "submitted"
  BY DEF RowInv
<1> QED
  BY <1>1, <1>2 DEF RowInv

\* The facts about sequences that every case below starts from.
LEMMA CheckpointLengths ==
  ASSUME CheckpointsInv
  PROVE  /\ Len(checkpoints) \in Nat /\ Len(checkpointRows) \in Nat
         /\ Len(checkpointRequests) \in Nat /\ Len(payloads) \in Nat
BY SeqAppend DEF CheckpointsInv

\* A request of one's own.
LEMMA RequestsAreOwned ==
  ASSUME CheckpointsInv, NEW p \in CheckpointPublishers, InsertCheckpointRequest(p)
  PROVE  CheckpointsInv'
<1> DEFINE r == publishers[p]
           new == [r EXCEPT !.pc = "requested", !.request = Len(checkpointRequests) + 1]
           requests2 == Append(checkpointRequests, "prepared")
<1>1. /\ publishers' = [publishers EXCEPT ![p] = new] /\ r.pc = "subject"
      /\ checkpointRequests' = requests2
      /\ UNCHANGED <<checkpoints, checkpointRows, payloads>>
  BY DEF InsertCheckpointRequest, PublisherAt
<1>2. /\ PublisherInv(r, checkpointRows, checkpointRequests, checkpoints, Len(payloads))
      /\ r \in Publisher({r.subjects}) /\ IsSeq(r.subjects)
      /\ checkpointRequests \in Seq({"prepared", "submitted", "failed"})
      /\ \A i \in 1 .. Len(checkpointRows) :
           RowInv(checkpointRows[i], checkpointRequests, checkpoints)
  BY DEF CheckpointsInv, PublisherInv
<1>3. /\ Len(checkpoints) \in Nat /\ Len(checkpointRows) \in Nat
      /\ Len(checkpointRequests) \in Nat /\ Len(payloads) \in Nat
  BY CheckpointLengths
<1>4. /\ requests2 \in Seq({"prepared", "submitted", "failed"})
      /\ Len(requests2) = Len(checkpointRequests) + 1
      /\ \A i \in 1 .. Len(checkpointRequests) : requests2[i] = checkpointRequests[i]
  BY <1>2
<1>5. /\ new \in Publisher({new.subjects}) /\ new.subjects = r.subjects /\ new.pc = "requested"
      /\ new.request = Len(checkpointRequests) + 1 /\ new.publication = r.publication
      /\ new.payload = r.payload /\ new.quiet = r.quiet
  <2>1. Len(checkpointRequests) + 1 \in Nat
    BY <1>3
  <2> QED
    BY <1>2, <2>1 DEF Publisher, PublisherStates
<1> HIDE DEF new, requests2
<1>6. \A i \in 1 .. Len(checkpointRows) : checkpointRows[i].request \in 1 .. Len(checkpointRequests)
  BY <1>2 DEF RowInv
<1>7. PublisherInv(new, checkpointRows, requests2, checkpoints, Len(payloads)) /\ ~Mined(new)
  BY <1>1, <1>2, <1>3, <1>4, <1>5, <1>6 DEF PublisherInv, OwnsRequest, Mined
<1>8. \A i \in 1 .. Len(checkpointRows) : RowInv(checkpointRows[i], requests2, checkpoints)
  <2> SUFFICES ASSUME NEW i \in 1 .. Len(checkpointRows)
               PROVE  RowInv(checkpointRows[i], requests2, checkpoints)
    OBVIOUS
  <2>1. requests2[checkpointRows[i].request] = checkpointRequests[checkpointRows[i].request]
    BY <1>4, <1>6
  <2> QED
    BY <1>2, <1>3, <1>4, <2>1, RowStays, SMTT(60)
<1>9. ASSUME NEW q \in CheckpointPublishers \ {p}
      PROVE  /\ PublisherInv(publishers[q], checkpointRows, requests2, checkpoints, Len(payloads))
             /\ Apart(publishers[q], new)
  <2>1. PublisherInv(publishers[q], checkpointRows, checkpointRequests, checkpoints, Len(payloads))
    BY DEF CheckpointsInv
  <2>2. OwnsRequest(publishers[q]) => publishers[q].request \in 1 .. Len(checkpointRequests)
    BY <2>1 DEF PublisherInv
  <2>3. PublisherInv(publishers[q], checkpointRows, requests2, checkpoints, Len(payloads))
    BY <1>3, <1>4, <2>1, <2>2, OthersStay
  <2> QED
    BY <1>3, <1>5, <1>7, <2>2, <2>3 DEF Apart
<1>10. \E f : /\ Accounts(f, checkpointRows, checkpoints) /\ Awaited(f, new, Len(checkpoints))
              /\ \A q \in CheckpointPublishers \ {p} : Awaited(f, publishers[q], Len(checkpoints))
  BY <1>5 DEF CheckpointsInv, Awaited
<1>11. RowsApart(checkpointRows) /\ IsSeq(checkpoints) /\ IsSeq(checkpointRows)
  BY DEF CheckpointsInv
<1> QED
  BY <1>1, <1>4, <1>7, <1>8, <1>9, <1>10, <1>11, PublisherWrites

\* The row of a request.
LEMMA RowsAreOwned ==
  ASSUME CheckpointsInv, NEW p \in CheckpointPublishers, InsertCheckpointPublication(p)
  PROVE  CheckpointsInv'
<1> DEFINE r == publishers[p]
           row == [status |-> "prepared", request |-> r.request, checkpoint |-> 0,
                   payload |-> r.payload, subject |-> SubjectNow(p), quiet |-> r.quiet]
           rows2 == Append(checkpointRows, row)
           new == [r EXCEPT !.pc = "prepared", !.publication = Len(checkpointRows) + 1]
           n == Len(checkpointRows)
<1>1. /\ publishers' = [publishers EXCEPT ![p] = new] /\ r.pc = "requested"
      /\ checkpointRows' = rows2 /\ UNCHANGED <<checkpoints, checkpointRequests, payloads>>
  BY DEF InsertCheckpointPublication, PublisherAt
<1>2. /\ PublisherInv(r, checkpointRows, checkpointRequests, checkpoints, Len(payloads))
      /\ r \in Publisher({r.subjects}) /\ IsSeq(r.subjects) /\ IsSeq(checkpointRows)
      /\ \A i \in 1 .. n : RowInv(checkpointRows[i], checkpointRequests, checkpoints)
  BY DEF CheckpointsInv, PublisherInv
<1>3. /\ Len(checkpoints) \in Nat /\ n \in Nat
      /\ Len(checkpointRequests) \in Nat /\ Len(payloads) \in Nat
  BY CheckpointLengths
<1>4. /\ IsSeq(rows2) /\ Len(rows2) = n + 1 /\ rows2[n + 1] = row
      /\ \A i \in 1 .. n : rows2[i] = checkpointRows[i]
  BY <1>2, SeqAppend
<1>5. /\ new \in Publisher({new.subjects}) /\ new.subjects = r.subjects /\ new.pc = "prepared"
      /\ new.request = r.request /\ new.publication = n + 1
      /\ new.payload = r.payload /\ new.quiet = r.quiet
  <2>1. n + 1 \in Nat
    BY <1>3
  <2> QED
    BY <1>2, <2>1 DEF Publisher, PublisherStates
<1>6. /\ row \in PublicationRow({row.subject}) /\ row.request = r.request /\ row.checkpoint = 0
      /\ row.status = "prepared" /\ row.payload = r.payload /\ row.quiet = r.quiet
      /\ row.subject = Head(r.subjects)
  BY <1>2 DEF Publisher, PublicationRow, SubjectNow
<1> HIDE DEF new, rows2, row
<1>7. /\ OwnsRequest(r) /\ r.request \in 1 .. Len(checkpointRequests)
      /\ \A i \in 1 .. n : checkpointRows[i].request # r.request
      /\ r.quiet => OfPayload(Head(r.subjects), r.payload)
  <2>1. OwnsRequest(r) /\ r.publication = 0
    BY <1>1, <1>2 DEF PublisherInv, OwnsRequest
  <2>2. Head(r.subjects) = r.subjects[1] /\ 1 \in 1 .. Len(r.subjects)
    BY <1>1, <1>2, SeqTail DEF PublisherInv
  <2> QED
    BY <1>1, <1>2, <2>1, <2>2 DEF PublisherInv
<1>8. RowInv(row, checkpointRequests, checkpoints)
  BY <1>6, <1>7 DEF RowInv
<1>9. \A i \in 1 .. Len(rows2) : i \in 1 .. n \/ i = n + 1
  BY <1>3, <1>4
<1>10. \A i \in 1 .. Len(rows2) : RowInv(rows2[i], checkpointRequests, checkpoints)
  BY <1>2, <1>4, <1>8, <1>9
<1>11. RowsApart(rows2)
  <2>1. RowsApart(checkpointRows)
    BY DEF CheckpointsInv
  <2> QED
    BY <1>4, <1>6, <1>7, <1>9, <2>1 DEF RowsApart
<1>12. PublisherInv(new, rows2, checkpointRequests, checkpoints, Len(payloads)) /\ ~Mined(new)
  <2>1. new.publication \in 1 .. Len(rows2) /\ new.publication # 0
        /\ rows2[new.publication] = row
    BY <1>3, <1>4, <1>5
  <2>2. OwnRow(new, row)
    BY <1>5, <1>6 DEF OwnRow
  <2>3. /\ Len(new.subjects) > 0
        /\ new.quiet => \A i \in 1 .. Len(new.subjects) : OfPayload(new.subjects[i], new.payload)
    BY <1>1, <1>2, <1>5 DEF PublisherInv
  <2> QED
    BY <1>2, <1>5, <1>7, <2>1, <2>2, <2>3 DEF PublisherInv, Mined
<1>13. ASSUME NEW q \in CheckpointPublishers \ {p}
       PROVE  /\ PublisherInv(publishers[q], rows2, checkpointRequests, checkpoints, Len(payloads))
              /\ Apart(publishers[q], new)
  <2>1. /\ PublisherInv(publishers[q], checkpointRows, checkpointRequests, checkpoints, Len(payloads))
        /\ Apart(publishers[q], r)
    BY DEF CheckpointsInv
  <2>2. OwnsRequest(publishers[q]) => publishers[q].request # r.request
    BY <1>7, <2>1 DEF Apart
  <2>3. Mined(publishers[q]) => publishers[q].checkpoint # 0
    BY <2>1 DEF PublisherInv
  <2>4. \A i \in 1 .. Len(rows2) :
           \/ /\ i \in 1 .. n /\ rows2[i].request = checkpointRows[i].request
              /\ rows2[i].checkpoint = checkpointRows[i].checkpoint
           \/ /\ OwnsRequest(publishers[q]) => rows2[i].request # publishers[q].request
              /\ Mined(publishers[q]) => rows2[i].checkpoint # publishers[q].checkpoint
    BY <1>4, <1>6, <1>9, <2>2, <2>3
  <2>5. PublisherInv(publishers[q], rows2, checkpointRequests, checkpoints, Len(payloads))
    BY <1>3, <1>4, <2>1, <2>4, OthersStay
  <2> QED
    BY <1>5, <1>12, <2>2, <2>5 DEF Apart
<1>14. \E f : /\ Accounts(f, rows2, checkpoints) /\ Awaited(f, new, Len(checkpoints))
              /\ \A q \in CheckpointPublishers \ {p} : Awaited(f, publishers[q], Len(checkpoints))
  <2>1. PICK f : /\ Accounts(f, checkpointRows, checkpoints)
                 /\ \A q \in CheckpointPublishers : Awaited(f, publishers[q], Len(checkpoints))
    BY DEF CheckpointsInv
  <2>2. \A k \in 1 .. Len(checkpoints) : f[k] \in 1 .. n
    BY <2>1 DEF Accounts
  <2>3. f \in [1 .. Len(checkpoints) -> 1 .. Len(rows2)]
    BY <1>3, <1>4, <2>1, <2>2 DEF Accounts
  <2>4. Accounts(f, rows2, checkpoints)
    BY <1>4, <2>1, <2>2, <2>3 DEF Accounts
  <2>5. Awaited(f, new, Len(checkpoints))
    BY <1>3, <1>5, <2>2 DEF Awaited
  <2> QED
    BY <2>1, <2>4, <2>5
<1>15. IsSeq(checkpoints) /\ checkpointRequests \in Seq({"prepared", "submitted", "failed"})
  BY DEF CheckpointsInv
<1> QED
  BY <1>1, <1>4, <1>10, <1>11, <1>12, <1>13, <1>14, <1>15, PublisherWrites

\* The checkpoint of a row.
LEMMA CheckpointsHaveRows ==
  ASSUME CheckpointsInv, NEW p \in CheckpointPublishers, NEW pc, PublishCheckpoint(p, pc)
  PROVE  CheckpointsInv'
<1> DEFINE r == publishers[p]
           record == [type |-> SubjectNow(p).type, subject |-> SubjectNow(p).subject,
                      payload |-> r.payload, entry |-> SubjectNow(p).entry]
           records2 == Append(checkpoints, record)
           new == [r EXCEPT !.pc = pc, !.checkpoint = Len(checkpoints) + 1]
           n == Len(checkpoints)
<1>1. /\ publishers' = [publishers EXCEPT ![p] = new] /\ r.pc = "prepared"
      /\ pc \in {"mined", "failing"}
      /\ checkpoints' = records2 /\ UNCHANGED <<checkpointRows, checkpointRequests, payloads>>
  BY DEF PublishCheckpoint, PublisherAt
<1>2. /\ PublisherInv(r, checkpointRows, checkpointRequests, checkpoints, Len(payloads))
      /\ r \in Publisher({r.subjects}) /\ IsSeq(r.subjects) /\ IsSeq(checkpoints)
      /\ \A i \in 1 .. Len(checkpointRows) :
           RowInv(checkpointRows[i], checkpointRequests, checkpoints)
  BY DEF CheckpointsInv, PublisherInv
<1>3. /\ n \in Nat /\ Len(checkpointRows) \in Nat
      /\ Len(checkpointRequests) \in Nat /\ Len(payloads) \in Nat
  BY CheckpointLengths
<1>4. /\ IsSeq(records2) /\ Len(records2) = n + 1 /\ records2[n + 1] = record
      /\ \A i \in 1 .. n : records2[i] = checkpoints[i]
  BY <1>2, SeqAppend
<1>5. /\ new \in Publisher({new.subjects}) /\ new.subjects = r.subjects /\ new.pc = pc
      /\ new.request = r.request /\ new.publication = r.publication /\ new.checkpoint = n + 1
      /\ new.payload = r.payload /\ new.quiet = r.quiet
  <2>1. n + 1 \in Nat
    BY <1>3
  <2> QED
    BY <1>1, <1>2, <2>1 DEF Publisher, PublisherStates
<1>6. /\ OwnsRequest(r) /\ r.publication \in 1 .. Len(checkpointRows) /\ r.publication # 0
      /\ OwnRow(r, checkpointRows[r.publication])
      /\ record = Content(checkpointRows[r.publication])
  <2>1. /\ OwnsRequest(r) /\ r.publication \in 1 .. Len(checkpointRows) /\ r.publication # 0
        /\ OwnRow(r, checkpointRows[r.publication])
    BY <1>1, <1>2 DEF PublisherInv, OwnsRequest
  <2> QED
    BY <1>1, <2>1 DEF OwnRow, Content, SubjectNow
<1> HIDE DEF new, records2, record
<1>7. \A i \in 1 .. Len(checkpointRows) : RowInv(checkpointRows[i], checkpointRequests, records2)
  BY <1>2, <1>3, <1>4, RowStays
<1>8. \A i \in 1 .. Len(checkpointRows) : checkpointRows[i].checkpoint # n + 1
  <2> SUFFICES ASSUME NEW i \in 1 .. Len(checkpointRows)
               PROVE  checkpointRows[i].checkpoint # n + 1
    OBVIOUS
  <2>1. checkpointRows[i].checkpoint = 0 \/ checkpointRows[i].checkpoint \in 1 .. n
    BY <1>2 DEF RowInv
  <2> QED
    BY <1>3, <2>1
<1>9. PublisherInv(new, checkpointRows, checkpointRequests, records2, Len(payloads))
      /\ OwnsRequest(new) /\ new.pc # "prepared"
  <2>1. OwnRow(new, checkpointRows[new.publication])
    BY <1>1, <1>5, <1>6 DEF OwnRow
  <2>2. new.checkpoint \in 1 .. Len(records2)
        /\ records2[new.checkpoint] = Content(checkpointRows[new.publication])
    BY <1>3, <1>4, <1>5, <1>6
  <2>3. /\ r.request \in 1 .. Len(checkpointRequests) /\ Len(r.subjects) > 0
        /\ r.quiet => \A i \in 1 .. Len(r.subjects) : OfPayload(r.subjects[i], r.payload)
    BY <1>1, <1>2, <1>6 DEF PublisherInv
  <2>4. OwnsRequest(new) /\ new.pc \in {"mined", "failing"}
    BY <1>1, <1>5 DEF OwnsRequest
  <2> QED
    BY <1>2, <1>5, <1>6, <1>8, <2>1, <2>2, <2>3, <2>4 DEF PublisherInv
<1>10. ASSUME NEW q \in CheckpointPublishers \ {p}
       PROVE  /\ PublisherInv(publishers[q], checkpointRows, checkpointRequests, records2,
                              Len(payloads))
              /\ Apart(publishers[q], new)
              /\ publishers[q].pc = "prepared" => publishers[q].publication # r.publication
  <2>1. /\ PublisherInv(publishers[q], checkpointRows, checkpointRequests, checkpoints, Len(payloads))
        /\ Apart(publishers[q], r)
    BY DEF CheckpointsInv
  <2>2. OwnsRequest(publishers[q]) => publishers[q].request # r.request
    BY <1>6, <2>1 DEF Apart
  <2>3. Mined(publishers[q]) => publishers[q].checkpoint \in 1 .. n
    BY <2>1 DEF PublisherInv
  <2>4. PublisherInv(publishers[q], checkpointRows, checkpointRequests, records2, Len(payloads))
    BY <1>3, <1>4, <2>1, OthersStay
  <2>5. publishers[q].pc = "prepared" =>
          /\ OwnsRequest(publishers[q])
          /\ checkpointRows[publishers[q].publication].request = publishers[q].request
    BY <2>1 DEF PublisherInv, OwnsRequest, OwnRow
  <2>6. checkpointRows[r.publication].request = r.request
    BY <1>6 DEF OwnRow
  <2> QED
    BY <1>3, <1>5, <2>2, <2>3, <2>4, <2>5, <2>6 DEF Apart
<1>11. \E f : /\ Accounts(f, checkpointRows, records2) /\ Awaited(f, new, Len(records2))
              /\ \A q \in CheckpointPublishers \ {p} : Awaited(f, publishers[q], Len(records2))
  <2>1. PICK f : /\ Accounts(f, checkpointRows, checkpoints)
                 /\ \A q \in CheckpointPublishers : Awaited(f, publishers[q], n)
    BY DEF CheckpointsInv
  <2> DEFINE g == [k \in 1 .. n + 1 |-> IF k = n + 1 THEN r.publication ELSE f[k]]
  <2>2. g[n + 1] = r.publication /\ \A k \in 1 .. n : g[k] = f[k] /\ f[k] \in 1 .. Len(checkpointRows)
    BY <1>3, <2>1 DEF Accounts
  <2>3. \A k \in 1 .. Len(records2) : k \in 1 .. n \/ k = n + 1
    BY <1>3, <1>4
  <2>4. g \in [1 .. Len(records2) -> 1 .. Len(checkpointRows)]
    BY <1>4, <1>6, <2>1, <2>2, <2>3
  <2> HIDE DEF g
  <2>5. \A k \in 1 .. n : g[k] # r.publication
    BY <1>1, <2>1, <2>2 DEF Awaited
  <2>6. \A k, l \in 1 .. Len(records2) : g[k] = g[l] => k = l
    BY <2>1, <2>2, <2>3, <2>5 DEF Accounts
  <2>7. \A k \in 1 .. Len(records2) : Content(checkpointRows[g[k]]) = records2[k]
    BY <1>4, <1>6, <2>1, <2>2, <2>3 DEF Accounts
  <2>8. \A q \in CheckpointPublishers \ {p} : Awaited(g, publishers[q], Len(records2))
    BY <1>10, <2>1, <2>2, <2>3 DEF Awaited
  <2>9. Awaited(g, new, Len(records2))
    BY <1>9 DEF Awaited
  <2> QED
    BY <2>4, <2>6, <2>7, <2>8, <2>9 DEF Accounts
<1>12. /\ RowsApart(checkpointRows) /\ IsSeq(checkpointRows)
       /\ checkpointRequests \in Seq({"prepared", "submitted", "failed"})
  BY DEF CheckpointsInv
<1> QED
  BY <1>1, <1>4, <1>7, <1>9, <1>10, <1>11, <1>12, PublisherWrites

\* A request is marked as submitted by its owner, or as failed.
LEMMA RequestsAreMarked ==
  ASSUME CheckpointsInv, NEW p \in CheckpointPublishers,
         \/ \E pc \in {"marked", "failing"} : MarkCheckpointRequestSubmitted(p, pc)
         \/ MarkCheckpointRequestFailed(p)
  PROVE  CheckpointsInv'
<1> DEFINE r == publishers[p]
           n == Len(checkpointRows)
<1>0. PICK mark \in {"submitted", "failed"} :
        /\ mark = "submitted" => \E pc \in {"marked", "failing"} : MarkCheckpointRequestSubmitted(p, pc)
        /\ mark = "failed" => MarkCheckpointRequestFailed(p)
  OBVIOUS
<1>1. PICK new :
        /\ publishers' = [publishers EXCEPT ![p] = new]
        /\ checkpointRequests' = [checkpointRequests EXCEPT ![r.request] = mark]
        /\ UNCHANGED <<checkpoints, checkpointRows, payloads>>
        /\ mark = "submitted" => /\ r.pc = "mined"
                                 /\ \E pc \in {"marked", "failing"} : new = [r EXCEPT !.pc = pc]
        /\ mark = "failed" => /\ r.pc = "failing"
                              /\ new = IF r.publication = 0 THEN NoPublisher
                                       ELSE [r EXCEPT !.pc = "failed"]
  <2>1. CASE mark = "submitted"
    <3>1. PICK pc \in {"marked", "failing"} : MarkCheckpointRequestSubmitted(p, pc)
      BY <1>0, <2>1
    <3> DEFINE next == [r EXCEPT !.pc = pc]
    <3>2. /\ publishers' = [publishers EXCEPT ![p] = next] /\ r.pc = "mined"
          /\ checkpointRequests' = [checkpointRequests EXCEPT ![r.request] = mark]
          /\ UNCHANGED <<checkpoints, checkpointRows, payloads>>
      BY <2>1, <3>1 DEF MarkCheckpointRequestSubmitted, PublisherAt, PublisherGoto
    <3>3. \E c \in {"marked", "failing"} : next = [r EXCEPT !.pc = c]
      OBVIOUS
    <3> HIDE DEF next
    <3> QED
      BY <2>1, <3>2, <3>3
  <2>2. CASE mark = "failed"
    <3> DEFINE next == IF r.publication = 0 THEN NoPublisher ELSE [r EXCEPT !.pc = "failed"]
    <3>1. /\ publishers' = [publishers EXCEPT ![p] = next] /\ r.pc = "failing"
          /\ checkpointRequests' = [checkpointRequests EXCEPT ![r.request] = mark]
          /\ UNCHANGED <<checkpoints, checkpointRows, payloads>>
      BY <1>0, <2>2 DEF MarkCheckpointRequestFailed, PublisherAt, PublisherGoto, EndPublisher
    <3>2. next = IF r.publication = 0 THEN NoPublisher ELSE [r EXCEPT !.pc = "failed"]
      OBVIOUS
    <3> HIDE DEF next
    <3> QED
      BY <2>2, <3>1, <3>2
  <2> QED
    BY <1>0, <2>1, <2>2
<1>2. /\ PublisherInv(r, checkpointRows, checkpointRequests, checkpoints, Len(payloads))
      /\ r \in Publisher({r.subjects}) /\ IsSeq(r.subjects)
      /\ checkpointRequests \in Seq({"prepared", "submitted", "failed"})
      /\ RowsApart(checkpointRows) /\ IsSeq(checkpoints) /\ IsSeq(checkpointRows)
      /\ \A i \in 1 .. n : RowInv(checkpointRows[i], checkpointRequests, checkpoints)
  BY DEF CheckpointsInv, PublisherInv
<1>3. /\ Len(checkpoints) \in Nat /\ n \in Nat
      /\ Len(checkpointRequests) \in Nat /\ Len(payloads) \in Nat
  BY CheckpointLengths
<1>4. /\ OwnsRequest(r) /\ r.request \in 1 .. Len(checkpointRequests)
      /\ r.publication = 0 => \A i \in 1 .. n : checkpointRows[i].request # r.request
      /\ r.publication # 0 => r.publication \in 1 .. n /\ OwnRow(r, checkpointRows[r.publication])
  BY <1>1, <1>2 DEF PublisherInv, OwnsRequest
<1> DEFINE requests2 == [checkpointRequests EXCEPT ![r.request] = mark]
<1>5. /\ requests2 \in Seq({"prepared", "submitted", "failed"})
      /\ Len(requests2) = Len(checkpointRequests) /\ requests2[r.request] = mark
      /\ \A i \in 1 .. Len(checkpointRequests) :
           i # r.request => requests2[i] = checkpointRequests[i]
  <2>1. mark \in {"prepared", "submitted", "failed"}
    OBVIOUS
  <2> QED
    BY <1>2, <1>4, <2>1
<1> HIDE DEF requests2
<1>6. ASSUME NEW i \in 1 .. n
      PROVE  RowInv(checkpointRows[i], requests2, checkpoints)
  <2>1. checkpointRows[i].request \in 1 .. Len(checkpointRequests)
        /\ RowInv(checkpointRows[i], checkpointRequests, checkpoints)
    BY <1>2 DEF RowInv
  <2>2. checkpointRows[i].status = "submitted" => checkpointRows[i].request # r.request
    <3>1. ASSUME checkpointRows[i].status = "submitted", checkpointRows[i].request = r.request
          PROVE  FALSE
      <4>1. r.publication \in 1 .. n /\ OwnRow(r, checkpointRows[r.publication])
        BY <1>4, <3>1
      <4>2. i = r.publication
        BY <1>2, <3>1, <4>1 DEF RowsApart, OwnRow
      <4> QED
        BY <3>1, <4>1, <4>2 DEF OwnRow
    <3> QED
      BY <3>1
  <2> QED
    BY <1>3, <1>5, <2>1, <2>2, RowStays
<1>7. ASSUME NEW q \in CheckpointPublishers \ {p}
      PROVE  /\ PublisherInv(publishers[q], checkpointRows, requests2, checkpoints, Len(payloads))
             /\ Apart(publishers[q], r)
  <2>1. /\ PublisherInv(publishers[q], checkpointRows, checkpointRequests, checkpoints, Len(payloads))
        /\ Apart(publishers[q], r)
    BY DEF CheckpointsInv
  <2>2. OwnsRequest(publishers[q]) => /\ publishers[q].request # r.request
                                     /\ publishers[q].request \in 1 .. Len(checkpointRequests)
    BY <1>4, <2>1 DEF Apart, PublisherInv
  <2>3. PublisherInv(publishers[q], checkpointRows, requests2, checkpoints, Len(payloads))
    BY <1>3, <1>5, <2>1, <2>2, OthersStay
  <2> QED
    BY <2>1, <2>3
<1>8. CASE new = NoPublisher
  <2>1. /\ ~OwnsRequest(new) /\ ~Mined(new) /\ new.pc # "prepared"
        /\ PublisherInv(new, checkpointRows, requests2, checkpoints, Len(payloads))
    BY <1>8, NoPublisherInv DEF NoPublisher, OwnsRequest, Mined
  <2>2. \A q \in CheckpointPublishers \ {p} : Apart(publishers[q], new)
    BY <2>1 DEF Apart
  <2>3. \E f : /\ Accounts(f, checkpointRows, checkpoints) /\ Awaited(f, new, Len(checkpoints))
               /\ \A q \in CheckpointPublishers \ {p} : Awaited(f, publishers[q], Len(checkpoints))
    BY <2>1 DEF CheckpointsInv, Awaited
  <2> QED
    BY <1>1, <1>2, <1>5, <1>6, <1>7, <2>1, <2>2, <2>3, PublisherWrites DEF requests2
<1>9. CASE \E pc \in {"marked", "failing", "failed"} :
             /\ new = [r EXCEPT !.pc = pc]
             /\ pc = "marked" => mark = "submitted" /\ r.pc = "mined"
             /\ pc = "failed" => r.publication # 0
  <2>1. PICK pc \in {"marked", "failing", "failed"} :
          /\ new = [r EXCEPT !.pc = pc]
          /\ pc = "marked" => mark = "submitted" /\ r.pc = "mined"
          /\ pc = "failed" => r.publication # 0
    BY <1>9
  <2>2. /\ new \in Publisher({new.subjects}) /\ new.subjects = r.subjects /\ new.pc = pc
        /\ new.request = r.request /\ new.publication = r.publication
        /\ new.checkpoint = r.checkpoint /\ new.payload = r.payload /\ new.quiet = r.quiet
    BY <1>2, <2>1 DEF Publisher, PublisherStates
  <2>3. /\ OwnsRequest(new) /\ new.pc # "prepared"
        /\ Mined(new) => Mined(r)
    BY <2>1, <2>2 DEF OwnsRequest, Mined
  <2>4. /\ Len(r.subjects) > 0
        /\ r.quiet => \A i \in 1 .. Len(r.subjects) : OfPayload(r.subjects[i], r.payload)
        /\ r.pc = "mined" => r.publication # 0
    BY <1>1, <1>2 DEF PublisherInv
  <2>5. r.publication # 0 => OwnRow(new, checkpointRows[new.publication])
    BY <1>4, <2>2, <2>3 DEF OwnRow
  <2>6. Mined(new) =>
          /\ new.checkpoint \in 1 .. Len(checkpoints)
          /\ checkpoints[new.checkpoint] = Content(checkpointRows[new.publication])
          /\ \A i \in 1 .. n : checkpointRows[i].checkpoint # new.checkpoint
    BY <1>2, <2>2, <2>3 DEF PublisherInv
  <2>7. PublisherInv(new, checkpointRows, requests2, checkpoints, Len(payloads))
    BY <1>2, <1>4, <1>5, <2>1, <2>2, <2>3, <2>4, <2>5, <2>6 DEF PublisherInv
  <2>8. \A q \in CheckpointPublishers \ {p} : Apart(publishers[q], new)
    BY <1>4, <1>7, <2>2, <2>3 DEF Apart
  <2>9. \E f : /\ Accounts(f, checkpointRows, checkpoints) /\ Awaited(f, new, Len(checkpoints))
               /\ \A q \in CheckpointPublishers \ {p} : Awaited(f, publishers[q], Len(checkpoints))
    BY <2>3 DEF CheckpointsInv, Awaited
  <2> QED
    BY <1>1, <1>2, <1>5, <1>6, <1>7, <2>7, <2>8, <2>9, PublisherWrites DEF requests2
<1> QED
  BY <1>1, <1>8, <1>9

\* A row is marked by the publisher that has it.
LEMMA RowsAreMarked ==
  ASSUME CheckpointsInv, NEW p \in CheckpointPublishers,
         MarkPublicationSubmitted(p) \/ MarkPublicationFailed(p)
  PROVE  CheckpointsInv'
<1> DEFINE r == publishers[p]
           n == Len(checkpointRows)
           own == checkpointRows[r.publication]
           submits == MarkPublicationSubmitted(p)
           row == IF submits THEN [own EXCEPT !.status = "submitted", !.checkpoint = r.checkpoint]
                  ELSE [own EXCEPT !.status = "failed"]
           new == IF submits THEN NextSubject(p) ELSE NoPublisher
           rows2 == [checkpointRows EXCEPT ![r.publication] = row]
<1>1. /\ publishers' = [publishers EXCEPT ![p] = new]
      /\ IF submits THEN r.pc = "marked" ELSE r.pc = "failed"
      /\ UNCHANGED <<checkpoints, checkpointRequests, payloads>>
  BY DEF MarkPublicationSubmitted, MarkPublicationFailed, PublisherAt, EndPublisher
<1>2. /\ PublisherInv(r, checkpointRows, checkpointRequests, checkpoints, Len(payloads))
      /\ r \in Publisher({r.subjects}) /\ IsSeq(r.subjects)
      /\ checkpointRequests \in Seq({"prepared", "submitted", "failed"})
      /\ RowsApart(checkpointRows) /\ IsSeq(checkpoints) /\ IsSeq(checkpointRows)
      /\ \A i \in 1 .. n : RowInv(checkpointRows[i], checkpointRequests, checkpoints)
  BY DEF CheckpointsInv, PublisherInv
<1>3. /\ Len(checkpoints) \in Nat /\ n \in Nat
      /\ Len(checkpointRequests) \in Nat /\ Len(payloads) \in Nat
  BY CheckpointLengths
<1>4. /\ OwnsRequest(r) /\ r.publication \in 1 .. n /\ OwnRow(r, own)
      /\ submits => Mined(r)
  BY <1>1, <1>2 DEF PublisherInv, OwnsRequest, Mined
<1>5. RowInv(own, checkpointRequests, checkpoints) /\ own \in PublicationRow({own.subject})
  BY <1>2, <1>4 DEF RowInv
<1>6. /\ row \in PublicationRow({row.subject}) /\ row.request = r.request
      /\ row.subject = own.subject /\ row.payload = own.payload /\ row.quiet = own.quiet
      /\ Content(row) = Content(own)
      /\ submits => row.status = "submitted" /\ row.checkpoint = r.checkpoint
      /\ ~submits => row.status = "failed" /\ row.checkpoint = 0
  <2>1. own.request = r.request /\ own.checkpoint = 0 /\ r.checkpoint \in Nat
    BY <1>2, <1>4, <1>5 DEF RowInv, OwnRow, Publisher
  <2>2. CASE submits
    <3>1. row = [own EXCEPT !.status = "submitted", !.checkpoint = r.checkpoint]
      BY <2>2
    <3> HIDE DEF row, submits
    <3> QED
      BY <1>5, <2>1, <2>2, <3>1 DEF PublicationRow, Content
  <2>3. CASE ~submits
    <3>1. row = [own EXCEPT !.status = "failed"]
      BY <2>3
    <3> HIDE DEF row, submits
    <3> QED
      BY <1>5, <2>1, <2>3, <3>1 DEF PublicationRow, Content
  <2> QED
    BY <2>2, <2>3
<1>7. checkpointRows' = rows2
  BY DEF MarkPublicationSubmitted, MarkPublicationFailed
<1>8. /\ IsSeq(rows2) /\ Len(rows2) = n /\ rows2[r.publication] = row
      /\ \A i \in 1 .. n : i # r.publication => rows2[i] = checkpointRows[i]
  <2> HIDE DEF row
  <2>1. PICK k \in 1 .. Len(checkpointRows) : k = r.publication
    BY <1>4
  <2>2. /\ IsSeq([checkpointRows EXCEPT ![k] = row])
        /\ Len([checkpointRows EXCEPT ![k] = row]) = Len(checkpointRows)
        /\ [checkpointRows EXCEPT ![k] = row][k] = row
        /\ \A j \in 1 .. Len(checkpointRows) :
             j # k => [checkpointRows EXCEPT ![k] = row][j] = checkpointRows[j]
    BY <1>2, SeqExcept
  <2> QED
    BY <2>1, <2>2
<1>9. /\ new.pc \in {"idle", "subject"} /\ ~OwnsRequest(new) /\ ~Mined(new)
      /\ PublisherInv(new, rows2, checkpointRequests, checkpoints, Len(payloads))
  <2>1. CASE new = NoPublisher
    BY <2>1, NoPublisherInv DEF NoPublisher, OwnsRequest, Mined
  <2>2. CASE new # NoPublisher
    <3>1. /\ r.pc = "marked" /\ Len(r.subjects) # 1
          /\ new = [r EXCEPT !.pc = "subject", !.subjects = Tail(r.subjects),
                             !.request = 0, !.publication = 0, !.checkpoint = 0]
      BY <1>1, <2>2 DEF NextSubject
    <3>2. /\ Len(r.subjects) > 0
          /\ r.quiet => \A i \in 1 .. Len(r.subjects) : OfPayload(r.subjects[i], r.payload)
      BY <1>2, <3>1 DEF PublisherInv
    <3>3. PICK rest : rest = Tail(r.subjects)
      OBVIOUS
    <3>4. /\ IsSeq(rest) /\ Len(rest) = Len(r.subjects) - 1 /\ Len(r.subjects) \in Nat
          /\ \A i \in 1 .. Len(rest) : i + 1 \in 1 .. Len(r.subjects) /\ rest[i] = r.subjects[i + 1]
      BY <1>2, <3>2, <3>3, SeqTail
    <3>5. new = [r EXCEPT !.pc = "subject", !.subjects = rest,
                          !.request = 0, !.publication = 0, !.checkpoint = 0]
      BY <3>1, <3>3
    <3> HIDE DEF new
    <3>6. /\ new \in Publisher({new.subjects}) /\ new.subjects = rest /\ new.pc = "subject"
          /\ new.publication = 0 /\ new.payload = r.payload /\ new.quiet = r.quiet
      BY <1>2, <3>5 DEF Publisher, PublisherStates
    <3>7. Len(rest) > 0
      <4>1. PICK l \in Nat : l = Len(r.subjects)
        BY <3>4
      <4>2. l # 1 /\ l > 0 /\ Len(rest) = l - 1
        BY <3>1, <3>2, <3>4, <4>1
      <4> QED
        BY <4>2
    <3>8. new.quiet => \A i \in 1 .. Len(rest) : OfPayload(rest[i], r.payload)
      BY <3>2, <3>4, <3>6
    <3>9. ~OwnsRequest(new) /\ ~Mined(new)
      BY <3>6 DEF OwnsRequest, Mined
    <3> QED
      BY <3>4, <3>6, <3>7, <3>8, <3>9 DEF PublisherInv
  <2> QED
    BY <2>1, <2>2
<1> HIDE DEF row, rows2, new
<1>10. ASSUME NEW i \in 1 .. n
       PROVE  RowInv(rows2[i], checkpointRequests, checkpoints)
  <2>1. CASE i # r.publication
    BY <1>2, <1>8, <2>1
  <2>2. CASE i = r.publication
    <3>1. row.quiet => OfPayload(row.subject, row.payload)
      BY <1>5, <1>6 DEF RowInv
    <3>2. row.request \in 1 .. Len(checkpointRequests)
      BY <1>4, <1>5, <1>6 DEF RowInv, OwnRow
    <3>3. submits => /\ row.checkpoint \in 1 .. Len(checkpoints)
                     /\ checkpoints[row.checkpoint] = Content(row)
                     /\ checkpointRequests[row.request] = "submitted"
      BY <1>1, <1>2, <1>4, <1>6 DEF PublisherInv
    <3>4. RowInv(row, checkpointRequests, checkpoints)
      BY <1>6, <3>1, <3>2, <3>3 DEF RowInv
    <3> QED
      BY <1>8, <2>2, <3>4
  <2> QED
    BY <2>1, <2>2
<1>11. RowsApart(rows2)
  <2>1. \A i \in 1 .. n : rows2[i].request = checkpointRows[i].request
    BY <1>4, <1>6, <1>8 DEF OwnRow
  <2>2. \A i \in 1 .. n : i # r.publication => rows2[i].checkpoint = checkpointRows[i].checkpoint
    BY <1>8
  <2>3. row.checkpoint # 0 => \A i \in 1 .. n : i # r.publication => rows2[i].checkpoint # row.checkpoint
    BY <1>2, <1>4, <1>6, <2>2 DEF PublisherInv
  <2>4. rows2[r.publication].checkpoint = row.checkpoint
    BY <1>8
  <2> QED
    BY <1>2, <1>8, <2>1, <2>2, <2>3, <2>4 DEF RowsApart
<1>12. ASSUME NEW q \in CheckpointPublishers \ {p}
       PROVE  /\ PublisherInv(publishers[q], rows2, checkpointRequests, checkpoints, Len(payloads))
              /\ Apart(publishers[q], new)
  <2>1. /\ PublisherInv(publishers[q], checkpointRows, checkpointRequests, checkpoints, Len(payloads))
        /\ Apart(publishers[q], r)
    BY DEF CheckpointsInv
  <2>2. OwnsRequest(publishers[q]) => /\ publishers[q].request # r.request
                                     /\ publishers[q].publication # r.publication
    <3>1. OwnsRequest(publishers[q]) => publishers[q].request # r.request
      BY <1>4, <2>1 DEF Apart
    <3>2. own.request = r.request /\ r.publication # 0
      BY <1>3, <1>4 DEF OwnRow
    <3>3. OwnsRequest(publishers[q]) /\ publishers[q].publication # 0 =>
            checkpointRows[publishers[q].publication].request = publishers[q].request
      BY <2>1 DEF PublisherInv, OwnRow
    <3> QED
      BY <3>1, <3>2, <3>3
  <2>3. Mined(publishers[q]) => /\ publishers[q].checkpoint # 0
                                /\ Mined(r) => publishers[q].checkpoint # r.checkpoint
    BY <2>1 DEF PublisherInv, Apart
  <2>4. \A i \in 1 .. Len(rows2) :
          \/ /\ i \in 1 .. n /\ rows2[i].request = checkpointRows[i].request
             /\ rows2[i].checkpoint = checkpointRows[i].checkpoint
          \/ /\ OwnsRequest(publishers[q]) => rows2[i].request # publishers[q].request
             /\ Mined(publishers[q]) => rows2[i].checkpoint # publishers[q].checkpoint
    <3>1. Mined(publishers[q]) => row.checkpoint # publishers[q].checkpoint
      BY <1>4, <1>6, <2>3
    <3>2. OwnsRequest(publishers[q]) => row.request # publishers[q].request
      BY <1>6, <2>2
    <3> QED
      BY <1>8, <3>1, <3>2
  <2>5. \A i \in 1 .. n : OwnsRequest(publishers[q]) /\ publishers[q].publication = i =>
                            rows2[i] = checkpointRows[i]
    BY <1>8, <2>2
  <2>6. PublisherInv(publishers[q], rows2, checkpointRequests, checkpoints, Len(payloads))
    BY <1>3, <1>8, <2>1, <2>4, <2>5, OthersStay
  <2> QED
    BY <1>9, <2>6 DEF Apart
<1>13. \E f : /\ Accounts(f, rows2, checkpoints) /\ Awaited(f, new, Len(checkpoints))
              /\ \A q \in CheckpointPublishers \ {p} : Awaited(f, publishers[q], Len(checkpoints))
  <2>1. PICK f : /\ Accounts(f, checkpointRows, checkpoints)
                 /\ \A q \in CheckpointPublishers : Awaited(f, publishers[q], Len(checkpoints))
    BY DEF CheckpointsInv
  <2>2. \A i \in 1 .. n : Content(rows2[i]) = Content(checkpointRows[i])
    BY <1>6, <1>8
  <2>3. Accounts(f, rows2, checkpoints)
    BY <1>8, <2>1, <2>2 DEF Accounts
  <2>4. Awaited(f, new, Len(checkpoints))
    BY <1>9 DEF Awaited
  <2> QED
    BY <2>1, <2>3, <2>4
<1> QED
  BY <1>1, <1>2, <1>7, <1>8, <1>9, <1>10, <1>11, <1>12, <1>13, PublisherWrites

\* A new payload under publishers that still read.
LEMMA PayloadsMove ==
  ASSUME CheckpointsInv, NEW e \in Engines, InsertPayload(e)
  PROVE  CheckpointsInv'
<1> DEFINE new(p) == [publishers[p] EXCEPT !.quiet = publishers[p].quiet /\ publishers[p].pc # "reading"]
<1>1. /\ IsSeq(payloads) /\ \E x : payloads' = Append(payloads, x)
      /\ publishers' = [p \in CheckpointPublishers |-> new(p)]
      /\ UNCHANGED <<checkpoints, checkpointRequests, checkpointRows>>
  BY DEF InsertPayload, CheckpointsInv
<1>2. IsSeq(payloads') /\ Len(payloads') \in Nat
  BY <1>1, SeqAppend
<1>3. ASSUME NEW p \in CheckpointPublishers
      PROVE  /\ PublisherInv(publishers'[p], checkpointRows, checkpointRequests, checkpoints,
                             Len(payloads'))
             /\ publishers'[p].pc = publishers[p].pc
             /\ publishers'[p].request = publishers[p].request
             /\ publishers'[p].checkpoint = publishers[p].checkpoint
             /\ publishers'[p].publication = publishers[p].publication
  <2> DEFINE r == publishers[p]
  <2>1. /\ PublisherInv(r, checkpointRows, checkpointRequests, checkpoints, Len(payloads))
        /\ r \in Publisher({r.subjects})
    BY DEF CheckpointsInv, PublisherInv
  <2>2. PICK quiet \in BOOLEAN : quiet = (r.quiet /\ r.pc # "reading")
    OBVIOUS
  <2>3. PICK s : s = [r EXCEPT !.quiet = quiet]
    OBVIOUS
  <2>4. publishers'[p] = s
    BY <1>1, <2>2, <2>3
  <2>5. /\ s \in Publisher({s.subjects}) /\ s.pc = r.pc /\ s.payload = r.payload
        /\ s.subjects = r.subjects /\ s.publication = r.publication /\ s.request = r.request
        /\ s.checkpoint = r.checkpoint /\ s.quiet = quiet
    BY <2>1, <2>3 DEF Publisher
  <2>6. s.quiet = TRUE => r.quiet = TRUE /\ r.pc # "reading"
    BY <2>1, <2>2, <2>5 DEF Publisher
  <2>7. r.pc = "idle" => s = NoPublisher
    <3>1. ASSUME r.pc = "idle" PROVE s = NoPublisher
      <4>1. r = NoPublisher
        BY <2>1, <3>1 DEF PublisherInv
      <4>2. r.quiet = TRUE /\ r.pc # "reading"
        BY <4>1 DEF NoPublisher
      <4>3. quiet = TRUE
        BY <2>2, <4>2, Zenon
      <4>4. s = [r EXCEPT !.quiet = r.quiet]
        BY <2>3, <4>2, <4>3
      <4>5. s = r
        BY <2>1, <4>4 DEF Publisher
      <4> QED
        BY <4>1, <4>5
    <3> QED
      BY <3>1
  <2>8. /\ OwnsRequest(s) <=> OwnsRequest(r)
        /\ Mined(s) <=> Mined(r)
        /\ \A row : OwnRow(s, row) <=> OwnRow(r, row)
    BY <2>5 DEF OwnsRequest, Mined, OwnRow
  <2>9. PublisherInv(s, checkpointRows, checkpointRequests, checkpoints, Len(payloads'))
    BY <2>1, <2>5, <2>6, <2>7, <2>8 DEF PublisherInv
  <2> QED
    BY <2>4, <2>5, <2>9
<1>4. \A p, q \in CheckpointPublishers : p # q => Apart(publishers'[p], publishers'[q])
  BY <1>3 DEF CheckpointsInv, Apart, OwnsRequest, Mined
<1>5. \E f : /\ Accounts(f, checkpointRows, checkpoints)
             /\ \A p \in CheckpointPublishers : Awaited(f, publishers'[p], Len(checkpoints))
  BY <1>3 DEF CheckpointsInv, Awaited
<1>6. publishers' = [p \in CheckpointPublishers |-> publishers'[p]]
  BY <1>1
<1> QED
  BY <1>1, <1>2, <1>3, <1>4, <1>5, <1>6 DEF CheckpointsInv

\* The inductive invariant of the publishers.
THEOREM CheckpointInvariant == CheckpointsSpec => []CheckpointsInv
<1>1. CheckpointsInv /\ [CheckpointsNext]_checkpointVars => CheckpointsInv'
  <2> SUFFICES ASSUME CheckpointsInv, [CheckpointsNext]_checkpointVars PROVE CheckpointsInv'
    OBVIOUS
  <2>1. ASSUME UNCHANGED <<payloads, publishVars>> PROVE CheckpointsInv'
    BY <2>1 DEF CheckpointsInv, publishVars
  <2>2. CASE UNCHANGED checkpointVars
    BY <2>1, <2>2 DEF checkpointVars
  <2>3. CASE \E e \in Engines : ReadClaims(e) \/ ReadReplications(e) \/ EngineStops(e)
    BY <2>1, <2>3 DEF ReadClaims, ReadReplications, EngineStops
  <2>4. CASE RowsMove \/ IndexCheckpoint \/ GiveDomainModule
    BY <2>1, <2>4 DEF RowsMove, IndexCheckpoint, GiveDomainModule
  <2>5. CASE \E e \in Engines : InsertPayload(e)
    BY <2>5, PayloadsMove
  <2>6. CASE \E p \in CheckpointPublishers :
               \/ StartPublisher(p) \/ ReadLatestReputationPayload(p) \/ ReadLeaderboardPage(p)
               \/ ReadSubjects(p) \/ ThrowInTry(p) \/ PublisherStops(p)
    BY <2>6, PublisherReads
  <2>7. CASE \E p \in CheckpointPublishers :
               \/ InsertCheckpointRequest(p) \/ InsertCheckpointPublication(p)
               \/ \E pc \in {"mined", "failing"} : PublishCheckpoint(p, pc)
    BY <2>7, RequestsAreOwned, RowsAreOwned, CheckpointsHaveRows
  <2>8. CASE \E p \in CheckpointPublishers :
               \/ \E pc \in {"marked", "failing"} : MarkCheckpointRequestSubmitted(p, pc)
               \/ MarkCheckpointRequestFailed(p)
    BY <2>8, RequestsAreMarked
  <2>9. CASE \E p \in CheckpointPublishers : MarkPublicationSubmitted(p) \/ MarkPublicationFailed(p)
    BY <2>9, RowsAreMarked
  <2> QED
    BY <2>2, <2>3, <2>4, <2>5, <2>6, <2>7, <2>8, <2>9 DEF CheckpointsNext
<1> QED
  BY <1>1, InitCheckpoints, PTL DEF CheckpointsSpec

\* Whatever engines and publishers run at once, fail or stop half way, a row of
\* checkpoint_publications that is submitted names the one checkpoint its own
\* transaction made, a checkpoint on chain has a row of its own, and an entry is
\* published with the hash of its own payload unless a payload came in between.
THEOREM CheckpointsAreAccounted == CheckpointsSpec => []CheckpointsAccounted
<1>1. CheckpointsInv => CheckpointsAccounted
  <2> SUFFICES ASSUME CheckpointsInv PROVE CheckpointsAccounted
    OBVIOUS
  <2>1. DOMAIN checkpointRows = 1 .. Len(checkpointRows) /\ DOMAIN checkpoints = 1 .. Len(checkpoints)
    BY SeqAppend DEF CheckpointsInv
  <2>2. Len(checkpoints) \in Nat /\ Len(checkpointRows) \in Nat
    BY CheckpointLengths
  <2>3. ASSUME NEW i \in 1 .. Len(checkpointRows)
        PROVE  /\ checkpointRows[i].status = "submitted" =>
                    /\ checkpointRows[i].checkpoint \in DOMAIN checkpoints
                    /\ checkpoints[checkpointRows[i].checkpoint] = Content(checkpointRows[i])
                    /\ checkpointRequests[checkpointRows[i].request] = "submitted"
                    /\ \A j \in (1 .. Len(checkpointRows)) \ {i} :
                         checkpointRows[j].checkpoint # checkpointRows[i].checkpoint
               /\ checkpointRows[i].quiet /\ checkpointRows[i].subject.type = "Actor" =>
                    checkpointRows[i].subject.entry[1] = checkpointRows[i].payload
    <3>1. RowInv(checkpointRows[i], checkpointRequests, checkpoints) /\ RowsApart(checkpointRows)
      BY DEF CheckpointsInv
    <3>2. checkpointRows[i].status = "submitted" => checkpointRows[i].checkpoint # 0
      BY <2>2, <3>1 DEF RowInv
    <3> QED
      BY <2>1, <3>1, <3>2 DEF RowInv, RowsApart, OfPayload
  <2>4. ASSUME NEW k \in 1 .. Len(checkpoints)
        PROVE  Cardinality({j \in DOMAIN checkpoints : checkpoints[j] = checkpoints[k]})
                 <= Cardinality({i \in DOMAIN checkpointRows :
                                   Content(checkpointRows[i]) = checkpoints[k]})
    <3> DEFINE S == {j \in DOMAIN checkpoints : checkpoints[j] = checkpoints[k]}
               T == {i \in DOMAIN checkpointRows : Content(checkpointRows[i]) = checkpoints[k]}
    <3>1. PICK f : Accounts(f, checkpointRows, checkpoints)
      BY DEF CheckpointsInv
    <3> DEFINE g == [j \in S |-> f[j]]
    <3>2. \A j \in S : /\ j \in 1 .. Len(checkpoints) /\ f[j] \in 1 .. Len(checkpointRows)
                       /\ Content(checkpointRows[f[j]]) = checkpoints[k]
      BY <2>1, <3>1 DEF Accounts
    <3>3. \A j \in S : f[j] \in T
      BY <2>1, <3>2
    <3>4. \A j, l \in S : f[j] = f[l] => j = l
      BY <3>1, <3>2 DEF Accounts
    <3>5. IsFiniteSet(T)
      <4>1. IsFiniteSet(1 .. Len(checkpointRows))
        BY <2>2, FS_Interval
      <4>2. T \in SUBSET (1 .. Len(checkpointRows))
        BY <2>1
      <4> QED
        BY <4>1, <4>2, FS_Subset
    <3> HIDE DEF S, T
    <3>6. g \in Injection(S, T)
      BY <3>3, <3>4 DEF Injection, IsInjective
    <3>7. Cardinality(S) <= Cardinality(T)
      <4> HIDE DEF g
      <4> QED
        BY <3>5, <3>6, FS_Injection
    <3> QED
      BY <3>7 DEF S, T
  <2> QED
    BY <2>1, <2>3, <2>4 DEF CheckpointsAccounted
<1> QED
  BY <1>1, CheckpointInvariant, PTL

=============================================================================
