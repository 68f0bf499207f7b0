---------------------------- MODULE MCOperators ----------------------------
(* ResolutionRuns, AppealsRegistry, PublicWrites, SourcePublication and     *)
(* Checkpoints on small instances.                                          *)
EXTENDS ResolutionRuns, AppealsRegistry, PublicWrites, SourcePublication, Checkpoints, TLC

CONSTANTS a1, m1, p1, p2, x1, x2, h1, h2, s1, q1, q2, w1, w2, k1, k2, e1

MCModuleKind == [m \in Modules |-> "Computational"]

Symmetric == Permutations(Executors) \cup Permutations(Publishers)

serviceVars == <<claimVars, runVars, appealVars, writeVars, sourceVars, checkpointVars>>
ServicesInit ==
  Init /\ RunsInit /\ AppealsInit /\ WritesInit /\ SourcesInit /\ CheckpointsInit

(* One module, known and enabled, and no bond floor; claims are made by    *)
(* requests or directly, and never revised.                                *)
Deployment ==
  /\ \/ nextClaimId' = 1
     \/ existing' = Modules /\ enabled' = Modules /\ domainModule' = m1
  /\ \A c \in ClaimIds : claims'[c].revisionOfClaimId = 0

NoRuns == nextRequestId = 1 /\ \A p \in Resolvers : resolutions[p] = NoCall
NoAppeals == appeals[1] = NoAppeal /\ appealDepositsPaused = FALSE
NoWrites ==
  /\ executions = [x \in Executors |-> NoExecution]
  /\ writeRequests[h1] = NoRequest /\ writeRequests[h2] = NoRequest
NoSources == sources[s1] = NewSource /\ \A p \in Publishers : publications[p] = NoPublication
NoClaims == nextClaimId = 1 /\ existing = {} /\ minAuthorBond = 0

(* One service at work, ... *)
OnlyRuns ==
  /\ NoAppeals /\ NoWrites /\ NoSources /\ CheckpointsInit
  /\ UNCHANGED <<appealVars, writeVars, sourceVars, checkpointVars>> /\ RunsNext
OnlyAppeals ==
  /\ NoRuns /\ NoWrites /\ NoSources /\ CheckpointsInit
  /\ UNCHANGED <<runVars, writeVars, sourceVars, checkpointVars>> /\ AppealsNext
OnlyWrites ==
  /\ NoRuns /\ NoAppeals /\ NoSources /\ CheckpointsInit
  /\ UNCHANGED <<runVars, appealVars, sourceVars, checkpointVars>> /\ WritesNext
OnlySources ==
  /\ NoRuns /\ NoAppeals /\ NoWrites /\ CheckpointsInit
  /\ UNCHANGED <<runVars, appealVars, writeVars, checkpointVars>> /\ SourcesNext

OnlyCheckpoints ==
  /\ NoRuns /\ NoAppeals /\ NoWrites /\ NoSources /\ NoClaims
  /\ UNCHANGED <<claimVars, runVars, appealVars, writeVars, sourceVars>> /\ CheckpointsNext

(* ... two resolvers on one replication or one on two, who propose two      *)
(* outcomes each, ...                                                       *)
RunsBounds ==
  /\ delegatedClaimRequestIds'[h1] = 0 /\ nextClaimId' <= 2
  /\ nextReplicationId' <= 2 \/ \A p \in Resolvers \ {p1} : resolutions'[p] = NoCall
  /\ \A r \in ReplicationIds :
       replications'[r].status \in {"Pending", "Supported", "Refuted"}
  /\ \A p \in Resolvers : resolutions'[p].pc \in {"idle", "started"}
       \/ resolutions'[p].outcome \in {"Supported", IF p = p1 THEN "Pending" ELSE "Refuted"}

(* ... on one claim with one replication that stays a draft, ...           *)
AppealsBounds ==
  /\ nextClaimId' <= 2 /\ nextReplicationId' <= 2 /\ nextResolutionDecisionId' = 1
  /\ replications'[1].status = "Pending" /\ claims'[1].status = "Draft"

(* ... two executions of one request on one claim without replications, ... *)
WritesBounds ==
  /\ nextReplicationId' = 1 /\ nextClaimId' <= 2
  /\ \E q \in WriteRequests : writeRequests'[q] = NoRequest

(* ... two processes on one source, with no claims but those they make   *)
(* and no replications.                                                     *)
SourcesBounds ==
  /\ nextReplicationId' = 1 /\ delegatedClaimRequestIds'[h1] = 0
  /\ \A c \in ClaimIds : c < nextClaimId' =>
       c \in sourceClaims'[s1] /\ claims'[c].status \in {"Draft", "Published", "Deprecated"}

(* ... or two publishers of two checkpoints, one of which may go wrong; an  *)
(* actor has a draft, then another a replication that supports it; payloads *)
(* come while one publisher at most reads.                                  *)
Writing(p) == publishers[p].pc \notin {"idle", "reading"}
WentWrong(i) ==
  /\ \A p \in CheckpointPublishers :
       publishers[p].request = i => publishers[p].pc \in {"failing", "failed"}
  /\ \/ checkpointRequests[i] # "submitted"
     \/ \E j \in DOMAIN checkpointRows :
          checkpointRows[j].request = i /\ checkpointRows[j].status # "submitted"
StartsAtRest(p) ==
  /\ replicationRows[1] # NoRow
  /\ \A e \in Engines : engines[e] = NoEngine
CheckpointsBounds ==
  /\ claimRows'[1] \in {NoRow, [author |-> 1, status |-> "Draft"]}
  /\ replicationRows'[1] \in {NoRow, [replicator |-> 2, status |-> "Supported"]}
  /\ Cardinality({i \in DOMAIN checkpointRequests' : WentWrong(i)'}) <= 1
  /\ publishers[k2] # NoPublisher \/ Writing(k1) => UNCHANGED <<readVars, payloads, engines>>
  /\ ~Writing(k1) /\ Writing(k1)' => StartsAtRest(k1)
  /\ publishers[k2] = NoPublisher /\ publishers'[k2] # NoPublisher => StartsAtRest(k2)
  /\ publishers'[k2].pc = "reading" /\ publishers'[k2].payload = -1 =>
       publishers'[k2].subjects = <<>>
  /\ indexed' # indexed => Len(payloads) < MaxPayloads
  /\ moduleAddress' # moduleAddress => publishers[k2] = NoPublisher /\ ~Writing(k1)
  /\ Len(checkpointRequests) = MaxPublications =>
       \A p \in CheckpointPublishers : publishers'[p].pc # "reading"

BoundedNext ==
  /\ \/ OnlyRuns /\ RunsBounds
     \/ OnlyAppeals /\ AppealsBounds
     \/ OnlyWrites /\ WritesBounds
     \/ OnlySources /\ SourcesBounds
     \/ OnlyCheckpoints /\ CheckpointsBounds
  /\ Deployment
BoundedSpec == ServicesInit /\ [][BoundedNext]_serviceVars
=============================================================================
