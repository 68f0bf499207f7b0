------------------------ MODULE ClaimRegistryProofs ------------------------
(***************************************************************************)
(* Proofs about module ClaimRegistry, for every set of accounts, modules,  *)
(* bonds and requests and any number of claims, replications and           *)
(* decisions: it is type correct, its safety invariants hold, and it       *)
(* implements ClaimView.                                                   *)
(***************************************************************************)
EXTENDS ClaimRegistry, TLAPS

(***************************************************************************)
(* The inductive invariant.  None of the properties is inductive alone:    *)
(* that a decision still agrees with its replication, or a status with its *)
(* decision, needs that the ids handed out so far separate the entries of  *)
(* the mappings that are written from those that are not.                  *)
(***************************************************************************)

\* The counters are fresh: nothing has been written at or above them.
Fresh ==
  /\ \A c \in ClaimIds : c >= nextClaimId =>
       claims[c] = ZeroClaim /\ effectiveClaimDecisionId[c] = 0
  /\ \A r \in ReplicationIds : r >= nextReplicationId => replications[r] = ZeroReplication
  /\ \A d \in DecisionIds : d >= nextResolutionDecisionId => decisions[d] = ZeroDecision

\* Every pointer to a decision is to a recorded one.
PointersRecorded ==
  /\ \A c \in ClaimIds : /\ latestClaimDecisionId[c] < nextResolutionDecisionId
                         /\ effectiveClaimDecisionId[c] < nextResolutionDecisionId
  /\ \A r \in ReplicationIds : replicationDecisionId[r] < nextResolutionDecisionId

\* A resolved replication is about an existing claim and was accepted by the
\* module of that claim; only a resolved replication has a decision.
ResolutionsAccepted ==
  \A r \in ReplicationIds :
    /\ replications[r].claimId < nextClaimId
    /\ IsReplicationResolved(r) =>
         /\ ReplicationExists(r)
         /\ replications[r].status
              \in AcceptedStatuses(ModuleKind[claims[replications[r].claimId].resolutionModule])
    /\ replicationDecisionId[r] # 0 => IsReplicationResolved(r)

\* A decision recommends a status that a decision can establish.
DecisionsEstablish ==
  \A d \in DecisionIds : d < nextResolutionDecisionId =>
    decisions[d].claimStatus \in ResolutionDerived \cup {"UnderReplication"}

\* A request hash points to an existing claim that is no revision, its own.
RequestsOwnClaims ==
  \A h \in RequestHashes : delegatedClaimRequestIds[h] # 0 =>
    /\ delegatedClaimRequestIds[h] < nextClaimId
    /\ claims[delegatedClaimRequestIds[h]].revisionOfClaimId = 0
    /\ \A g \in RequestHashes \ {h} :
         delegatedClaimRequestIds[g] # delegatedClaimRequestIds[h]

Inv ==
  /\ TypeOK
  /\ Fresh
  /\ PointersRecorded
  /\ ResolutionsAccepted
  /\ DecisionsEstablish
  /\ RequestsOwnClaims
  /\ StatusExplained
  /\ DecisionFaithful
  /\ PointersOrdered

(***************************************************************************)
(* Facts about the transition graph of a claim.                            *)
(***************************************************************************)

\* _isAllowedTransition leads to statuses, never back to Draft, and always to a
\* stronger one.
LEMMA TransitionsStrengthen ==
  ASSUME NEW s \in ClaimStatus, NEW t \in AllowedTransition(s)
  PROVE  t \in ClaimStatus /\ t # "Draft" /\ Strength(t) > Strength(s)
BY DEF ClaimStatus, AllowedTransition, ResolutionDerived, Strength

\* getClaimStatusForResolution recommends a status that evidence establishes, or
\* more evidence.
LEMMA ResolutionsEstablish ==
  ASSUME NEW r \in ResolutionStatus
  PROVE  ClaimStatusForResolution(r) \in ResolutionDerived \cup {"UnderReplication"}
BY DEF ResolutionStatus, ClaimStatusForResolution, ResolutionDerived

\* A status that evidence established, or waits for it, can be changed by hand
\* only to Deprecated; setClaimStatus refuses the resolution statuses.
LEMMA OnlyDeprecatedByHand ==
  ASSUME NEW s \in ResolutionDerived \cup {"UnderReplication"},
         NEW t \in AllowedTransition(s) \ ResolutionDerived
  PROVE  t = "Deprecated"
BY DEF AllowedTransition, ResolutionDerived

\* Deprecated is the end of a claim.
LEMMA DeprecatedIsFinal == AllowedTransition("Deprecated") = {}
BY DEF AllowedTransition

\* No module accepts Pending as a resolution, and what it accepts is one.
LEMMA AcceptedAreResolutions ==
  ASSUME NEW k, NEW s \in AcceptedStatuses(k)
  PROVE  s \in ResolutionStatus /\ s # "Pending"
BY DEF AcceptedStatuses, ResolutionStatus

\* A recommended status is a claim status.
LEMMA ResolutionDerivedStatuses ==
  ResolutionDerived \cup {"UnderReplication"} \subseteq ClaimStatus
BY DEF ResolutionDerived, ClaimStatus

(***************************************************************************)
(* Every way of creating a claim is NewClaim, except the replay of a       *)
(* delegated request, which changes nothing.                               *)
(***************************************************************************)

\* What the four entry points of creation have in common.
Creates(a, b, p, m) ==
  /\ NewClaim(a, b, p, m)
  /\ \/ UNCHANGED delegatedClaimRequestIds
     \/ \E h \in RequestHashes :
          /\ delegatedClaimRequestIds[h] = 0
          /\ p = 0
          /\ delegatedClaimRequestIds' = [delegatedClaimRequestIds EXCEPT ![h] = nextClaimId]

\* The four entry points come down to Creates, or to no change.
LEMMA CreationCases ==
  ASSUME CreationStep
  PROVE  /\ UNCHANGED <<moduleVars, replicationVars, decisionVars>>
         /\ \/ UNCHANGED recordVars
            \/ \E a \in Actors, b \in Bonds, p \in ClaimIds \cup {0},
                  m \in Modules \cup {NoModule} : Creates(a, b, p, m)
<1>1. PICK a \in Actors, b \in Bonds, m \in Modules \cup {NoModule} :
        \/ CreateClaim(a, b, m)
        \/ CreateClaimOnBehalf(a, b, m)
        \/ \E h \in RequestHashes : CreateClaimOnBehalfWithRequestHash(a, b, m, h)
        \/ \E p \in ClaimIds : ReviseClaim(a, p, b, m)
  BY DEF CreationStep
<1>2. CASE CreateClaim(a, b, m) \/ CreateClaimOnBehalf(a, b, m)
  <2>1. Creates(a, b, 0, m) /\ UNCHANGED <<moduleVars, replicationVars, decisionVars>>
    BY <1>2 DEF CreateClaim, CreateClaimOnBehalf, Creates
  <2> QED
    BY <2>1
<1>3. CASE \E h \in RequestHashes : CreateClaimOnBehalfWithRequestHash(a, b, m, h)
  <2>1. PICK h \in RequestHashes : CreateClaimOnBehalfWithRequestHash(a, b, m, h)
    BY <1>3
  <2>2. CASE delegatedClaimRequestIds[h] # 0
    BY <2>1, <2>2 DEF CreateClaimOnBehalfWithRequestHash
  <2>3. CASE delegatedClaimRequestIds[h] = 0
    <3>1. Creates(a, b, 0, m) /\ UNCHANGED <<moduleVars, replicationVars, decisionVars>>
      BY <2>1, <2>3 DEF CreateClaimOnBehalfWithRequestHash, Creates
    <3> QED
      BY <3>1
  <2> QED
    BY <2>2, <2>3
<1>4. CASE \E p \in ClaimIds : ReviseClaim(a, p, b, m)
  <2>1. PICK p \in ClaimIds : ReviseClaim(a, p, b, m)
    BY <1>4
  <2>2. Creates(a, b, p, m) /\ UNCHANGED <<moduleVars, replicationVars, decisionVars>>
    BY <2>1 DEF ReviseClaim, Creates
  <2> QED
    BY <2>2
<1> QED
  BY <1>1, <1>2, <1>3, <1>4

(***************************************************************************)
(* Type correctness.                                                       *)
(***************************************************************************)

\* The freshly deployed registries are well typed.
LEMMA InitTypeOK == Init => TypeOK
<1> USE ModuleAssumption, ReplicationAssumption, ClaimAssumption
<1> SUFFICES ASSUME Init PROVE TypeOK
  OBVIOUS
<1>2. ZeroReplication \in ReplicationRecord
  BY DEF ZeroReplication, ReplicationRecord, ResolutionStatus
<1>3. ZeroClaim \in ClaimRecord
  BY DEF ZeroClaim, ClaimRecord, ClaimStatus
<1>4. ZeroDecision \in ResolutionDecision
  BY DEF ZeroDecision, ResolutionDecision, ClaimStatus, ResolutionStatus
<1> QED
  BY <1>2, <1>3, <1>4 DEF Init, ModuleInit, ReplicationInit, TypeOK

\* Creating a claim keeps the types.
LEMMA CreationTypeOK ==
  ASSUME TypeOK,
         NEW a \in Actors, NEW b \in Bonds, NEW p \in ClaimIds \cup {0},
         NEW m \in Modules \cup {NoModule},
         Creates(a, b, p, m)
  PROVE  /\ claims' \in [ClaimIds -> ClaimRecord]
         /\ nextClaimId' \in 1 .. MaxClaims + 1
         /\ delegatedClaimRequestIds' \in [RequestHashes -> ClaimIds \cup {0}]
<1> USE ReplicationAssumption
<1>1. nextClaimId \in ClaimIds
  BY DEF TypeOK, Creates, NewClaim, ClaimIds
<1>2. ResolvedModule(m) \in Modules
  BY DEF TypeOK, Creates, NewClaim
<1>3. [claimId |-> nextClaimId, author |-> a, status |-> "Draft",
       revisionOfClaimId |-> p, requiredAuthorBond |-> b,
       resolutionModule |-> ResolvedModule(m)] \in ClaimRecord
  BY <1>1, <1>2 DEF ClaimRecord, ClaimStatus
<1>4. claims' \in [ClaimIds -> ClaimRecord]
  BY <1>1, <1>3 DEF TypeOK, Creates, NewClaim
<1>5. nextClaimId' \in 1 .. MaxClaims + 1
  BY DEF TypeOK, Creates, NewClaim
<1>6. delegatedClaimRequestIds' \in [RequestHashes -> ClaimIds \cup {0}]
  BY <1>1 DEF TypeOK, Creates
<1> QED
  BY <1>4, <1>5, <1>6

(***************************************************************************)
(* Each step keeps the invariant.                                          *)
(***************************************************************************)

\* The freshly deployed registries satisfy the invariant.
LEMMA InitInv == Init => Inv
<1> USE ReplicationAssumption, ClaimAssumption
<1> SUFFICES ASSUME Init PROVE Inv
  OBVIOUS
<1>2. TypeOK
  BY InitTypeOK
<1>3. \A c \in ClaimIds : claims[c] = ZeroClaim /\ effectiveClaimDecisionId[c] = 0
                          /\ latestClaimDecisionId[c] = 0
  BY DEF Init
<1>4. \A r \in ReplicationIds : replications[r] = ZeroReplication /\ replicationDecisionId[r] = 0
  BY DEF Init, ReplicationInit
<1>5. \A d \in DecisionIds : decisions[d] = ZeroDecision /\ ~(d < nextResolutionDecisionId)
  BY DEF Init, DecisionIds
<1>6. Fresh /\ PointersRecorded
  BY <1>3, <1>4, <1>5 DEF Fresh, PointersRecorded, Init
<1>7. ResolutionsAccepted
  BY <1>4 DEF ResolutionsAccepted, IsReplicationResolved, ZeroReplication, Init
<1>8. DecisionsEstablish /\ DecisionFaithful
  BY <1>5 DEF DecisionsEstablish, DecisionFaithful
<1>9. StatusExplained
  BY <1>3 DEF StatusExplained, ZeroClaim, ResolutionDerived
<1>10. PointersOrdered
  BY <1>3, <1>5 DEF PointersOrdered
<1>11. RequestsOwnClaims
  BY DEF RequestsOwnClaims, Init
<1> QED
  BY <1>2, <1>6, <1>7, <1>8, <1>9, <1>10, <1>11 DEF Inv

\* Registration of modules and parameters changes none of the mappings; a module
\* is only ever enabled once it exists.
LEMMA ModuleAdministrationKeepsInv ==
  ASSUME Inv, ModuleAdministration
  PROVE  Inv'
<1>1. UNCHANGED <<replicationVars, recordVars, decisionVars>>
  BY DEF ModuleAdministration
<1>2. /\ (existing \subseteq Modules /\ enabled \subseteq existing)'
      /\ (domainModule \in Modules \cup {NoModule})'
      /\ (minAuthorBond \in Bonds)'
  BY DEF Inv, TypeOK, ModuleAdministration, ModuleStep, RegisterModule, SetModuleEnabled,
         SetDomainModule, SetMinAuthorBond
<1>3. TypeOK'
  BY <1>1, <1>2 DEF Inv, TypeOK, replicationVars, recordVars, decisionVars
<1>4. (Fresh /\ PointersRecorded /\ ResolutionsAccepted /\ DecisionsEstablish)'
  BY <1>1 DEF Inv, Fresh, PointersRecorded, ResolutionsAccepted, DecisionsEstablish,
         IsReplicationResolved, ReplicationExists, replicationVars, recordVars, decisionVars
<1>5. (RequestsOwnClaims /\ StatusExplained /\ DecisionFaithful /\ PointersOrdered)'
  BY <1>1 DEF Inv, RequestsOwnClaims, StatusExplained, DecisionFaithful, PointersOrdered,
         replicationVars, recordVars, decisionVars
<1> QED
  BY <1>3, <1>4, <1>5 DEF Inv

\* A new claim takes an entry nothing points to.
LEMMA CreationKeepsInv ==
  ASSUME Inv, UNCHANGED <<moduleVars, replicationVars, decisionVars>>,
         NEW a \in Actors, NEW b \in Bonds, NEW p \in ClaimIds \cup {0},
         NEW m \in Modules \cup {NoModule},
         Creates(a, b, p, m)
  PROVE  Inv'
<1> USE ReplicationAssumption DEF moduleVars, replicationVars, decisionVars
<1> TypeOK
  BY DEF Inv
<1>1. TypeOK'
  BY CreationTypeOK DEF TypeOK
<1>2. nextClaimId \in ClaimIds /\ nextClaimId' = nextClaimId + 1
  BY DEF TypeOK, Creates, NewClaim, ClaimIds
<1>3. \A c \in ClaimIds : c # nextClaimId => claims'[c] = claims[c]
  BY DEF TypeOK, Creates, NewClaim
<1>4. claims'[nextClaimId].status = "Draft" /\ claims'[nextClaimId].revisionOfClaimId = p
  BY <1>2 DEF TypeOK, Creates, NewClaim
<1>5. Fresh'
  BY <1>2, <1>3 DEF Inv, Fresh, ClaimIds
<1>6. PointersRecorded' /\ DecisionsEstablish' /\ PointersOrdered'
  BY DEF Inv, PointersRecorded, DecisionsEstablish, PointersOrdered
<1>7. ResolutionsAccepted'
  <2> SUFFICES ASSUME NEW r \in ReplicationIds
               PROVE  /\ replications[r].claimId < nextClaimId'
                      /\ IsReplicationResolved(r) =>
                           /\ ReplicationExists(r)
                           /\ replications[r].status \in AcceptedStatuses(
                                ModuleKind[claims'[replications[r].claimId].resolutionModule])
                      /\ replicationDecisionId[r] # 0 => IsReplicationResolved(r)
    BY DEF ResolutionsAccepted, IsReplicationResolved, ReplicationExists
  <2>1. replications[r].claimId < nextClaimId /\ replications[r].claimId \in ClaimIds \cup {0}
    BY DEF Inv, ResolutionsAccepted, TypeOK, ReplicationRecord
  <2>2. ReplicationExists(r) => claims'[replications[r].claimId] = claims[replications[r].claimId]
    BY <1>2, <1>3, <2>1 DEF ReplicationExists, ClaimIds
  <2> QED
    BY <1>2, <2>1, <2>2 DEF Inv, ResolutionsAccepted, ClaimIds
<1>8. RequestsOwnClaims'
  <2>1. CASE UNCHANGED delegatedClaimRequestIds
    BY <1>2, <1>3, <2>1 DEF Inv, RequestsOwnClaims, TypeOK, ClaimIds
  <2>2. CASE \E h \in RequestHashes :
               /\ delegatedClaimRequestIds[h] = 0
               /\ p = 0
               /\ delegatedClaimRequestIds' = [delegatedClaimRequestIds EXCEPT ![h] = nextClaimId]
    BY <1>2, <1>3, <1>4, <2>2 DEF Inv, RequestsOwnClaims, TypeOK, ClaimIds
  <2> QED
    BY <2>1, <2>2 DEF Creates
<1>9. StatusExplained'
  <2> SUFFICES ASSUME NEW c \in ClaimIds
               PROVE  IF effectiveClaimDecisionId[c] = 0
                      THEN claims'[c].status \notin ResolutionDerived
                      ELSE LET d == decisions[effectiveClaimDecisionId[c]]
                           IN d.claimId = c /\ claims'[c].status \in {d.claimStatus, "Deprecated"}
    BY DEF StatusExplained
  <2>1. CASE c = nextClaimId
    BY <1>2, <1>4, <2>1 DEF Inv, Fresh, ResolutionDerived, ClaimIds
  <2>2. CASE c # nextClaimId
    BY <1>3, <2>2 DEF Inv, StatusExplained
  <2> QED
    BY <2>1, <2>2
<1>10. DecisionFaithful'
  <2> SUFFICES ASSUME NEW d \in DecisionIds, d < nextResolutionDecisionId
               PROVE  claims'[decisions[d].claimId] = claims[decisions[d].claimId]
    BY DEF Inv, DecisionFaithful
  <2> DEFINE r == decisions[d].replicationId
  <2>1. r \in ReplicationIds /\ replicationDecisionId[r] # 0 /\ replications[r].claimId = decisions[d].claimId
    BY DEF Inv, DecisionFaithful, DecisionIds
  <2>2. replications[r].claimId \in ClaimIds /\ replications[r].claimId < nextClaimId
    BY <2>1 DEF Inv, ResolutionsAccepted, ReplicationExists, TypeOK, ReplicationRecord
  <2> QED
    BY <1>2, <1>3, <2>1, <2>2 DEF ClaimIds
<1> QED
  BY <1>1, <1>5, <1>6, <1>7, <1>8, <1>9, <1>10 DEF Inv

\* A replication is submitted to an existing claim and is unresolved.
LEMMA SubmitKeepsInv ==
  ASSUME Inv, NEW a \in Actors, NEW c \in ClaimIds, Submit(a, c)
  PROVE  Inv'
<1> USE ReplicationAssumption DEF moduleVars, recordVars, decisionVars
<1> TypeOK
  BY DEF Inv
<1> UNCHANGED <<moduleVars, recordVars, decisionVars>>
  BY DEF Submit
<1>1. nextReplicationId \in ReplicationIds /\ nextReplicationId' = nextReplicationId + 1
  BY DEF TypeOK, Submit, SubmitReplication, ReplicationIds
<1>2. /\ replications' \in [ReplicationIds -> ReplicationRecord]
      /\ \A r \in ReplicationIds \ {nextReplicationId} : replications'[r] = replications[r]
      /\ replications'[nextReplicationId].claimId = c
      /\ replications'[nextReplicationId].status = "Pending"
  BY <1>1 DEF TypeOK, Submit, SubmitReplication, ReplicationRecord, ResolutionStatus
<1>3. c < nextClaimId
  BY DEF Inv, Fresh, Submit, SubmitReplication, ClaimExists, ZeroClaim, TypeOK, ClaimIds
<1>4. replications[nextReplicationId].status = "Pending"
  BY <1>1 DEF Inv, Fresh, ZeroReplication, ReplicationIds
<1>5. TypeOK'
  BY <1>1, <1>2 DEF TypeOK, ReplicationIds
<1>6. Fresh'
  BY <1>1, <1>2 DEF Inv, Fresh, ReplicationIds
<1>7. ResolutionsAccepted'
  <2> SUFFICES ASSUME NEW r \in ReplicationIds
               PROVE  /\ replications'[r].claimId < nextClaimId
                      /\ replications'[r].status # "Pending" =>
                           /\ replications'[r].claimId # 0
                           /\ replications'[r].status \in AcceptedStatuses(
                                ModuleKind[claims[replications'[r].claimId].resolutionModule])
                      /\ replicationDecisionId[r] # 0 => replications'[r].status # "Pending"
    BY DEF ResolutionsAccepted, IsReplicationResolved, ReplicationExists
  <2>1. CASE r = nextReplicationId
    BY <1>2, <1>3, <1>4, <2>1 DEF Inv, ResolutionsAccepted, IsReplicationResolved
  <2>2. CASE r # nextReplicationId
    BY <1>2, <2>2 DEF Inv, ResolutionsAccepted, IsReplicationResolved, ReplicationExists
  <2> QED
    BY <2>1, <2>2
<1>8. DecisionFaithful'
  <2> SUFFICES ASSUME NEW d \in DecisionIds, d < nextResolutionDecisionId
               PROVE  replications'[decisions[d].replicationId]
                        = replications[decisions[d].replicationId]
    BY DEF Inv, DecisionFaithful
  <2>1. decisions[d].replicationId \in ReplicationIds
        /\ replicationDecisionId[decisions[d].replicationId] # 0
    BY DEF Inv, DecisionFaithful, DecisionIds
  <2> QED
    BY <1>2, <1>4, <2>1 DEF Inv, ResolutionsAccepted, IsReplicationResolved
<1>9. /\ (PointersRecorded /\ DecisionsEstablish /\ RequestsOwnClaims)'
      /\ (StatusExplained /\ PointersOrdered)'
  BY DEF Inv, PointersRecorded, DecisionsEstablish, RequestsOwnClaims, StatusExplained,
         PointersOrdered
<1> QED
  BY <1>5, <1>6, <1>7, <1>8, <1>9 DEF Inv

\* A resolution is of a replication without a decision, so no decision changes.
LEMMA ResolveKeepsInv ==
  ASSUME Inv, NEW r \in ReplicationIds, NEW s \in ResolutionStatus, Resolve(r, s)
  PROVE  Inv'
<1> USE DEF moduleVars, recordVars, decisionVars
<1> TypeOK
  BY DEF Inv
<1> /\ UNCHANGED <<moduleVars, recordVars, decisionVars>>
    /\ UNCHANGED nextReplicationId
  BY DEF Resolve, ResolveReplicationOutcome
<1>1. /\ replications[r].claimId # 0
      /\ replications[r].status = "Pending"
      /\ s \in AcceptedStatuses(ModuleKind[claims[replications[r].claimId].resolutionModule])
      /\ replications' = [replications EXCEPT ![r].status = s]
  BY DEF Resolve, ResolveReplicationOutcome, ReplicationExists, IsReplicationResolved
<1>2. /\ replications' \in [ReplicationIds -> ReplicationRecord]
      /\ \A q \in ReplicationIds : replications'[q].claimId = replications[q].claimId
      /\ \A q \in ReplicationIds \ {r} : replications'[q] = replications[q]
      /\ replications'[r].status = s
  BY <1>1 DEF TypeOK, ReplicationRecord
<1>3. s # "Pending"
  BY <1>1, AcceptedAreResolutions
<1>4. replicationDecisionId[r] = 0
  BY <1>1 DEF Inv, ResolutionsAccepted, IsReplicationResolved
<1>5. TypeOK'
  BY <1>2 DEF TypeOK
<1>6. Fresh'
  BY <1>1, <1>2 DEF Inv, Fresh, ZeroReplication
<1>7. ResolutionsAccepted'
  <2> SUFFICES ASSUME NEW q \in ReplicationIds
               PROVE  /\ replications'[q].claimId < nextClaimId
                      /\ replications'[q].status # "Pending" =>
                           /\ replications'[q].claimId # 0
                           /\ replications'[q].status \in AcceptedStatuses(
                                ModuleKind[claims[replications'[q].claimId].resolutionModule])
                      /\ replicationDecisionId[q] # 0 => replications'[q].status # "Pending"
    BY DEF ResolutionsAccepted, IsReplicationResolved, ReplicationExists
  <2>1. CASE q = r
    BY <1>1, <1>2, <1>3, <2>1 DEF Inv, ResolutionsAccepted
  <2>2. CASE q # r
    BY <1>2, <2>2 DEF Inv, ResolutionsAccepted, IsReplicationResolved, ReplicationExists
  <2> QED
    BY <2>1, <2>2
<1>8. DecisionFaithful'
  <2> SUFFICES ASSUME NEW d \in DecisionIds, d < nextResolutionDecisionId
               PROVE  replications'[decisions[d].replicationId]
                        = replications[decisions[d].replicationId]
    BY DEF Inv, DecisionFaithful
  <2>1. decisions[d].replicationId \in ReplicationIds
        /\ replicationDecisionId[decisions[d].replicationId] # 0
    BY DEF Inv, DecisionFaithful, DecisionIds
  <2> QED
    BY <1>2, <1>4, <2>1
<1>9. /\ (PointersRecorded /\ DecisionsEstablish /\ RequestsOwnClaims)'
      /\ (StatusExplained /\ PointersOrdered)'
  BY DEF Inv, PointersRecorded, DecisionsEstablish, RequestsOwnClaims, StatusExplained,
         PointersOrdered
<1> QED
  BY <1>5, <1>6, <1>7, <1>8, <1>9 DEF Inv

\* A status set by hand is no resolution, and Deprecated where a decision holds.
LEMMA SetClaimStatusKeepsInv ==
  ASSUME Inv, NEW c \in ClaimIds, NEW s \in ClaimStatus, NEW bondSatisfied \in BOOLEAN,
         SetClaimStatus(c, s, bondSatisfied)
  PROVE  Inv'
<1> USE DEF moduleVars, replicationVars, decisionVars
<1> TypeOK
  BY DEF Inv
<1> /\ UNCHANGED <<moduleVars, replicationVars, decisionVars>>
    /\ UNCHANGED <<nextClaimId, delegatedClaimRequestIds>>
  BY DEF SetClaimStatus
<1>1. /\ claims[c].claimId # 0
      /\ s \in AllowedTransition(claims[c].status) \ ResolutionDerived
      /\ claims' = [claims EXCEPT ![c].status = s]
  BY DEF SetClaimStatus, ClaimExists
<1>2. /\ claims' \in [ClaimIds -> ClaimRecord]
      /\ \A e \in ClaimIds \ {c} : claims'[e] = claims[e]
      /\ \A e \in ClaimIds : /\ claims'[e].resolutionModule = claims[e].resolutionModule
                             /\ claims'[e].revisionOfClaimId = claims[e].revisionOfClaimId
      /\ claims'[c].status = s
  BY <1>1 DEF TypeOK, ClaimRecord
<1>3. TypeOK'
  BY <1>2 DEF TypeOK
<1>4. Fresh'
  BY <1>1, <1>2 DEF Inv, Fresh, ZeroClaim
<1>5. (PointersRecorded /\ DecisionsEstablish /\ PointersOrdered)'
  BY DEF Inv, PointersRecorded, DecisionsEstablish, PointersOrdered
<1>6. ResolutionsAccepted'
  <2> SUFFICES ASSUME NEW r \in ReplicationIds, ReplicationExists(r)
               PROVE  claims'[replications[r].claimId].resolutionModule
                        = claims[replications[r].claimId].resolutionModule
    BY DEF Inv, ResolutionsAccepted, IsReplicationResolved, ReplicationExists
  <2> QED
    BY <1>2 DEF ReplicationExists, TypeOK, ReplicationRecord
<1>7. DecisionFaithful'
  <2> SUFFICES ASSUME NEW d \in DecisionIds, d < nextResolutionDecisionId
               PROVE  claims'[decisions[d].claimId].resolutionModule
                        = claims[decisions[d].claimId].resolutionModule
    BY DEF Inv, DecisionFaithful
  <2> DEFINE r == decisions[d].replicationId
  <2>1. /\ r \in ReplicationIds /\ replicationDecisionId[r] # 0
        /\ replications[r].claimId = decisions[d].claimId
    BY DEF Inv, DecisionFaithful, DecisionIds
  <2>2. decisions[d].claimId \in ClaimIds
    BY <2>1 DEF Inv, ResolutionsAccepted, ReplicationExists, TypeOK, ReplicationRecord
  <2> QED
    BY <1>2, <2>2
<1>8. RequestsOwnClaims'
  <2> SUFFICES ASSUME NEW h \in RequestHashes, delegatedClaimRequestIds[h] # 0
               PROVE  claims'[delegatedClaimRequestIds[h]].revisionOfClaimId
                        = claims[delegatedClaimRequestIds[h]].revisionOfClaimId
    BY DEF Inv, RequestsOwnClaims
  <2> QED
    BY <1>2 DEF TypeOK
<1>9. StatusExplained'
  <2> SUFFICES ASSUME NEW e \in ClaimIds
               PROVE  IF effectiveClaimDecisionId[e] = 0
                      THEN claims'[e].status \notin ResolutionDerived
                      ELSE LET d == decisions[effectiveClaimDecisionId[e]]
                           IN d.claimId = e /\ claims'[e].status \in {d.claimStatus, "Deprecated"}
    BY DEF StatusExplained
  <2>1. CASE e # c
    BY <1>2, <2>1 DEF Inv, StatusExplained
  <2>2. CASE e = c /\ effectiveClaimDecisionId[c] = 0
    BY <1>1, <1>2, <2>2
  <2>3. CASE e = c /\ effectiveClaimDecisionId[c] # 0
    <3> DEFINE d == decisions[effectiveClaimDecisionId[c]]
    <3>1. d.claimId = c /\ claims[c].status \in {d.claimStatus, "Deprecated"}
      BY <2>3 DEF Inv, StatusExplained
    <3>2. d.claimStatus \in ResolutionDerived \cup {"UnderReplication"}
      BY <2>3 DEF Inv, DecisionsEstablish, PointersRecorded, TypeOK
    <3>3. claims[c].status # "Deprecated"
      BY <1>1, DeprecatedIsFinal
    <3>4. s = "Deprecated"
      BY <1>1, <3>1, <3>2, <3>3, OnlyDeprecatedByHand
    <3> QED
      BY <1>2, <2>3, <3>1, <3>4
  <2> QED
    BY <2>1, <2>2, <2>3
<1> QED
  BY <1>3, <1>4, <1>5, <1>6, <1>7, <1>8, <1>9 DEF Inv

\* What finalizeClaimResolution does, with the decision d it records named.
LEMMA FinalizeFacts ==
  ASSUME Inv, NEW c \in ClaimIds, NEW r \in ReplicationIds, FinalizeClaimResolution(c, r),
         NEW d, d = nextResolutionDecisionId,
         NEW s, s = ClaimStatusForResolution(replications[r].status)
  PROVE  /\ d \in DecisionIds /\ nextResolutionDecisionId' = d + 1
         /\ decisions[d] = ZeroDecision
         /\ replications[r].claimId = c /\ replications[r].status \in ResolutionStatus \ {"Pending"}
         /\ replicationDecisionId[r] = 0
         /\ c < nextClaimId
         /\ s \in ResolutionDerived \cup {"UnderReplication"} /\ s \in ClaimStatus
         /\ decisions' = [decisions EXCEPT ![d] =
              [claimId |-> c, replicationId |-> r, status |-> replications[r].status,
               claimStatus |-> s, resolutionModule |-> claims[c].resolutionModule]]
         /\ latestClaimDecisionId' = [latestClaimDecisionId EXCEPT ![c] = d]
         /\ replicationDecisionId' = [replicationDecisionId EXCEPT ![r] = d]
         /\ \/ /\ Advances(claims[c].status, s)
               /\ claims' = [claims EXCEPT ![c].status = s]
               /\ effectiveClaimDecisionId' = [effectiveClaimDecisionId EXCEPT ![c] = d]
            \/ /\ Confirms(c, s)
               /\ claims' = claims
               /\ effectiveClaimDecisionId' = [effectiveClaimDecisionId EXCEPT ![c] = d]
            \/ claims' = claims /\ effectiveClaimDecisionId' = effectiveClaimDecisionId
         /\ UNCHANGED <<moduleVars, replicationVars, nextClaimId, delegatedClaimRequestIds>>
<1> TypeOK
  BY DEF Inv
<1>1. d \in DecisionIds /\ nextResolutionDecisionId' = d + 1
  BY ClaimAssumption DEF TypeOK, FinalizeClaimResolution, RecordDecision, DecisionIds
<1>2. decisions[d] = ZeroDecision
  BY <1>1 DEF Inv, Fresh, TypeOK, DecisionIds
<1>3. /\ replications[r].claimId = c /\ replications[r].status \in ResolutionStatus \ {"Pending"}
      /\ replicationDecisionId[r] = 0
  BY DEF FinalizeClaimResolution, Finalizable, IsReplicationResolved, TypeOK, ReplicationRecord
<1>4. c < nextClaimId
  BY DEF Inv, Fresh, FinalizeClaimResolution, Finalizable, ClaimExists, ZeroClaim, TypeOK, ClaimIds
<1>5. s \in ResolutionDerived \cup {"UnderReplication"} /\ s \in ClaimStatus
  BY <1>3, ResolutionsEstablish, ResolutionDerivedStatuses
<1>6. /\ decisions' = [decisions EXCEPT ![d] =
           [claimId |-> c, replicationId |-> r, status |-> replications[r].status,
            claimStatus |-> s, resolutionModule |-> claims[c].resolutionModule]]
      /\ latestClaimDecisionId' = [latestClaimDecisionId EXCEPT ![c] = d]
      /\ replicationDecisionId' = [replicationDecisionId EXCEPT ![r] = d]
  BY DEF FinalizeClaimResolution, RecordDecision
<1>7. \/ /\ Advances(claims[c].status, s)
         /\ claims' = [claims EXCEPT ![c].status = s]
         /\ effectiveClaimDecisionId' = [effectiveClaimDecisionId EXCEPT ![c] = d]
      \/ /\ Confirms(c, s)
         /\ claims' = claims
         /\ effectiveClaimDecisionId' = [effectiveClaimDecisionId EXCEPT ![c] = d]
      \/ claims' = claims /\ effectiveClaimDecisionId' = effectiveClaimDecisionId
  BY DEF FinalizeClaimResolution
<1>8. UNCHANGED <<moduleVars, replicationVars, nextClaimId, delegatedClaimRequestIds>>
  BY DEF FinalizeClaimResolution
<1> QED
  BY <1>1, <1>2, <1>3, <1>4, <1>5, <1>6, <1>7, <1>8

\* A decision is recorded at the fresh id and copies its replication; if it
\* becomes effective, the status of the claim is what it says.
LEMMA FinalizeKeepsInv ==
  ASSUME Inv, NEW c \in ClaimIds, NEW r \in ReplicationIds, FinalizeClaimResolution(c, r)
  PROVE  Inv'
<1> DEFINE d == nextResolutionDecisionId
           s == ClaimStatusForResolution(replications[r].status)
<1> USE DEF moduleVars, replicationVars
<1> TypeOK
  BY DEF Inv
<1> UNCHANGED <<moduleVars, replicationVars, nextClaimId, delegatedClaimRequestIds>>
  BY DEF FinalizeClaimResolution
<1>1. /\ d \in DecisionIds /\ nextResolutionDecisionId' = d + 1
      /\ decisions[d] = ZeroDecision
      /\ replications[r].claimId = c /\ replications[r].status \in ResolutionStatus \ {"Pending"}
      /\ replicationDecisionId[r] = 0
      /\ c < nextClaimId
      /\ s \in ResolutionDerived \cup {"UnderReplication"} /\ s \in ClaimStatus
  BY FinalizeFacts
<1>2. /\ decisions' = [decisions EXCEPT ![d] =
           [claimId |-> c, replicationId |-> r, status |-> replications[r].status,
            claimStatus |-> s, resolutionModule |-> claims[c].resolutionModule]]
      /\ latestClaimDecisionId' = [latestClaimDecisionId EXCEPT ![c] = d]
      /\ replicationDecisionId' = [replicationDecisionId EXCEPT ![r] = d]
  BY FinalizeFacts
<1>3. \/ /\ Advances(claims[c].status, s)
         /\ claims' = [claims EXCEPT ![c].status = s]
         /\ effectiveClaimDecisionId' = [effectiveClaimDecisionId EXCEPT ![c] = d]
      \/ /\ Confirms(c, s)
         /\ claims' = claims
         /\ effectiveClaimDecisionId' = [effectiveClaimDecisionId EXCEPT ![c] = d]
      \/ claims' = claims /\ effectiveClaimDecisionId' = effectiveClaimDecisionId
  BY FinalizeFacts
<1> HIDE DEF d, s
<1>4. /\ claims' \in [ClaimIds -> ClaimRecord]
      /\ \A e \in ClaimIds \ {c} : claims'[e] = claims[e]
      /\ \A e \in ClaimIds : /\ claims'[e].resolutionModule = claims[e].resolutionModule
                             /\ claims'[e].revisionOfClaimId = claims[e].revisionOfClaimId
  BY <1>1, <1>3 DEF TypeOK, ClaimRecord
<1>5. /\ effectiveClaimDecisionId' \in [ClaimIds -> DecisionIds \cup {0}]
      /\ \A e \in ClaimIds \ {c} : effectiveClaimDecisionId'[e] = effectiveClaimDecisionId[e]
      /\ effectiveClaimDecisionId'[c] \in {d, effectiveClaimDecisionId[c]}
  BY <1>1, <1>3 DEF TypeOK
<1>6. [claimId |-> c, replicationId |-> r, status |-> replications[r].status,
       claimStatus |-> s, resolutionModule |-> claims[c].resolutionModule] \in ResolutionDecision
  BY <1>1 DEF TypeOK, ResolutionDecision, ClaimRecord
<1>7. /\ decisions' \in [DecisionIds -> ResolutionDecision]
      /\ \A e \in DecisionIds \ {d} : decisions'[e] = decisions[e]
      /\ decisions'[d].claimId = c
      /\ decisions'[d].replicationId = r
      /\ decisions'[d].status = replications[r].status
      /\ decisions'[d].claimStatus = s
  BY <1>1, <1>2, <1>6 DEF TypeOK
<1>8. d = nextResolutionDecisionId /\ s = ClaimStatusForResolution(replications[r].status)
  BY DEF d, s
<1>9. TypeOK'
  <2>1. nextResolutionDecisionId' \in 1 .. MaxDecisions + 1
    BY <1>1, ClaimAssumption DEF DecisionIds
  <2>2. /\ latestClaimDecisionId' \in [ClaimIds -> DecisionIds \cup {0}]
        /\ replicationDecisionId' \in [ReplicationIds -> DecisionIds \cup {0}]
    BY <1>1, <1>2 DEF TypeOK
  <2> QED
    BY <1>4, <1>5, <1>7, <2>1, <2>2 DEF TypeOK
<1>10. Fresh'
  <2>1. \A e \in DecisionIds : e >= nextResolutionDecisionId' => e # d /\ e >= d
    BY <1>1 DEF DecisionIds
  <2>2. \A e \in DecisionIds : e >= nextResolutionDecisionId' => decisions'[e] = ZeroDecision
    BY <1>7, <1>8, <2>1 DEF Inv, Fresh
  <2>3. \A e \in ClaimIds : e >= nextClaimId => e # c
    BY <1>1 DEF TypeOK, ClaimIds
  <2> QED
    BY <1>4, <1>5, <2>2, <2>3 DEF Inv, Fresh
<1>11. PointersRecorded'
  <2>1. d < nextResolutionDecisionId' /\ \A e \in DecisionIds \cup {0} : e < d => e < nextResolutionDecisionId'
    BY <1>1 DEF DecisionIds
  <2>2. \A e \in ClaimIds : /\ latestClaimDecisionId'[e] \in {d, latestClaimDecisionId[e]}
                            /\ effectiveClaimDecisionId'[e] \in {d, effectiveClaimDecisionId[e]}
    BY <1>2, <1>5 DEF TypeOK
  <2>3. \A q \in ReplicationIds : replicationDecisionId'[q] \in {d, replicationDecisionId[q]}
    BY <1>2 DEF TypeOK
  <2> QED
    BY <1>8, <2>1, <2>2, <2>3 DEF Inv, PointersRecorded, TypeOK
<1>12. ResolutionsAccepted'
  <2> SUFFICES ASSUME NEW q \in ReplicationIds
               PROVE  /\ replications[q].claimId < nextClaimId
                      /\ replications[q].status # "Pending" =>
                           /\ replications[q].claimId # 0
                           /\ replications[q].status \in AcceptedStatuses(
                                ModuleKind[claims'[replications[q].claimId].resolutionModule])
                      /\ replicationDecisionId'[q] # 0 => replications[q].status # "Pending"
    BY DEF ResolutionsAccepted, IsReplicationResolved, ReplicationExists
  <2>1. replications[q].claimId \in ClaimIds \cup {0}
    BY DEF TypeOK, ReplicationRecord
  <2> QED
    BY <1>1, <1>2, <1>4, <2>1
    DEF Inv, ResolutionsAccepted, IsReplicationResolved, ReplicationExists, TypeOK
<1>13. DecisionsEstablish'
  BY <1>1, <1>7, <1>8 DEF Inv, DecisionsEstablish, DecisionIds
<1>14. RequestsOwnClaims'
  BY <1>4 DEF Inv, RequestsOwnClaims, TypeOK
<1>15. StatusExplained'
  <2> SUFFICES ASSUME NEW e \in ClaimIds
               PROVE  IF effectiveClaimDecisionId'[e] = 0
                      THEN claims'[e].status \notin ResolutionDerived
                      ELSE LET f == decisions'[effectiveClaimDecisionId'[e]]
                           IN f.claimId = e /\ claims'[e].status \in {f.claimStatus, "Deprecated"}
    BY DEF StatusExplained
  <2>1. CASE claims'[e] = claims[e] /\ effectiveClaimDecisionId'[e] = effectiveClaimDecisionId[e]
    <3>1. effectiveClaimDecisionId[e] # d /\ effectiveClaimDecisionId[e] \in DecisionIds \cup {0}
      BY <1>8 DEF Inv, PointersRecorded, TypeOK, DecisionIds
    <3> QED
      BY <1>7, <2>1, <3>1 DEF Inv, StatusExplained
  <2>2. CASE e = c /\ effectiveClaimDecisionId' = [effectiveClaimDecisionId EXCEPT ![c] = d]
    <3>1. effectiveClaimDecisionId'[c] = d /\ d # 0
      BY <1>1, <2>2 DEF TypeOK, DecisionIds
    <3>2. claims'[c].status = s \/ effectiveClaimDecisionId' = effectiveClaimDecisionId
      BY <1>3 DEF Confirms, TypeOK, ClaimRecord
    <3>3. effectiveClaimDecisionId' # effectiveClaimDecisionId
      BY <1>8, <3>1 DEF Inv, PointersRecorded, TypeOK, DecisionIds
    <3> QED
      BY <1>7, <2>2, <3>1, <3>2, <3>3
  <2> QED
    BY <1>3, <1>4, <1>5, <2>1, <2>2
<1>16. DecisionFaithful'
  <2> SUFFICES ASSUME NEW e \in DecisionIds, e < nextResolutionDecisionId'
               PROVE  /\ decisions'[e].replicationId \in ReplicationIds
                      /\ replicationDecisionId'[decisions'[e].replicationId] = e
                      /\ replications[decisions'[e].replicationId].claimId = decisions'[e].claimId
                      /\ replications[decisions'[e].replicationId].status = decisions'[e].status
                      /\ decisions'[e].claimStatus = ClaimStatusForResolution(decisions'[e].status)
                      /\ decisions'[e].status \in AcceptedStatuses(
                           ModuleKind[claims'[decisions'[e].claimId].resolutionModule])
    BY DEF DecisionFaithful
  <2>1. CASE e = d
    <3>1. replications[r].status \in AcceptedStatuses(ModuleKind[claims[c].resolutionModule])
      BY <1>1 DEF Inv, ResolutionsAccepted, IsReplicationResolved
    <3> QED
      BY <1>1, <1>2, <1>4, <1>7, <1>8, <2>1, <3>1 DEF TypeOK
  <2>2. CASE e # d
    <3>1. e < nextResolutionDecisionId /\ decisions'[e] = decisions[e]
      BY <1>1, <1>7, <1>8, <2>2 DEF DecisionIds, TypeOK
    <3> DEFINE q == decisions[e].replicationId
    <3>2. /\ q \in ReplicationIds /\ replicationDecisionId[q] = e /\ e # 0
          /\ replications[q].claimId = decisions[e].claimId
      BY <3>1 DEF Inv, DecisionFaithful, DecisionIds
    <3>3. decisions[e].claimId \in ClaimIds
      BY <3>2 DEF Inv, ResolutionsAccepted, ReplicationExists, TypeOK, ReplicationRecord
    <3>4. replicationDecisionId'[q] = e
      BY <1>1, <1>2, <3>2 DEF TypeOK
    <3> QED
      BY <1>4, <3>1, <3>2, <3>3, <3>4 DEF Inv, DecisionFaithful
  <2> QED
    BY <2>1, <2>2
<1>17. PointersOrdered'
  <2> SUFFICES ASSUME NEW e \in ClaimIds
               PROVE  /\ effectiveClaimDecisionId'[e] <= latestClaimDecisionId'[e]
                      /\ \A f \in DecisionIds :
                           f < nextResolutionDecisionId' /\ decisions'[f].claimId = e
                             => f <= latestClaimDecisionId'[e]
    BY DEF PointersOrdered
  <2>1. CASE e = c
    <3>1. latestClaimDecisionId'[c] = d
      BY <1>2 DEF TypeOK
    <3>2. effectiveClaimDecisionId'[c] <= d
      BY <1>1, <1>5, <1>8 DEF Inv, PointersRecorded, TypeOK, DecisionIds
    <3> QED
      BY <1>1, <1>8, <2>1, <3>1, <3>2 DEF DecisionIds
  <2>2. CASE e # c
    <3>1. latestClaimDecisionId'[e] = latestClaimDecisionId[e]
      BY <1>2, <2>2 DEF TypeOK
    <3> QED
      BY <1>1, <1>5, <1>7, <1>8, <2>2, <3>1 DEF Inv, PointersOrdered, DecisionIds, TypeOK
  <2> QED
    BY <2>1, <2>2
<1> QED
  BY <1>9, <1>10, <1>11, <1>12, <1>13, <1>14, <1>15, <1>16, <1>17 DEF Inv

\* No step of the registries leaves the invariant.
LEMMA NextKeepsInv == Inv /\ [Next]_claimVars => Inv'
<1> SUFFICES ASSUME Inv, [Next]_claimVars PROVE Inv'
  OBVIOUS
<1>1. CASE ModuleAdministration
  BY <1>1, ModuleAdministrationKeepsInv
<1>2. CASE CreationStep
  <2>1. UNCHANGED <<moduleVars, replicationVars, decisionVars>>
    BY <1>2, CreationCases
  <2>2. CASE UNCHANGED recordVars
    <3>1. UNCHANGED claimVars
      BY <2>1, <2>2 DEF claimVars
    <3> QED
      BY <3>1 DEF Inv, TypeOK, Fresh, PointersRecorded, ResolutionsAccepted, DecisionsEstablish,
            RequestsOwnClaims, StatusExplained, DecisionFaithful, PointersOrdered,
            IsReplicationResolved, ReplicationExists,
            claimVars, moduleVars, replicationVars, recordVars, decisionVars
  <2>3. CASE \E a \in Actors, b \in Bonds, p \in ClaimIds \cup {0},
               m \in Modules \cup {NoModule} : Creates(a, b, p, m)
    BY <2>1, <2>3, CreationKeepsInv
  <2> QED
    BY <1>2, <2>2, <2>3, CreationCases
<1>3. CASE \E a \in Actors, c \in ClaimIds : Submit(a, c)
  BY <1>3, SubmitKeepsInv
<1>4. CASE \E r \in ReplicationIds, s \in ResolutionStatus : Resolve(r, s)
  BY <1>4, ResolveKeepsInv
<1>5. CASE \E c \in ClaimIds, r \in ReplicationIds : FinalizeClaimResolution(c, r)
  BY <1>5, FinalizeKeepsInv
<1>6. CASE \E c \in ClaimIds, s \in ClaimStatus, bondSatisfied \in BOOLEAN :
             SetClaimStatus(c, s, bondSatisfied)
  BY <1>6, SetClaimStatusKeepsInv
<1>7. CASE UNCHANGED claimVars
  BY <1>7 DEF Inv, TypeOK, Fresh, PointersRecorded, ResolutionsAccepted, DecisionsEstablish,
       RequestsOwnClaims, StatusExplained, DecisionFaithful, PointersOrdered,
       IsReplicationResolved, ReplicationExists,
       claimVars, moduleVars, replicationVars, recordVars, decisionVars
<1> QED
  BY <1>1, <1>2, <1>3, <1>4, <1>5, <1>6, <1>7 DEF Next, RegistryStep, EvidenceStep

\* The invariant holds in every state of the claim, replication and module
\* registries.
THEOREM Invariant == Spec => []Inv
<1>1. Init => Inv
  BY InitInv
<1>2. Inv /\ [Next]_claimVars => Inv'
  BY NextKeepsInv
<1> QED
  BY <1>1, <1>2, PTL DEF Spec

\* The registries are type correct.
THEOREM TypeCorrect == Spec => []TypeOK
<1>1. Inv => TypeOK
  BY DEF Inv
<1> QED
  BY <1>1, Invariant, PTL

\* The status of a claim is explained by its effective decision, whatever order
\* finalizeClaimResolution and setClaimStatus are called in.
THEOREM StatusIsExplained == Spec => []StatusExplained
<1>1. Inv => StatusExplained
  BY DEF Inv
<1> QED
  BY <1>1, Invariant, PTL

\* A decision remains a faithful copy of the one replication it was made from.
THEOREM DecisionsAreFaithful == Spec => []DecisionFaithful
<1>1. Inv => DecisionFaithful
  BY DEF Inv
<1> QED
  BY <1>1, Invariant, PTL

\* The evidence tail of a claim is its newest decision and the settlement pointer
\* never passes it.
THEOREM PointersStayOrdered == Spec => []PointersOrdered
<1>1. Inv => PointersOrdered
  BY DEF Inv
<1> QED
  BY <1>1, Invariant, PTL

(***************************************************************************)
(* Action properties.                                                      *)
(***************************************************************************)

\* A step leaves the status of an existing claim, or makes it one that
\* _isAllowedTransition names; the effective decision stays or becomes the next.
LEMMA StatusSteps ==
  ASSUME Inv, [Next]_claimVars, NEW c \in ClaimIds
  PROVE  /\ ClaimExists(c) => \/ claims'[c].status = claims[c].status
                              \/ claims'[c].status \in AllowedTransition(claims[c].status)
         /\ \/ effectiveClaimDecisionId'[c] = effectiveClaimDecisionId[c]
            \/ effectiveClaimDecisionId'[c] = nextResolutionDecisionId
<1> USE DEF moduleVars, replicationVars, recordVars, decisionVars
<1> TypeOK
  BY DEF Inv
<1>1. CASE UNCHANGED <<claims, effectiveClaimDecisionId>>
  BY <1>1
<1>2. CASE CreationStep
  <2>1. CASE UNCHANGED recordVars
    BY <1>2, <2>1, CreationCases
  <2>2. CASE \E a \in Actors, b \in Bonds, p \in ClaimIds \cup {0},
               m \in Modules \cup {NoModule} : Creates(a, b, p, m)
    <3>1. UNCHANGED effectiveClaimDecisionId
      BY <1>2, CreationCases
    <3>2. c # nextClaimId => claims'[c] = claims[c]
      BY <2>2 DEF Creates, NewClaim, TypeOK
    <3>3. ~ClaimExists(nextClaimId)
      BY <2>2, ReplicationAssumption
      DEF Inv, Fresh, Creates, NewClaim, TypeOK, ClaimExists, ZeroClaim, ClaimIds
    <3> QED
      BY <3>1, <3>2, <3>3
  <2> QED
    BY <1>2, <2>1, <2>2, CreationCases
<1>3. CASE \E e \in ClaimIds, r \in ReplicationIds : FinalizeClaimResolution(e, r)
  <2>1. PICK e \in ClaimIds, r \in ReplicationIds : FinalizeClaimResolution(e, r)
    BY <1>3
  <2> DEFINE s == ClaimStatusForResolution(replications[r].status)
  <2>2. \/ claims' = claims
        \/ s \in AllowedTransition(claims[e].status) /\ claims' = [claims EXCEPT ![e].status = s]
    BY <2>1 DEF FinalizeClaimResolution, Advances
  <2>3. \/ effectiveClaimDecisionId' = effectiveClaimDecisionId
        \/ effectiveClaimDecisionId' = [effectiveClaimDecisionId EXCEPT ![e] = nextResolutionDecisionId]
    BY <2>1 DEF FinalizeClaimResolution
  <2> HIDE DEF s
  <2> QED
    BY <2>2, <2>3 DEF TypeOK, ClaimRecord
<1>4. CASE \E e \in ClaimIds, s \in ClaimStatus, bondSatisfied \in BOOLEAN :
             SetClaimStatus(e, s, bondSatisfied)
  BY <1>4 DEF SetClaimStatus, TypeOK, ClaimRecord
<1> QED
  BY <1>1, <1>2, <1>3, <1>4
  DEF Next, RegistryStep, EvidenceStep, ModuleAdministration, Submit, Resolve, claimVars

\* No call weakens the status of a claim or goes back to an earlier decision.
THEOREM StatusNeverWeakens == Spec => NeverWeakened
<1>1. ASSUME Inv, [Next]_claimVars, NEW c \in ClaimIds
      PROVE  /\ ClaimExists(c) => Strength(claims'[c].status) >= Strength(claims[c].status)
             /\ effectiveClaimDecisionId'[c] >= effectiveClaimDecisionId[c]
  <2>1. claims[c].status \in ClaimStatus
    BY <1>1 DEF Inv, TypeOK, ClaimRecord
  <2>2. \A s \in ClaimStatus : Strength(s) \in Int
    BY DEF ClaimStatus, Strength
  <2>3. \A t \in AllowedTransition(claims[c].status) :
          Strength(t) >= Strength(claims[c].status)
    BY <2>1, <2>2, TransitionsStrengthen
  <2>4. ClaimExists(c) => Strength(claims'[c].status) >= Strength(claims[c].status)
    BY <1>1, <2>1, <2>2, <2>3, StatusSteps
  <2>5. /\ effectiveClaimDecisionId[c] < nextResolutionDecisionId
        /\ effectiveClaimDecisionId[c] \in Int /\ nextResolutionDecisionId \in Int
    BY <1>1 DEF Inv, TypeOK, PointersRecorded, DecisionIds
  <2>6. effectiveClaimDecisionId'[c] >= effectiveClaimDecisionId[c]
    BY <1>1, <2>5, StatusSteps
  <2> QED
    BY <2>4, <2>6
<1>2. Inv /\ [Next]_claimVars =>
        [\A c \in ClaimIds :
           /\ ClaimExists(c) => Strength(claims'[c].status) >= Strength(claims[c].status)
           /\ effectiveClaimDecisionId'[c] >= effectiveClaimDecisionId[c]]_claimVars
  BY <1>1
<1> QED
  BY <1>2, Invariant, PTL DEF Spec, NeverWeakened

\* createClaimOnBehalfWithRequestHash makes one claim per request, ever.
THEOREM RequestsStayUsed == Spec => RequestsMakeOneClaim
<1>1. ASSUME Inv, [Next]_claimVars, NEW h \in RequestHashes, delegatedClaimRequestIds[h] # 0
      PROVE  delegatedClaimRequestIds'[h] = delegatedClaimRequestIds[h]
  <2> TypeOK
    BY <1>1 DEF Inv
  <2>1. CASE UNCHANGED delegatedClaimRequestIds
    BY <2>1
  <2>2. CASE CreationStep
    <3>1. CASE UNCHANGED recordVars
      BY <3>1 DEF recordVars
    <3>2. CASE \E a \in Actors, b \in Bonds, p \in ClaimIds \cup {0},
                 m \in Modules \cup {NoModule} : Creates(a, b, p, m)
      BY <1>1, <3>2 DEF Creates, TypeOK
    <3> QED
      BY <2>2, <3>1, <3>2, CreationCases
  <2> QED
    BY <1>1, <2>1, <2>2
    DEF Next, RegistryStep, EvidenceStep, ModuleAdministration, Submit, Resolve,
        FinalizeClaimResolution, SetClaimStatus, claimVars, recordVars
<1>2. ASSUME Inv', NEW h \in RequestHashes, delegatedClaimRequestIds'[h] # 0
      PROVE  /\ claims'[delegatedClaimRequestIds'[h]].revisionOfClaimId = 0
             /\ \A g \in RequestHashes \ {h} :
                  delegatedClaimRequestIds'[g] # delegatedClaimRequestIds'[h]
  BY <1>2 DEF Inv, RequestsOwnClaims
<1>3. Inv /\ Inv' /\ [Next]_claimVars =>
        [\A h \in RequestHashes :
           /\ delegatedClaimRequestIds[h] # 0
                => delegatedClaimRequestIds'[h] = delegatedClaimRequestIds[h]
           /\ delegatedClaimRequestIds'[h] # 0 =>
                /\ claims'[delegatedClaimRequestIds'[h]].revisionOfClaimId = 0
                /\ \A g \in RequestHashes \ {h} :
                     delegatedClaimRequestIds'[g] # delegatedClaimRequestIds'[h]]_claimVars
  BY <1>1, <1>2
<1> QED
  BY <1>3, Invariant, PTL DEF Spec, RequestsMakeOneClaim

(***************************************************************************)
(* The registry implements ClaimView.                                      *)
(***************************************************************************)

\* The deployed registry shows the initial view.
LEMMA InitImplementsView == Init => View!ViewInit
BY DEF Init, View!ViewInit, View!NoOutcome, ZeroClaim, ZeroDecision

\* A new claim was already seen as a draft.
LEMMA CreationIsUnseen ==
  ASSUME Inv, CreationStep
  PROVE  UNCHANGED View!viewVars
<1> USE DEF moduleVars, replicationVars, recordVars, decisionVars
<1>1. UNCHANGED <<decisions, effectiveClaimDecisionId>>
  BY CreationCases
<1>2. CASE UNCHANGED claims
  BY <1>1, <1>2 DEF View!viewVars
<1>3. CASE \E a \in Actors, b \in Bonds, p \in ClaimIds \cup {0},
             m \in Modules \cup {NoModule} : Creates(a, b, p, m)
  <2>1. nextClaimId \in ClaimIds /\ claims[nextClaimId].status = "Draft"
    BY <1>3, ReplicationAssumption
    DEF Inv, Fresh, TypeOK, Creates, NewClaim, ZeroClaim, ClaimIds
  <2>2. \A c \in ClaimIds : claims'[c].status = claims[c].status
    BY <1>3, <2>1 DEF Inv, TypeOK, Creates, NewClaim
  <2> QED
    BY <1>1, <2>2 DEF View!viewVars
<1> QED
  BY <1>2, <1>3, CreationCases

\* A status set by hand is a move of the view.
LEMMA SetClaimStatusIsAMove ==
  ASSUME Inv, NEW c \in ClaimIds, NEW s \in ClaimStatus, NEW bondSatisfied \in BOOLEAN,
         SetClaimStatus(c, s, bondSatisfied)
  PROVE  View!MoveByHand(c) \/ View!Deprecate(c)
<1> DEFINE seen == [e \in ClaimIds |-> claims[e].status]
<1> TypeOK
  BY DEF Inv
<1>1. /\ s \in AllowedTransition(claims[c].status) \ ResolutionDerived
      /\ claims' = [claims EXCEPT ![c].status = s]
      /\ UNCHANGED <<decisions, effectiveClaimDecisionId>>
  BY DEF SetClaimStatus, decisionVars
<1>2. claims[c].status \in ClaimStatus
  BY DEF TypeOK, ClaimRecord
<1>3. [e \in ClaimIds |-> claims'[e].status] = [seen EXCEPT ![c] = s]
  BY <1>1 DEF TypeOK, ClaimRecord
<1>4. CASE s = "Deprecated"
  <2>1. claims[c].status # "Deprecated"
    BY <1>1, DeprecatedIsFinal
  <2> QED
    BY <1>1, <1>3, <1>4, <2>1 DEF View!Deprecate
<1>5. CASE s # "Deprecated"
  <2>1. effectiveClaimDecisionId[c] = 0
    <3> SUFFICES ASSUME effectiveClaimDecisionId[c] # 0 PROVE FALSE
      BY DEF TypeOK
    <3> DEFINE d == decisions[effectiveClaimDecisionId[c]]
    <3>1. claims[c].status \in {d.claimStatus, "Deprecated"}
      BY DEF Inv, StatusExplained
    <3>2. d.claimStatus \in ResolutionDerived \cup {"UnderReplication"}
      BY DEF Inv, DecisionsEstablish, PointersRecorded, TypeOK
    <3> QED
      BY <1>1, <1>5, <3>1, <3>2, DeprecatedIsFinal, OnlyDeprecatedByHand
  <2>2. s \in {"Published", "UnderReplication"}
    BY <1>1, <1>2, <1>5, TransitionsStrengthen DEF ClaimStatus, ResolutionDerived
  <2>3. s \in View!AllowedTransition(claims[c].status)
    BY <1>1 DEF AllowedTransition, View!AllowedTransition, ResolutionDerived, View!ResolutionDerived
  <2> QED
    BY <1>1, <1>3, <2>1, <2>2, <2>3 DEF View!MoveByHand
<1> QED
  BY <1>4, <1>5

\* The transition graph of the view is the contract's, and so are the statuses a
\* resolution recommends.
LEMMA SameGraph ==
  /\ \A s : View!AllowedTransition(s) = AllowedTransition(s)
  /\ \A r : View!ClaimStatusForResolution(r) = ClaimStatusForResolution(r)
  /\ View!ResolutionStatus = ResolutionStatus
BY DEF AllowedTransition, View!AllowedTransition, ResolutionDerived, View!ResolutionDerived,
       ClaimStatusForResolution, View!ClaimStatusForResolution,
       ResolutionStatus, View!ResolutionStatus

\* Finalizing a replication is a decision of the view, effective or not.
LEMMA FinalizeIsADecision ==
  ASSUME Inv, NEW c \in ClaimIds, NEW r \in ReplicationIds, FinalizeClaimResolution(c, r)
  PROVE  View!DecideEffectively(c) \/ View!DecideWithoutEffect(c)
<1> DEFINE d == nextResolutionDecisionId
           q == replications[r].status
           s == ClaimStatusForResolution(q)
           seen == [e \in ClaimIds |-> claims[e].status]
           said == [e \in DecisionIds |-> <<decisions[e].claimId, decisions[e].status>>]
<1> TypeOK
  BY DEF Inv
<1>1. d \in DecisionIds /\ decisions[d] = ZeroDecision /\ q \in ResolutionStatus \ {"Pending"}
  BY FinalizeFacts
<1>2. decisions' = [decisions EXCEPT ![d] =
        [claimId |-> c, replicationId |-> r, status |-> q, claimStatus |-> s,
         resolutionModule |-> claims[c].resolutionModule]]
  BY FinalizeFacts
<1>3. \/ /\ Advances(claims[c].status, s)
         /\ claims' = [claims EXCEPT ![c].status = s]
         /\ effectiveClaimDecisionId' = [effectiveClaimDecisionId EXCEPT ![c] = d]
      \/ /\ Confirms(c, s)
         /\ claims' = claims
         /\ effectiveClaimDecisionId' = [effectiveClaimDecisionId EXCEPT ![c] = d]
      \/ claims' = claims /\ effectiveClaimDecisionId' = effectiveClaimDecisionId
  BY FinalizeFacts
<1>4. \A e \in DecisionIds : e < d \/ decisions[e] = ZeroDecision
  BY <1>1 DEF Inv, Fresh, DecisionIds
<1> HIDE DEF d, q, s
<1>5. /\ said[d] = View!NoOutcome
      /\ \A e \in DecisionIds : said[e] # View!NoOutcome => e < d
      /\ [e \in DecisionIds |-> <<decisions'[e].claimId, decisions'[e].status>>]
           = [said EXCEPT ![d] = <<c, q>>]
  <2>1. said[d] = View!NoOutcome
    BY <1>1 DEF ZeroDecision, View!NoOutcome
  <2>2. \A e \in DecisionIds : said[e] # View!NoOutcome => e < d
    BY <1>4 DEF ZeroDecision, View!NoOutcome
  <2>3. [e \in DecisionIds |-> <<decisions'[e].claimId, decisions'[e].status>>]
          = [said EXCEPT ![d] = <<c, q>>]
    BY <1>1, <1>2 DEF TypeOK
  <2> QED
    BY <2>1, <2>2, <2>3
<1>6. [e \in ClaimIds |-> claims'[e].status] = [seen EXCEPT ![c] = claims'[c].status]
  BY <1>3 DEF TypeOK, ClaimRecord
<1>7. CASE /\ Advances(claims[c].status, s)
           /\ claims' = [claims EXCEPT ![c].status = s]
           /\ effectiveClaimDecisionId' = [effectiveClaimDecisionId EXCEPT ![c] = d]
  <2>1. claims'[c].status = s /\ s \in AllowedTransition(claims[c].status)
    BY <1>7 DEF TypeOK, ClaimRecord, Advances
  <2>2. View!DecideEffectively(c)
    BY <1>1, <1>5, <1>6, <1>7, <2>1, SameGraph DEF View!DecideEffectively, View!Recorded, s
  <2> QED
    BY <2>2
<1>8. CASE /\ Confirms(c, s)
           /\ claims' = claims
           /\ effectiveClaimDecisionId' = [effectiveClaimDecisionId EXCEPT ![c] = d]
  <2>1. claims'[c].status = s /\ s = claims[c].status /\ effectiveClaimDecisionId[c] = 0
    BY <1>8 DEF Confirms
  <2>2. View!DecideEffectively(c)
    BY <1>1, <1>5, <1>6, <1>8, <2>1, SameGraph DEF View!DecideEffectively, View!Recorded, s
  <2> QED
    BY <2>2
<1>9. CASE claims' = claims /\ effectiveClaimDecisionId' = effectiveClaimDecisionId
  <2>1. View!DecideWithoutEffect(c)
    BY <1>1, <1>5, <1>9, SameGraph DEF View!DecideWithoutEffect, View!Recorded
  <2> QED
    BY <2>1
<1> QED
  BY <1>3, <1>7, <1>8, <1>9

\* Every step of the registries is a step of the view or unseen by it.
LEMMA NextImplementsView == Inv /\ [Next]_claimVars => [View!ViewNext]_View!viewVars
<1> SUFFICES ASSUME Inv, [Next]_claimVars PROVE [View!ViewNext]_View!viewVars
  OBVIOUS
<1>1. CASE UNCHANGED <<claims, decisions, effectiveClaimDecisionId>>
  BY <1>1 DEF View!viewVars
<1>2. CASE CreationStep
  BY <1>2, CreationIsUnseen
<1>3. CASE \E c \in ClaimIds, r \in ReplicationIds : FinalizeClaimResolution(c, r)
  BY <1>3, FinalizeIsADecision DEF View!ViewNext
<1>4. CASE \E c \in ClaimIds, s \in ClaimStatus, bondSatisfied \in BOOLEAN :
             SetClaimStatus(c, s, bondSatisfied)
  BY <1>4, SetClaimStatusIsAMove DEF View!ViewNext
<1> QED
  BY <1>1, <1>2, <1>3, <1>4
  DEF Next, RegistryStep, EvidenceStep, ModuleAdministration, Submit, Resolve,
      claimVars, recordVars, decisionVars

\* The registries implement what ClaimView promises the contracts that settle
\* value against them.
THEOREM RegistryImplementsView == Spec => ViewSpec
<1>1. Init => View!ViewInit
  BY InitImplementsView
<1>2. Inv /\ [Next]_claimVars => [View!ViewNext]_View!viewVars
  BY NextImplementsView
<1> QED
  BY <1>1, <1>2, Invariant, PTL DEF Spec, ViewSpec, View!ViewSpec
=============================================================================
