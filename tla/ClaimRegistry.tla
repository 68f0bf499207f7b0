--------------------------- MODULE ClaimRegistry ---------------------------
(***************************************************************************)
(* contracts/ClaimRegistry.sol with the two registries it calls and is     *)
(* called by.  A step is one successful transaction: a call that reverts   *)
(* changes nothing.  Callers hold the role the function asks for; which    *)
(* account that is makes no difference to the state.                       *)
(*                                                                         *)
(* The answer of BondEscrow.isAuthorBondSatisfied is arbitrary here and    *)
(* the escrow's balance in module BondEscrow.                              *)
(*                                                                         *)
(* A definition whose name begins with Bug is one the model does not use:  *)
(* its neighbour with a defect the properties must notice.                 *)
(***************************************************************************)
EXTENDS ReplicationRegistry

CONSTANTS
  RequestHashes,  \* commitments to signed, delegated creation requests
  MaxDecisions    \* bound: decisions ever recorded

ASSUME ClaimAssumption == MaxDecisions \in Nat

DecisionIds == 1 .. MaxDecisions

VARIABLES
  claims,                    \* _claims, by id
  nextClaimId,
  decisions,                 \* _decisions, by id
  nextResolutionDecisionId,
  latestClaimDecisionId,     \* _latestClaimDecisionId
  effectiveClaimDecisionId,  \* _effectiveClaimDecisionId
  replicationDecisionId,     \* _replicationDecisionId
  delegatedClaimRequestIds   \* _delegatedClaimRequestIds

recordVars == <<claims, nextClaimId, delegatedClaimRequestIds>>
decisionVars == <<decisions, nextResolutionDecisionId, latestClaimDecisionId,
                  effectiveClaimDecisionId, replicationDecisionId>>
claimVars == <<moduleVars, replicationVars, recordVars, decisionVars>>

\* Entries of the mappings nobody has written to.
ZeroClaim ==
  [claimId |-> 0, author |-> ZeroAddress, status |-> "Draft",
   revisionOfClaimId |-> 0, requiredAuthorBond |-> 0, resolutionModule |-> NoModule]
ZeroDecision ==
  [claimId |-> 0, replicationId |-> 0, status |-> "Pending", claimStatus |-> "Draft",
   resolutionModule |-> NoModule]

ClaimRecord ==
  [claimId : ClaimIds \cup {0}, author : Actors \cup {ZeroAddress},
   status : ClaimStatus, revisionOfClaimId : ClaimIds \cup {0},
   requiredAuthorBond : Bonds, resolutionModule : Modules \cup {NoModule}]
ResolutionDecision ==
  [claimId : ClaimIds \cup {0}, replicationId : ReplicationIds \cup {0},
   status : ResolutionStatus, claimStatus : ClaimStatus,
   resolutionModule : Modules \cup {NoModule}]

ClaimExists(c) == claims[c].claimId # 0

Init ==
  /\ ModuleInit
  /\ ReplicationInit
  /\ claims = [c \in ClaimIds |-> ZeroClaim]
  /\ nextClaimId = 1
  /\ decisions = [d \in DecisionIds |-> ZeroDecision]
  /\ nextResolutionDecisionId = 1
  /\ latestClaimDecisionId = [c \in ClaimIds |-> 0]
  /\ effectiveClaimDecisionId = [c \in ClaimIds |-> 0]
  /\ replicationDecisionId = [r \in ReplicationIds |-> 0]
  /\ delegatedClaimRequestIds = [h \in RequestHashes |-> 0]

(***************************************************************************)
(* Creation and revision.                                                  *)
(***************************************************************************)
ResolvedModule(requested) == IF requested = NoModule THEN domainModule ELSE requested

\* _createClaim
NewClaim(author, bond, priorClaimId, requestedModule) ==
  /\ nextClaimId <= MaxClaims
  /\ bond >= minAuthorBond
  /\ ResolvedModule(requestedModule) \in enabled
  /\ claims' = [claims EXCEPT ![nextClaimId] =
                  [claimId |-> nextClaimId, author |-> author, status |-> "Draft",
                   revisionOfClaimId |-> priorClaimId, requiredAuthorBond |-> bond,
                   resolutionModule |-> ResolvedModule(requestedModule)]]
  /\ nextClaimId' = nextClaimId + 1

CreateClaim(sender, bond, module) ==
  /\ NewClaim(sender, bond, 0, module)
  /\ UNCHANGED <<moduleVars, replicationVars, decisionVars, delegatedClaimRequestIds>>

CreateClaimOnBehalf(author, bond, module) ==
  /\ NewClaim(author, bond, 0, module)
  /\ UNCHANGED <<moduleVars, replicationVars, decisionVars, delegatedClaimRequestIds>>

BugCreateClaimOnBehalfWithRequestHash(author, bond, module, h) ==  \* a replay
  /\ NewClaim(author, bond, 0, module)
  /\ delegatedClaimRequestIds' = [delegatedClaimRequestIds EXCEPT ![h] = nextClaimId]
  /\ UNCHANGED <<moduleVars, replicationVars, decisionVars>>

\* A recorded hash returns the claim it made, whatever the call carries.
CreateClaimOnBehalfWithRequestHash(author, bond, module, h) ==
  /\ IF delegatedClaimRequestIds[h] # 0
     THEN UNCHANGED recordVars
     ELSE /\ NewClaim(author, bond, 0, module)
          /\ delegatedClaimRequestIds' = [delegatedClaimRequestIds EXCEPT ![h] = nextClaimId]
  /\ UNCHANGED <<moduleVars, replicationVars, decisionVars>>

ReviseClaim(sender, prior, bond, module) ==
  /\ ClaimExists(prior)
  /\ claims[prior].author = sender
  /\ claims[prior].status \notin TerminalStatus
  /\ NewClaim(sender, bond, prior, module)
  /\ UNCHANGED <<moduleVars, replicationVars, decisionVars, delegatedClaimRequestIds>>

(***************************************************************************)
(* Status and resolution.                                                  *)
(***************************************************************************)
BugSetStatusByHand(c, newStatus, bondSatisfied) ==  \* into a resolution status
  /\ ClaimExists(c)
  /\ newStatus \in AllowedTransition(claims[c].status)
  /\ newStatus = "Published" => bondSatisfied
  /\ claims' = [claims EXCEPT ![c].status = newStatus]
  /\ UNCHANGED <<moduleVars, replicationVars, decisionVars, nextClaimId,
                 delegatedClaimRequestIds>>

BugPublishUnbonded(c, newStatus, bondSatisfied) ==
  /\ ClaimExists(c)
  /\ newStatus \notin ResolutionDerived
  /\ newStatus \in AllowedTransition(claims[c].status)
  /\ claims' = [claims EXCEPT ![c].status = newStatus]
  /\ UNCHANGED <<moduleVars, replicationVars, decisionVars, nextClaimId,
                 delegatedClaimRequestIds>>

SetClaimStatus(c, newStatus, bondSatisfied) ==
  /\ ClaimExists(c)
  /\ newStatus \notin ResolutionDerived
  /\ newStatus \in AllowedTransition(claims[c].status)
  /\ newStatus = "Published" => bondSatisfied
  /\ claims' = [claims EXCEPT ![c].status = newStatus]
  /\ UNCHANGED <<moduleVars, replicationVars, decisionVars, nextClaimId,
                 delegatedClaimRequestIds>>

BugAdvances(oldStatus, decisionStatus) == decisionStatus # oldStatus  \* backwards too

\* A decision that is a forward transition of the claim's status ...
Advances(oldStatus, decisionStatus) ==
  decisionStatus # oldStatus /\ decisionStatus \in AllowedTransition(oldStatus)

BugConfirms(c, decisionStatus) == decisionStatus = claims[c].status  \* again and again

\* ... or that confirms it while no decision is effective.
Confirms(c, decisionStatus) ==
  decisionStatus = claims[c].status /\ effectiveClaimDecisionId[c] = 0

Finalizable(c, r) ==
  /\ ClaimExists(c)
  /\ ReplicationExists(r)
  /\ replications[r].claimId = c
  /\ IsReplicationResolved(r)
  /\ replicationDecisionId[r] = 0

BugRecordDecision(c, r) ==  \* the evidence tail left behind
  LET d == nextResolutionDecisionId
  IN /\ d <= MaxDecisions
     /\ nextResolutionDecisionId' = d + 1
     /\ decisions' = [decisions EXCEPT ![d] =
          [claimId |-> c, replicationId |-> r, status |-> replications[r].status,
           claimStatus |-> ClaimStatusForResolution(replications[r].status),
           resolutionModule |-> claims[c].resolutionModule]]
     /\ latestClaimDecisionId' = [latestClaimDecisionId EXCEPT ![c] = IF @ = 0 THEN d ELSE @]
     /\ replicationDecisionId' = [replicationDecisionId EXCEPT ![r] = d]

\* The decision copies the replication and becomes the claim's latest.
RecordDecision(c, r) ==
  LET d == nextResolutionDecisionId
  IN /\ d <= MaxDecisions
     /\ nextResolutionDecisionId' = d + 1
     /\ decisions' = [decisions EXCEPT ![d] =
          [claimId |-> c, replicationId |-> r, status |-> replications[r].status,
           claimStatus |-> ClaimStatusForResolution(replications[r].status),
           resolutionModule |-> claims[c].resolutionModule]]
     /\ latestClaimDecisionId' = [latestClaimDecisionId EXCEPT ![c] = d]
     /\ replicationDecisionId' = [replicationDecisionId EXCEPT ![r] = d]

FinalizeClaimResolution(c, r) ==
  LET decisionStatus == ClaimStatusForResolution(replications[r].status)
      advances == Advances(claims[c].status, decisionStatus)
  IN /\ Finalizable(c, r)
     /\ RecordDecision(c, r)
     /\ claims' = IF advances THEN [claims EXCEPT ![c].status = decisionStatus] ELSE claims
     /\ effectiveClaimDecisionId' =
          IF advances \/ Confirms(c, decisionStatus)
          THEN [effectiveClaimDecisionId EXCEPT ![c] = nextResolutionDecisionId]
          ELSE effectiveClaimDecisionId
     /\ UNCHANGED <<moduleVars, replicationVars, nextClaimId, delegatedClaimRequestIds>>

(***************************************************************************)
(* The calls of the other registries, on this state.                       *)
(***************************************************************************)
ModuleAdministration == ModuleStep /\ UNCHANGED <<replicationVars, recordVars, decisionVars>>

Submit(sender, c) ==
  /\ SubmitReplication(sender, c, ClaimExists(c))
  /\ UNCHANGED <<moduleVars, recordVars, decisionVars>>

Resolve(r, status) ==
  /\ ReplicationExists(r)
  /\ ResolveReplicationOutcome(r, status, claims[replications[r].claimId].resolutionModule)
  /\ UNCHANGED <<moduleVars, recordVars, decisionVars>>

CreationStep ==
  \E a \in Actors, b \in Bonds, m \in Modules \cup {NoModule} :
    \/ CreateClaim(a, b, m)
    \/ CreateClaimOnBehalf(a, b, m)
    \/ \E h \in RequestHashes : CreateClaimOnBehalfWithRequestHash(a, b, m, h)
    \/ \E p \in ClaimIds : ReviseClaim(a, p, b, m)

EvidenceStep ==
  \/ \E a \in Actors, c \in ClaimIds : Submit(a, c)
  \/ \E r \in ReplicationIds, s \in ResolutionStatus : Resolve(r, s)
  \/ \E c \in ClaimIds, r \in ReplicationIds : FinalizeClaimResolution(c, r)

\* Every step but the one that asks the escrow.
RegistryStep == ModuleAdministration \/ CreationStep \/ EvidenceStep

Next ==
  \/ RegistryStep
  \/ \E c \in ClaimIds, s \in ClaimStatus, bondSatisfied \in BOOLEAN :
       SetClaimStatus(c, s, bondSatisfied)

Spec == Init /\ [][Next]_claimVars

-----------------------------------------------------------------------------
(***************************************************************************)
(* Properties.                                                             *)
(***************************************************************************)

\* Every variable holds a value of its type.
TypeOK ==
  /\ existing \subseteq Modules /\ enabled \subseteq existing
  /\ domainModule \in Modules \cup {NoModule}
  /\ minAuthorBond \in Bonds
  /\ replications \in [ReplicationIds -> ReplicationRecord]
  /\ nextReplicationId \in 1 .. MaxReplications + 1
  /\ claims \in [ClaimIds -> ClaimRecord]
  /\ nextClaimId \in 1 .. MaxClaims + 1
  /\ decisions \in [DecisionIds -> ResolutionDecision]
  /\ nextResolutionDecisionId \in 1 .. MaxDecisions + 1
  /\ latestClaimDecisionId \in [ClaimIds -> DecisionIds \cup {0}]
  /\ effectiveClaimDecisionId \in [ClaimIds -> DecisionIds \cup {0}]
  /\ replicationDecisionId \in [ReplicationIds -> DecisionIds \cup {0}]
  /\ delegatedClaimRequestIds \in [RequestHashes -> ClaimIds \cup {0}]

\* The status of a claim is explained by its effective decision: with one, it is
\* that decision's outcome or Deprecated (setClaimStatus cannot undo evidence);
\* without one, it is a status no evidence is needed for.  finalizeClaimResolution
\* and setClaimStatus write the two independently, several transactions apart.
StatusExplained ==
  \A c \in ClaimIds :
    IF effectiveClaimDecisionId[c] = 0
    THEN claims[c].status \notin ResolutionDerived
    ELSE LET d == decisions[effectiveClaimDecisionId[c]]
         IN d.claimId = c /\ claims[c].status \in {d.claimStatus, "Deprecated"}

\* A decision is a faithful copy of the replication it was made from, still what
\* the replication says, of a kind the claim's module accepts; a replication backs
\* at most one decision.  The copy is made in one contract and the record kept,
\* and guarded against a second resolution, in another.
DecisionFaithful ==
  \A d \in DecisionIds : d < nextResolutionDecisionId =>
    LET r == decisions[d].replicationId
    IN /\ r \in ReplicationIds
       /\ replicationDecisionId[r] = d
       /\ replications[r].claimId = decisions[d].claimId
       /\ replications[r].status = decisions[d].status
       /\ decisions[d].claimStatus = ClaimStatusForResolution(decisions[d].status)
       /\ decisions[d].status
            \in AcceptedStatuses(ModuleKind[claims[decisions[d].claimId].resolutionModule])

\* The latest decision of a claim is its newest, and the effective one is never
\* newer: the evidence tail and the settlement pointer of
\* getLatestResolutionDecisionId / getEffectiveResolutionDecisionId cannot cross.
PointersOrdered ==
  \A c \in ClaimIds :
    /\ effectiveClaimDecisionId[c] <= latestClaimDecisionId[c]
    /\ \A d \in DecisionIds :
         d < nextResolutionDecisionId /\ decisions[d].claimId = c
           => d <= latestClaimDecisionId[c]

\* "A later or weaker replication must not erase a stronger/terminal state": no
\* step of any contract weakens the status of an existing claim, and the
\* effective decision is only ever replaced by a newer one.
NeverWeakened ==
  [][\A c \in ClaimIds :
       /\ ClaimExists(c) => Strength(claims'[c].status) >= Strength(claims[c].status)
       /\ effectiveClaimDecisionId'[c] >= effectiveClaimDecisionId[c]]_claimVars

\* A delegated request makes one claim, ever: its hash keeps the claim it was
\* given, and no two hashes and no revision share it.
RequestsMakeOneClaim ==
  [][\A h \in RequestHashes :
       /\ delegatedClaimRequestIds[h] # 0
            => delegatedClaimRequestIds'[h] = delegatedClaimRequestIds[h]
       /\ delegatedClaimRequestIds'[h] # 0 =>
            /\ claims'[delegatedClaimRequestIds'[h]].revisionOfClaimId = 0
            /\ \A g \in RequestHashes \ {h} :
                 delegatedClaimRequestIds'[g] # delegatedClaimRequestIds'[h]]_claimVars

(***************************************************************************)
(* What the registry promises its consumers: every step is a step of       *)
(* ClaimView under this mapping.                                           *)
(***************************************************************************)
View == INSTANCE ClaimView WITH
  status    <- [c \in ClaimIds |-> claims[c].status],
  outcome   <- [d \in DecisionIds |-> <<decisions[d].claimId, decisions[d].status>>],
  effective <- effectiveClaimDecisionId

\* The abstract specification, as a property of this one.
ViewSpec == View!ViewSpec
=============================================================================
