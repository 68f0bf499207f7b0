------------------------ MODULE ReplicationRegistry ------------------------
(***************************************************************************)
(* contracts/ReplicationRegistry.sol: append-only replication records,     *)
(* resolved at most once.  The answers of the other contracts it calls     *)
(* (claimExists, the module bound to the claim) are parameters.  The       *)
(* hashes, URIs, confidence and agent attribution of a record only pass    *)
(* through and are left out; an unauthorized agent controller is refused,  *)
(* so a step is a call that was not.                                       *)
(*                                                                         *)
(* A definition whose name begins with Bug is one the model does not use:  *)
(* its neighbour with a defect the properties must notice.                 *)
(***************************************************************************)
EXTENDS ResolutionModuleRegistry

CONSTANTS
  Actors,          \* accounts that author claims and submit replications
  ZeroAddress,     \* address(0)
  MaxClaims,       \* bound: claims ever created
  MaxReplications  \* bound: replications ever submitted

ASSUME ReplicationAssumption ==
  /\ ZeroAddress \notin Actors
  /\ MaxClaims \in Nat /\ MaxReplications \in Nat

ClaimIds == 1 .. MaxClaims
ReplicationIds == 1 .. MaxReplications

VARIABLES
  replications,      \* _replications, by id
  nextReplicationId

replicationVars == <<replications, nextReplicationId>>

\* An entry of the mapping nobody has written to: claimId stands for the
\* record's own id too, both are nonzero exactly in a submitted replication.
\* resolvedAt is nonzero exactly when the status is not Pending.
ZeroReplication ==
  [claimId |-> 0, replicator |-> ZeroAddress, status |-> "Pending"]

ReplicationRecord ==
  [claimId : ClaimIds \cup {0}, replicator : Actors \cup {ZeroAddress},
   status : ResolutionStatus]

ReplicationExists(r) == replications[r].claimId # 0
IsReplicationResolved(r) == replications[r].status # "Pending"

ReplicationInit ==
  /\ replications = [r \in ReplicationIds |-> ZeroReplication]
  /\ nextReplicationId = 1

SubmitReplication(sender, c, claimExists) ==
  /\ nextReplicationId <= MaxReplications
  /\ claimExists
  /\ replications' =
       [replications EXCEPT ![nextReplicationId] =
          [claimId |-> c, replicator |-> sender, status |-> "Pending"]]
  /\ nextReplicationId' = nextReplicationId + 1

BugResolveReplicationOutcome(r, status, module) ==  \* a second time
  /\ ReplicationExists(r)
  /\ status \in AcceptedStatuses(ModuleKind[module])
  /\ replications' = [replications EXCEPT ![r].status = status]
  /\ UNCHANGED nextReplicationId

ResolveReplicationOutcome(r, status, module) ==
  /\ ReplicationExists(r)
  /\ ~IsReplicationResolved(r)
  /\ status \in AcceptedStatuses(ModuleKind[module])
  /\ replications' = [replications EXCEPT ![r].status = status]
  /\ UNCHANGED nextReplicationId
=============================================================================
