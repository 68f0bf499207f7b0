---------------------------- MODULE MCBondEscrow ----------------------------
(* BondEscrow on small instances. *)
EXTENDS BondEscrow

CONSTANTS a1, a2, m1

MCModuleKind == [m \in Modules |-> "Benchmark"]

(* Either one claim with all its governance, or two claims and two         *)
(* replications under the governance of a deployment: one module, known    *)
(* and enabled, and a bond floor of zero; and no decisions.                *)
OneClaim ==
  nextClaimId' <= 2 /\ nextReplicationId' <= 2 /\ nextResolutionDecisionId' <= 2
Deployment ==
  /\ \/ nextClaimId' = 1
     \/ existing' = Modules /\ enabled' = Modules /\ domainModule' = m1
  /\ minAuthorBond' = 0 /\ nextResolutionDecisionId' = 1
  /\ \A c \in ClaimIds : claims'[c].requiredAuthorBond = 0

BoundedNext == EscrowedNext /\ (OneClaim \/ Deployment)
BoundedSpec == Init /\ EscrowInit /\ [][BoundedNext]_vars
=============================================================================
