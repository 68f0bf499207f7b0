-------------------------- MODULE MCClaimRegistry --------------------------
(* ClaimRegistry on small instances. *)
EXTENDS ClaimRegistry

CONSTANTS a1, m1, m2, h1

\* One module that knows fraud signals and one that does not.
MCModuleKind == [m \in Modules |-> IF m = m1 THEN "WetLab" ELSE "Benchmark"]

(* Up to three replications of one claim ...                               *)
OneClaim == nextClaimId' <= 2 /\ delegatedClaimRequestIds'[h1] = 0
(* ... or two of two claims, with a delegated request and fewer outcomes.  *)
TwoClaims ==
  /\ nextReplicationId' <= 3
  /\ \A r \in ReplicationIds : replications'[r].status \in {"Pending", "Supported", "Refuted"}

BoundedNext == Next /\ (OneClaim \/ TwoClaims)
BoundedSpec == Init /\ [][BoundedNext]_claimVars
=============================================================================
