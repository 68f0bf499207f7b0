--------------------------- MODULE ProtocolTypes ---------------------------
(***************************************************************************)
(* The enumerations of contracts/libraries/ProtocolTypes.sol that the      *)
(* claim lifecycle turns on, the transition graph of a claim and the map   *)
(* from a replication's resolution to the claim status it recommends.      *)
(***************************************************************************)
EXTENDS Integers

ClaimStatus ==
  {"Draft", "Published", "UnderReplication", "ProvisionallySupported",
   "Qualified", "Refuted", "Fraudulent", "Deprecated"}

ResolutionStatus ==
  {"Pending", "Supported", "Qualified", "Inconclusive", "Refuted",
   "FraudSignal", "Escalated"}

\* The statuses only a recorded decision may establish.
ResolutionDerived ==
  {"ProvisionallySupported", "Qualified", "Refuted", "Fraudulent"}

\* The statuses of which no revision can be made.
TerminalStatus == {"Fraudulent", "Deprecated"}

(***************************************************************************)
(* _isAllowedTransition: the successors of every status.                   *)
(***************************************************************************)
AllowedTransition(from) ==
  CASE from = "Draft"            -> {"Published", "Deprecated"}
    [] from = "Published"        -> {"UnderReplication", "Qualified", "Deprecated"}
    [] from = "UnderReplication" -> ResolutionDerived \cup {"Deprecated"}
    [] from = "ProvisionallySupported" ->
         {"Qualified", "Refuted", "Fraudulent", "Deprecated"}
    [] from = "Qualified"        -> {"Refuted", "Fraudulent", "Deprecated"}
    [] from \in {"Refuted", "Fraudulent"} -> {"Deprecated"}
    [] OTHER                     -> {}

(***************************************************************************)
(* getClaimStatusForResolution; Pending is no resolution and reverts.      *)
(***************************************************************************)
ClaimStatusForResolution(status) ==
  CASE status = "Supported"   -> "ProvisionallySupported"
    [] status = "Qualified"   -> "Qualified"
    [] status = "Refuted"     -> "Refuted"
    [] status = "FraudSignal" -> "Fraudulent"
    [] OTHER                  -> "UnderReplication"

\* How strongly a status commits the protocol.  The contract keeps no such
\* number: "a later or weaker replication must not erase a stronger/terminal
\* state" (finalizeClaimResolution) is stated with it.
Strength(status) ==
  CASE status = "Draft"                  -> 0
    [] status = "Published"              -> 1
    [] status = "UnderReplication"       -> 2
    [] status = "ProvisionallySupported" -> 3
    [] status = "Qualified"              -> 4
    [] status \in {"Refuted", "Fraudulent"} -> 5
    [] OTHER                             -> 6
=============================================================================
