----------------------------- MODULE ClaimView -----------------------------
(***************************************************************************)
(* What the claim registry promises to the contracts and services that     *)
(* settle value against it: per claim, a status and the id of the          *)
(* EFFECTIVE decision, the one that established the status.                *)
(*                                                                         *)
(*  - decision ids are handed out in increasing order and a recorded       *)
(*    outcome never changes;                                               *)
(*  - until a first decision is effective, the status moves by hand and    *)
(*    never into a status that only evidence can establish;                *)
(*  - from then on the status is what the effective decision says,    *)
(*    which is replaced only by a later and stronger one, or Deprecated.   *)
(***************************************************************************)
EXTENDS ProtocolTypes

CONSTANTS ClaimIds, DecisionIds

ASSUME IdsAssumption ==
  /\ ClaimIds \subseteq Nat \ {0}
  /\ DecisionIds \subseteq Nat \ {0}

VARIABLES
  status,     \* [ClaimIds -> ClaimStatus]
  outcome,    \* [DecisionIds -> <<claim id, resolution status>> or NoOutcome]
  effective   \* [ClaimIds -> DecisionIds \cup {0}]

viewVars == <<status, outcome, effective>>

NoOutcome == <<0, "Pending">>

ViewInit ==
  /\ status = [c \in ClaimIds |-> "Draft"]
  /\ outcome = [d \in DecisionIds |-> NoOutcome]
  /\ effective = [c \in ClaimIds |-> 0]

\* A claim changes hands between a person's decisions, before any evidence.
MoveByHand(c) ==
  /\ effective[c] = 0
  /\ \E s \in {"Published", "UnderReplication"} :
        /\ s \in AllowedTransition(status[c])
        /\ status' = [status EXCEPT ![c] = s]
  /\ UNCHANGED <<outcome, effective>>

Deprecate(c) ==
  /\ status[c] # "Deprecated"
  /\ status' = [status EXCEPT ![c] = "Deprecated"]
  /\ UNCHANGED <<outcome, effective>>

\* The next decision id is given to a resolution r of claim c ...
Recorded(c, d, r) ==
  /\ outcome[d] = NoOutcome
  /\ \A e \in DecisionIds : outcome[e] # NoOutcome => e < d
  /\ outcome' = [outcome EXCEPT ![d] = <<c, r>>]

\* ... which either establishes the status of the claim ...
DecideEffectively(c) ==
  \E d \in DecisionIds, r \in ResolutionStatus \ {"Pending"} :
    LET s == ClaimStatusForResolution(r)
    IN /\ Recorded(c, d, r)
       /\ \/ s \in AllowedTransition(status[c])
          \/ s = status[c] /\ effective[c] = 0
       /\ status' = [status EXCEPT ![c] = s]
       /\ effective' = [effective EXCEPT ![c] = d]

\* ... or is only evidence.
DecideWithoutEffect(c) ==
  \E d \in DecisionIds, r \in ResolutionStatus \ {"Pending"} :
    /\ Recorded(c, d, r)
    /\ UNCHANGED <<status, effective>>

ViewNext ==
  \E c \in ClaimIds :
    MoveByHand(c) \/ Deprecate(c) \/ DecideEffectively(c) \/ DecideWithoutEffect(c)

ViewSpec == ViewInit /\ [][ViewNext]_viewVars
=============================================================================
