-------------------------- MODULE AppealsRegistry --------------------------
(***************************************************************************)
(* contracts/AppealsRegistry.sol over the claim registry: appeals carry a  *)
(* bond, which the court forfeits to the treasury or credits back.  A step *)
(* is a call whose transfers went through; that a named challenge is of    *)
(* the claim is a condition on the caller's input only.                    *)
(*                                                                         *)
(* A definition whose name begins with Bug is one the model does not use:  *)
(* its neighbour with a defect the properties must notice.                 *)
(***************************************************************************)
EXTENDS ClaimRegistry, Functions, FiniteSets

CONSTANTS
  MaxAppeals,    \* bound: appeals ever filed
  MaxAppealBond  \* bound: the bond of an appeal

ASSUME AppealAssumption ==
  /\ MaxAppeals \in Nat /\ MaxAppealBond \in Nat
  /\ IsFiniteSet(Actors)  \* an address has 160 bits

AppealIds == 1 .. MaxAppeals
AppealStatus == {"Filed", "Accepted", "Rejected", "Upheld", "Overturned", "Closed"}

VARIABLES
  appeals,                 \* _appeals, by id
  nextAppealId,
  refundableBondBalances,  \* by appellant
  appealBalance,           \* the contract's own balance
  appealDepositsPaused,
  forfeited,               \* history: value sent to forfeitRecipient
  withdrawn                \* history: value withdrawn, by account

appealVars == <<appeals, nextAppealId, refundableBondBalances, appealBalance,
                appealDepositsPaused, forfeited, withdrawn>>

\* adjudicatedAt is nonzero exactly when the status is not Filed.
NoAppeal == [claimId |-> 0, appellant |-> ZeroAddress, status |-> "Filed", bondAmount |-> 0]

AppealsInit ==
  /\ appeals = [i \in AppealIds |-> NoAppeal]
  /\ nextAppealId = 1
  /\ refundableBondBalances = [a \in Actors |-> 0]
  /\ appealBalance = 0
  /\ appealDepositsPaused = FALSE
  /\ forfeited = 0
  /\ withdrawn = [a \in Actors |-> 0]

\* About a claim and, unless r is 0, a replication of it.
FileAppeal(sender, c, r, amount) ==
  /\ ~appealDepositsPaused
  /\ nextAppealId <= MaxAppeals
  /\ ClaimExists(c)
  /\ r # 0 => replications[r].claimId = c
  /\ amount > 0
  /\ appeals' = [appeals EXCEPT ![nextAppealId] =
       [claimId |-> c, appellant |-> sender, status |-> "Filed", bondAmount |-> amount]]
  /\ nextAppealId' = nextAppealId + 1
  /\ appealBalance' = appealBalance + amount
  /\ UNCHANGED <<refundableBondBalances, appealDepositsPaused, forfeited, withdrawn>>

LosingStatus == {"Rejected", "Upheld"}

BugAdjudicateAppeal(i, status) ==  \* again
  /\ appeals[i].claimId # 0
  /\ status # "Filed"
  /\ appeals' = [appeals EXCEPT ![i].status = status]
  /\ IF status \in LosingStatus
     THEN /\ appealBalance' = appealBalance - appeals[i].bondAmount
          /\ forfeited' = forfeited + appeals[i].bondAmount
          /\ UNCHANGED refundableBondBalances
     ELSE /\ refundableBondBalances' =
               [refundableBondBalances EXCEPT ![appeals[i].appellant] = @ + appeals[i].bondAmount]
          /\ UNCHANGED <<appealBalance, forfeited>>
  /\ UNCHANGED <<nextAppealId, appealDepositsPaused, withdrawn>>

AdjudicateAppeal(i, status) ==
  /\ appeals[i].claimId # 0
  /\ appeals[i].status = "Filed"
  /\ status # "Filed"
  /\ appeals' = [appeals EXCEPT ![i].status = status]
  /\ IF status \in LosingStatus
     THEN /\ appealBalance' = appealBalance - appeals[i].bondAmount
          /\ forfeited' = forfeited + appeals[i].bondAmount
          /\ UNCHANGED refundableBondBalances
     ELSE /\ refundableBondBalances' =
               [refundableBondBalances EXCEPT ![appeals[i].appellant] = @ + appeals[i].bondAmount]
          /\ UNCHANGED <<appealBalance, forfeited>>
  /\ UNCHANGED <<nextAppealId, appealDepositsPaused, withdrawn>>

WithdrawRefundedBond(sender, amount) ==
  /\ amount > 0
  /\ amount <= refundableBondBalances[sender]
  /\ refundableBondBalances' = [refundableBondBalances EXCEPT ![sender] = @ - amount]
  /\ appealBalance' = appealBalance - amount
  /\ withdrawn' = [withdrawn EXCEPT ![sender] = @ + amount]
  /\ UNCHANGED <<appeals, nextAppealId, appealDepositsPaused, forfeited>>

SetAppealDepositsPaused(paused) ==
  /\ appealDepositsPaused' = paused
  /\ UNCHANGED <<appeals, nextAppealId, refundableBondBalances, appealBalance, forfeited,
                 withdrawn>>

AppealStep ==
  \/ \E a \in Actors, c \in ClaimIds, r \in ReplicationIds \cup {0}, n \in 1 .. MaxAppealBond :
       FileAppeal(a, c, r, n)
  \/ \E i \in AppealIds, s \in AppealStatus : AdjudicateAppeal(i, s)
  \/ \E a \in Actors, n \in 1 .. MaxAppeals * MaxAppealBond : WithdrawRefundedBond(a, n)
  \/ \E paused \in BOOLEAN : SetAppealDepositsPaused(paused)

AppealsNext ==
  \/ Next /\ UNCHANGED appealVars
  \/ AppealStep /\ UNCHANGED claimVars

AppealsSpec == Init /\ AppealsInit /\ [][AppealsNext]_<<claimVars, appealVars>>

-----------------------------------------------------------------------------
(***************************************************************************)
(* Properties.                                                             *)
(***************************************************************************)

BondsOf(S) == SumFunctionOnSet([i \in AppealIds |-> appeals[i].bondAmount], S)
Owned(a, statuses) == {i \in AppealIds : appeals[i].appellant = a /\ appeals[i].status \in statuses}

\* Every bond goes one way, once, by the verdict on its own appeal: what an
\* appellant withdrew or may withdraw is the bonds of the appeals that were not
\* lost, the treasury has those that were, and the contract holds the rest.
BondsFollowVerdicts ==
  /\ \A a \in Actors :
       withdrawn[a] + refundableBondBalances[a]
         = BondsOf(Owned(a, AppealStatus \ (LosingStatus \cup {"Filed"})))
  /\ forfeited = BondsOf({i \in AppealIds : appeals[i].status \in LosingStatus})
  /\ appealBalance = BondsOf({i \in AppealIds : appeals[i].status = "Filed"})
                     + SumFunctionOnSet(refundableBondBalances, Actors)
=============================================================================
