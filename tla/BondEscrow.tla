---------------------------- MODULE BondEscrow ----------------------------
(***************************************************************************)
(* contracts/BondEscrow.sol composed with the claim registry it guards:    *)
(* publication asks it for the author bond, and it asks the registries     *)
(* who the author and the replicator are and whether a replication is      *)
(* resolved.                                                               *)
(*                                                                         *)
(* A transfer that fails reverts the call, and so does a subtraction below *)
(* zero: a step is a call whose transfers and arithmetic went through.     *)
(* Reentrant calls are refused (nonReentrant) or find the state already    *)
(* written, so a call is one step.                                         *)
(*                                                                         *)
(* A definition whose name begins with Bug is one the model does not use:  *)
(* its neighbour with a defect the properties must notice.                 *)
(***************************************************************************)
EXTENDS ClaimRegistry, FiniteSets, Functions

CONSTANTS
  MaxFunds  \* bound: value ever sent into the escrow

ASSUME EscrowAssumption == MaxFunds \in Nat /\ IsFiniteSet(Actors)

Amounts == 1 .. MaxFunds

VARIABLES
  depositsPaused,
  authorBondBalances,      \* by claim
  authorRefundCredits,     \* by author
  bountyBalances,          \* by claim
  reservedBountyBalances,  \* by claim
  reservations,            \* by claim and replication
  escrowBalance,           \* the contract's own balance
  bondsDeposited,          \* history: bond ever deposited, by claim
  received                 \* history: value sent in

balanceVars == <<authorBondBalances, authorRefundCredits, bountyBalances,
                 reservedBountyBalances, reservations, escrowBalance, bondsDeposited, received>>
escrowVars == <<depositsPaused, balanceVars>>
vars == <<claimVars, escrowVars>>

NoReservation ==
  [recipient |-> ZeroAddress, amount |-> 0, released |-> FALSE, cancelled |-> FALSE]
BountyReservation ==
  [recipient : Actors \cup {ZeroAddress}, amount : 0 .. MaxFunds,
   released : BOOLEAN, cancelled : BOOLEAN]

IsAuthorBondSatisfied(c) == authorBondBalances[c] >= claims[c].requiredAuthorBond

Active(res) == res.amount # 0 /\ ~res.released /\ ~res.cancelled

EscrowInit ==
  /\ depositsPaused = FALSE
  /\ authorBondBalances = [c \in ClaimIds |-> 0]
  /\ authorRefundCredits = [a \in Actors |-> 0]
  /\ bountyBalances = [c \in ClaimIds |-> 0]
  /\ reservedBountyBalances = [c \in ClaimIds |-> 0]
  /\ reservations = [c \in ClaimIds |-> [r \in ReplicationIds |-> NoReservation]]
  /\ escrowBalance = 0
  /\ bondsDeposited = [c \in ClaimIds |-> 0]
  /\ received = 0

SetDepositsPaused(flag) ==
  /\ depositsPaused' = flag
  /\ UNCHANGED balanceVars

\* msg.value arriving with a deposit.
Receive(amount) ==
  /\ ~depositsPaused
  /\ received + amount <= MaxFunds
  /\ received' = received + amount
  /\ escrowBalance' = escrowBalance + amount

\* A transfer out; one the contract cannot cover reverts.
Pay(amount) ==
  /\ escrowBalance >= amount
  /\ escrowBalance' = escrowBalance - amount

DepositAuthorBond(sender, c, amount) ==
  /\ ClaimExists(c)
  /\ sender = claims[c].author
  /\ Receive(amount)
  /\ authorBondBalances' = [authorBondBalances EXCEPT ![c] = @ + amount]
  /\ bondsDeposited' = [bondsDeposited EXCEPT ![c] = @ + amount]
  /\ UNCHANGED <<depositsPaused, authorRefundCredits, bountyBalances,
                 reservedBountyBalances, reservations>>

FundReplicationBounty(c, amount) ==
  /\ ClaimExists(c)
  /\ Receive(amount)
  /\ bountyBalances' = [bountyBalances EXCEPT ![c] = @ + amount]
  /\ UNCHANGED <<depositsPaused, authorBondBalances, authorRefundCredits,
                 reservedBountyBalances, reservations, bondsDeposited>>

BugReserveTwice(c, r, amount) ==  \* again, once settled
  /\ ClaimExists(c)
  /\ ReplicationExists(r)
  /\ replications[r].claimId = c
  /\ ~Active(reservations[c][r])
  /\ bountyBalances[c] - reservedBountyBalances[c] >= amount
  /\ reservations' = [reservations EXCEPT ![c][r] =
       [recipient |-> replications[r].replicator, amount |-> amount,
        released |-> FALSE, cancelled |-> FALSE]]
  /\ reservedBountyBalances' = [reservedBountyBalances EXCEPT ![c] = @ + amount]
  /\ UNCHANGED <<depositsPaused, authorBondBalances, authorRefundCredits, bountyBalances,
                 escrowBalance, bondsDeposited, received>>

BugReserveReserved(c, r, amount) ==
  /\ ClaimExists(c)
  /\ ReplicationExists(r)
  /\ replications[r].claimId = c
  /\ reservations[c][r].amount = 0
  /\ bountyBalances[c] >= amount
  /\ reservations' = [reservations EXCEPT ![c][r].recipient = replications[r].replicator,
                                          ![c][r].amount = amount]
  /\ reservedBountyBalances' = [reservedBountyBalances EXCEPT ![c] = @ + amount]
  /\ UNCHANGED <<depositsPaused, authorBondBalances, authorRefundCredits, bountyBalances,
                 escrowBalance, bondsDeposited, received>>

ReserveBountyPayout(c, r, amount) ==
  /\ ClaimExists(c)
  /\ ReplicationExists(r)
  /\ replications[r].claimId = c
  /\ reservations[c][r].amount = 0
  /\ bountyBalances[c] - reservedBountyBalances[c] >= amount
  /\ reservations' = [reservations EXCEPT ![c][r].recipient = replications[r].replicator,
                                          ![c][r].amount = amount]
  /\ reservedBountyBalances' = [reservedBountyBalances EXCEPT ![c] = @ + amount]
  /\ UNCHANGED <<depositsPaused, authorBondBalances, authorRefundCredits, bountyBalances,
                 escrowBalance, bondsDeposited, received>>

BugReleaseReservedPayout(c, r) ==  \* before there is an outcome
  LET res == reservations[c][r]
  IN /\ Active(res)
     /\ reservations' = [reservations EXCEPT ![c][r].released = TRUE]
     /\ reservedBountyBalances' = [reservedBountyBalances EXCEPT ![c] = @ - res.amount]
     /\ bountyBalances' = [bountyBalances EXCEPT ![c] = @ - res.amount]
     /\ Pay(res.amount)
     /\ UNCHANGED <<depositsPaused, authorBondBalances, authorRefundCredits,
                    bondsDeposited, received>>

ReleaseReservedPayout(c, r) ==
  LET res == reservations[c][r]
  IN /\ Active(res)
     /\ IsReplicationResolved(r)
     /\ reservations' = [reservations EXCEPT ![c][r].released = TRUE]
     /\ reservedBountyBalances[c] >= res.amount /\ bountyBalances[c] >= res.amount
     /\ reservedBountyBalances' = [reservedBountyBalances EXCEPT ![c] = @ - res.amount]
     /\ bountyBalances' = [bountyBalances EXCEPT ![c] = @ - res.amount]
     /\ Pay(res.amount)
     /\ UNCHANGED <<depositsPaused, authorBondBalances, authorRefundCredits,
                    bondsDeposited, received>>

CancelReservedPayout(c, r) ==
  LET res == reservations[c][r]
  IN /\ Active(res)
     /\ reservedBountyBalances[c] >= res.amount
     /\ reservations' = [reservations EXCEPT ![c][r].cancelled = TRUE]
     /\ reservedBountyBalances' = [reservedBountyBalances EXCEPT ![c] = @ - res.amount]
     /\ UNCHANGED <<depositsPaused, authorBondBalances, authorRefundCredits, bountyBalances,
                    escrowBalance, bondsDeposited, received>>

\* To the treasury, fixed at deployment.
SlashAuthorBond(c, amount) ==
  /\ authorBondBalances[c] >= amount
  /\ authorBondBalances' = [authorBondBalances EXCEPT ![c] = @ - amount]
  /\ Pay(amount)
  /\ UNCHANGED <<depositsPaused, authorRefundCredits, bountyBalances,
                 reservedBountyBalances, reservations, bondsDeposited, received>>

RefundAuthorBond(c, amount) ==
  /\ ClaimExists(c)
  /\ authorBondBalances[c] >= amount
  /\ authorBondBalances' = [authorBondBalances EXCEPT ![c] = @ - amount]
  /\ authorRefundCredits' = [authorRefundCredits EXCEPT ![claims[c].author] = @ + amount]
  /\ UNCHANGED <<depositsPaused, bountyBalances, reservedBountyBalances, reservations,
                 escrowBalance, bondsDeposited, received>>

BugWithdrawAuthorBondRefund(sender, amount) ==  \* behind the switch
  /\ ~depositsPaused
  /\ authorRefundCredits[sender] >= amount
  /\ authorRefundCredits' = [authorRefundCredits EXCEPT ![sender] = @ - amount]
  /\ Pay(amount)
  /\ UNCHANGED <<depositsPaused, authorBondBalances, bountyBalances,
                 reservedBountyBalances, reservations, bondsDeposited, received>>

\* The author names the recipient, who does not matter to the escrow.
WithdrawAuthorBondRefund(sender, amount) ==
  /\ authorRefundCredits[sender] >= amount
  /\ authorRefundCredits' = [authorRefundCredits EXCEPT ![sender] = @ - amount]
  /\ Pay(amount)
  /\ UNCHANGED <<depositsPaused, authorBondBalances, bountyBalances,
                 reservedBountyBalances, reservations, bondsDeposited, received>>

EscrowStep ==
  \/ \E flag \in BOOLEAN : SetDepositsPaused(flag)
  \/ \E c \in ClaimIds, amount \in Amounts :
       \/ \E a \in Actors : DepositAuthorBond(a, c, amount)
       \/ FundReplicationBounty(c, amount)
       \/ SlashAuthorBond(c, amount)
       \/ RefundAuthorBond(c, amount)
       \/ \E r \in ReplicationIds : ReserveBountyPayout(c, r, amount)
  \/ \E c \in ClaimIds, r \in ReplicationIds :
       ReleaseReservedPayout(c, r) \/ CancelReservedPayout(c, r)
  \/ \E a \in Actors, amount \in Amounts : WithdrawAuthorBondRefund(a, amount)

EscrowedNext ==
  \/ RegistryStep /\ UNCHANGED escrowVars
  \/ \E c \in ClaimIds, s \in ClaimStatus :
       SetClaimStatus(c, s, IsAuthorBondSatisfied(c)) /\ UNCHANGED escrowVars
  \/ EscrowStep /\ UNCHANGED claimVars

EscrowedSpec == Init /\ EscrowInit /\ [][EscrowedNext]_vars

-----------------------------------------------------------------------------
(***************************************************************************)
(* Properties.                                                             *)
(***************************************************************************)

\* The values of the escrow's variables.
EscrowTypeOK ==
  /\ depositsPaused \in BOOLEAN
  /\ authorBondBalances \in [ClaimIds -> 0 .. MaxFunds]
  /\ authorRefundCredits \in [Actors -> 0 .. MaxFunds]
  /\ bountyBalances \in [ClaimIds -> 0 .. MaxFunds]
  /\ reservedBountyBalances \in [ClaimIds -> 0 .. MaxFunds]
  /\ reservations \in [ClaimIds -> [ReplicationIds -> BountyReservation]]
  /\ escrowBalance \in 0 .. MaxFunds
  /\ bondsDeposited \in [ClaimIds -> 0 .. MaxFunds]
  /\ received \in 0 .. MaxFunds

Reserved(c, r) == IF Active(reservations[c][r]) THEN reservations[c][r].amount ELSE 0

\* No balance is negative (the contract's arithmetic is checked), and the escrow
\* holds exactly what it owes, the bonds and bounties of the claims and the
\* refunds of the authors, through every order of deposits, payouts, slashes,
\* refunds and withdrawals; what is reserved against a bounty is the sum of its
\* live reservations and covered by it, so that a reserved payout can be paid and
\* the subtraction in reserveBountyPayout cannot revert.
Solvent ==
  /\ EscrowTypeOK
  /\ escrowBalance = SumFunctionOnSet(authorBondBalances, ClaimIds)
                   + SumFunctionOnSet(bountyBalances, ClaimIds)
                   + SumFunctionOnSet(authorRefundCredits, Actors)
  /\ \A c \in ClaimIds :
       /\ reservedBountyBalances[c] =
            SumFunctionOnSet([r \in ReplicationIds |-> Reserved(c, r)], ReplicationIds)
       /\ reservedBountyBalances[c] <= bountyBalances[c]

\* A bounty is paid to the replicator of a resolved replication of that claim,
\* and never also returned to the pool.
PaidForEvidence ==
  \A c \in ClaimIds, r \in ReplicationIds :
    LET res == reservations[c][r]
    IN /\ res.released => /\ ~res.cancelled
                          /\ IsReplicationResolved(r)
       /\ res.amount # 0 => /\ replications[r].claimId = c
                            /\ res.recipient = replications[r].replicator

\* A payout that was released or cancelled is over, and a reservation keeps its
\* recipient and amount: no later reservation reuses the pair.
SettledIsFinal ==
  [][\A c \in ClaimIds, r \in ReplicationIds :
       reservations[c][r].amount # 0 =>
         /\ reservations'[c][r].amount = reservations[c][r].amount
         /\ reservations'[c][r].recipient = reservations[c][r].recipient
         /\ reservations[c][r].released => reservations'[c][r].released
         /\ reservations[c][r].cancelled =>
              reservations'[c][r] = reservations[c][r]]_vars

\* A claim that left Draft for anything but Deprecated, and so every claim with
\* an effective decision, was bonded: its author deposited the bond it requires.
\* (Later slashes and refunds may have taken it out again.)
PublishedWasBonded ==
  \A c \in ClaimIds :
    claims[c].status \notin {"Draft", "Deprecated"} \/ effectiveClaimDecisionId[c] # 0
      => bondsDeposited[c] >= claims[c].requiredAuthorBond

\* "Withdrawals, refunds, settlements, and resolutions must never sit behind
\* this switch" (DepositPausable): whatever is owed can be paid, paused or not,
\* neither refused nor reverted for want of balance.
ExitsStayOpen ==
  /\ \A a \in Actors : authorRefundCredits[a] > 0 =>
       ENABLED WithdrawAuthorBondRefund(a, authorRefundCredits[a])
  /\ \A c \in ClaimIds, r \in ReplicationIds :
       Active(reservations[c][r]) =>
         /\ ENABLED CancelReservedPayout(c, r)
         /\ IsReplicationResolved(r) => ENABLED ReleaseReservedPayout(c, r)
  /\ \A c \in ClaimIds : authorBondBalances[c] > 0 =>
       ENABLED RefundAuthorBond(c, authorBondBalances[c])
=============================================================================
