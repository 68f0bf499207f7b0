------------------------------ MODULE MCFunds ------------------------------
(* What holds money outside the markets, on small instances: BondEscrow, or *)
(* RewardPolicy with the vault and the agents' budgets.                     *)
EXTENDS MCBondEscrow, MCRewardPolicy

NoFunds ==
  /\ nextAgentId = 1 /\ fundsReceived = 0 /\ started = 0
  /\ ~agentDepositsPaused /\ ~vaultDepositsPaused
NoClaims ==
  /\ nextClaimId = 1 /\ existing = {} /\ minAuthorBond = 0
  /\ ~depositsPaused

OnlyEscrow == NoFunds /\ UNCHANGED allVars /\ BoundedNext
OnlyRewards == NoClaims /\ UNCHANGED vars /\ PolicyNext

FundsInit == Init /\ EscrowInit /\ PolicyInitial
FundsSpec ==
  /\ FundsInit
  /\ [][OnlyEscrow \/ OnlyRewards]_<<vars, allVars>>
=============================================================================
