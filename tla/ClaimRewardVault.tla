------------------------- MODULE ClaimRewardVault -------------------------
(***************************************************************************)
(* contracts/ClaimRewardVault.sol over the agent registry it tops up: the  *)
(* reward pools of claims, one per kind of work, the settlements paid out  *)
(* of them and the balances the recipients have yet to withdraw.           *)
(*                                                                         *)
(* The claims of the model exist; a settlement id is the hash of a work    *)
(* item and a label, modelled as the pair of the item and the label's step *)
(* number.                                                                 *)
(*                                                                         *)
(* A definition whose name begins with Bug is one the model does not use:  *)
(* its neighbour with a defect the properties must notice.                 *)
(***************************************************************************)
EXTENDS AgentRegistry

CONSTANTS
  Pools,    \* pairs of a claim and a work kind
  Items,    \* work items
  MaxSteps  \* bound: settlement steps of an item

ASSUME VaultAssumption == MaxSteps \in Nat /\ IsFiniteSet(Pools)

SettlementIds == Items \X (1 .. MaxSteps)

VARIABLES
  claimRewardPools,
  accruedRewardBalances,
  settledRewards,         \* the ids for which settledRewards is true
  vaultDepositsPaused,
  vaultBalance,           \* the contract's own balance
  settledAmounts          \* history: the amount of each settlement

vaultVars == <<claimRewardPools, accruedRewardBalances, settledRewards, vaultDepositsPaused,
               vaultBalance, settledAmounts>>
rewardVars == <<agentVars, fundsReceived, vaultVars>>

VaultInit ==
  /\ claimRewardPools = [p \in Pools |-> 0]
  /\ accruedRewardBalances = [a \in Accounts |-> 0]
  /\ settledRewards = {}
  /\ vaultDepositsPaused = FALSE
  /\ vaultBalance = 0
  /\ settledAmounts = [id \in SettlementIds |-> 0]

FundClaimRewards(pool, value) ==
  /\ ~vaultDepositsPaused
  /\ ReceiveFunds(value)
  /\ claimRewardPools' = [claimRewardPools EXCEPT ![pool] = @ + value]
  /\ vaultBalance' = vaultBalance + value
  /\ UNCHANGED <<agentVars, accruedRewardBalances, settledRewards, vaultDepositsPaused,
                 settledAmounts>>

AgentBudgetAmount(amount, bps) == (amount * bps) \div 10000

BugAccruable(pool, id, recipient, i, amount, bps) ==  \* settled before or not
  /\ amount \in Wei /\ bps <= 10000
  /\ i = 0 => bps = 0
  /\ i # 0 => AgentExists(i)
  /\ claimRewardPools[pool] >= amount
  /\ recipient = NoAccount => AgentBudgetAmount(amount, bps) = amount
  /\ AgentBudgetAmount(amount, bps) # 0 => IsActiveAgent(i)

\* The requirements of accrueWorkReward; agent id 0 is none.
Accruable(pool, id, recipient, i, amount, bps) ==
  /\ id \notin settledRewards
  /\ amount \in Wei /\ bps <= 10000
  /\ i = 0 => bps = 0
  /\ i # 0 => AgentExists(i)
  /\ claimRewardPools[pool] >= amount
  /\ recipient = NoAccount => AgentBudgetAmount(amount, bps) = amount
  /\ AgentBudgetAmount(amount, bps) # 0 => IsActiveAgent(i)

BugAccrueWorkReward(pool, id, recipient, i, amount, bps) ==  \* the whole to the recipient too
  LET topUp == AgentBudgetAmount(amount, bps)
  IN /\ Accruable(pool, id, recipient, i, amount, bps)
     /\ settledRewards' = settledRewards \cup {id}
     /\ settledAmounts' = [settledAmounts EXCEPT ![id] = @ + amount]
     /\ claimRewardPools' = [claimRewardPools EXCEPT ![pool] = @ - amount]
     /\ accruedRewardBalances' = IF recipient = NoAccount THEN accruedRewardBalances
          ELSE [accruedRewardBalances EXCEPT ![recipient] = @ + amount]
     /\ vaultBalance' = vaultBalance - topUp
     /\ IF topUp # 0 THEN FundAgentBudget(i, topUp) ELSE UNCHANGED agentVars
     /\ UNCHANGED <<fundsReceived, vaultDepositsPaused>>

\* The share of the agent's budget is sent on to the registry in the same call,
\* which fails if the registry refuses it.
AccrueWorkReward(pool, id, recipient, i, amount, bps) ==
  LET topUp == AgentBudgetAmount(amount, bps)
  IN /\ Accruable(pool, id, recipient, i, amount, bps)
     /\ settledRewards' = settledRewards \cup {id}
     /\ settledAmounts' = [settledAmounts EXCEPT ![id] = @ + amount]
     /\ claimRewardPools' = [claimRewardPools EXCEPT ![pool] = @ - amount]
     /\ accruedRewardBalances' = IF amount = topUp THEN accruedRewardBalances
          ELSE [accruedRewardBalances EXCEPT ![recipient] = @ + (amount - topUp)]
     /\ vaultBalance >= topUp
     /\ vaultBalance' = vaultBalance - topUp
     /\ IF topUp # 0 THEN FundAgentBudget(i, topUp) ELSE UNCHANGED agentVars
     /\ UNCHANGED <<fundsReceived, vaultDepositsPaused>>

\* The account names the recipient, who does not matter to the vault.
WithdrawAccruedRewards(sender, amount) ==
  /\ accruedRewardBalances[sender] >= amount
  /\ vaultBalance >= amount
  /\ accruedRewardBalances' = [accruedRewardBalances EXCEPT ![sender] = @ - amount]
  /\ vaultBalance' = vaultBalance - amount
  /\ UNCHANGED <<agentVars, fundsReceived, claimRewardPools, settledRewards,
                 vaultDepositsPaused, settledAmounts>>

SetVaultDepositsPaused(flag) ==
  /\ vaultDepositsPaused' = flag
  /\ UNCHANGED <<agentVars, fundsReceived, claimRewardPools, accruedRewardBalances,
                 settledRewards, vaultBalance, settledAmounts>>

\* Every step of the two contracts but the settlements, which RewardPolicy makes.
FundingStep ==
  \/ AgentStep /\ UNCHANGED vaultVars
  \/ \E pool \in Pools, value \in Wei : FundClaimRewards(pool, value)
  \/ \E a \in Accounts, amount \in Wei : WithdrawAccruedRewards(a, amount)
  \/ \E flag \in BOOLEAN : SetVaultDepositsPaused(flag)

-----------------------------------------------------------------------------
(***************************************************************************)
(* Properties.                                                             *)
(***************************************************************************)

\* The vault holds its pools and the rewards not yet withdrawn, and the agent
\* registry the budgets of its agents, to the last wei, though a settlement moves
\* value from the one to the other half way through.
RewardsCovered ==
  /\ vaultBalance = SumFunctionOnSet(claimRewardPools, Pools)
                  + SumFunctionOnSet(accruedRewardBalances, Accounts)
  /\ agentRegistryBalance =
       SumFunctionOnSet([i \in AgentIds |-> agents[i].budgetBalance], AgentIds)

\* "Settlement ids stay unique so value can accrue continuously over time without
\* ambiguous double-counting": an id is settled once, and its amount is final.
SettlesOnce ==
  [][\A id \in settledRewards :
       id \in settledRewards' /\ settledAmounts'[id] = settledAmounts[id]]_rewardVars
=============================================================================
