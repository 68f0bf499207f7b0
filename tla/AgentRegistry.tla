--------------------------- MODULE AgentRegistry ---------------------------
(***************************************************************************)
(* contracts/AgentRegistry.sol: agents, who may act for them, and budgets  *)
(* in which the protocol reserves and spends under a ceiling the agent's   *)
(* operator sets.                                                          *)
(*                                                                         *)
(* A step is one successful transaction; a transfer that fails reverts it. *)
(* Reentrant calls are refused or find the state already written.          *)
(*                                                                         *)
(* A definition whose name begins with Bug is one the model does not use:  *)
(* its neighbour with a defect the properties must notice.                 *)
(***************************************************************************)
EXTENDS Integers, FiniteSets, FiniteSetsExt, Functions

CONSTANTS
  Accounts,
  NoAccount,       \* the zero address
  MaxAgents,       \* bound: agents ever registered
  MaxRewardFunds   \* bound: value ever sent to either contract

ASSUME AgentAssumption ==
  /\ NoAccount \notin Accounts /\ IsFiniteSet(Accounts)
  /\ MaxAgents \in Nat /\ MaxRewardFunds \in Nat

AgentIds == 1 .. MaxAgents
Wei == 1 .. MaxRewardFunds

VARIABLES
  agents,               \* _agents
  agentControllers,     \* _controllers
  nextAgentId,
  agentDepositsPaused,
  agentRegistryBalance, \* the contract's own balance
  fundsReceived         \* history: value sent in from outside

budgetVars == <<agents, nextAgentId, agentRegistryBalance>>
agentVars == <<budgetVars, agentControllers, agentDepositsPaused>>

AgentRecord ==
  [operator : Accounts \cup {NoAccount}, budgetBalance : 0 .. MaxRewardFunds,
   reservedBudget : 0 .. MaxRewardFunds, spentBudget : 0 .. MaxRewardFunds,
   spendLimit : 0 .. MaxRewardFunds, active : BOOLEAN]
NoAgentRecord ==
  [operator |-> NoAccount, budgetBalance |-> 0, reservedBudget |-> 0, spentBudget |-> 0,
   spendLimit |-> 0, active |-> FALSE]

AgentExists(i) == i < nextAgentId
IsActiveAgent(i) == AgentExists(i) /\ agents[i].active
IsOperator(sender, i) == AgentExists(i) /\ agents[i].operator = sender

AgentInit ==
  /\ agents = [i \in AgentIds |-> NoAgentRecord]
  /\ agentControllers = [i \in AgentIds |-> {}]
  /\ nextAgentId = 1
  /\ agentDepositsPaused = FALSE
  /\ agentRegistryBalance = 0
  /\ fundsReceived = 0

\* Value from outside.
ReceiveFunds(value) ==
  /\ fundsReceived + value <= MaxRewardFunds
  /\ fundsReceived' = fundsReceived + value

RegisterAgent(sender, limit, value) ==
  /\ ~agentDepositsPaused
  /\ nextAgentId <= MaxAgents
  /\ ReceiveFunds(value)
  /\ agents' = [agents EXCEPT ![nextAgentId] =
       [operator |-> sender, budgetBalance |-> value, reservedBudget |-> 0,
        spentBudget |-> 0, spendLimit |-> limit, active |-> TRUE]]
  /\ agentControllers' = [agentControllers EXCEPT ![nextAgentId] = {sender}]
  /\ nextAgentId' = nextAgentId + 1
  /\ agentRegistryBalance' = agentRegistryBalance + value
  /\ UNCHANGED agentDepositsPaused

AuthorizeController(sender, i, controller, authorized) ==
  /\ IsOperator(sender, i)
  /\ agentControllers' = [agentControllers EXCEPT ![i] =
                            IF authorized THEN @ \cup {controller} ELSE @ \ {controller}]
  /\ UNCHANGED <<budgetVars, agentDepositsPaused, fundsReceived>>

BugSetSpendLimit(sender, i, limit) ==  \* what is spent counts, what is reserved does not
  /\ IsOperator(sender, i)
  /\ limit >= agents[i].spentBudget
  /\ agents' = [agents EXCEPT ![i].spendLimit = limit]
  /\ UNCHANGED <<nextAgentId, agentRegistryBalance, agentControllers, agentDepositsPaused,
                 fundsReceived>>

\* Not below what has been spent or is reserved.
SetSpendLimit(sender, i, limit) ==
  /\ IsOperator(sender, i)
  /\ limit >= agents[i].spentBudget + agents[i].reservedBudget
  /\ agents' = [agents EXCEPT ![i].spendLimit = limit]
  /\ UNCHANGED <<nextAgentId, agentRegistryBalance, agentControllers, agentDepositsPaused,
                 fundsReceived>>

SetAgentActive(sender, i, active) ==
  /\ IsOperator(sender, i)
  /\ agents' = [agents EXCEPT ![i].active = active]
  /\ UNCHANGED <<nextAgentId, agentRegistryBalance, agentControllers, agentDepositsPaused,
                 fundsReceived>>

\* fundAgentBudget, by whoever brings the value.
FundAgentBudget(i, value) ==
  /\ ~agentDepositsPaused
  /\ AgentExists(i)
  /\ value > 0
  /\ agents' = [agents EXCEPT ![i].budgetBalance = @ + value]
  /\ agentRegistryBalance' = agentRegistryBalance + value
  /\ UNCHANGED <<nextAgentId, agentControllers, agentDepositsPaused>>

ReserveBudget(i, amount) ==
  LET reservedAfter == agents[i].reservedBudget + amount
  IN /\ IsActiveAgent(i)
     /\ agents[i].spentBudget + reservedAfter <= agents[i].spendLimit
     /\ agents[i].budgetBalance >= reservedAfter
     /\ agents' = [agents EXCEPT ![i].reservedBudget = reservedAfter]
     /\ UNCHANGED <<nextAgentId, agentRegistryBalance, agentControllers, agentDepositsPaused,
                    fundsReceived>>

ReleaseBudget(i, amount) ==
  /\ AgentExists(i)
  /\ agents[i].reservedBudget >= amount
  /\ agents' = [agents EXCEPT ![i].reservedBudget = @ - amount]
  /\ UNCHANGED <<nextAgentId, agentRegistryBalance, agentControllers, agentDepositsPaused,
                 fundsReceived>>

\* To a recipient who does not matter to the registry.
ConsumeBudget(i, amount) ==
  /\ IsActiveAgent(i)
  /\ agents[i].reservedBudget >= amount /\ agents[i].budgetBalance >= amount
  /\ agentRegistryBalance >= amount
  /\ agents' = [agents EXCEPT ![i].reservedBudget = @ - amount, ![i].budgetBalance = @ - amount,
                              ![i].spentBudget = @ + amount]
  /\ agentRegistryBalance' = agentRegistryBalance - amount
  /\ UNCHANGED <<nextAgentId, agentControllers, agentDepositsPaused, fundsReceived>>

WithdrawBudget(sender, i, amount) ==
  /\ IsOperator(sender, i)
  /\ agents[i].budgetBalance - agents[i].reservedBudget >= amount
  /\ agentRegistryBalance >= amount
  /\ agents' = [agents EXCEPT ![i].budgetBalance = @ - amount]
  /\ agentRegistryBalance' = agentRegistryBalance - amount
  /\ UNCHANGED <<nextAgentId, agentControllers, agentDepositsPaused, fundsReceived>>

SetAgentDepositsPaused(flag) ==
  /\ agentDepositsPaused' = flag
  /\ UNCHANGED <<budgetVars, agentControllers, fundsReceived>>

AgentStep ==
  \/ \E a \in Accounts, limit \in 0 .. MaxRewardFunds, value \in 0 .. MaxRewardFunds :
       RegisterAgent(a, limit, value)
  \/ \E i \in AgentIds, amount \in Wei :
       \/ FundAgentBudget(i, amount) /\ ReceiveFunds(amount)
       \/ ReserveBudget(i, amount) \/ ReleaseBudget(i, amount) \/ ConsumeBudget(i, amount)
       \/ \E a \in Accounts : WithdrawBudget(a, i, amount)
  \/ \E i \in AgentIds, a \in Accounts :
       \/ \E controller \in Accounts, flag \in BOOLEAN : AuthorizeController(a, i, controller, flag)
       \/ \E limit \in 0 .. MaxRewardFunds : SetSpendLimit(a, i, limit)
       \/ \E flag \in BOOLEAN : SetAgentActive(a, i, flag)
  \/ \E flag \in BOOLEAN : SetAgentDepositsPaused(flag)

-----------------------------------------------------------------------------
(***************************************************************************)
(* Properties.                                                             *)
(***************************************************************************)

\* What the protocol has reserved of an agent's budget is there to be spent and
\* stays, with what it has spent, under the ceiling of the operator: through any
\* order of reserving, releasing, consuming, withdrawing and moving the ceiling,
\* by parties that do not ask each other.
BudgetsCommitted ==
  \A i \in AgentIds :
    /\ agents[i].reservedBudget <= agents[i].budgetBalance
    /\ agents[i].spentBudget + agents[i].reservedBudget <= agents[i].spendLimit
=============================================================================
