------------------------- MODULE RewardPolicyProofs -------------------------
(***************************************************************************)
(* What the agent registry keeps of its budgets, the policy of its         *)
(* payments and both contracts of their funds, for every number of agents, *)
(* accounts, pools, items, processes and runs.                             *)
(***************************************************************************)
EXTENDS RewardPolicy, SumTheorems

-----------------------------------------------------------------------------
(***************************************************************************)
(* Budgets.  Their amounts are naturals; that they stay under the bound of *)
(* the model follows from the sum of all funds, below.                     *)
(***************************************************************************)

BudgetRecord ==
  [operator : Accounts \cup {NoAccount}, budgetBalance : Nat, reservedBudget : Nat,
   spentBudget : Nat, spendLimit : Nat, active : BOOLEAN]

Committed(record) ==
  /\ record.reservedBudget <= record.budgetBalance
  /\ record.spentBudget + record.reservedBudget <= record.spendLimit

BudgetInv ==
  /\ nextAgentId \in Nat \ {0}
  /\ agents \in [AgentIds -> BudgetRecord]
  /\ \A i \in AgentIds : Committed(agents[i])

\* A step that replaces one record by a committed one keeps the invariant.
LEMMA OneRecordChanges ==
  ASSUME BudgetInv, nextAgentId' \in Nat \ {0}, NEW i \in AgentIds, NEW r \in BudgetRecord,
         Committed(r), agents' = [agents EXCEPT ![i] = r]
  PROVE  BudgetInv'
<1>1. agents' \in [AgentIds -> BudgetRecord]
  BY DEF BudgetInv
<1>2. ASSUME NEW j \in AgentIds
      PROVE  Committed(agents'[j])
  BY DEF BudgetInv
<1> QED
  BY <1>1, <1>2 DEF BudgetInv, Committed

\* No agent is registered, and none has a budget, when the contract is deployed.
LEMMA BudgetsAtInit == AgentInit => BudgetInv
BY AgentAssumption DEF AgentInit, BudgetInv, BudgetRecord, NoAgentRecord, Committed

\* Registration writes a record with nothing reserved or spent.
LEMMA RegisterAgentKeepsBudgets ==
  ASSUME BudgetInv, NEW a \in Accounts, NEW limit \in 0 .. MaxRewardFunds,
         NEW value \in 0 .. MaxRewardFunds, RegisterAgent(a, limit, value)
  PROVE  BudgetInv'
<1> DEFINE r == [operator |-> a, budgetBalance |-> value, reservedBudget |-> 0,
                 spentBudget |-> 0, spendLimit |-> limit, active |-> TRUE]
<1>1. limit \in Nat /\ value \in Nat
  BY AgentAssumption
<1>2. r \in BudgetRecord /\ Committed(r)
  BY <1>1 DEF BudgetRecord, Committed
<1>3. nextAgentId \in AgentIds /\ nextAgentId' \in Nat \ {0}
  BY AgentAssumption DEF BudgetInv, RegisterAgent, AgentIds
<1>4. agents' = [agents EXCEPT ![nextAgentId] = r]
  BY DEF RegisterAgent
<1> HIDE DEF r
<1> QED
  BY <1>2, <1>3, <1>4, OneRecordChanges

\* A deposit only adds to the budget; agent 0 is no agent.
LEMMA FundAgentBudgetKeepsBudgets ==
  ASSUME BudgetInv, NEW i \in AgentIds \cup {0}, NEW value \in Int, FundAgentBudget(i, value)
  PROVE  BudgetInv'
<1>1. value \in Nat
  BY DEF FundAgentBudget
<1>2. CASE i = 0
  <2>1. agents' = agents
    BY <1>2 DEF FundAgentBudget, BudgetInv, AgentIds
  <2> QED
    BY <2>1 DEF BudgetInv, FundAgentBudget, Committed
<1>3. CASE i \in AgentIds
  <2> DEFINE r == [agents[i] EXCEPT !.budgetBalance = @ + value]
  <2>1. agents[i] \in BudgetRecord /\ Committed(agents[i])
    BY <1>3 DEF BudgetInv
  <2>2. r \in BudgetRecord /\ Committed(r)
    BY <2>1, <1>1 DEF BudgetRecord, Committed
  <2>3. agents' = [agents EXCEPT ![i] = r]
    BY DEF FundAgentBudget
  <2>4. nextAgentId' \in Nat \ {0}
    BY DEF FundAgentBudget, BudgetInv
  <2> HIDE DEF r
  <2> QED
    BY <1>3, <2>2, <2>3, <2>4, OneRecordChanges
<1> QED
  BY <1>2, <1>3

\* Reserving, releasing, consuming and withdrawing.
LEMMA MovingBudgetKeepsBudgets ==
  ASSUME BudgetInv, NEW i \in AgentIds, NEW amount \in Wei,
         \/ ReserveBudget(i, amount) \/ ReleaseBudget(i, amount) \/ ConsumeBudget(i, amount)
         \/ \E a \in Accounts : WithdrawBudget(a, i, amount)
  PROVE  BudgetInv'
<1> DEFINE old == agents[i]
<1>1. old \in BudgetRecord /\ Committed(old) /\ amount \in Nat
  BY AgentAssumption DEF BudgetInv, Wei
<1>2. nextAgentId' \in Nat \ {0}
  BY DEF ReserveBudget, ReleaseBudget, ConsumeBudget, WithdrawBudget, BudgetInv
<1>3. CASE ReserveBudget(i, amount)
  <2> DEFINE r == [old EXCEPT !.reservedBudget = old.reservedBudget + amount]
  <2>1. agents' = [agents EXCEPT ![i] = r]
    BY <1>3 DEF ReserveBudget
  <2>2. r \in BudgetRecord /\ Committed(r)
    BY <1>1, <1>3 DEF ReserveBudget, BudgetRecord, Committed
  <2> HIDE DEF r
  <2> QED
    BY <1>2, <2>1, <2>2, OneRecordChanges
<1>4. CASE ReleaseBudget(i, amount)
  <2> DEFINE r == [old EXCEPT !.reservedBudget = @ - amount]
  <2>1. agents' = [agents EXCEPT ![i] = r]
    BY <1>4 DEF ReleaseBudget
  <2>2. r \in BudgetRecord /\ Committed(r)
    BY <1>1, <1>4 DEF ReleaseBudget, BudgetRecord, Committed
  <2> HIDE DEF r
  <2> QED
    BY <1>2, <2>1, <2>2, OneRecordChanges
<1>5. CASE ConsumeBudget(i, amount)
  <2> DEFINE r == [old EXCEPT !.reservedBudget = @ - amount, !.budgetBalance = @ - amount,
                              !.spentBudget = @ + amount]
  <2>1. agents' = [agents EXCEPT ![i] = r]
    BY <1>5 DEF ConsumeBudget, BudgetInv, BudgetRecord
  <2>2. /\ old.reservedBudget - amount \in Nat /\ old.budgetBalance - amount \in Nat
        /\ old.spentBudget + amount \in Nat
        /\ old.reservedBudget - amount <= old.budgetBalance - amount
        /\ (old.spentBudget + amount) + (old.reservedBudget - amount) <= old.spendLimit
    BY <1>1, <1>5 DEF ConsumeBudget, BudgetRecord, Committed
  <2>3. [old EXCEPT !.reservedBudget = @ - amount] \in BudgetRecord
    BY <1>1, <2>2 DEF BudgetRecord
  <2>4. [old EXCEPT !.reservedBudget = @ - amount, !.budgetBalance = @ - amount]
          \in BudgetRecord
    BY <1>1, <2>2, <2>3 DEF BudgetRecord
  <2>5. r \in BudgetRecord
    BY <1>1, <2>2, <2>4 DEF BudgetRecord
  <2>6. Committed(r)
    BY <1>1, <2>2 DEF BudgetRecord, Committed
  <2> HIDE DEF r
  <2> QED
    BY <1>2, <2>1, <2>5, <2>6, OneRecordChanges
<1>6. CASE \E a \in Accounts : WithdrawBudget(a, i, amount)
  <2> DEFINE r == [old EXCEPT !.budgetBalance = @ - amount]
  <2>1. agents' = [agents EXCEPT ![i] = r]
    BY <1>6 DEF WithdrawBudget
  <2>2. r \in BudgetRecord /\ Committed(r)
    BY <1>1, <1>6 DEF WithdrawBudget, BudgetRecord, Committed
  <2> HIDE DEF r
  <2> QED
    BY <1>2, <2>1, <2>2, OneRecordChanges
<1> QED
  BY <1>3, <1>4, <1>5, <1>6

\* The operator's own settings: the ceiling stays above what is committed.
LEMMA OperatorKeepsBudgets ==
  ASSUME BudgetInv, NEW i \in AgentIds, NEW a \in Accounts,
         \/ \E limit \in 0 .. MaxRewardFunds : SetSpendLimit(a, i, limit)
         \/ \E flag \in BOOLEAN : SetAgentActive(a, i, flag)
  PROVE  BudgetInv'
<1> DEFINE old == agents[i]
<1>1. old \in BudgetRecord /\ Committed(old)
  BY DEF BudgetInv
<1>2. nextAgentId' \in Nat \ {0}
  BY DEF SetSpendLimit, SetAgentActive, BudgetInv
<1>3. ASSUME NEW limit \in 0 .. MaxRewardFunds, SetSpendLimit(a, i, limit)
      PROVE  BudgetInv'
  <2> DEFINE r == [old EXCEPT !.spendLimit = limit]
  <2>1. agents' = [agents EXCEPT ![i] = r]
    BY <1>3 DEF SetSpendLimit
  <2>2. r \in BudgetRecord /\ Committed(r)
    BY <1>1, <1>3, AgentAssumption DEF SetSpendLimit, BudgetRecord, Committed
  <2> HIDE DEF r
  <2> QED
    BY <1>2, <2>1, <2>2, OneRecordChanges
<1>4. ASSUME NEW flag \in BOOLEAN, SetAgentActive(a, i, flag)
      PROVE  BudgetInv'
  <2> DEFINE r == [old EXCEPT !.active = flag]
  <2>1. agents' = [agents EXCEPT ![i] = r]
    BY <1>4 DEF SetAgentActive
  <2>2. r \in BudgetRecord /\ Committed(r)
    BY <1>1 DEF BudgetRecord, Committed
  <2> HIDE DEF r
  <2> QED
    BY <1>2, <2>1, <2>2, OneRecordChanges
<1> QED
  BY <1>3, <1>4

\* Every step of the registry.
LEMMA AgentStepKeepsBudgets == BudgetInv /\ AgentStep => BudgetInv'
<1> SUFFICES ASSUME BudgetInv, AgentStep
             PROVE  BudgetInv'
  OBVIOUS
<1>1. ASSUME UNCHANGED <<agents, nextAgentId>>
      PROVE  BudgetInv'
  BY <1>1 DEF BudgetInv, Committed
<1>2. ASSUME NEW i \in AgentIds, NEW amount \in Wei, FundAgentBudget(i, amount)
      PROVE  BudgetInv'
  <2>1. amount \in Int
    BY AgentAssumption DEF Wei
  <2> QED
    BY <1>2, <2>1, FundAgentBudgetKeepsBudgets
<1>3. ASSUME NEW i \in AgentIds, NEW a \in Accounts, NEW controller \in Accounts,
             NEW flag \in BOOLEAN, AuthorizeController(a, i, controller, flag)
      PROVE  BudgetInv'
  BY <1>1, <1>3 DEF AuthorizeController, budgetVars
<1>4. ASSUME NEW flag \in BOOLEAN, SetAgentDepositsPaused(flag)
      PROVE  BudgetInv'
  BY <1>1, <1>4 DEF SetAgentDepositsPaused, budgetVars
<1> QED
  BY <1>2, <1>3, <1>4, RegisterAgentKeepsBudgets, MovingBudgetKeepsBudgets,
     OperatorKeepsBudgets DEF AgentStep

\* A settlement changes the budgets by its top-up, if by anything.
LEMMA AccrualKeepsBudgets ==
  ASSUME BudgetInv, NEW pool, NEW id, NEW recipient, NEW i \in AgentIds \cup {0}, NEW amount,
         AccrueWorkReward(pool, id, recipient, i, amount, BudgetTopUpBps(i))
  PROVE  BudgetInv'
<1> DEFINE topUp == AgentBudgetAmount(amount, BudgetTopUpBps(i))
<1>1. topUp \in Int
  <2>1. amount \in Int
    BY AgentAssumption DEF AccrueWorkReward, Accruable, Wei
  <2> QED
    BY <2>1 DEF AgentBudgetAmount, BudgetTopUpBps
<1>2. IF topUp # 0 THEN FundAgentBudget(i, topUp) ELSE UNCHANGED agentVars
  BY DEF AccrueWorkReward
<1> HIDE DEF topUp
<1>3. CASE topUp # 0
  BY <1>1, <1>2, <1>3, FundAgentBudgetKeepsBudgets
<1>4. CASE topUp = 0
  BY <1>2, <1>4 DEF agentVars, budgetVars, BudgetInv, Committed
<1> QED
  BY <1>3, <1>4

\* Every step of the whole.
LEMMA BudgetsInductive == BudgetInv /\ [PolicyNext]_allVars => BudgetInv'
<1> SUFFICES ASSUME BudgetInv, [PolicyNext]_allVars
             PROVE  BudgetInv'
  OBVIOUS
<1>1. ASSUME UNCHANGED agentVars
      PROVE  BudgetInv'
  BY <1>1 DEF agentVars, budgetVars, BudgetInv, Committed
<1>2. CASE FundingStep
  BY <1>1, <1>2, AgentStepKeepsBudgets
  DEF FundingStep, FundClaimRewards, WithdrawAccruedRewards, SetVaultDepositsPaused
<1>3. ASSUME NEW p \in Runners, NEW item \in Items, SettleWorkReward(p, item)
      PROVE  BudgetInv'
  BY <1>3, AccrualKeepsBudgets, SMTT(60) DEF SettleWorkReward
<1>4. ASSUME NEW p \in Runners,
             \/ ApplyAutomaticRewardPolicy(p) \/ NextGroup(p)
             \/ InsertWorkRewardSettlement(p) \/ EndPolicyRun(p)
      PROVE  BudgetInv'
  BY <1>1, <1>4
  DEF ApplyAutomaticRewardPolicy, NextGroup, InsertWorkRewardSettlement, EndPolicyRun, rewardVars
<1>5. CASE UNCHANGED allVars
  BY <1>1, <1>5 DEF allVars, rewardVars
<1> QED
  BY <1>2, <1>3, <1>4, <1>5 DEF PolicyNext, PolicyStep

\* Through any order of reservations, spending, withdrawals and changes of the
\* ceiling, and of settlements that top budgets up, what the protocol has
\* reserved is there to be spent and stays under the operator's ceiling.
THEOREM BudgetsStayCommitted == PolicySpec => []BudgetsCommitted
<1>1. PolicyInitial => BudgetInv
  BY BudgetsAtInit DEF PolicyInitial
<1>2. BudgetInv => BudgetsCommitted
  BY DEF BudgetInv, BudgetsCommitted, Committed
<1> QED
  BY <1>1, <1>2, BudgetsInductive, PTL DEF PolicySpec

-----------------------------------------------------------------------------
(***************************************************************************)
(* Shares.  What the discounts leave of the quality of work, and what the  *)
(* pool's balance is divided into.                                         *)
(***************************************************************************)

\* The items of S have places in the order.
Placed(S, place) == \A i \in S : place[i] \in Nat

\* The items ahead of an item in its bucket.
Ahead(S, quality, bucket, place, i) ==
  {j \in S : bucket[j] = bucket[i]
     /\ \/ quality[j] > quality[i]
        \/ quality[j] = quality[i] /\ place[j] < place[i]}

\* Better work of the same bucket has fewer ahead of it.
LEMMA RankOrder ==
  ASSUME NEW S, IsFiniteSet(S), NEW quality \in [S -> Nat], NEW bucket,
         NEW place, Placed(S, place),
         NEW i \in S
  PROVE  /\ Rank(S, quality, bucket, place, i) \in Nat
         /\ \A j \in S : bucket[j] = bucket[i] /\ quality[j] > quality[i] =>
              Rank(S, quality, bucket, place, j) < Rank(S, quality, bucket, place, i)
<1> DEFINE A == Ahead(S, quality, bucket, place, i)
<1>1. IsFiniteSet(A) /\ Cardinality(A) \in Nat
  BY FS_Subset, FS_CardinalityType DEF Ahead
<1>2. Rank(S, quality, bucket, place, i) = Cardinality(A)
  BY DEF Rank, Ahead
<1>3. ASSUME NEW j \in S, bucket[j] = bucket[i], quality[j] > quality[i]
      PROVE  Rank(S, quality, bucket, place, j) < Cardinality(A)
  <2> DEFINE B == Ahead(S, quality, bucket, place, j)
  <2>1. B \subseteq A /\ j \in A /\ j \notin B
    BY <1>3 DEF Ahead, Placed
  <2>2. Rank(S, quality, bucket, place, j) = Cardinality(B)
    BY DEF Rank, Ahead
  <2> HIDE DEF A, B
  <2>3. B # A
    BY <2>1
  <2> QED
    BY <1>1, <2>1, <2>2, <2>3, FS_Subset, FS_CardinalityType
<1> QED
  BY <1>1, <1>2, <1>3

\* The better the rank, the smaller the discount; the first has none.
LEMMA DiscountOrder ==
  ASSUME NEW step \in Nat, NEW minimum \in 0 .. BpsScale, NEW m \in Nat, NEW n \in Nat, m <= n
  PROVE  /\ DiscountBps(n, step, minimum) \in minimum .. BpsScale
         /\ DiscountBps(n, step, minimum) <= DiscountBps(m, step, minimum)
         /\ DiscountBps(0, step, minimum) = BpsScale
<1>0. BpsScale \in Nat /\ minimum \in Nat /\ minimum <= BpsScale
  BY DEF BpsScale
<1>1. PICK x \in Nat, y \in Nat : x = m * step /\ y = n * step /\ x <= y
  BY ProductMonotone
<1>2. 0 * step = 0
  OBVIOUS
<1> QED
  BY <1>0, <1>1, <1>2 DEF DiscountBps

\* Rounding to the nearest: what a rate makes of a quality.
LEMMA RoundedBounds ==
  ASSUME NEW q \in Nat, NEW rate \in 0 .. BpsScale, NEW floor \in 0 .. BpsScale, floor <= rate
  PROVE  /\ Rounded(q * rate, BpsScale) \in 0 .. q
         /\ rate = BpsScale => Rounded(q * rate, BpsScale) = q
         /\ q * floor <= BpsScale * Rounded(q * rate, BpsScale) + BpsScale \div 2
<1>0. BpsScale = 10000 /\ rate \in Nat /\ floor \in Nat /\ rate <= 10000
  BY DEF BpsScale
<1>1. PICK n \in Nat, f \in Nat : n = q * rate /\ f = q * floor /\ f <= n /\ n <= q * 10000
  BY <1>0, ProductMonotone
<1>2. rate = BpsScale => n = q * 10000
  BY <1>0, <1>1
<1>3. PICK r : r = (2 * n + 10000) \div 20000
  OBVIOUS
<1>4. r \in Nat /\ r <= q /\ (n = q * 10000 => r = q) /\ n <= 10000 * r + 5000
  BY <1>1, <1>3
<1>5. Rounded(q * rate, BpsScale) = r
  BY <1>0, <1>1, <1>3 DEF Rounded
<1>6. q * floor <= BpsScale * r + BpsScale \div 2
  <2>1. BpsScale \div 2 = 5000 /\ BpsScale * r = 10000 * r
    BY <1>0
  <2>2. f <= 10000 * r + 5000
    BY <1>1, <1>4
  <2> QED
    BY <1>1, <2>1, <2>2
<1>7. rate = BpsScale => r = q
  BY <1>2, <1>4
<1> HIDE DEF BpsScale
<1> QED
  BY <1>4, <1>5, <1>6, <1>7

\* Rounding keeps the order.
LEMMA RoundedOrder ==
  ASSUME NEW q \in Nat, NEW r \in Nat, NEW d \in Nat, NEW e \in Nat, q <= r, d <= e
  PROVE  Rounded(q * d, BpsScale) <= Rounded(r * e, BpsScale)
<1>1. PICK m \in Nat, n \in Nat : m = q * d /\ n = r * e /\ m <= n
  BY ProductMonotone
<1>2. (2 * m + 10000) \div 20000 <= (2 * n + 10000) \div 20000
  BY <1>1
<1>3. Rounded(m, BpsScale) <= Rounded(n, BpsScale)
  BY <1>2 DEF Rounded, BpsScale
<1> QED
  BY <1>1, <1>3

\* The work nothing is ahead of, in whatever bucket.
IsBest(S, quality, place, i) ==
  \A j \in S : quality[j] <= quality[i] /\ (quality[j] = quality[i] => place[i] <= place[j])

\* What the discounts do: they never raise a quality and leave the best work of all
\* what it is.
Discounted(S, quality, after, place) ==
  /\ after \in [S -> Nat]
  /\ \A i \in S : after[i] <= quality[i]
  /\ \A i \in S : IsBest(S, quality, place, i) =>
       after[i] = quality[i] /\ IsBest(S, after, place, i)

\* A discount by rank does, never takes more than the floor allows (but for the
\* rounding) and keeps the order of a bucket.
LEMMA RankDiscounts ==
  ASSUME NEW S, IsFiniteSet(S), NEW quality \in [S -> Nat], NEW bucket,
         NEW place, Placed(S, place),
         NEW step \in Nat, NEW minimum \in 0 .. BpsScale,
         NEW after, after = ApplyRankDiscounts(S, quality, bucket, place, step, minimum)
  PROVE  /\ Discounted(S, quality, after, place)
         /\ \A i \in S : quality[i] * minimum <= BpsScale * after[i] + BpsScale \div 2
         /\ \A i, j \in S :
              bucket[j] = bucket[i] /\ quality[j] > quality[i] => after[j] >= after[i]
<1> DEFINE rank(i) == Rank(S, quality, bucket, place, i)
           rate(i) == DiscountBps(rank(i), step, minimum)
<1>0. minimum \in Nat /\ BpsScale \in Nat
  BY DEF BpsScale
<1>1. /\ \A i \in S : rank(i) \in Nat
      /\ \A i, j \in S : bucket[j] = bucket[i] /\ quality[j] > quality[i] => rank(j) < rank(i)
  <2> SUFFICES ASSUME NEW i \in S
               PROVE  /\ rank(i) \in Nat
                      /\ \A j \in S : bucket[j] = bucket[i] /\ quality[j] > quality[i] =>
                           rank(j) < rank(i)
    OBVIOUS
  <2> QED
    BY RankOrder
<1>2. \A i \in S : after[i] = Rounded(quality[i] * rate(i), BpsScale)
  BY DEF ApplyRankDiscounts
<1>3. after = [i \in S |-> after[i]]
  BY DEF ApplyRankDiscounts
<1>4. ASSUME NEW i \in S
      PROVE  /\ rate(i) \in 0 .. BpsScale /\ minimum <= rate(i)
             /\ rank(i) = 0 => rate(i) = BpsScale
  <2>1. PICK n \in Nat : n = rank(i) /\ n <= n
    BY <1>1
  <2>2. DiscountBps(n, step, minimum) \in minimum .. BpsScale
    BY <2>1, DiscountOrder
  <2>3. n = 0 => DiscountBps(n, step, minimum) = BpsScale
    BY <2>1, DiscountOrder
  <2> QED
    BY <1>0, <2>1, <2>2, <2>3
<1>5. \A i, j \in S : bucket[j] = bucket[i] /\ quality[j] > quality[i] => rate(i) <= rate(j)
  <2> SUFFICES ASSUME NEW i \in S, NEW j \in S, bucket[j] = bucket[i], quality[j] > quality[i]
               PROVE  rate(i) <= rate(j)
    OBVIOUS
  <2>1. PICK m \in Nat, n \in Nat : m = rank(j) /\ n = rank(i) /\ m <= n
    BY <1>1
  <2> QED
    BY <2>1, DiscountOrder
<1>6. ASSUME NEW i \in S, IsBest(S, quality, place, i)
      PROVE  rank(i) = 0
  <2>1. Ahead(S, quality, bucket, place, i) = {}
    BY <1>6 DEF IsBest, Ahead, Placed
  <2> QED
    BY <2>1, FS_EmptySet DEF Rank, Ahead
<1> HIDE DEF rank, rate
<1>7. \A i \in S : /\ after[i] \in 0 .. quality[i]
                   /\ rate(i) = BpsScale => after[i] = quality[i]
                   /\ quality[i] * minimum <= BpsScale * after[i] + BpsScale \div 2
  <2> SUFFICES ASSUME NEW i \in S
               PROVE  /\ after[i] \in 0 .. quality[i]
                      /\ rate(i) = BpsScale => after[i] = quality[i]
                      /\ quality[i] * minimum <= BpsScale * after[i] + BpsScale \div 2
    OBVIOUS
  <2> QED
    BY <1>2, <1>4, RoundedBounds, SMTT(60)
<1>8. \A i, j \in S : bucket[j] = bucket[i] /\ quality[j] > quality[i] => after[j] >= after[i]
  <2> SUFFICES ASSUME NEW i \in S, NEW j \in S, bucket[j] = bucket[i], quality[j] > quality[i]
               PROVE  after[j] >= after[i]
    OBVIOUS
  <2>1. quality[i] <= quality[j] /\ rate(i) <= rate(j)
    BY <1>5
  <2>0. rate(i) \in Nat /\ rate(j) \in Nat
    BY <1>0, <1>4
  <2>2. Rounded(quality[i] * rate(i), BpsScale) <= Rounded(quality[j] * rate(j), BpsScale)
    BY <2>0, <2>1, RoundedOrder
  <2>3. after[i] \in Nat /\ after[j] \in Nat
    BY <1>7
  <2> QED
    BY <1>2, <2>2, <2>3
<1>9. ASSUME NEW i \in S, IsBest(S, quality, place, i)
      PROVE  after[i] = quality[i] /\ IsBest(S, after, place, i)
  <2>1. after[i] = quality[i]
    BY <1>4, <1>6, <1>7, <1>9
  <2>2. ASSUME NEW j \in S
        PROVE  after[j] <= after[i] /\ (after[j] = after[i] => place[i] <= place[j])
    <3>1. after[j] \in 0 .. quality[j] /\ quality[j] \in Nat /\ quality[i] \in Nat
      BY <1>7
    <3>2. quality[j] <= quality[i] /\ (quality[j] = quality[i] => place[i] <= place[j])
      BY <1>9 DEF IsBest
    <3> QED
      BY <2>1, <3>1, <3>2
  <2> QED
    BY <2>1, <2>2 DEF IsBest
<1>10. Discounted(S, quality, after, place)
  <2>1. after \in [S -> Nat] /\ \A i \in S : after[i] <= quality[i]
    BY <1>3, <1>7
  <2> QED
    BY <1>9, <2>1 DEF Discounted
<1> QED
  BY <1>7, <1>8, <1>10

\* The first of these, for the discounts one after the other.
LEMMA RankDiscounted ==
  ASSUME NEW S, IsFiniteSet(S), NEW quality \in [S -> Nat], NEW bucket,
         NEW place, Placed(S, place),
         NEW step \in Nat, NEW minimum \in 0 .. BpsScale
  PROVE  Discounted(S, quality, ApplyRankDiscounts(S, quality, bucket, place, step, minimum), place)
BY RankDiscounts

\* Whatever work is grouped with it by kind, operator, identity and recipient, the
\* discounts of applyCandidateQualityDiscounts never raise the quality of work, and
\* leave the best work of the group what it is.
THEOREM BestWorkKeepsItsQuality ==
  ASSUME NEW S, IsFiniteSet(S), NEW quality \in [S -> Nat], NEW work,
         NEW place, Placed(S, place),
         NEW after, after = ApplyCandidateQualityDiscounts(S, quality, work, place)
  PROVE  Discounted(S, quality, after, place)
<1>1. PICK kinds, operators, identities, recipients :
        /\ kinds = [i \in S |-> "__all__"]
        /\ operators = [i \in S |-> work[i].operator]
        /\ identities = [i \in S |-> work[i].identity]
        /\ recipients = [i \in S |-> work[i].recipient]
  OBVIOUS
<1>2. /\ 5500 \in 0 .. BpsScale /\ 6000 \in 0 .. BpsScale
      /\ 5000 \in 0 .. BpsScale /\ 4500 \in 0 .. BpsScale
      /\ 1500 \in Nat /\ 1250 \in Nat /\ 2000 \in Nat
  BY DEF BpsScale
<1>3. PICK r1 : r1 = ApplyRankDiscounts(S, quality, kinds, place, 1500, 5500)
  OBVIOUS
<1>4. PICK r2 : r2 = ApplyRankDiscounts(S, r1, operators, place, 1250, 6000)
  OBVIOUS
<1>5. PICK r3 : r3 = ApplyRankDiscounts(S, r2, identities, place, 1500, 5000)
  OBVIOUS
<1>0. after = ApplyRankDiscounts(S, r3, recipients, place, 2000, 4500)
  BY <1>1, <1>3, <1>4, <1>5 DEF ApplyCandidateQualityDiscounts
<1>6. Discounted(S, quality, r1, place) /\ r1 \in [S -> Nat]
  <2>1. Discounted(S, quality, r1, place)
    BY <1>2, <1>3, RankDiscounted
  <2> QED
    BY <2>1 DEF Discounted
<1>7. Discounted(S, r1, r2, place) /\ r2 \in [S -> Nat]
  <2>1. Discounted(S, r1, r2, place)
    BY <1>2, <1>4, <1>6, RankDiscounted
  <2> QED
    BY <2>1 DEF Discounted
<1>8. Discounted(S, r2, r3, place) /\ r3 \in [S -> Nat]
  <2>1. Discounted(S, r2, r3, place)
    BY <1>2, <1>5, <1>7, RankDiscounted
  <2> QED
    BY <2>1 DEF Discounted
<1>9. Discounted(S, r3, after, place)
  BY <1>0, <1>2, <1>8, RankDiscounted
<1> QED
  BY <1>6, <1>7, <1>8, <1>9 DEF Discounted

\* The market pressure is a rate.
LEMMA PressureType ==
  ASSUME NEW config \in Config, NEW balance \in Nat, NEW attention \in Nat
  PROVE  MarketPressureBps(config, balance, attention) \in Nat
<1>1. config.fundingTarget \in Nat
  BY DEF Config
<1>2. PoolPressureBps(balance, config.fundingTarget) \in Nat
  <2>1. CASE config.fundingTarget = 0
    BY <2>1 DEF PoolPressureBps, BpsScale
  <2>2. CASE config.fundingTarget # 0
    <3>1. (balance * BpsScale) \div config.fundingTarget \in Nat
      BY <1>1, <2>2, QuotientBounds DEF BpsScale
    <3> QED
      BY <2>2, <3>1 DEF PoolPressureBps, ClampInteger
  <2> QED
    BY <2>1, <2>2
<1>3. PICK pressure \in Nat : pressure = PoolPressureBps(balance, config.fundingTarget)
  BY <1>2
<1>4. (pressure * attention) \div BpsScale \in Nat
  BY DEF BpsScale
<1> QED
  BY <1>3, <1>4 DEF MarketPressureBps, ClampInteger

\* However large the fraction and the attention, no more is given out than there is.
LEMMA DistributableFits ==
  ASSUME NEW config \in Config, NEW balance \in Nat, NEW attention \in Nat
  PROVE  DistributablePool(config, balance, attention) \in 0 .. balance
<1>1. config.distributionFraction \in Nat
  <2>1. config.distributionFraction \in 0 .. BpsScale
    BY DEF Config
  <2>2. BpsScale \in Nat
    BY DEF BpsScale
  <2> QED
    BY <2>1, <2>2
<1>2. PICK part \in Nat : part = (balance * config.distributionFraction) \div BpsScale
  BY <1>1 DEF BpsScale
<1>3. (part * attention) \div BpsScale \in Nat
  BY DEF BpsScale
<1> QED
  BY <1>2, <1>3 DEF DistributablePool, ClampInteger

\* Better work has the higher raw target.
LEMMA RawTargetsOrdered ==
  ASSUME NEW config \in Config, NEW q \in Nat, NEW r \in Nat, NEW pressure \in Nat, q <= r
  PROVE  /\ RawTarget(config, q, pressure) \in Nat
         /\ RawTarget(config, r, pressure) \in Nat
         /\ RawTarget(config, q, pressure) <= RawTarget(config, r, pressure)
<1>1. config.baseReward \in Nat /\ config.minimumQuality \in Nat
  BY DEF Config
<1>2. PICK a \in Nat, c \in Nat :
        a = config.baseReward * q * pressure /\ c = config.baseReward * r * pressure /\ a <= c
  <2>1. PICK x \in Nat, y \in Nat : x = config.baseReward * q /\ y = config.baseReward * r /\ x <= y
    BY <1>1, ProductMonotone
  <2>2. x * pressure \in Nat /\ y * pressure \in Nat /\ x * pressure <= y * pressure
    BY <2>1, ProductMonotone
  <2> QED
    BY <2>1, <2>2
<1>3. PICK b \in Nat \ {0} : b = BpsScale * BpsScale
  BY DEF BpsScale
<1>4. a \div b \in Nat /\ c \div b \in Nat /\ a \div b <= c \div b
  BY <1>2, QuotientBounds, QuotientMonotone
<1> QED
  BY <1>1, <1>2, <1>3, <1>4 DEF RawTarget

\* A share in the total: ordered, and all but what rounding takes.
LEMMA ShareBounds ==
  ASSUME NEW distributable \in Nat, NEW raw \in Nat, NEW total \in Nat, raw <= total
  PROVE  /\ Share(distributable, raw, total) \in 0 .. distributable
         /\ total * Share(distributable, raw, total) <= distributable * raw
         /\ distributable * raw <= total * Share(distributable, raw, total) + total
<1>1. CASE total = 0
  <2>1. raw = 0 /\ distributable * raw = 0
    BY <1>1
  <2> QED
    BY <1>1, <2>1 DEF Share
<1>2. CASE total # 0
  <2>1. PICK a \in Nat : a = distributable * raw
    OBVIOUS
  <2>2. /\ a \div total \in Nat /\ total * (a \div total) <= a
        /\ a < total * (a \div total) + total
    BY <1>2, QuotientBounds
  <2>3. a \div total <= distributable
    <3>1. a <= distributable * total /\ distributable * total \in Nat
      BY <2>1, ProductMonotone
    <3>2. a \div total <= (distributable * total) \div total
      BY <1>2, <3>1, QuotientMonotone
    <3>3. (distributable * total) \div total = distributable
      BY <1>2
    <3> QED
      BY <2>2, <3>2, <3>3
  <2>4. Share(distributable, raw, total) = a \div total
    BY <1>2, <2>1 DEF Share
  <2>5. PICK s \in Nat : s = a \div total
    BY <2>2
  <2> QED
    BY <2>1, <2>2, <2>3, <2>4, <2>5
<1> QED
  BY <1>1, <1>2

\* The larger raw target gets the larger share.
LEMMA SharesOrdered ==
  ASSUME NEW distributable \in Nat, NEW raw \in Nat, NEW more \in Nat, NEW total \in Nat,
         raw <= more
  PROVE  Share(distributable, raw, total) <= Share(distributable, more, total)
<1>1. PICK a \in Nat, c \in Nat : a = distributable * raw /\ c = distributable * more /\ a <= c
  BY ProductMonotone
<1> QED
  BY <1>1, QuotientMonotone DEF Share

\* The targets deriveRewardTargetsForGroup answers stay within what it gives out of
\* the pool, which is no more than the pool holds, and if any is paid fall short of it by
\* the rounding only, at most a wei for each piece of work; work below the minimum
\* quality gets nothing, and better work never less than worse.
THEOREM SharesFit ==
  ASSUME NEW config \in Config, NEW S, IsFiniteSet(S), NEW quality \in [S -> Nat],
         NEW balance \in Nat, NEW attention \in Nat,
         NEW distributable, distributable = DistributablePool(config, balance, attention),
         NEW targets,
         targets = DeriveRewardTargetsForGroup(config, S, quality, balance, attention)
  PROVE  /\ targets \in [S -> 0 .. balance]
         /\ SumFunctionOnSet(targets, S) <= distributable
         /\ distributable <= balance
         /\ (\E i \in S : targets[i] # 0)
              => distributable <= SumFunctionOnSet(targets, S) + Cardinality(S)
         /\ \A i \in S : quality[i] < config.minimumQuality => targets[i] = 0
         /\ \A i, j \in S : quality[i] <= quality[j] => targets[i] <= targets[j]
<1> DEFINE pressure == MarketPressureBps(config, balance, attention)
           raw == [i \in S |-> RawTarget(config, quality[i], pressure)]
           total == SumFunctionOnSet(raw, S)
<1>1. pressure \in Nat
  BY PressureType
<1>2. distributable \in Nat /\ distributable <= balance
  BY DistributableFits
<1>3. targets = [i \in S |-> Share(distributable, raw[i], total)]
  BY DEF DeriveRewardTargetsForGroup
<1> HIDE DEF pressure
<1>4. \A i \in S : raw[i] \in Nat
  <2> SUFFICES ASSUME NEW i \in S
               PROVE  RawTarget(config, quality[i], pressure) \in Nat
    OBVIOUS
  <2>1. quality[i] \in Nat /\ quality[i] <= quality[i]
    OBVIOUS
  <2> QED
    BY <1>1, <2>1, RawTargetsOrdered
<1>5. \A i, j \in S : quality[i] <= quality[j] => raw[i] <= raw[j]
  BY <1>1, RawTargetsOrdered
<1>6. \A i \in S : quality[i] < config.minimumQuality => raw[i] = 0
  BY DEF RawTarget
<1> HIDE DEF raw
<1>7. PICK t \in Nat : t = total /\ \A i \in S : raw[i] <= t
  BY <1>4, SumNat, SumAbove
<1> HIDE DEF total
<1>8. \A i \in S : /\ targets[i] \in 0 .. distributable
                   /\ t * targets[i] <= distributable * raw[i]
                   /\ distributable * raw[i] <= t * targets[i] + t
  BY <1>2, <1>3, <1>4, <1>7, ShareBounds
<1>9. targets \in [S -> 0 .. balance]
  BY <1>2, <1>3, <1>8
<1>10. \A i, j \in S : quality[i] <= quality[j] => targets[i] <= targets[j]
  BY <1>2, <1>3, <1>4, <1>5, <1>7, SharesOrdered
<1>11. \A i \in S : quality[i] < config.minimumQuality => targets[i] = 0
  <2>1. Share(distributable, 0, t) = 0
    <3>1. distributable * 0 = 0
      BY <1>2
    <3> QED
      BY <3>1 DEF Share
  <2> QED
    BY <1>3, <1>6, <1>7, <2>1
<1>12. PICK s \in Nat : s = SumFunctionOnSet(targets, S)
  BY <1>8, <1>2, SumNat
<1>13. (t = 0 => s = 0 /\ \A i \in S : targets[i] = 0) /\ (t # 0 => s <= distributable)
  <2>1. CASE t = 0
    <3>1. \A i \in S : targets[i] = 0
      BY <1>3, <1>7, <2>1 DEF Share
    <3> QED
      BY <1>12, <2>1, <3>1, SumZero
  <2>2. CASE t # 0
    <3> DEFINE u == [i \in S |-> t * targets[i]]
               v == [i \in S |-> distributable * raw[i]]
    <3>1. /\ \A i \in S : u[i] \in Int /\ v[i] \in Int /\ u[i] <= v[i]
          /\ \A i \in S : targets[i] \in Int /\ u[i] = t * targets[i]
          /\ \A i \in S : raw[i] \in Int /\ v[i] = distributable * raw[i]
      BY <1>2, <1>4, <1>8
    <3> HIDE DEF u, v
    <3>2. SumFunctionOnSet(u, S) = t * s
      BY <1>7, <1>12, <3>1, SumTimes
    <3>3. SumFunctionOnSet(v, S) = distributable * t
      BY <1>2, <1>7, <3>1, SumTimes DEF total
    <3>4. t * s <= distributable * t
      BY <3>1, <3>2, <3>3, SumLeq
    <3> QED
      BY <1>2, <2>2, <3>4
  <2> QED
    BY <2>1, <2>2
<1>14. t # 0 => distributable <= s + Cardinality(S)
  <2> SUFFICES ASSUME t # 0
               PROVE  distributable <= s + Cardinality(S)
    OBVIOUS
  <2>0. PICK n \in Nat : n = Cardinality(S)
    BY FS_CardinalityType
  <2> DEFINE v == [i \in S |-> distributable * raw[i]]
             w == [i \in S |-> targets[i] + 1]
             u == [i \in S |-> t * w[i]]
  <2>1. \A i \in S : w[i] \in Int /\ w[i] = targets[i] + 1 /\ targets[i] \in Int
    BY <1>8
  <2> HIDE DEF w
  <2>2. \A i \in S : u[i] \in Int /\ v[i] \in Int /\ v[i] <= u[i]
    <3> SUFFICES ASSUME NEW i \in S
                 PROVE  t * w[i] \in Int /\ distributable * raw[i] \in Int
                        /\ distributable * raw[i] <= t * w[i]
      OBVIOUS
    <3>1. PICK x \in Nat : x = targets[i]
      BY <1>8
    <3>2. t * (x + 1) = t * x + t
      OBVIOUS
    <3> QED
      BY <1>2, <1>4, <1>8, <2>1, <3>1, <3>2
  <2>3. \A i \in S : raw[i] \in Int /\ v[i] = distributable * raw[i] /\ u[i] = t * w[i]
    BY <1>4
  <2> HIDE DEF u, v
  <2>4. SumFunctionOnSet(v, S) <= SumFunctionOnSet(u, S)
    BY <2>2, SumLeq
  <2>5. SumFunctionOnSet(v, S) = distributable * t
    BY <1>2, <1>7, <2>3, SumTimes DEF total
  <2>6. SumFunctionOnSet(u, S) = t * SumFunctionOnSet(w, S)
    BY <2>1, <2>3, SumTimes
  <2>7. SumFunctionOnSet(w, S) = s + n
    BY <1>12, <2>0, <2>1, SumSuccessors
  <2>8. distributable * t <= t * (s + n)
    BY <2>4, <2>5, <2>6, <2>7
  <2> QED
    BY <1>2, <2>0, <2>8
<1> QED
  BY <1>2, <1>7, <1>9, <1>10, <1>11, <1>12, <1>13, <1>14

\* Of this, what the policy runs need: the balance covers the targets.
LEMMA SharesWithinBalance ==
  ASSUME NEW config \in Config, NEW S, IsFiniteSet(S), NEW quality \in [S -> Nat],
         NEW balance \in Nat, NEW attention \in Nat
  PROVE  /\ DeriveRewardTargetsForGroup(config, S, quality, balance, attention)
              \in [S -> 0 .. balance]
         /\ SumFunctionOnSet(
              DeriveRewardTargetsForGroup(config, S, quality, balance, attention), S) <= balance
<1>1. PICK shares : shares = DeriveRewardTargetsForGroup(config, S, quality, balance, attention)
  OBVIOUS
<1>2. PICK distributable : distributable = DistributablePool(config, balance, attention)
  OBVIOUS
<1>3. /\ shares \in [S -> 0 .. balance]
      /\ SumFunctionOnSet(shares, S) <= distributable /\ distributable <= balance
  BY <1>1, <1>2, SharesFit
<1>4. distributable \in Int /\ SumFunctionOnSet(shares, S) \in Int
  <2>1. \A i \in S : shares[i] \in Int
    BY <1>3
  <2> QED
    BY <1>2, <2>1, DistributableFits, SumInt
<1> QED
  BY <1>1, <1>3, <1>4

\* What is known of the settings: numbers are naturals.
LEMMA Settings ==
  /\ IsFiniteSet(Items) /\ PolicyConfig \in [Pools -> Config] /\ Place \in [Items -> Nat]
  /\ Qualities \subseteq Nat /\ Attentions \subseteq Nat
<1>1. IsFiniteSet(Items)
  BY PolicyAssumption
<1>2. PolicyConfig \in [Pools -> Config] /\ Place \in [Items -> Nat]
  BY ShareAssumption, SMTT(60)
<1>3. ASSUME NEW q \in Qualities
      PROVE  q \in Nat
  <2>1. q \in 0 .. 20000
    BY ShareAssumption, SMTT(60)
  <2> QED
    BY <2>1
<1>4. ASSUME NEW a \in Attentions
      PROVE  a \in Nat
  <2>1. a \in 5000 .. 25000
    BY ShareAssumption, SMTT(60)
  <2> QED
    BY <2>1
<1> QED
  BY <1>1, <1>2, <1>3, <1>4

\* What the policy targets for the work of a pool: nothing outside the pool, and
\* all of it together no more than the balance.
LEMMA TargetsFit ==
  ASSUME NEW pool \in Pools, NEW balance \in 0 .. MaxRewardFunds,
         NEW targets \in RewardTargets[pool][balance]
  PROVE  /\ targets \in [Items -> 0 .. balance]
         /\ \A item \in Items \ GroupOf(pool) : targets[item] = 0
         /\ SumFunctionOnSet(targets, GroupOf(pool)) <= balance
<1> DEFINE S == GroupOf(pool)
           config == PolicyConfig[pool]
<1>0. /\ IsFiniteSet(Items) /\ PolicyConfig \in [Pools -> Config] /\ Place \in [Items -> Nat]
      /\ Qualities \subseteq Nat /\ Attentions \subseteq Nat
  BY Settings
<1>1. PICK quality \in [S -> Qualities], work \in [S -> Works], attention \in Attentions :
        targets = [item \in Items |->
          IF item \in S
          THEN DeriveRewardTargetsForGroup(config, S,
                 ApplyCandidateQualityDiscounts(S, quality, work, Place), balance, attention)[item]
          ELSE 0]
  BY DEF RewardTargets
<1>2. S \subseteq Items /\ IsFiniteSet(S)
  <2>1. S \subseteq Items
    BY DEF GroupOf
  <2> HIDE DEF S
  <2>2. IsFiniteSet(S)
    BY <2>1, <1>0, FS_Subset
  <2> QED
    BY <2>1, <2>2
<1> HIDE DEF S
<1>3. /\ config \in Config /\ balance \in Nat /\ attention \in Nat
      /\ quality \in [S -> Nat] /\ Placed(S, Place)
  <2>1. config \in Config
    BY <1>0
  <2>2. balance \in Nat
    BY AgentAssumption
  <2>3. attention \in Nat /\ Qualities \subseteq Nat
    BY <1>0
  <2>4. quality \in [S -> Nat]
    BY <2>3
  <2>5. Placed(S, Place)
    BY <1>2, <1>0 DEF Placed
  <2> QED
    BY <2>1, <2>2, <2>3, <2>4, <2>5
<1> HIDE DEF config
<1>4. PICK q : q = ApplyCandidateQualityDiscounts(S, quality, work, Place)
  OBVIOUS
<1>5. q \in [S -> Nat]
  <2>1. Discounted(S, quality, q, Place)
    BY <1>2, <1>3, <1>4, BestWorkKeepsItsQuality
  <2> QED
    BY <2>1 DEF Discounted
<1>6. PICK shares : shares = DeriveRewardTargetsForGroup(config, S, q, balance, attention)
  OBVIOUS
<1>8. shares \in [S -> 0 .. balance] /\ SumFunctionOnSet(shares, S) <= balance
  BY <1>2, <1>3, <1>5, <1>6, SharesWithinBalance
<1>9. targets = [item \in Items |-> IF item \in S THEN shares[item] ELSE 0]
  BY <1>1, <1>4, <1>6
<1>10. \A item \in S : targets[item] = shares[item]
  BY <1>2, <1>9
<1>11. SumFunctionOnSet(targets, S) = SumFunctionOnSet(shares, S)
  BY <1>2, <1>10, SumSame
<1>13. targets \in [Items -> 0 .. balance] /\ \A item \in Items \ S : targets[item] = 0
  BY <1>3, <1>8, <1>9
<1> QED
  BY <1>8, <1>11, <1>13 DEF S

-----------------------------------------------------------------------------
(***************************************************************************)
(* Payments.  Nothing is said of what a run has read or derived but the    *)
(* number of steps, so that no sum is needed.                              *)
(***************************************************************************)

\* A policy run is a record, of which the counts are numbers.
RunShape(run) ==
  /\ run = [pc |-> run.pc, accrued |-> run.accrued, targets |-> run.targets,
            groups |-> run.groups, todo |-> run.todo, item |-> run.item]
  /\ run.pc \in {"paying", "paid"}
  /\ run.pc = "paid" => run.item \in Items
  /\ run.accrued = [item \in Items |-> run.accrued[item]]
  /\ \A item \in Items : run.accrued[item].count \in Nat

PaymentTypes ==
  /\ settledRewards \subseteq SettlementIds
  /\ settledAmounts \in [SettlementIds -> Nat]
  /\ \A id \in SettlementIds \ settledRewards : settledAmounts[id] = 0
  /\ rows = [id \in SettlementIds |-> rows[id]]
  /\ policyRuns = [p \in Runners |-> policyRuns[p]]
  /\ \A p \in Runners : policyRuns[p] # Idle => RunShape(policyRuns[p])

\* The rows of an item are those of its first k steps, all settled, and at most
\* one more step is.
StepsInOrder(item) ==
  \E k \in 0 .. MaxSteps :
    /\ RowsOf(item) = 1 .. k
    /\ 1 .. k \subseteq SettledSteps(item)
    /\ SettledSteps(item) \subseteq 1 .. (k + 1)

RowsAgree ==
  \A item \in Items : \A n \in RowsOf(item) :
    rows[<<item, n>>].amount = settledAmounts[<<item, n>>]

\* A run has seen no step that has no row ...
RunsLagBehind ==
  \A p \in Runners : policyRuns[p] # Idle =>
    \A item \in Items : 1 .. policyRuns[p].accrued[item].count \subseteq RowsOf(item)

\* ... and what it says it has paid is what the chain has settled.
PaidIsSettled ==
  \A p \in Runners : policyRuns[p] # Idle /\ policyRuns[p].pc = "paid" =>
    LET item == policyRuns[p].item
        id == <<item, NextStep(p, item)>>
    IN id \in settledRewards /\ settledAmounts[id] = Delta(p, item) /\ Delta(p, item) \in Wei

PaymentInv ==
  /\ PaymentTypes
  /\ \A item \in Items : StepsInOrder(item)
  /\ RowsAgree
  /\ RunsLagBehind
  /\ PaidIsSettled

\* The invariant says what RowsFollowChain says.
LEMMA PaymentsFollowChain == PaymentInv => RowsFollowChain
<1> SUFFICES ASSUME PaymentInv, NEW item \in Items
             PROVE  /\ RowsOf(item) \subseteq SettledSteps(item)
                    /\ \A n \in RowsOf(item) :
                         rows[<<item, n>>].amount = settledAmounts[<<item, n>>]
                    /\ \A n \in SettledSteps(item) : (1 .. (n - 1)) \subseteq RowsOf(item)
  BY DEF RowsFollowChain
<1>1. PICK k \in 0 .. MaxSteps :
        /\ RowsOf(item) = 1 .. k
        /\ 1 .. k \subseteq SettledSteps(item)
        /\ SettledSteps(item) \subseteq 1 .. (k + 1)
  BY DEF PaymentInv, StepsInOrder
<1>2. k \in Nat
  BY VaultAssumption
<1>3. \A n \in SettledSteps(item) : (1 .. (n - 1)) \subseteq 1 .. k
  BY <1>1, <1>2
<1> QED
  BY <1>1, <1>3 DEF PaymentInv, RowsAgree

\* Nothing is paid and no run has begun.
LEMMA PaymentsAtInit == PolicyInitial => PaymentInv
<1> SUFFICES ASSUME PolicyInitial
             PROVE  PaymentInv
  OBVIOUS
<1> USE DEF PolicyInitial, VaultInit, PolicyInit
<1>1. PaymentTypes
  BY DEF PaymentTypes
<1>2. ASSUME NEW item \in Items
      PROVE  RowsOf(item) = {} /\ SettledSteps(item) = {}
  <2>1. \A n \in 1 .. MaxSteps : <<item, n>> \in SettlementIds
    BY DEF SettlementIds
  <2> QED
    BY <2>1 DEF RowsOf, SettledSteps
<1>3. \A item \in Items : StepsInOrder(item)
  <2>1. 0 \in 0 .. MaxSteps /\ 1 .. 0 = {}
    BY VaultAssumption
  <2> QED
    BY <1>2, <2>1 DEF StepsInOrder
<1> QED
  BY <1>1, <1>2, <1>3 DEF PaymentInv, RowsAgree, RunsLagBehind, PaidIsSettled

\* What a step makes of a policy run: it turns to a pool, pays an item, or remembers
\* the payment.
Turned(run, pool, targets) ==
  [pc |-> run.pc, accrued |-> run.accrued, targets |-> targets, groups |-> run.groups \ {pool},
   todo |-> {item \in Items : targets[item] > run.accrued[item].accrued}, item |-> run.item]
Paying(run, item) ==
  [pc |-> "paid", accrued |-> run.accrued, targets |-> run.targets, groups |-> run.groups,
   todo |-> run.todo \ {item}, item |-> item]
Remembering(run, item, n) ==
  [pc |-> "paying",
   accrued |-> [run.accrued EXCEPT ![item] = [accrued |-> run.targets[item], count |-> n]],
   targets |-> run.targets, groups |-> run.groups, todo |-> run.todo, item |-> item]

\* NextGroup turns the run to one of its pools.
LEMMA NextGroupRuns ==
  ASSUME PaymentTypes, NEW p \in Runners, NextGroup(p)
  PROVE  \E pool \in policyRuns[p].groups :
           \E targets \in RewardTargets[pool][claimRewardPools[pool]] :
             policyRuns' = [policyRuns EXCEPT ![p] = Turned(policyRuns[p], pool, targets)]
<1> DEFINE run == policyRuns[p]
<1>1. run # Idle
  BY DEF NextGroup, Idle
<1>2. RunShape(run)
  BY <1>1 DEF PaymentTypes
<1>3. PICK pool \in run.groups : \E targets \in RewardTargets[pool][claimRewardPools[pool]] :
        policyRuns' = [policyRuns EXCEPT
          ![p].groups = @ \ {pool}, ![p].targets = targets,
          ![p].todo = {item \in Items : targets[item] > run.accrued[item].accrued}]
  BY DEF NextGroup
<1>4. PICK targets \in RewardTargets[pool][claimRewardPools[pool]] :
        policyRuns' = [policyRuns EXCEPT
          ![p].groups = @ \ {pool}, ![p].targets = targets,
          ![p].todo = {item \in Items : targets[item] > run.accrued[item].accrued}]
  BY <1>3
<1> DEFINE todo == {item \in Items : targets[item] > run.accrued[item].accrued}
           rest == run.groups \ {pool}
           new == [pc |-> run.pc, accrued |-> run.accrued, targets |-> targets,
                   groups |-> rest, todo |-> todo, item |-> run.item]
<1>5. policyRuns' = [policyRuns EXCEPT ![p] = new]
  <2>1. policyRuns' = [policyRuns EXCEPT ![p].groups = rest, ![p].targets = targets,
                                         ![p].todo = todo]
    BY <1>4
  <2> HIDE DEF todo, rest
  <2>2. [run EXCEPT !.groups = rest] =
          [pc |-> run.pc, accrued |-> run.accrued, targets |-> run.targets,
           groups |-> rest, todo |-> run.todo, item |-> run.item]
    BY <1>2 DEF RunShape
  <2>3. [run EXCEPT !.groups = rest, !.targets = targets, !.todo = todo] = new
    <3> DEFINE r1 == [run EXCEPT !.groups = rest]
               r2 == [r1 EXCEPT !.targets = targets]
    <3> HIDE DEF r1
    <3>1. r1 = [pc |-> run.pc, accrued |-> run.accrued, targets |-> run.targets,
                groups |-> rest, todo |-> run.todo, item |-> run.item]
      BY <2>2 DEF r1
    <3>2. r2 = [pc |-> run.pc, accrued |-> run.accrued, targets |-> targets,
                groups |-> rest, todo |-> run.todo, item |-> run.item]
      BY <3>1
    <3> HIDE DEF r2
    <3>3. [r2 EXCEPT !.todo = todo] = new
      BY <3>2
    <3> QED
      BY <3>3 DEF r1, r2
  <2>4. policyRuns = [q \in Runners |-> policyRuns[q]]
    BY DEF PaymentTypes
  <2>5. policyRuns' = [policyRuns EXCEPT
          ![p] = [run EXCEPT !.groups = rest, !.targets = targets, !.todo = todo]]
    BY <2>1, <2>4
  <2> HIDE DEF new
  <2> QED
    BY <2>3, <2>5
<1> HIDE DEF new
<1>6. new = Turned(run, pool, targets)
  BY DEF new, Turned
<1> QED
  BY <1>5, <1>6

\* SettleWorkReward has the run pay the item.
LEMMA SettleRuns ==
  ASSUME PaymentTypes, NEW p \in Runners, NEW item, SettleWorkReward(p, item)
  PROVE  policyRuns' = [policyRuns EXCEPT ![p] = Paying(policyRuns[p], item)]
<1> DEFINE run == policyRuns[p]
<1>1. run # Idle /\ RunShape(run)
  BY DEF SettleWorkReward, Idle, PaymentTypes
<1> DEFINE todo == run.todo \ {item}
           new == [pc |-> "paid", accrued |-> run.accrued, targets |-> run.targets,
                   groups |-> run.groups, todo |-> todo, item |-> item]
<1>6. policyRuns' = [policyRuns EXCEPT ![p] = new]
  <2>1. policyRuns' = [policyRuns EXCEPT ![p].pc = "paid", ![p].item = item, ![p].todo = todo]
    BY DEF SettleWorkReward
  <2> HIDE DEF todo
  <2> DEFINE r1 == [run EXCEPT !.pc = "paid"]
             r2 == [r1 EXCEPT !.item = item]
  <2>2. r1 = [pc |-> "paid", accrued |-> run.accrued, targets |-> run.targets,
              groups |-> run.groups, todo |-> run.todo, item |-> run.item]
    BY <1>1 DEF RunShape
  <2> HIDE DEF r1
  <2>3. r2 = [pc |-> "paid", accrued |-> run.accrued, targets |-> run.targets,
              groups |-> run.groups, todo |-> run.todo, item |-> item]
    BY <2>2
  <2> HIDE DEF r2
  <2>4. [r2 EXCEPT !.todo = todo] = new
    BY <2>3
  <2>5. policyRuns = [q \in Runners |-> policyRuns[q]]
    BY DEF PaymentTypes
  <2>6. policyRuns' = [policyRuns EXCEPT
          ![p] = [run EXCEPT !.pc = "paid", !.item = item, !.todo = todo]]
    BY <2>1, <2>5
  <2> HIDE DEF new
  <2> QED
    BY <2>4, <2>6 DEF r1, r2
<1>7. new = Paying(run, item)
  BY DEF Paying
<1> HIDE DEF new
<1> QED
  BY <1>6, <1>7

\* InsertWorkRewardSettlement has it remember the payment.
LEMMA InsertRuns ==
  ASSUME PaymentTypes, NEW p \in Runners, InsertWorkRewardSettlement(p),
         NEW item, item = policyRuns[p].item, NEW n, n = NextStep(p, item)
  PROVE  policyRuns' = [policyRuns EXCEPT ![p] = Remembering(policyRuns[p], item, n)]
<1> DEFINE run == policyRuns[p]
           seen == [accrued |-> run.targets[item], count |-> n]
<1>1. run # Idle /\ RunShape(run)
  BY DEF InsertWorkRewardSettlement, Idle, PaymentTypes
<1>2. policyRuns' = [policyRuns EXCEPT ![p].pc = "paying", ![p].accrued[item] = seen]
  BY DEF InsertWorkRewardSettlement
<1> DEFINE accrued == [run.accrued EXCEPT ![item] = seen]
           new == [pc |-> "paying", accrued |-> accrued, targets |-> run.targets,
                   groups |-> run.groups, todo |-> run.todo, item |-> item]
<1>8. policyRuns' = [policyRuns EXCEPT ![p] = new]
  <2> HIDE DEF seen
  <2> DEFINE r1 == [run EXCEPT !.pc = "paying"]
  <2>1. r1 = [pc |-> "paying", accrued |-> run.accrued, targets |-> run.targets,
              groups |-> run.groups, todo |-> run.todo, item |-> run.item]
    BY <1>1 DEF RunShape
  <2> HIDE DEF r1
  <2>2. [r1 EXCEPT !.accrued[item] = seen] = new
    BY <2>1
  <2>3. policyRuns = [q \in Runners |-> policyRuns[q]]
    BY DEF PaymentTypes
  <2>4. policyRuns' = [policyRuns EXCEPT
          ![p] = [run EXCEPT !.pc = "paying", !.accrued[item] = seen]]
    BY <1>2, <2>3
  <2> HIDE DEF new
  <2> QED
    BY <2>2, <2>4 DEF r1
<1>9. new = Remembering(run, item, n)
  BY DEF Remembering
<1> HIDE DEF new
<1> QED
  BY <1>8, <1>9

\* What a step must leave alone to keep the invariant.
LEMMA UntouchedKeepsPayments ==
  ASSUME PaymentInv, UNCHANGED <<settledRewards, settledAmounts, rows, policyRuns>>
  PROVE  PaymentInv'
<1>1. PaymentTypes'
  BY DEF PaymentInv, PaymentTypes, RunShape
<1>2. \A item \in Items : RowsOf(item)' = RowsOf(item) /\ SettledSteps(item)' = SettledSteps(item)
  BY DEF RowsOf, SettledSteps
<1>3. (\A item \in Items : StepsInOrder(item))' /\ RowsAgree' /\ RunsLagBehind'
  BY <1>2 DEF PaymentInv, StepsInOrder, RowsAgree, RunsLagBehind
<1>4. PaidIsSettled'
  BY DEF PaymentInv, PaidIsSettled, NextStep, Delta
<1> QED
  BY <1>1, <1>3, <1>4 DEF PaymentInv

\* The other steps of the contracts.
LEMMA FundingKeepsPayments ==
  PaymentInv /\ FundingStep /\ UNCHANGED policyVars => PaymentInv'
BY UntouchedKeepsPayments
DEF FundingStep, policyVars, vaultVars, FundClaimRewards, WithdrawAccruedRewards,
    SetVaultDepositsPaused

\* A run that moves, or stops, while rows and chain stay.
LEMMA RunMovesKeepsPayments ==
  ASSUME PaymentInv, NEW p \in Runners, NEW run,
         UNCHANGED <<settledRewards, settledAmounts, rows>>,
         policyRuns' = [policyRuns EXCEPT ![p] = run],
         run # Idle =>
           /\ RunShape(run) /\ run.pc = "paying"
           /\ \A item \in Items : 1 .. run.accrued[item].count \subseteq RowsOf(item)
  PROVE  PaymentInv'
<1>1. /\ policyRuns'[p] = run
      /\ \A q \in Runners \ {p} : policyRuns'[q] = policyRuns[q]
      /\ policyRuns' = [q \in Runners |-> policyRuns'[q]]
  BY DEF PaymentInv, PaymentTypes
<1>2. PaymentTypes'
  BY <1>1 DEF PaymentInv, PaymentTypes, RunShape
<1>3. \A item \in Items : RowsOf(item)' = RowsOf(item) /\ SettledSteps(item)' = SettledSteps(item)
  BY DEF RowsOf, SettledSteps
<1>4. (\A item \in Items : StepsInOrder(item))' /\ RowsAgree'
  BY <1>3 DEF PaymentInv, StepsInOrder, RowsAgree
<1>5. RunsLagBehind'
  BY <1>1, <1>3 DEF PaymentInv, RunsLagBehind
<1>6. PaidIsSettled'
  BY <1>1 DEF PaymentInv, PaidIsSettled, NextStep, Delta
<1> QED
  BY <1>2, <1>4, <1>5, <1>6 DEF PaymentInv

\* A run starts from the rows there are, turns to a pool, or ends.
LEMMA StartKeepsPayments ==
  ASSUME PaymentInv, NEW p \in Runners, ApplyAutomaticRewardPolicy(p)
  PROVE  PaymentInv'
<1> DEFINE totals == ReadAccruedRewardTotals
           run == [pc |-> "paying", accrued |-> totals,
                   targets |-> [item \in Items |-> 0], groups |-> Pools, todo |-> {},
                   item |-> CHOOSE item \in Items : TRUE]
<1>1. \A item \in Items :
        totals[item].count \in Nat /\ 1 .. totals[item].count \subseteq RowsOf(item)
  <2> SUFFICES ASSUME NEW item \in Items
               PROVE  /\ totals[item].count \in Nat
                      /\ 1 .. totals[item].count \subseteq RowsOf(item)
    OBVIOUS
  <2>1. PICK k \in 0 .. MaxSteps : RowsOf(item) = 1 .. k
    BY DEF PaymentInv, StepsInOrder
  <2>2. k \in Nat /\ Cardinality(1 .. k) = k
    BY VaultAssumption, FS_Interval
  <2>3. totals[item].count = k
    BY <2>1, <2>2 DEF ReadAccruedRewardTotals
  <2> QED
    BY <2>1, <2>2, <2>3
<1>2. totals = [item \in Items |-> totals[item]]
  BY DEF ReadAccruedRewardTotals
<1> HIDE DEF totals
<1>3. RunShape(run) /\ run.pc = "paying" /\ run.accrued = totals
  BY <1>1, <1>2 DEF RunShape
<1>4. /\ policyRuns' = [policyRuns EXCEPT ![p] = run]
      /\ UNCHANGED <<settledRewards, settledAmounts, rows>>
  BY DEF ApplyAutomaticRewardPolicy, rewardVars, vaultVars, totals
<1> HIDE DEF run
<1> QED
  BY <1>1, <1>3, <1>4, RunMovesKeepsPayments

LEMMA NextGroupKeepsPayments ==
  ASSUME PaymentInv, NEW p \in Runners, NextGroup(p)
  PROVE  PaymentInv'
<1> DEFINE run == policyRuns[p]
<1>1. run # Idle
  BY DEF NextGroup, Idle
<1>2. RunShape(run) /\ run.pc = "paying"
  BY <1>1 DEF PaymentInv, PaymentTypes, NextGroup
<1>3. PICK pool \in run.groups : \E targets \in RewardTargets[pool][claimRewardPools[pool]] :
        policyRuns' = [policyRuns EXCEPT ![p] = Turned(run, pool, targets)]
  BY NextGroupRuns DEF PaymentInv
<1>4. PICK targets \in RewardTargets[pool][claimRewardPools[pool]] :
        policyRuns' = [policyRuns EXCEPT ![p] = Turned(run, pool, targets)]
  BY <1>3
<1> DEFINE new == Turned(run, pool, targets)
<1>5. policyRuns' = [policyRuns EXCEPT ![p] = new]
  BY <1>4
<1>6. RunShape(new) /\ new.pc = "paying" /\ new.accrued = run.accrued
  BY <1>2 DEF RunShape, Turned
<1>7. \A item \in Items : 1 .. run.accrued[item].count \subseteq RowsOf(item)
  BY <1>1 DEF PaymentInv, RunsLagBehind
<1>8. UNCHANGED <<settledRewards, settledAmounts, rows>>
  BY DEF NextGroup, rewardVars, vaultVars
<1> HIDE DEF new
<1> QED
  BY <1>5, <1>6, <1>7, <1>8, RunMovesKeepsPayments

LEMMA EndKeepsPayments ==
  ASSUME PaymentInv, NEW p \in Runners, EndPolicyRun(p)
  PROVE  PaymentInv'
BY RunMovesKeepsPayments DEF EndPolicyRun, rewardVars, vaultVars

\* A payment is the step after the rows of its item, whatever the run has seen.
LEMMA NextStepFollowsRows ==
  ASSUME PaymentInv, NEW p \in Runners, policyRuns[p] # Idle, NEW item \in Items,
         NEW k \in 0 .. MaxSteps, RowsOf(item) = 1 .. k,
         1 .. k \subseteq SettledSteps(item), NextStep(p, item) <= MaxSteps,
         <<item, NextStep(p, item)>> \notin settledRewards
  PROVE  NextStep(p, item) = k + 1 /\ k + 1 \in 1 .. MaxSteps
<1> DEFINE count == policyRuns[p].accrued[item].count
<1>1. count \in Nat /\ NextStep(p, item) = count + 1 /\ k \in Nat /\ MaxSteps \in Nat
  <2>1. RunShape(policyRuns[p])
    BY DEF PaymentInv, PaymentTypes
  <2>2. count \in Nat
    BY <2>1 DEF RunShape
  <2>3. k \in Nat /\ MaxSteps \in Nat
    BY VaultAssumption
  <2> QED
    BY <2>2, <2>3 DEF NextStep
<1>2. 1 .. count \subseteq 1 .. k
  BY DEF PaymentInv, RunsLagBehind
<1> HIDE DEF count
<1>3. count <= k
  <2>1. CASE count = 0
    BY <1>1, <2>1
  <2>2. CASE count # 0
    <3>1. count \in 1 .. count
      BY <1>1, <2>2
    <3> QED
      BY <1>1, <1>2, <3>1
  <2> QED
    BY <2>1, <2>2
<1>4. count + 1 \notin 1 .. k
  BY <1>1 DEF SettledSteps
<1>5. count >= k
  BY <1>1, <1>4
<1> QED
  BY <1>1, <1>3, <1>5

\* A payment settles the next step, and no other.
LEMMA SettleKeepsPayments ==
  ASSUME PaymentInv, NEW p \in Runners, NEW item \in Items, SettleWorkReward(p, item)
  PROVE  PaymentInv'
<1> DEFINE run == policyRuns[p]
           n == NextStep(p, item)
           id == <<item, n>>
           d == Delta(p, item)
<1>1. run # Idle /\ run.pc = "paying" /\ RunShape(run)
  BY DEF SettleWorkReward, Idle, PaymentInv, PaymentTypes
<1>2. /\ id \notin settledRewards /\ d \in Wei /\ n <= MaxSteps
      /\ settledRewards' = settledRewards \cup {id}
      /\ settledAmounts' = [settledAmounts EXCEPT ![id] = @ + d]
      /\ rows' = rows
  BY DEF SettleWorkReward, AccrueWorkReward, Accruable
<1>3. PICK k \in 0 .. MaxSteps :
        /\ RowsOf(item) = 1 .. k
        /\ 1 .. k \subseteq SettledSteps(item)
        /\ SettledSteps(item) \subseteq 1 .. (k + 1)
  BY DEF PaymentInv, StepsInOrder
<1>4. n = k + 1 /\ n \in 1 .. MaxSteps /\ id \in SettlementIds
  BY <1>1, <1>2, <1>3, NextStepFollowsRows DEF SettlementIds
<1>5. /\ settledAmounts'[id] = d /\ d \in Nat
      /\ \A x \in SettlementIds \ {id} : settledAmounts'[x] = settledAmounts[x]
      /\ settledAmounts' \in [SettlementIds -> Nat]
  BY <1>2, <1>4, AgentAssumption DEF PaymentInv, PaymentTypes, Wei
<1> DEFINE new == Paying(run, item)
<1>6. policyRuns' = [policyRuns EXCEPT ![p] = new]
  BY SettleRuns DEF PaymentInv
<1>7. /\ policyRuns'[p] = new
      /\ \A q \in Runners \ {p} : policyRuns'[q] = policyRuns[q]
      /\ policyRuns' = [q \in Runners |-> policyRuns'[q]]
  BY <1>6 DEF PaymentInv, PaymentTypes
<1>8. /\ RunShape(new) /\ new # Idle /\ new.pc = "paid" /\ new.item = item
      /\ new.accrued = run.accrued /\ new.targets = run.targets
  BY <1>1 DEF RunShape, Idle, Paying
<1> HIDE DEF new
<1>9. PaymentTypes'
  <2>1. \A q \in Runners : policyRuns'[q] # Idle => RunShape(policyRuns'[q])
    BY <1>7, <1>8 DEF PaymentInv, PaymentTypes
  <2>2. \A x \in SettlementIds \ settledRewards' : settledAmounts'[x] = 0
    BY <1>2, <1>5 DEF PaymentInv, PaymentTypes
  <2> QED
    BY <1>2, <1>4, <1>5, <1>7, <2>1, <2>2 DEF PaymentInv, PaymentTypes, RunShape
<1>10. /\ \A i \in Items : RowsOf(i)' = RowsOf(i)
       /\ \A i \in Items \ {item} : SettledSteps(i)' = SettledSteps(i)
       /\ SettledSteps(item)' = SettledSteps(item) \cup {n}
  BY <1>2, <1>4 DEF RowsOf, SettledSteps
<1>11. ASSUME NEW i \in Items
       PROVE  StepsInOrder(i)'
  <2>1. CASE i = item
    BY <1>3, <1>4, <1>10, <2>1 DEF StepsInOrder
  <2>2. CASE i # item
    BY <1>10, <2>2 DEF PaymentInv, StepsInOrder
  <2> QED
    BY <2>1, <2>2
<1>12. RowsAgree'
  <2> SUFFICES ASSUME NEW i \in Items, NEW m \in RowsOf(i)
               PROVE  rows[<<i, m>>].amount = settledAmounts'[<<i, m>>]
    BY <1>2, <1>10 DEF RowsAgree
  <2>1. <<i, m>> \in settledRewards
    BY PaymentsFollowChain DEF RowsFollowChain, SettledSteps
  <2>2. <<i, m>> \in SettlementIds \ {id}
    BY <1>2, <2>1 DEF PaymentInv, PaymentTypes
  <2> QED
    BY <1>5, <2>2 DEF PaymentInv, RowsAgree
<1>13. RunsLagBehind'
  BY <1>1, <1>7, <1>8, <1>10 DEF PaymentInv, RunsLagBehind
<1>14. ASSUME NEW q \in Runners, policyRuns'[q] # Idle, policyRuns'[q].pc = "paid"
       PROVE  LET i == policyRuns'[q].item
                  step == policyRuns'[q].accrued[i].count + 1
                  delta == policyRuns'[q].targets[i] - policyRuns'[q].accrued[i].accrued
              IN /\ <<i, step>> \in settledRewards' /\ settledAmounts'[<<i, step>>] = delta
                 /\ delta \in Wei
  <2>1. CASE q = p
    BY <1>2, <1>5, <1>7, <1>8, <2>1 DEF NextStep, Delta
  <2>2. CASE q # p
    <3> DEFINE i == policyRuns[q].item
    <3>1. policyRuns'[q] = policyRuns[q]
      BY <1>7, <2>2
    <3>2. /\ <<i, NextStep(q, i)>> \in settledRewards
          /\ settledAmounts[<<i, NextStep(q, i)>>] = Delta(q, i) /\ Delta(q, i) \in Wei
      BY <1>14, <3>1 DEF PaymentInv, PaidIsSettled
    <3>3. <<i, NextStep(q, i)>> \in SettlementIds \ {id}
      BY <1>2, <3>2 DEF PaymentInv, PaymentTypes
    <3> QED
      BY <1>2, <1>5, <3>1, <3>2, <3>3 DEF NextStep, Delta
  <2> QED
    BY <2>1, <2>2
<1>15. PaidIsSettled'
  BY <1>14 DEF PaidIsSettled, NextStep, Delta
<1> QED
  BY <1>9, <1>11, <1>12, <1>13, <1>15 DEF PaymentInv

\* A row is written for the step the run has paid, which is the first without one.
LEMMA InsertKeepsPayments ==
  ASSUME PaymentInv, NEW p \in Runners, InsertWorkRewardSettlement(p)
  PROVE  PaymentInv'
<1> DEFINE run == policyRuns[p]
<1>1. run # Idle /\ run.pc = "paid" /\ RunShape(run)
  BY DEF InsertWorkRewardSettlement, Idle, PaymentInv, PaymentTypes
<1> PICK item \in Items : item = run.item
  BY <1>1 DEF RunShape
<1> PICK n, d : n = NextStep(p, item) /\ d = Delta(p, item)
  OBVIOUS
<1> DEFINE id == <<item, n>>
           row == [amount |-> d, accruedTotal |-> run.targets[item]]
           seen == [accrued |-> run.targets[item], count |-> n]
<1>2. /\ rows[id] = NoRow /\ rows' = [rows EXCEPT ![id] = row]
      /\ settledRewards' = settledRewards /\ settledAmounts' = settledAmounts
  BY DEF InsertWorkRewardSettlement, rewardVars, vaultVars
<1>3. id \in settledRewards /\ settledAmounts[id] = d /\ d \in Wei
  BY <1>1 DEF PaymentInv, PaidIsSettled
<1>4. id \in SettlementIds /\ n \in 1 .. MaxSteps /\ n \in Nat
  BY <1>3, VaultAssumption DEF PaymentInv, PaymentTypes, SettlementIds
<1>5. PICK k \in 0 .. MaxSteps :
        /\ RowsOf(item) = 1 .. k
        /\ 1 .. k \subseteq SettledSteps(item)
        /\ SettledSteps(item) \subseteq 1 .. (k + 1)
  BY <1>1 DEF PaymentInv, StepsInOrder
<1>6. n = k + 1 /\ k + 1 \in 0 .. MaxSteps /\ k \in Nat
  <2>1. n \notin RowsOf(item) /\ n \in SettledSteps(item)
    BY <1>2, <1>3, <1>4 DEF RowsOf, SettledSteps
  <2> QED
    BY <1>4, <1>5, <2>1, VaultAssumption
<1>7. row # NoRow
  BY <1>3, AgentAssumption DEF NoRow, Wei
<1> DEFINE accrued == [run.accrued EXCEPT ![item] = seen]
           new == Remembering(run, item, n)
<1>8. policyRuns' = [policyRuns EXCEPT ![p] = new]
  BY InsertRuns DEF PaymentInv
<1>9. /\ policyRuns'[p] = new
      /\ \A q \in Runners \ {p} : policyRuns'[q] = policyRuns[q]
      /\ policyRuns' = [q \in Runners |-> policyRuns'[q]]
  BY <1>8 DEF PaymentInv, PaymentTypes
<1>10. /\ accrued = [i \in Items |-> accrued[i]]
       /\ accrued[item].count = n
       /\ \A i \in Items \ {item} : accrued[i] = run.accrued[i]
       /\ \A i \in Items : accrued[i].count \in Nat
  BY <1>1, <1>4 DEF RunShape
<1>11. RunShape(new) /\ new.pc = "paying" /\ new.accrued = accrued
  BY <1>1, <1>10 DEF RunShape, Remembering
<1> HIDE DEF accrued, seen
<1> HIDE DEF new
<1>12. PaymentTypes'
  <2>1. \A q \in Runners : policyRuns'[q] # Idle => RunShape(policyRuns'[q])
    BY <1>9, <1>11 DEF PaymentInv, PaymentTypes
  <2>2. rows' = [x \in SettlementIds |-> rows'[x]]
    BY <1>2 DEF PaymentInv, PaymentTypes
  <2> QED
    BY <1>2, <1>9, <2>1, <2>2 DEF PaymentInv, PaymentTypes, RunShape
<1>13. /\ rows'[id] = row
       /\ \A x \in SettlementIds \ {id} : rows'[x] = rows[x]
  BY <1>2, <1>4 DEF PaymentInv, PaymentTypes
<1> HIDE DEF row
<1>14. /\ \A i \in Items \ {item} : RowsOf(i)' = RowsOf(i)
       /\ RowsOf(item)' = RowsOf(item) \cup {n}
       /\ \A i \in Items : SettledSteps(i)' = SettledSteps(i)
  BY <1>1, <1>2, <1>4, <1>7, <1>13 DEF RowsOf, SettledSteps, SettlementIds
<1>15. RowsOf(item)' = 1 .. n
  BY <1>5, <1>6, <1>14
<1>16. ASSUME NEW i \in Items
       PROVE  StepsInOrder(i)'
  <2>1. CASE i = item
    <3>1. /\ 1 .. n \subseteq SettledSteps(item)' /\ n \in 0 .. MaxSteps
          /\ SettledSteps(item)' \subseteq 1 .. (n + 1)
      BY <1>3, <1>4, <1>5, <1>6, <1>14, <2>1 DEF SettledSteps
    <3> QED
      BY <1>15, <2>1, <3>1 DEF StepsInOrder
  <2>2. CASE i # item
    BY <1>14, <2>2 DEF PaymentInv, StepsInOrder
  <2> QED
    BY <2>1, <2>2
<1>17. RowsAgree'
  <2> SUFFICES ASSUME NEW i \in Items, NEW m \in RowsOf(i)'
               PROVE  rows'[<<i, m>>].amount = settledAmounts[<<i, m>>]
    BY <1>2 DEF RowsAgree
  <2>1. CASE <<i, m>> = id
    BY <1>3, <1>13, <2>1 DEF row
  <2>2. CASE <<i, m>> # id
    <3>1. <<i, m>> \in SettlementIds /\ m \in RowsOf(i)
      BY <1>14, <2>2 DEF SettlementIds, RowsOf
    <3> QED
      BY <1>13, <2>2, <3>1 DEF PaymentInv, RowsAgree
  <2> QED
    BY <2>1, <2>2
<1>18. RunsLagBehind'
  <2> SUFFICES ASSUME NEW q \in Runners, policyRuns'[q] # Idle, NEW i \in Items
               PROVE  1 .. policyRuns'[q].accrued[i].count \subseteq RowsOf(i)'
    BY DEF RunsLagBehind
  <2>1. RowsOf(i) \subseteq RowsOf(i)'
    BY <1>14
  <2>2. CASE q = p /\ i = item
    BY <1>9, <1>10, <1>11, <1>15, <2>2
  <2>3. CASE q # p \/ i # item
    <3>1. policyRuns[q] # Idle /\ policyRuns'[q].accrued[i] = policyRuns[q].accrued[i]
      BY <1>1, <1>9, <1>10, <1>11, <2>3
    <3> QED
      BY <2>1, <3>1 DEF PaymentInv, RunsLagBehind
  <2> QED
    BY <2>2, <2>3
<1>19. PaidIsSettled'
  BY <1>2, <1>9, <1>11 DEF PaymentInv, PaidIsSettled, NextStep, Delta
<1> QED
  BY <1>12, <1>16, <1>17, <1>18, <1>19 DEF PaymentInv

\* Every step of the whole.
LEMMA PaymentsInductive == PaymentInv /\ [PolicyNext]_allVars => PaymentInv'
<1> SUFFICES ASSUME PaymentInv, [PolicyNext]_allVars
             PROVE  PaymentInv'
  OBVIOUS
<1>1. CASE FundingStep /\ UNCHANGED policyVars
  BY <1>1, FundingKeepsPayments
<1>2. CASE PolicyStep
  BY <1>2, StartKeepsPayments, NextGroupKeepsPayments, SettleKeepsPayments,
     InsertKeepsPayments, EndKeepsPayments DEF PolicyStep
<1>3. CASE UNCHANGED allVars
  BY <1>3, UntouchedKeepsPayments DEF allVars, rewardVars, vaultVars, policyVars
<1> QED
  BY <1>1, <1>2, <1>3 DEF PolicyNext

\* Whatever runs overlap or stop between the chain and the database, a row stands
\* for a payment of its amount, and all payments of an item but the last have one.
THEOREM RowsAlwaysFollowChain == PolicySpec => []RowsFollowChain
<1> QED
  BY PaymentsAtInit, PaymentsInductive, PaymentsFollowChain, PTL DEF PolicySpec

\* A settlement id is paid once, for an amount that stays.
THEOREM PaymentsAreFinal == PolicySpec => SettlesOnce
<1>1. PaymentInv /\ [PolicyNext]_allVars =>
        [\A id \in settledRewards :
           id \in settledRewards' /\ settledAmounts'[id] = settledAmounts[id]]_rewardVars
  <2> SUFFICES ASSUME PaymentInv, [PolicyNext]_allVars, NEW id \in settledRewards
               PROVE  id \in settledRewards' /\ settledAmounts'[id] = settledAmounts[id]
    OBVIOUS
  <2>1. ASSUME UNCHANGED <<settledRewards, settledAmounts>>
        PROVE  id \in settledRewards' /\ settledAmounts'[id] = settledAmounts[id]
    BY <2>1
  <2>2. ASSUME NEW p \in Runners, NEW item \in Items, SettleWorkReward(p, item)
        PROVE  id \in settledRewards' /\ settledAmounts'[id] = settledAmounts[id]
    <3> DEFINE paid == <<item, NextStep(p, item)>>
    <3>1. /\ paid \notin settledRewards
          /\ settledRewards' = settledRewards \cup {paid}
          /\ settledAmounts' = [settledAmounts EXCEPT ![paid] = @ + Delta(p, item)]
      BY <2>2 DEF SettleWorkReward, AccrueWorkReward, Accruable
    <3> HIDE DEF paid
    <3> QED
      BY <3>1 DEF PaymentInv, PaymentTypes
  <2>3. CASE FundingStep
    BY <2>1, <2>3, SMTT(60)
    DEF FundingStep, vaultVars, FundClaimRewards, WithdrawAccruedRewards, SetVaultDepositsPaused
  <2>4. ASSUME NEW p \in Runners,
               \/ ApplyAutomaticRewardPolicy(p) \/ NextGroup(p)
               \/ InsertWorkRewardSettlement(p) \/ EndPolicyRun(p)
        PROVE  id \in settledRewards' /\ settledAmounts'[id] = settledAmounts[id]
    BY <2>1, <2>4
    DEF ApplyAutomaticRewardPolicy, NextGroup, InsertWorkRewardSettlement, EndPolicyRun,
        rewardVars, vaultVars
  <2>5. CASE UNCHANGED allVars
    BY <2>1, <2>5 DEF allVars, rewardVars, vaultVars
  <2> QED
    BY <2>2, <2>3, <2>4, <2>5 DEF PolicyNext, PolicyStep
<1> QED
  BY <1>1, PaymentsAtInit, PaymentsInductive, PTL DEF PolicySpec, SettlesOnce

-----------------------------------------------------------------------------
(***************************************************************************)
(* Funds.  The budgets of the registry, the pools and the unpaid rewards   *)
(* of the vault are books, whose totals a step moves by what it pays in or *)
(* out; an agent yet to be registered has no budget.                       *)
(***************************************************************************)

Budgets == [i \in AgentIds |-> agents[i].budgetBalance]
BudgetTotal == TotalOf(Budgets, AgentIds)
PoolTotal == TotalOf(claimRewardPools, Pools)
RewardTotal == TotalOf(accruedRewardBalances, Accounts)

AgentSettings ==
  /\ agentControllers \in [AgentIds -> SUBSET Accounts]
  /\ nextAgentId <= MaxAgents + 1
  /\ \A i \in AgentIds : /\ ~AgentExists(i) => agents[i].budgetBalance = 0
                         /\ agents[i].spendLimit <= MaxRewardFunds
  /\ agentDepositsPaused \in BOOLEAN

AgentBooks == agentRegistryBalance \in Nat /\ agentRegistryBalance = BudgetTotal

VaultBooks ==
  /\ claimRewardPools \in [Pools -> Nat]
  /\ accruedRewardBalances \in [Accounts -> Nat]
  /\ vaultBalance \in Nat
  /\ vaultBalance = PoolTotal + RewardTotal
  /\ vaultDepositsPaused \in BOOLEAN

\* The two contracts hold no more than was sent in.
FundsBounded ==
  /\ fundsReceived \in Nat
  /\ agentRegistryBalance + vaultBalance <= fundsReceived
  /\ fundsReceived <= MaxRewardFunds

FundsInv == BudgetInv /\ AgentSettings /\ AgentBooks /\ VaultBooks /\ FundsBounded

\* The registry's balance moves by d, and its books with it.
AgentFundsMove(d) ==
  /\ d \in Int
  /\ agentRegistryBalance' = agentRegistryBalance + d
  /\ AgentBooks'

\* The agents are finitely many, and a budget is a natural.
LEMMA BudgetsAreABook ==
  BudgetInv => /\ IsFiniteSet(AgentIds) /\ Budgets \in [AgentIds -> Nat]
               /\ BudgetTotal \in Nat
               /\ \A i \in AgentIds : agents[i].budgetBalance <= BudgetTotal
<1> SUFFICES ASSUME BudgetInv
             PROVE  /\ IsFiniteSet(AgentIds) /\ Budgets \in [AgentIds -> Nat]
                    /\ BudgetTotal \in Nat
                    /\ \A i \in AgentIds : agents[i].budgetBalance <= BudgetTotal
  OBVIOUS
<1>1. IsFiniteSet(AgentIds)
  <2>1. 1 \in Int /\ MaxAgents \in Int
    BY AgentAssumption
  <2> QED
    BY <2>1, FS_Interval DEF AgentIds
<1>2. Budgets \in [AgentIds -> Nat]
  BY DEF BudgetInv, BudgetRecord, Budgets
<1>3. /\ BudgetTotal \in Nat
      /\ \A i \in AgentIds : Budgets[i] <= BudgetTotal
  BY <1>1, <1>2, BookTotals DEF BudgetTotal
<1> QED
  BY <1>1, <1>2, <1>3 DEF Budgets

\* One agent's budget moves by d, and the balance with it.
LEMMA OneBudgetMoves ==
  ASSUME BudgetInv, BudgetInv', AgentBooks, NEW i \in AgentIds, NEW d \in Int,
         agents'[i].budgetBalance = agents[i].budgetBalance + d,
         \A j \in AgentIds \ {i} : agents'[j].budgetBalance = agents[j].budgetBalance,
         agentRegistryBalance' = agentRegistryBalance + d
  PROVE  AgentFundsMove(d)
<1>1. /\ IsFiniteSet(AgentIds) /\ Budgets \in [AgentIds -> Nat] /\ Budgets' \in [AgentIds -> Nat]
      /\ BudgetTotal \in Nat /\ BudgetTotal' \in Nat
  <2>1. (/\ IsFiniteSet(AgentIds) /\ Budgets \in [AgentIds -> Nat]
         /\ BudgetTotal \in Nat)'
    BY BudgetsAreABook, PTL
  <2> QED
    BY <2>1, BudgetsAreABook
<1>2. Budgets' = [Budgets EXCEPT ![i] = @ + d]
  <2>1. \A j \in AgentIds : Budgets'[j] = agents'[j].budgetBalance
    BY DEF Budgets
  <2>2. \A j \in AgentIds : Budgets[j] = agents[j].budgetBalance
    BY DEF Budgets
  <2> QED
    BY <1>1, <2>1, <2>2
<1>3. Entry(Budgets, Budgets', AgentIds, i, d)
  BY <1>1, <1>2 DEF Entry
<1>4. TotalOf(Budgets', AgentIds) = TotalOf(Budgets, AgentIds) + d
  BY <1>3, BookEntry
<1>5. BudgetTotal' = BudgetTotal + d
  BY <1>4 DEF BudgetTotal, AgentIds
<1> QED
  BY <1>1, <1>5 DEF AgentFundsMove, AgentBooks

\* No budget moves.
LEMMA NoBudgetMoves ==
  ASSUME AgentBooks, agentRegistryBalance' = agentRegistryBalance,
         \A j \in AgentIds : agents'[j].budgetBalance = agents[j].budgetBalance
  PROVE  AgentFundsMove(0)
<1>1. Budgets' = Budgets
  BY DEF Budgets, AgentIds
<1>2. BudgetTotal' = BudgetTotal
  BY <1>1 DEF BudgetTotal, AgentIds
<1>3. agentRegistryBalance + 0 = agentRegistryBalance
  BY DEF AgentBooks
<1> QED
  BY <1>2, <1>3 DEF AgentFundsMove, AgentBooks

\* Only a registration makes an agent, and gives it its controllers.
LEMMA AgentStepKeepsSettings ==
  BudgetInv /\ AgentSettings /\ AgentStep => AgentSettings'
<1> SUFFICES ASSUME BudgetInv, AgentSettings, AgentStep
             PROVE  AgentSettings'
  OBVIOUS
<1> USE DEF AgentSettings, AgentExists
<1>1. MaxAgents \in Nat /\ MaxRewardFunds \in Nat /\ nextAgentId \in Nat
  BY AgentAssumption DEF BudgetInv
<1>2. ASSUME NEW a \in Accounts, NEW limit \in 0 .. MaxRewardFunds,
             NEW value \in 0 .. MaxRewardFunds, RegisterAgent(a, limit, value)
      PROVE  AgentSettings'
  <2>1. nextAgentId' = nextAgentId + 1 /\ nextAgentId <= MaxAgents
    BY <1>2 DEF RegisterAgent
  <2>2. agentControllers' \in [AgentIds -> SUBSET Accounts]
    BY <1>2 DEF RegisterAgent
  <2>3. ASSUME NEW i \in AgentIds
        PROVE  /\ ~(i < nextAgentId') => agents'[i].budgetBalance = 0
               /\ agents'[i].spendLimit <= MaxRewardFunds
    <3>1. i \in Nat
      BY DEF AgentIds
    <3>2. CASE i = nextAgentId
      BY <1>1, <1>2, <2>1, <3>1, <3>2 DEF RegisterAgent, BudgetInv
    <3>3. CASE i # nextAgentId
      BY <1>1, <1>2, <2>1, <3>1, <3>3 DEF RegisterAgent, BudgetInv
    <3> QED
      BY <3>2, <3>3
  <2>4. agentDepositsPaused' = agentDepositsPaused
    BY <1>2 DEF RegisterAgent
  <2> QED
    BY <1>1, <2>1, <2>2, <2>3, <2>4
<1>3. ASSUME NEW i \in AgentIds, i < nextAgentId,
             UNCHANGED <<nextAgentId, agentControllers, agentDepositsPaused>>,
             \A j \in AgentIds \ {i} : agents'[j] = agents[j],
             agents'[i].spendLimit <= MaxRewardFunds
      PROVE  AgentSettings'
  BY <1>3
<1>4. ASSUME NEW i \in AgentIds, NEW amount \in Wei,
             \/ FundAgentBudget(i, amount) \/ ReserveBudget(i, amount)
             \/ ReleaseBudget(i, amount) \/ ConsumeBudget(i, amount)
             \/ \E a \in Accounts : WithdrawBudget(a, i, amount)
      PROVE  AgentSettings'
  <2>1. /\ i < nextAgentId
        /\ UNCHANGED <<nextAgentId, agentControllers, agentDepositsPaused>>
    BY <1>4 DEF FundAgentBudget, ReserveBudget, ReleaseBudget, ConsumeBudget, WithdrawBudget,
                IsActiveAgent, IsOperator
  <2>2. /\ \A j \in AgentIds \ {i} : agents'[j] = agents[j]
        /\ agents'[i].spendLimit = agents[i].spendLimit
    BY <1>4 DEF FundAgentBudget, ReserveBudget, ReleaseBudget, ConsumeBudget, WithdrawBudget,
                BudgetInv, BudgetRecord
  <2> QED
    BY <1>3, <2>1, <2>2
<1>5. ASSUME NEW i \in AgentIds, NEW a \in Accounts,
             \/ \E limit \in 0 .. MaxRewardFunds : SetSpendLimit(a, i, limit)
             \/ \E flag \in BOOLEAN : SetAgentActive(a, i, flag)
      PROVE  AgentSettings'
  <2>1. /\ i < nextAgentId
        /\ UNCHANGED <<nextAgentId, agentControllers, agentDepositsPaused>>
    BY <1>5 DEF SetSpendLimit, SetAgentActive, IsOperator
  <2>2. /\ \A j \in AgentIds \ {i} : agents'[j] = agents[j]
        /\ agents'[i].spendLimit <= MaxRewardFunds
    BY <1>1, <1>5 DEF SetSpendLimit, SetAgentActive, BudgetInv, BudgetRecord
  <2> QED
    BY <1>3, <2>1, <2>2
<1>6. ASSUME NEW i \in AgentIds, NEW a \in Accounts, NEW controller \in Accounts,
             NEW flag \in BOOLEAN, AuthorizeController(a, i, controller, flag)
      PROVE  AgentSettings'
  <2>1. agentControllers' \in [AgentIds -> SUBSET Accounts]
    BY <1>6 DEF AuthorizeController
  <2> QED
    BY <1>6, <2>1 DEF AuthorizeController, budgetVars
<1>7. ASSUME NEW flag \in BOOLEAN, SetAgentDepositsPaused(flag)
      PROVE  AgentSettings'
  BY <1>7 DEF SetAgentDepositsPaused, budgetVars
<1> QED
  BY <1>2, <1>4, <1>5, <1>6, <1>7 DEF AgentStep

\* What was sent in covers a movement of d.
Receives(d) ==
  \/ d <= 0 /\ fundsReceived' = fundsReceived
  \/ /\ d >= 0 /\ fundsReceived' = fundsReceived + d
     /\ fundsReceived' <= MaxRewardFunds

\* Every step of the registry moves its books by what comes in or goes out.
LEMMA AgentStepMovesFunds ==
  ASSUME BudgetInv, AgentSettings, AgentBooks, AgentStep
  PROVE  \E d \in Int : AgentFundsMove(d) /\ Receives(d)
<1>1. BudgetInv'
  BY AgentStepKeepsBudgets
<1>2. \A i \in AgentIds : agents[i] \in BudgetRecord
  BY DEF BudgetInv
<1>3. agents = [i \in AgentIds |-> agents[i]]
  BY DEF BudgetInv
<1>4. ASSUME NEW i \in AgentIds, NEW d \in Int,
             agents'[i].budgetBalance = agents[i].budgetBalance + d,
             \A j \in AgentIds \ {i} : agents'[j] = agents[j],
             agentRegistryBalance' = agentRegistryBalance + d, Receives(d)
      PROVE  \E e \in Int : AgentFundsMove(e) /\ Receives(e)
  BY <1>1, <1>4, OneBudgetMoves
<1>5. ASSUME \A j \in AgentIds : agents'[j].budgetBalance = agents[j].budgetBalance,
             UNCHANGED <<agentRegistryBalance, fundsReceived>>
      PROVE  \E e \in Int : AgentFundsMove(e) /\ Receives(e)
  <2>1. AgentFundsMove(0)
    BY <1>5, NoBudgetMoves
  <2>2. Receives(0)
    BY <1>5 DEF Receives
  <2> QED
    BY <2>1, <2>2
<1>6. ASSUME NEW a \in Accounts, NEW limit \in 0 .. MaxRewardFunds,
             NEW value \in 0 .. MaxRewardFunds, RegisterAgent(a, limit, value)
      PROVE  \E e \in Int : AgentFundsMove(e) /\ Receives(e)
  <2>1. value \in Nat
    BY AgentAssumption
  <2>2. nextAgentId \in AgentIds /\ ~AgentExists(nextAgentId)
    BY <1>6, AgentAssumption DEF RegisterAgent, AgentIds, BudgetInv, AgentExists
  <2>3. agents[nextAgentId].budgetBalance = 0
    BY <2>2 DEF AgentSettings
  <2>4. agents'[nextAgentId].budgetBalance = value
    BY <1>3, <1>6, <2>2 DEF RegisterAgent
  <2>5. \A j \in AgentIds \ {nextAgentId} : agents'[j] = agents[j]
    BY <1>3, <1>6 DEF RegisterAgent
  <2>6. /\ agentRegistryBalance' = agentRegistryBalance + value
        /\ Receives(value)
    BY <1>6, <2>1 DEF RegisterAgent, ReceiveFunds, Receives
  <2>7. agents'[nextAgentId].budgetBalance = agents[nextAgentId].budgetBalance + value
    BY <2>1, <2>3, <2>4
  <2> QED
    BY <1>4, <2>1, <2>2, <2>5, <2>6, <2>7
<1>7. ASSUME NEW i \in AgentIds, NEW amount \in Wei,
             FundAgentBudget(i, amount) /\ ReceiveFunds(amount)
      PROVE  \E e \in Int : AgentFundsMove(e) /\ Receives(e)
  <2>1. amount \in Nat
    BY AgentAssumption DEF Wei
  <2>2. /\ agents'[i].budgetBalance = agents[i].budgetBalance + amount
        /\ \A j \in AgentIds \ {i} : agents'[j] = agents[j]
    BY <1>2, <1>3, <1>7 DEF FundAgentBudget, BudgetRecord
  <2>3. agentRegistryBalance' = agentRegistryBalance + amount /\ Receives(amount)
    BY <1>7, <2>1 DEF FundAgentBudget, ReceiveFunds, Receives
  <2> QED
    BY <1>4, <2>1, <2>2, <2>3
<1>8. ASSUME NEW i \in AgentIds, NEW amount \in Wei,
             ConsumeBudget(i, amount) \/ \E a \in Accounts : WithdrawBudget(a, i, amount)
      PROVE  \E e \in Int : AgentFundsMove(e) /\ Receives(e)
  <2>1. amount \in Nat /\ -amount \in Int /\ -amount <= 0
    BY AgentAssumption DEF Wei
  <2>2. agents[i].budgetBalance \in Int /\ agentRegistryBalance \in Int
    BY <1>2 DEF BudgetRecord, AgentBooks
  <2>3. /\ agents'[i].budgetBalance = agents[i].budgetBalance - amount
        /\ \A j \in AgentIds \ {i} : agents'[j] = agents[j]
    BY <1>2, <1>3, <1>8, ZenonT(60) DEF ConsumeBudget, WithdrawBudget, BudgetRecord
  <2>4. agentRegistryBalance' = agentRegistryBalance - amount /\ fundsReceived' = fundsReceived
    BY <1>8 DEF ConsumeBudget, WithdrawBudget
  <2>5. /\ agents'[i].budgetBalance = agents[i].budgetBalance + (-amount)
        /\ agentRegistryBalance' = agentRegistryBalance + (-amount)
    BY <2>1, <2>2, <2>3, <2>4
  <2>6. Receives(-amount)
    BY <2>1, <2>4 DEF Receives
  <2> QED
    BY <1>4, <2>1, <2>3, <2>5, <2>6
<1>9. ASSUME NEW i \in AgentIds, NEW amount \in Wei,
             ReserveBudget(i, amount) \/ ReleaseBudget(i, amount)
      PROVE  \E e \in Int : AgentFundsMove(e) /\ Receives(e)
  <2>1. \A j \in AgentIds : agents'[j].budgetBalance = agents[j].budgetBalance
    BY <1>2, <1>3, <1>9 DEF ReserveBudget, ReleaseBudget, BudgetRecord
  <2> QED
    BY <1>5, <1>9, <2>1 DEF ReserveBudget, ReleaseBudget
<1>10. ASSUME NEW i \in AgentIds, NEW a \in Accounts,
              \/ \E limit \in 0 .. MaxRewardFunds : SetSpendLimit(a, i, limit)
              \/ \E flag \in BOOLEAN : SetAgentActive(a, i, flag)
       PROVE  \E e \in Int : AgentFundsMove(e) /\ Receives(e)
  <2>1. \A j \in AgentIds : agents'[j].budgetBalance = agents[j].budgetBalance
    BY <1>2, <1>3, <1>10 DEF SetSpendLimit, SetAgentActive, BudgetRecord
  <2> QED
    BY <1>5, <1>10, <2>1 DEF SetSpendLimit, SetAgentActive
<1>11. ASSUME UNCHANGED <<budgetVars, fundsReceived>>
       PROVE  \E e \in Int : AgentFundsMove(e) /\ Receives(e)
  BY <1>5, <1>11 DEF budgetVars
<1> QED
  BY <1>6, <1>7, <1>8, <1>9, <1>10, <1>11
  DEF AgentStep, AuthorizeController, SetAgentDepositsPaused

\* A budget's share is at most the whole.
LEMMA TopUpIsAPart ==
  ASSUME NEW amount \in Nat, NEW i
  PROVE  /\ AgentBudgetAmount(amount, BudgetTopUpBps(i)) \in Nat
         /\ AgentBudgetAmount(amount, BudgetTopUpBps(i)) <= amount
         /\ amount # 0 /\ i = 0 => AgentBudgetAmount(amount, BudgetTopUpBps(i)) # amount
         /\ i = 0 => AgentBudgetAmount(amount, BudgetTopUpBps(i)) = 0
BY DEF AgentBudgetAmount, BudgetTopUpBps

\* The vault's books when its pools and rewards move by p and r, of which one may be nothing.
LEMMA VaultBooksMove ==
  ASSUME VaultBooks, NEW p \in Int, NEW r \in Int,
         PoolTotal' = PoolTotal + p, RewardTotal' = RewardTotal + r,
         claimRewardPools' \in [Pools -> Nat], accruedRewardBalances' \in [Accounts -> Nat],
         vaultBalance' = vaultBalance + (p + r), vaultDepositsPaused' \in BOOLEAN
  PROVE  VaultBooks'
<1>1. /\ PoolTotal \in Nat /\ RewardTotal \in Nat
      /\ PoolTotal' \in Nat /\ RewardTotal' \in Nat
  BY BookTotals, VaultAssumption, AgentAssumption DEF VaultBooks, PoolTotal, RewardTotal
<1>2. PICK p0 \in Nat, r0 \in Nat, p1 \in Nat, r1 \in Nat :
        p0 = PoolTotal /\ r0 = RewardTotal /\ p1 = PoolTotal' /\ r1 = RewardTotal'
  BY <1>1
<1>3. p1 = p0 + p /\ r1 = r0 + r /\ vaultBalance = p0 + r0
  BY <1>2 DEF VaultBooks
<1>4. vaultBalance' = p1 + r1 /\ vaultBalance' \in Nat
  BY <1>2, <1>3
<1> QED
  BY <1>2, <1>4 DEF VaultBooks

\* An entry of d in the pool book, or in the reward book.
LEMMA PoolEntry ==
  ASSUME VaultBooks, NEW pool \in Pools, NEW d \in Int, claimRewardPools[pool] + d >= 0,
         claimRewardPools' = [claimRewardPools EXCEPT ![pool] = @ + d]
  PROVE  PoolTotal' = PoolTotal + d /\ claimRewardPools' \in [Pools -> Nat]
<1>1. Entry(claimRewardPools, claimRewardPools', Pools, pool, d)
  BY VaultAssumption DEF Entry, VaultBooks
<1>2. PoolTotal' = PoolTotal + d
  BY <1>1, BookEntry DEF PoolTotal
<1>3. claimRewardPools[pool] + d \in Nat
  BY DEF VaultBooks
<1> QED
  BY <1>2, <1>3 DEF VaultBooks

LEMMA RewardEntry ==
  ASSUME VaultBooks, NEW a \in Accounts, NEW d \in Int, accruedRewardBalances[a] + d >= 0,
         accruedRewardBalances' = [accruedRewardBalances EXCEPT ![a] = @ + d]
  PROVE  RewardTotal' = RewardTotal + d /\ accruedRewardBalances' \in [Accounts -> Nat]
<1>1. Entry(accruedRewardBalances, accruedRewardBalances', Accounts, a, d)
  BY AgentAssumption DEF Entry, VaultBooks
<1>2. RewardTotal' = RewardTotal + d
  BY <1>1, BookEntry DEF RewardTotal
<1>3. accruedRewardBalances[a] + d \in Nat
  BY DEF VaultBooks
<1> QED
  BY <1>2, <1>3 DEF VaultBooks

\* Steps of the vault alone leave the registry's books as they are.
LEMMA RegistryUntouched ==
  BudgetInv /\ AgentSettings /\ AgentBooks /\ UNCHANGED agentVars
    => BudgetInv' /\ AgentSettings' /\ AgentBooks'
<1> SUFFICES ASSUME BudgetInv, AgentSettings, AgentBooks, UNCHANGED agentVars
             PROVE  BudgetInv' /\ AgentSettings' /\ AgentBooks'
  OBVIOUS
<1>1. /\ agents' = agents /\ nextAgentId' = nextAgentId
      /\ agentRegistryBalance' = agentRegistryBalance
      /\ agentControllers' = agentControllers /\ agentDepositsPaused' = agentDepositsPaused
  BY DEF agentVars, budgetVars
<1>2. BudgetInv'
  BY <1>1 DEF BudgetInv, Committed
<1>3. AgentSettings'
  BY <1>1 DEF AgentSettings, AgentExists
<1>4. Budgets' = Budgets
  BY <1>1 DEF Budgets, AgentIds
<1>5. BudgetTotal' = BudgetTotal
  BY <1>4 DEF BudgetTotal, AgentIds
<1> QED
  BY <1>1, <1>2, <1>3, <1>5 DEF AgentBooks

\* Pools and rewards that do not move.
LEMMA BooksUntouched ==
  ASSUME VaultBooks
  PROVE  /\ claimRewardPools' = claimRewardPools =>
              PoolTotal' = PoolTotal + 0 /\ claimRewardPools' \in [Pools -> Nat]
         /\ accruedRewardBalances' = accruedRewardBalances =>
              RewardTotal' = RewardTotal + 0 /\ accruedRewardBalances' \in [Accounts -> Nat]
<1>1. PoolTotal \in Nat /\ RewardTotal \in Nat
  BY BookTotals, VaultAssumption, AgentAssumption DEF VaultBooks, PoolTotal, RewardTotal
<1>2. PoolTotal + 0 = PoolTotal /\ RewardTotal + 0 = RewardTotal
  BY <1>1
<1> QED
  BY <1>2 DEF VaultBooks, PoolTotal, RewardTotal

\* The steps of the contracts but the settlements.
LEMMA FundingKeepsFunds == FundsInv /\ FundingStep => FundsInv'
<1> SUFFICES ASSUME FundsInv, FundingStep
             PROVE  FundsInv'
  OBVIOUS
<1> USE DEF FundsInv
<1>1. vaultBalance \in Nat /\ agentRegistryBalance \in Nat /\ fundsReceived \in Nat
  BY DEF VaultBooks, AgentBooks, FundsBounded
<1>2. CASE AgentStep /\ UNCHANGED vaultVars
  <2>1. PICK d \in Int : AgentFundsMove(d) /\ Receives(d)
    BY <1>2, AgentStepMovesFunds
  <2>2. FundsBounded'
    <3>1. agentRegistryBalance' = agentRegistryBalance + d /\ vaultBalance' = vaultBalance
      BY <1>2, <2>1 DEF AgentFundsMove, vaultVars
    <3> QED
      BY <1>1, <2>1, <3>1 DEF Receives, FundsBounded
  <2>3. VaultBooks'
    BY <1>2 DEF VaultBooks, vaultVars, PoolTotal, RewardTotal
  <2> QED
    BY <1>2, <2>1, <2>2, <2>3, AgentStepKeepsBudgets, AgentStepKeepsSettings DEF AgentFundsMove
<1>3. ASSUME UNCHANGED agentVars, VaultBooks', FundsBounded'
      PROVE  FundsInv'
  BY <1>3, RegistryUntouched
<1>4. UNCHANGED agentVars => agentRegistryBalance' = agentRegistryBalance
  BY DEF agentVars, budgetVars
<1>5. ASSUME NEW pool \in Pools, NEW value \in Wei, FundClaimRewards(pool, value)
      PROVE  FundsInv'
  <2>1. value \in Nat /\ value + 0 = value
    BY AgentAssumption DEF Wei
  <2>2. /\ VaultBooks /\ value \in Int /\ claimRewardPools[pool] + value >= 0
        /\ claimRewardPools' = [claimRewardPools EXCEPT ![pool] = @ + value]
    BY <1>5, <2>1 DEF VaultBooks, FundClaimRewards
  <2>3. PoolTotal' = PoolTotal + value /\ claimRewardPools' \in [Pools -> Nat]
    BY <2>2, PoolEntry
  <2>4. RewardTotal' = RewardTotal + 0 /\ accruedRewardBalances' \in [Accounts -> Nat]
    BY <1>5, BooksUntouched DEF FundClaimRewards
  <2>5. vaultBalance' = vaultBalance + (value + 0) /\ vaultDepositsPaused' \in BOOLEAN
    BY <1>5, <2>1 DEF FundClaimRewards, VaultBooks
  <2>6. VaultBooks'
    BY <2>1, <2>3, <2>4, <2>5, VaultBooksMove
  <2>7. FundsBounded'
    BY <1>1, <1>4, <1>5, <2>1 DEF FundClaimRewards, ReceiveFunds, FundsBounded
  <2> QED
    BY <1>3, <1>5, <2>6, <2>7 DEF FundClaimRewards
<1>6. ASSUME NEW a \in Accounts, NEW amount \in Wei, WithdrawAccruedRewards(a, amount)
      PROVE  FundsInv'
  <2>1. amount \in Nat /\ -amount \in Int
    BY AgentAssumption DEF Wei
  <2>2. /\ accruedRewardBalances[a] \in Nat
        /\ accruedRewardBalances[a] - amount = accruedRewardBalances[a] + (-amount)
        /\ accruedRewardBalances[a] + (-amount) >= 0
    BY <1>6, <2>1 DEF VaultBooks, WithdrawAccruedRewards
  <2>3. accruedRewardBalances' = [accruedRewardBalances EXCEPT ![a] = @ + (-amount)]
    BY <1>6, <2>2 DEF WithdrawAccruedRewards
  <2>4. /\ RewardTotal' = RewardTotal + (-amount)
        /\ accruedRewardBalances' \in [Accounts -> Nat]
    BY <2>1, <2>2, <2>3, RewardEntry
  <2>5. PoolTotal' = PoolTotal + 0 /\ claimRewardPools' \in [Pools -> Nat]
    BY <1>6, BooksUntouched DEF WithdrawAccruedRewards
  <2>6. vaultBalance' = vaultBalance - amount /\ vaultDepositsPaused' \in BOOLEAN
    BY <1>6 DEF WithdrawAccruedRewards, VaultBooks
  <2>7. vaultBalance' = vaultBalance + (0 + (-amount))
    BY <1>1, <2>1, <2>6
  <2>8. VaultBooks'
    BY <2>1, <2>4, <2>5, <2>6, <2>7, VaultBooksMove
  <2>9. FundsBounded'
    BY <1>1, <1>4, <1>6, <2>1 DEF WithdrawAccruedRewards, FundsBounded
  <2> QED
    BY <1>3, <1>6, <2>8, <2>9 DEF WithdrawAccruedRewards
<1>7. ASSUME NEW flag \in BOOLEAN, SetVaultDepositsPaused(flag)
      PROVE  FundsInv'
  <2>1. VaultBooks'
    BY <1>7 DEF SetVaultDepositsPaused, VaultBooks, PoolTotal, RewardTotal
  <2>2. FundsBounded'
    BY <1>4, <1>7 DEF SetVaultDepositsPaused, FundsBounded
  <2> QED
    BY <1>3, <1>7, <2>1, <2>2 DEF SetVaultDepositsPaused
<1> QED
  BY <1>2, <1>5, <1>6, <1>7 DEF FundingStep

\* A settlement moves its amount out of the pool, the share of the budget into the
\* registry and the rest to the recipient.
LEMMA AccrualKeepsFunds ==
  ASSUME FundsInv, NEW pool \in Pools, NEW id, NEW recipient \in Accounts,
         NEW i \in AgentIds \cup {0}, NEW amount,
         AccrueWorkReward(pool, id, recipient, i, amount, BudgetTopUpBps(i))
  PROVE  FundsInv'
<1> USE DEF FundsInv
<1> DEFINE topUp == AgentBudgetAmount(amount, BudgetTopUpBps(i))
<1>1. amount \in Wei /\ amount \in Nat /\ claimRewardPools[pool] >= amount
  BY AgentAssumption DEF AccrueWorkReward, Accruable, Wei
<1>2. topUp \in Nat /\ topUp <= amount /\ (i = 0 => topUp = 0)
  BY <1>1, TopUpIsAPart
<1>3. /\ claimRewardPools' = [claimRewardPools EXCEPT ![pool] = @ - amount]
      /\ accruedRewardBalances' = IF amount = topUp THEN accruedRewardBalances
           ELSE [accruedRewardBalances EXCEPT ![recipient] = @ + (amount - topUp)]
      /\ vaultBalance >= topUp
      /\ vaultBalance' = vaultBalance - topUp
      /\ IF topUp # 0 THEN FundAgentBudget(i, topUp) ELSE UNCHANGED agentVars
      /\ UNCHANGED <<fundsReceived, vaultDepositsPaused>>
  BY DEF AccrueWorkReward
<1> HIDE DEF topUp
<1>4. /\ -amount \in Int /\ amount - topUp \in Nat
      /\ vaultBalance \in Nat /\ agentRegistryBalance \in Nat
      /\ claimRewardPools[pool] \in Nat
      /\ claimRewardPools[pool] - amount = claimRewardPools[pool] + (-amount)
      /\ claimRewardPools[pool] + (-amount) >= 0
  BY <1>1, <1>2 DEF VaultBooks, AgentBooks
<1>5. PoolTotal' = PoolTotal + (-amount) /\ claimRewardPools' \in [Pools -> Nat]
  <2>1. claimRewardPools' = [claimRewardPools EXCEPT ![pool] = @ + (-amount)]
    BY <1>3, <1>4
  <2> QED
    BY <1>4, <2>1, PoolEntry
<1>6. /\ RewardTotal' = RewardTotal + (amount - topUp)
      /\ accruedRewardBalances' \in [Accounts -> Nat]
  <2>1. CASE amount = topUp
    <3>1. amount - topUp = 0
      BY <1>1, <2>1
    <3> QED
      BY <1>3, <2>1, <3>1, BooksUntouched
  <2>2. CASE amount # topUp
    <3> DEFINE rest == amount - topUp
    <3>1. /\ VaultBooks /\ rest \in Int /\ accruedRewardBalances[recipient] + rest >= 0
          /\ accruedRewardBalances' = [accruedRewardBalances EXCEPT ![recipient] = @ + rest]
      BY <1>3, <1>4, <2>2 DEF VaultBooks
    <3> HIDE DEF rest
    <3>2. /\ RewardTotal' = RewardTotal + rest
          /\ accruedRewardBalances' \in [Accounts -> Nat]
      BY <3>1, RewardEntry
    <3> QED
      BY <3>2 DEF rest
  <2> QED
    BY <2>1, <2>2
<1>7. VaultBooks'
  <2>1. vaultBalance' = vaultBalance + ((-amount) + (amount - topUp))
    BY <1>1, <1>2, <1>3, <1>4
  <2>2. vaultDepositsPaused' \in BOOLEAN
    BY <1>3 DEF VaultBooks
  <2> QED
    BY <1>4, <1>5, <1>6, <2>1, <2>2, VaultBooksMove
<1>8. BudgetInv'
  BY AccrualKeepsBudgets
<1>9. CASE topUp = 0
  <2>1. AgentSettings' /\ AgentBooks'
    BY <1>3, <1>9, RegistryUntouched
  <2>2. agentRegistryBalance' = agentRegistryBalance
    BY <1>3, <1>9 DEF agentVars, budgetVars
  <2>3. FundsBounded'
    BY <1>3, <1>4, <1>9, <2>2 DEF FundsBounded
  <2> QED
    BY <1>7, <1>8, <2>1, <2>3
<1>10. CASE topUp # 0
  <2>1. i \in AgentIds /\ FundAgentBudget(i, topUp)
    BY <1>2, <1>3, <1>10
  <2>2. agents[i] \in BudgetRecord /\ agents = [j \in AgentIds |-> agents[j]]
    BY <2>1 DEF BudgetInv
  <2>3. /\ agents'[i].budgetBalance = agents[i].budgetBalance + topUp
        /\ agents'[i].spendLimit = agents[i].spendLimit
        /\ \A j \in AgentIds \ {i} : agents'[j] = agents[j]
        /\ agentRegistryBalance' = agentRegistryBalance + topUp
        /\ AgentExists(i)
        /\ UNCHANGED <<nextAgentId, agentControllers, agentDepositsPaused>>
    BY <2>1, <2>2 DEF FundAgentBudget, BudgetRecord
  <2>4. AgentBooks'
    BY <1>2, <1>8, <2>1, <2>3, OneBudgetMoves DEF AgentFundsMove
  <2>5. AgentSettings'
    BY <2>1, <2>3 DEF AgentSettings, AgentExists
  <2>6. FundsBounded'
    BY <1>2, <1>3, <1>4, <2>3 DEF FundsBounded
  <2> QED
    BY <1>7, <1>8, <2>4, <2>5, <2>6
<1> QED
  BY <1>9, <1>10

\* Nothing has been sent in when the contracts are deployed.
LEMMA FundsAtInit == PolicyInitial => FundsInv
<1> SUFFICES ASSUME PolicyInitial
             PROVE  FundsInv
  OBVIOUS
<1> USE DEF PolicyInitial, AgentInit, VaultInit
<1>1. BudgetInv
  BY BudgetsAtInit
<1>2. AgentSettings
  <2>1. /\ nextAgentId = 1 /\ MaxAgents \in Nat /\ MaxRewardFunds \in Nat
        /\ agentControllers = [i \in AgentIds |-> {}]
        /\ \A i \in AgentIds : agents[i].budgetBalance = 0 /\ agents[i].spendLimit = 0
    BY AgentAssumption DEF NoAgentRecord
  <2>2. agentDepositsPaused = FALSE
    OBVIOUS
  <2>3. agentDepositsPaused \in BOOLEAN
    BY <2>2, Zenon
  <2>4. /\ agentControllers \in [AgentIds -> SUBSET Accounts]
        /\ nextAgentId <= MaxAgents + 1
        /\ \A i \in AgentIds : /\ ~AgentExists(i) => agents[i].budgetBalance = 0
                               /\ agents[i].spendLimit <= MaxRewardFunds
    BY <2>1
  <2> QED
    BY <2>3, <2>4, Zenon DEF AgentSettings
<1>3. AgentBooks
  <2>1. \A i \in AgentIds : Budgets[i] = 0
    BY DEF Budgets, NoAgentRecord
  <2>2. BudgetTotal = 0
    BY <1>1, <2>1, BudgetsAreABook, SumZero DEF BudgetTotal, TotalOf
  <2> QED
    BY <2>2 DEF AgentBooks
<1>4. VaultBooks
  <2>1. PoolTotal = 0 /\ RewardTotal = 0
    BY SumZero, VaultAssumption, AgentAssumption DEF PoolTotal, RewardTotal, TotalOf
  <2>2. vaultDepositsPaused = FALSE
    OBVIOUS
  <2>3. vaultDepositsPaused \in BOOLEAN
    BY <2>2, Zenon
  <2> QED
    BY <2>1, <2>3 DEF VaultBooks
<1>5. FundsBounded
  BY AgentAssumption DEF FundsBounded
<1> QED
  BY <1>1, <1>2, <1>3, <1>4, <1>5 DEF FundsInv

\* Every step of the whole.
LEMMA FundsInductive == FundsInv /\ [PolicyNext]_allVars => FundsInv'
<1> SUFFICES ASSUME FundsInv, [PolicyNext]_allVars
             PROVE  FundsInv'
  OBVIOUS
<1>1. ASSUME UNCHANGED rewardVars
      PROVE  FundsInv'
  <2>1. BudgetInv' /\ AgentSettings' /\ AgentBooks'
    BY <1>1, RegistryUntouched DEF FundsInv, rewardVars
  <2>2. VaultBooks' /\ FundsBounded'
    BY <1>1 DEF FundsInv, VaultBooks, FundsBounded, rewardVars, vaultVars, agentVars, budgetVars,
                PoolTotal, RewardTotal
  <2> QED
    BY <2>1, <2>2 DEF FundsInv
<1>2. CASE FundingStep
  BY <1>2, FundingKeepsFunds
<1>3. ASSUME NEW p \in Runners, NEW item \in Items, SettleWorkReward(p, item)
      PROVE  FundsInv'
  <2>1. PoolOf[item] \in Pools
    BY PolicyAssumption, SMTT(60)
  <2> QED
    BY <1>3, <2>1, AccrualKeepsFunds DEF SettleWorkReward
<1>4. ASSUME NEW p \in Runners,
             \/ ApplyAutomaticRewardPolicy(p) \/ NextGroup(p)
             \/ InsertWorkRewardSettlement(p) \/ EndPolicyRun(p)
      PROVE  FundsInv'
  BY <1>1, <1>4
  DEF ApplyAutomaticRewardPolicy, NextGroup, InsertWorkRewardSettlement, EndPolicyRun
<1>5. CASE UNCHANGED allVars
  BY <1>1, <1>5 DEF allVars
<1> QED
  BY <1>2, <1>3, <1>4, <1>5 DEF PolicyNext, PolicyStep

\* However settlements, withdrawals and deposits interleave, each contract holds
\* what its books say it owes, to the last wei.
THEOREM RewardsAreCovered == PolicySpec => []RewardsCovered
<1>1. FundsInv => RewardsCovered
  BY DEF FundsInv, AgentBooks, VaultBooks, RewardsCovered, BudgetTotal, Budgets, PoolTotal,
         RewardTotal, TotalOf
<1> QED
  BY <1>1, FundsAtInit, FundsInductive, PTL DEF PolicySpec

-----------------------------------------------------------------------------
(***************************************************************************)
(* Totals.  What a run or a row says an item has been paid is the sum of   *)
(* the amounts settled on chain up to the step it has seen; those amounts  *)
(* no longer change, whatever other runs have paid since.                  *)
(***************************************************************************)

PaidIn(amounts, item, n) == SumFunctionOnSet([k \in 1 .. n |-> amounts[<<item, k>>]], 1 .. n)

RunTotals(run) ==
  /\ run.accrued \in [Items -> Totals]
  /\ run.targets \in [Items -> 0 .. MaxRewardFunds]
  /\ run.groups \subseteq Pools /\ run.todo \subseteq Items /\ run.item \in Items
  /\ \A item \in Items :
       run.accrued[item].accrued = PaidIn(settledAmounts, item, run.accrued[item].count)

RowTotals ==
  /\ rows \in [SettlementIds -> Row \cup {NoRow}]
  /\ \A item \in Items : \A n \in RowsOf(item) :
       rows[<<item, n>>].accruedTotal = PaidIn(settledAmounts, item, n)

TotalsInv ==
  /\ \A p \in Runners : policyRuns[p] # Idle => RunTotals(policyRuns[p])
  /\ RowTotals
  /\ settledAmounts \in [SettlementIds -> 0 .. MaxRewardFunds]
  /\ started \in 0 .. MaxPolicyRuns

RewardInv == PaymentInv /\ FundsInv /\ TotalsInv

\* A total of no steps is nothing; one step more adds its amount; amounts that agree
\* on the steps have the same total.
LEMMA PaidNothing ==
  ASSUME NEW amounts, NEW item
  PROVE  PaidIn(amounts, item, 0) = 0
<1>1. 1 .. 0 = {}
  OBVIOUS
<1> QED
  BY <1>1, SumEmpty DEF PaidIn

LEMMA PaidOneMore ==
  ASSUME NEW amounts, NEW item, NEW n \in Nat,
         \A k \in 1 .. (n + 1) : amounts[<<item, k>>] \in Int
  PROVE  PaidIn(amounts, item, n + 1) = PaidIn(amounts, item, n) + amounts[<<item, n + 1>>]
<1> DEFINE f == [k \in 1 .. (n + 1) |-> amounts[<<item, k>>]]
           g == [k \in 1 .. n |-> amounts[<<item, k>>]]
<1>1. IsFiniteSet(1 .. (n + 1)) /\ IsFiniteSet(1 .. n)
  BY FS_Interval
<1>2. /\ \A k \in 1 .. (n + 1) : f[k] \in Int
      /\ n + 1 \in 1 .. (n + 1) /\ f[n + 1] = amounts[<<item, n + 1>>]
      /\ (1 .. (n + 1)) \ {n + 1} = 1 .. n
      /\ \A k \in 1 .. n : f[k] = g[k] /\ g[k] \in Int
  OBVIOUS
<1> HIDE DEF f, g
<1>3. SumFunctionOnSet(f, 1 .. (n + 1)) =
        f[n + 1] + SumFunctionOnSet(f, (1 .. (n + 1)) \ {n + 1})
  BY <1>1, <1>2, SumTakeOut, ZenonT(60)
<1>4. SumFunctionOnSet(f, 1 .. n) = SumFunctionOnSet(g, 1 .. n)
  BY <1>1, <1>2, SumSame
<1>5. SumFunctionOnSet(g, 1 .. n) \in Int /\ f[n + 1] \in Int
  BY <1>1, <1>2, SumInt
<1>6. SumFunctionOnSet(f, 1 .. (n + 1)) = SumFunctionOnSet(g, 1 .. n) + f[n + 1]
  <2>1. PICK u \in Int, v \in Int : u = SumFunctionOnSet(g, 1 .. n) /\ v = f[n + 1]
    BY <1>5
  <2>2. SumFunctionOnSet(f, 1 .. (n + 1)) = v + u
    BY <1>2, <1>3, <1>4, <2>1
  <2>3. v + u = u + v
    BY <2>1
  <2> QED
    BY <2>1, <2>2, <2>3
<1> QED
  BY <1>2, <1>6 DEF PaidIn, f, g

LEMMA PaidAgrees ==
  ASSUME NEW amounts, NEW others, NEW item, NEW n \in Nat,
         \A k \in 1 .. n : others[<<item, k>>] = amounts[<<item, k>>]
  PROVE  PaidIn(others, item, n) = PaidIn(amounts, item, n)
<1>1. IsFiniteSet(1 .. n)
  BY FS_Interval
<1> DEFINE f == [k \in 1 .. n |-> others[<<item, k>>]]
           g == [k \in 1 .. n |-> amounts[<<item, k>>]]
<1>2. \A k \in 1 .. n : f[k] = g[k]
  OBVIOUS
<1> HIDE DEF f, g
<1>3. SumFunctionOnSet(f, 1 .. n) = SumFunctionOnSet(g, 1 .. n)
  BY <1>1, <1>2, SumSame
<1> QED
  BY <1>3 DEF PaidIn, f, g

\* The totals stand while the settled amounts, the rows and a run do.
LEMMA UntouchedKeepsTotals ==
  ASSUME TotalsInv, UNCHANGED <<settledAmounts, rows, policyRuns, started>>
  PROVE  TotalsInv'
<1>1. \A item \in Items : RowsOf(item)' = RowsOf(item)
  BY DEF RowsOf
<1>2. RowTotals'
  BY <1>1 DEF TotalsInv, RowTotals
<1> QED
  BY <1>2 DEF TotalsInv, RunTotals

\* A run that moves, or stops, while rows and chain stay.
LEMMA RunMovesKeepsTotals ==
  ASSUME PaymentTypes, TotalsInv, NEW p \in Runners, NEW run,
         UNCHANGED <<settledAmounts, rows>>, started' \in 0 .. MaxPolicyRuns,
         policyRuns' = [policyRuns EXCEPT ![p] = run],
         run # Idle => RunTotals(run)
  PROVE  TotalsInv'
<1>1. /\ policyRuns'[p] = run
      /\ \A q \in Runners \ {p} : policyRuns'[q] = policyRuns[q]
  BY DEF PaymentTypes
<1>2. \A item \in Items : RowsOf(item)' = RowsOf(item)
  BY DEF RowsOf
<1>3. RowTotals'
  BY <1>2 DEF TotalsInv, RowTotals
<1>4. \A q \in Runners : policyRuns'[q] # Idle => RunTotals(policyRuns'[q])
  BY <1>1 DEF TotalsInv
<1>5. \A q \in Runners : policyRuns'[q] # Idle => RunTotals(policyRuns[q])'
  BY <1>4 DEF RunTotals
<1> QED
  BY <1>3, <1>5 DEF TotalsInv

\* A run begins with what the rows say, which is what the chain says.
LEMMA StartKeepsTotals ==
  ASSUME PaymentInv, TotalsInv, NEW p \in Runners, ApplyAutomaticRewardPolicy(p)
  PROVE  TotalsInv'
<1> DEFINE totals == ReadAccruedRewardTotals
           run == [pc |-> "paying", accrued |-> totals,
                   targets |-> [item \in Items |-> 0], groups |-> Pools, todo |-> {},
                   item |-> CHOOSE item \in Items : TRUE]
<1>0. MaxSteps \in Nat /\ MaxRewardFunds \in Nat
  BY VaultAssumption, AgentAssumption
<1>1. ASSUME NEW item \in Items
      PROVE  /\ totals[item] \in Totals
             /\ totals[item].accrued = PaidIn(settledAmounts, item, totals[item].count)
  <2>1. PICK k \in 0 .. MaxSteps : RowsOf(item) = 1 .. k
    BY DEF PaymentInv, StepsInOrder
  <2>2. k \in Nat /\ IsFiniteSet(1 .. k) /\ Cardinality(1 .. k) = k
    BY <1>0, FS_Interval
  <2> DEFINE f == [n \in 1 .. k |-> rows[<<item, n>>].amount]
             g == [n \in 1 .. k |-> settledAmounts[<<item, n>>]]
  <2>3. totals[item] = [accrued |-> SumFunctionOnSet(f, 1 .. k), count |-> k]
    BY <2>1, <2>2 DEF ReadAccruedRewardTotals
  <2>4. \A n \in 1 .. k : f[n] = g[n]
    BY <2>1 DEF PaymentInv, RowsAgree
  <2> HIDE DEF f, g
  <2>5. SumFunctionOnSet(f, 1 .. k) = SumFunctionOnSet(g, 1 .. k)
    BY <2>2, <2>4, SumSame
  <2>6. SumFunctionOnSet(f, 1 .. k) = PaidIn(settledAmounts, item, k)
    BY <2>5 DEF PaidIn, g
  <2>7. PaidIn(settledAmounts, item, k) \in 0 .. MaxRewardFunds
    <3>1. CASE k = 0
      BY <1>0, <3>1, PaidNothing
    <3>2. CASE k # 0
      <4>1. k \in RowsOf(item)
        BY <2>1, <2>2, <3>2
      <4>2. <<item, k>> \in SettlementIds /\ rows[<<item, k>>] # NoRow
        BY <4>1 DEF RowsOf, SettlementIds
      <4>3. rows[<<item, k>>] \in Row
        BY <4>2 DEF TotalsInv, RowTotals
      <4>4. rows[<<item, k>>].accruedTotal = PaidIn(settledAmounts, item, k)
        BY <4>1 DEF TotalsInv, RowTotals
      <4> QED
        BY <1>0, <4>3, <4>4 DEF Row, Wei
    <3> QED
      BY <3>1, <3>2
  <2> QED
    BY <2>3, <2>6, <2>7 DEF Totals
<1>2. totals = [item \in Items |-> totals[item]]
  BY DEF ReadAccruedRewardTotals
<1>3. /\ policyRuns' = [policyRuns EXCEPT ![p] = run]
      /\ UNCHANGED <<settledAmounts, rows>>
      /\ started < MaxPolicyRuns /\ started' = started + 1
  BY DEF ApplyAutomaticRewardPolicy, rewardVars, vaultVars
<1> HIDE DEF totals
<1>4. (CHOOSE item \in Items : TRUE) \in Items
  BY PolicyAssumption
<1>5. RunTotals(run)
  BY <1>0, <1>1, <1>2, <1>4 DEF RunTotals
<1>6. started' \in 0 .. MaxPolicyRuns
  BY <1>3, PolicyAssumption DEF TotalsInv
<1> HIDE DEF run
<1> QED
  BY <1>3, <1>5, <1>6, RunMovesKeepsTotals DEF PaymentInv

\* A pool holds no more than was sent in.
LEMMA PoolBounds ==
  ASSUME FundsInv, NEW pool \in Pools
  PROVE  claimRewardPools[pool] \in 0 .. MaxRewardFunds
<1>1. claimRewardPools \in [Pools -> Nat]
  BY DEF FundsInv, VaultBooks
<1>2. claimRewardPools[pool] <= PoolTotal /\ PoolTotal \in Nat /\ RewardTotal \in Nat
  BY <1>1, BookTotals, VaultAssumption, AgentAssumption
  DEF FundsInv, VaultBooks, PoolTotal, RewardTotal
<1>3. PICK s \in Nat, r \in Nat : s = PoolTotal /\ r = RewardTotal
  BY <1>2
<1>4. /\ vaultBalance = s + r /\ agentRegistryBalance \in Nat
      /\ agentRegistryBalance + vaultBalance <= MaxRewardFunds
  BY <1>3, AgentAssumption DEF FundsInv, VaultBooks, AgentBooks, FundsBounded
<1>5. claimRewardPools[pool] <= s /\ claimRewardPools[pool] \in Nat
  BY <1>1, <1>2, <1>3
<1> QED
  BY <1>4, <1>5, AgentAssumption

\* No target is above the pool, which holds no more than was sent in.
LEMMA NextGroupKeepsTotals ==
  ASSUME PaymentInv, FundsInv, TotalsInv, NEW p \in Runners, NextGroup(p)
  PROVE  TotalsInv'
<1> DEFINE run == policyRuns[p]
<1>1. run # Idle
  BY DEF NextGroup, Idle
<1>2. RunTotals(run)
  BY <1>1 DEF TotalsInv
<1>3. PICK pool \in run.groups : \E targets \in RewardTargets[pool][claimRewardPools[pool]] :
        policyRuns' = [policyRuns EXCEPT ![p] = Turned(run, pool, targets)]
  BY NextGroupRuns DEF PaymentInv
<1>4. PICK targets \in RewardTargets[pool][claimRewardPools[pool]] :
        policyRuns' = [policyRuns EXCEPT ![p] = Turned(run, pool, targets)]
  BY <1>3
<1>5. claimRewardPools[pool] \in 0 .. MaxRewardFunds
  BY <1>2, PoolBounds DEF RunTotals
<1>6. targets \in [Items -> 0 .. MaxRewardFunds]
  <2>1. targets \in [Items -> 0 .. claimRewardPools[pool]]
    BY <1>2, <1>4, <1>5, TargetsFit DEF RunTotals
  <2> QED
    BY <1>5, <2>1, AgentAssumption
<1> DEFINE new == Turned(run, pool, targets)
<1>7. policyRuns' = [policyRuns EXCEPT ![p] = new]
  BY <1>4
<1>8. RunTotals(new)
  BY <1>2, <1>6 DEF RunTotals, Turned
<1>9. UNCHANGED <<settledAmounts, rows, started>>
  BY DEF NextGroup, rewardVars, vaultVars
<1> HIDE DEF new
<1> QED
  BY <1>7, <1>8, <1>9, RunMovesKeepsTotals DEF PaymentInv, TotalsInv

LEMMA EndKeepsTotals ==
  ASSUME PaymentInv, TotalsInv, NEW p \in Runners, EndPolicyRun(p)
  PROVE  TotalsInv'
BY RunMovesKeepsTotals DEF EndPolicyRun, rewardVars, vaultVars, PaymentInv, TotalsInv

\* A payment changes the amount of a step nobody has counted.
LEMMA SettleKeepsTotals ==
  ASSUME PaymentInv, TotalsInv, NEW p \in Runners, NEW item \in Items, SettleWorkReward(p, item)
  PROVE  TotalsInv'
<1> DEFINE run == policyRuns[p]
           id == <<item, NextStep(p, item)>>
           d == Delta(p, item)
           new == Paying(run, item)
<1>1. run # Idle
  BY DEF SettleWorkReward, Idle
<1>2. /\ id \notin settledRewards /\ d \in Wei
      /\ settledAmounts' = [settledAmounts EXCEPT ![id] = @ + d]
      /\ rows' = rows /\ started' = started
  BY DEF SettleWorkReward, AccrueWorkReward, Accruable
<1>3. policyRuns' = [policyRuns EXCEPT ![p] = new]
  BY SettleRuns DEF PaymentInv
<1>4. /\ policyRuns'[p] = new
      /\ \A q \in Runners \ {p} : policyRuns'[q] = policyRuns[q]
  BY <1>3 DEF PaymentInv, PaymentTypes
<1>5. \A x \in SettlementIds \ {id} : settledAmounts'[x] = settledAmounts[x]
  BY <1>2 DEF TotalsInv
<1>6. settledAmounts' \in [SettlementIds -> 0 .. MaxRewardFunds]
  <2>1. MaxRewardFunds \in Nat /\ d \in 0 .. MaxRewardFunds
    BY <1>2, AgentAssumption DEF Wei
  <2>2. id \in SettlementIds => settledAmounts[id] = 0
    BY <1>2 DEF PaymentInv, PaymentTypes
  <2>3. id \in SettlementIds => settledAmounts[id] + d \in 0 .. MaxRewardFunds
    BY <2>1, <2>2
  <2> HIDE DEF d, id
  <2> QED
    BY <1>2, <2>3 DEF TotalsInv
<1> HIDE DEF d, id
<1>7. ASSUME NEW i \in Items, NEW n \in Nat, 1 .. n \subseteq RowsOf(i)
      PROVE  PaidIn(settledAmounts', i, n) = PaidIn(settledAmounts, i, n)
  <2>1. ASSUME NEW k \in 1 .. n
        PROVE  settledAmounts'[<<i, k>>] = settledAmounts[<<i, k>>]
    <3>1. k \in RowsOf(i)
      BY <1>7
    <3>2. k \in SettledSteps(i)
      BY <3>1, PaymentsFollowChain DEF RowsFollowChain
    <3>3. <<i, k>> \in settledRewards /\ <<i, k>> \in SettlementIds
      BY <3>2 DEF SettledSteps, PaymentInv, PaymentTypes
    <3> QED
      BY <1>2, <1>5, <3>3
  <2> QED
    BY <2>1, PaidAgrees
<1>8. RowTotals'
  <2>1. \A i \in Items : RowsOf(i)' = RowsOf(i)
    BY <1>2 DEF RowsOf
  <2>2. ASSUME NEW i \in Items, NEW n \in RowsOf(i)
        PROVE  rows[<<i, n>>].accruedTotal = PaidIn(settledAmounts', i, n)
    <3>1. PICK k \in 0 .. MaxSteps : RowsOf(i) = 1 .. k
      BY DEF PaymentInv, StepsInOrder
    <3>2. k \in Nat
      BY VaultAssumption
    <3>3. n \in Nat /\ 1 .. n \subseteq RowsOf(i)
      BY <3>1, <3>2
    <3> QED
      BY <1>7, <3>3 DEF TotalsInv, RowTotals
  <2> QED
    BY <1>2, <2>1, <2>2 DEF TotalsInv, RowTotals
<1>9. ASSUME NEW q \in Runners, policyRuns'[q] # Idle
      PROVE  RunTotals(policyRuns[q])'
  <2>1. policyRuns[q] # Idle
    BY <1>1, <1>4, <1>9
  <2>2. RunTotals(policyRuns[q]) /\ RunShape(policyRuns[q])
    BY <2>1 DEF TotalsInv, PaymentInv, PaymentTypes
  <2>3. /\ policyRuns'[q].accrued = policyRuns[q].accrued
        /\ policyRuns'[q].targets = policyRuns[q].targets
        /\ policyRuns'[q].groups = policyRuns[q].groups
        /\ policyRuns'[q].todo \subseteq policyRuns[q].todo
        /\ policyRuns'[q].item \in Items
    <3>1. CASE q = p
      BY <1>4, <3>1 DEF Paying
    <3>2. CASE q # p
      BY <1>4, <2>2, <3>2 DEF RunTotals
    <3> QED
      BY <3>1, <3>2
  <2>4. \A i \in Items : policyRuns[q].accrued[i].accrued =
                           PaidIn(settledAmounts', i, policyRuns[q].accrued[i].count)
    <3> SUFFICES ASSUME NEW i \in Items
                 PROVE  policyRuns[q].accrued[i].accrued =
                          PaidIn(settledAmounts', i, policyRuns[q].accrued[i].count)
      OBVIOUS
    <3>1. PICK n \in Nat : n = policyRuns[q].accrued[i].count
      BY <2>2 DEF RunShape
    <3>2. 1 .. n \subseteq RowsOf(i)
      BY <2>1, <3>1 DEF PaymentInv, RunsLagBehind
    <3>3. PaidIn(settledAmounts', i, n) = PaidIn(settledAmounts, i, n)
      BY <1>7, <3>2
    <3> QED
      BY <2>2, <3>1, <3>3 DEF RunTotals
  <2> QED
    BY <2>2, <2>3, <2>4 DEF RunTotals
<1> QED
  BY <1>2, <1>6, <1>8, <1>9 DEF TotalsInv

\* The target that is paid off is the total of the step.
LEMMA InsertKeepsTotals ==
  ASSUME PaymentInv, TotalsInv, NEW p \in Runners, InsertWorkRewardSettlement(p)
  PROVE  TotalsInv'
<1> DEFINE run == policyRuns[p]
<1>1. run # Idle /\ run.pc = "paid" /\ RunShape(run) /\ RunTotals(run)
  BY DEF InsertWorkRewardSettlement, Idle, PaymentInv, PaymentTypes, TotalsInv
<1> PICK item \in Items : item = run.item
  BY <1>1 DEF RunTotals
<1>2. PICK m \in Nat, total \in Nat, target \in 0 .. MaxRewardFunds :
        /\ m = run.accrued[item].count /\ total = run.accrued[item].accrued
        /\ target = run.targets[item]
  <2>1. run.accrued[item] \in Totals /\ run.targets[item] \in 0 .. MaxRewardFunds
    BY <1>1 DEF RunTotals
  <2> QED
    BY <2>1, VaultAssumption, AgentAssumption DEF Totals
<1> DEFINE n == m + 1
           id == <<item, n>>
           row == [amount |-> target - total, accruedTotal |-> target]
           new == Remembering(run, item, n)
<1>3. NextStep(p, item) = n /\ Delta(p, item) = target - total
  BY <1>2 DEF NextStep, Delta
<1>4. /\ rows[id] = NoRow /\ rows' = [rows EXCEPT ![id] = row]
      /\ settledAmounts' = settledAmounts /\ started' = started
  BY <1>2, <1>3 DEF InsertWorkRewardSettlement, rewardVars, vaultVars
<1>5. policyRuns' = [policyRuns EXCEPT ![p] = new]
  BY <1>3, InsertRuns DEF PaymentInv
<1>6. /\ policyRuns'[p] = new
      /\ \A q \in Runners \ {p} : policyRuns'[q] = policyRuns[q]
  BY <1>5 DEF PaymentInv, PaymentTypes
<1>7. /\ id \in settledRewards /\ settledAmounts[id] = target - total
      /\ target - total \in Wei
  BY <1>1, <1>3 DEF PaymentInv, PaidIsSettled
<1>8. id \in SettlementIds /\ n \in 1 .. MaxSteps
  BY <1>7 DEF PaymentInv, PaymentTypes, SettlementIds
<1>9. PaidIn(settledAmounts, item, n) = target
  <2>1. \A k \in 1 .. n : settledAmounts[<<item, k>>] \in Int
    <3> SUFFICES ASSUME NEW k \in 1 .. n
                 PROVE  settledAmounts[<<item, k>>] \in Int
      OBVIOUS
    <3>1. k \in 1 .. MaxSteps
      BY <1>8, VaultAssumption
    <3>2. <<item, k>> \in SettlementIds
      BY <3>1 DEF SettlementIds
    <3> QED
      BY <3>2, AgentAssumption DEF TotalsInv
  <2>2. PaidIn(settledAmounts, item, n) = PaidIn(settledAmounts, item, m) + settledAmounts[id]
    BY <2>1, PaidOneMore
  <2>3. PaidIn(settledAmounts, item, m) = total
    BY <1>1, <1>2 DEF RunTotals
  <2>4. total + (target - total) = target
    BY <1>2, AgentAssumption
  <2> QED
    BY <1>7, <2>2, <2>3, <2>4
<1>10. target \in Wei /\ row \in Row /\ row # NoRow
  BY <1>2, <1>7, AgentAssumption DEF Row, NoRow, Wei
<1>11. RowTotals'
  <2>1. /\ rows'[id] = row
        /\ \A x \in SettlementIds \ {id} : rows'[x] = rows[x]
        /\ rows' \in [SettlementIds -> Row \cup {NoRow}]
    BY <1>4, <1>8, <1>10 DEF TotalsInv, RowTotals
  <2> SUFFICES ASSUME NEW i \in Items, NEW k \in RowsOf(i)'
               PROVE  rows'[<<i, k>>].accruedTotal = PaidIn(settledAmounts, i, k)
    BY <1>4, <2>1 DEF RowTotals
  <2>2. CASE <<i, k>> = id
    BY <1>9, <2>1, <2>2
  <2>3. CASE <<i, k>> # id
    <3>1. <<i, k>> \in SettlementIds /\ k \in RowsOf(i)
      BY <2>1, <2>3 DEF RowsOf, SettlementIds
    <3> QED
      BY <2>1, <2>3, <3>1 DEF TotalsInv, RowTotals
  <2> QED
    BY <2>2, <2>3
<1>12. RunTotals(new)
  <2> DEFINE seen == [accrued |-> target, count |-> n]
             accrued == [run.accrued EXCEPT ![item] = seen]
  <2>1. n \in 0 .. MaxSteps
    BY <1>8, VaultAssumption
  <2>2. seen \in Totals
    BY <2>1 DEF Totals
  <2>3. accrued \in [Items -> Totals]
    BY <1>1, <2>2 DEF RunTotals
  <2>4. \A i \in Items : accrued[i].accrued = PaidIn(settledAmounts, i, accrued[i].count)
    BY <1>1, <1>9 DEF RunTotals
  <2>5. new.accrued = accrued
    BY <1>2 DEF Remembering
  <2> HIDE DEF accrued
  <2>6. new.targets = run.targets /\ new.groups = run.groups /\ new.todo = run.todo
        /\ new.item = item
    BY DEF Remembering
  <2> HIDE DEF new
  <2> QED
    BY <1>1, <2>3, <2>4, <2>5, <2>6 DEF RunTotals
<1> HIDE DEF new
<1>13. ASSUME NEW q \in Runners, policyRuns'[q] # Idle
       PROVE  RunTotals(policyRuns[q])'
  <2>1. RunTotals(policyRuns'[q])
    BY <1>6, <1>12, <1>13 DEF TotalsInv
  <2> QED
    BY <1>4, <2>1 DEF RunTotals
<1> QED
  BY <1>4, <1>11, <1>13 DEF TotalsInv

\* Nothing has been paid and no run begun.
LEMMA TotalsAtInit == PolicyInitial => TotalsInv
<1> SUFFICES ASSUME PolicyInitial
             PROVE  TotalsInv
  OBVIOUS
<1> USE DEF PolicyInitial, VaultInit, PolicyInit
<1>1. RowTotals
  <2>1. \A item \in Items : RowsOf(item) = {}
    BY DEF RowsOf, SettlementIds
  <2>2. rows \in [SettlementIds -> Row \cup {NoRow}]
    OBVIOUS
  <2> QED
    BY <2>1, <2>2 DEF RowTotals
<1>2. MaxRewardFunds \in Nat /\ MaxPolicyRuns \in Nat
  BY AgentAssumption, PolicyAssumption
<1>3. settledAmounts \in [SettlementIds -> 0 .. MaxRewardFunds]
  BY <1>2
<1>4. started \in 0 .. MaxPolicyRuns
  BY <1>2
<1> QED
  BY <1>1, <1>3, <1>4 DEF TotalsInv

\* Every step of the whole.
LEMMA RewardsInductive == RewardInv /\ [PolicyNext]_allVars => RewardInv'
<1> SUFFICES ASSUME RewardInv, [PolicyNext]_allVars
             PROVE  TotalsInv'
  BY PaymentsInductive, FundsInductive DEF RewardInv
<1>1. CASE FundingStep /\ UNCHANGED policyVars
  BY <1>1, UntouchedKeepsTotals
  DEF RewardInv, FundingStep, policyVars, vaultVars, FundClaimRewards, WithdrawAccruedRewards,
      SetVaultDepositsPaused
<1>2. CASE PolicyStep
  BY <1>2, StartKeepsTotals, NextGroupKeepsTotals, SettleKeepsTotals, InsertKeepsTotals,
     EndKeepsTotals DEF PolicyStep, RewardInv
<1>3. CASE UNCHANGED allVars
  BY <1>3, UntouchedKeepsTotals DEF RewardInv, allVars, rewardVars, vaultVars, policyVars
<1> QED
  BY <1>1, <1>2, <1>3 DEF PolicyNext

\* The books bound every balance by what was sent in.
LEMMA RewardTypes == RewardInv => PolicyTypeOK
<1> SUFFICES ASSUME RewardInv
             PROVE  PolicyTypeOK
  OBVIOUS
<1> USE DEF RewardInv
<1>1. PICK b \in Nat, s \in Nat, r \in Nat : b = BudgetTotal /\ s = PoolTotal /\ r = RewardTotal
  BY BookTotals, BudgetsAreABook, VaultAssumption, AgentAssumption
  DEF FundsInv, VaultBooks, PoolTotal, RewardTotal
<1>2. /\ agentRegistryBalance = b /\ vaultBalance = s + r
      /\ agentRegistryBalance + vaultBalance <= fundsReceived
      /\ fundsReceived \in Nat /\ fundsReceived <= MaxRewardFunds /\ MaxRewardFunds \in Nat
  BY <1>1, AgentAssumption DEF FundsInv, AgentBooks, VaultBooks, FundsBounded
<1>3. /\ b <= MaxRewardFunds /\ s <= MaxRewardFunds /\ r <= MaxRewardFunds
      /\ agentRegistryBalance \in 0 .. MaxRewardFunds /\ vaultBalance \in 0 .. MaxRewardFunds
      /\ fundsReceived \in 0 .. MaxRewardFunds
  BY <1>1, <1>2
<1>4. claimRewardPools \in [Pools -> 0 .. MaxRewardFunds]
  <2>1. /\ claimRewardPools \in [Pools -> Nat]
        /\ \A pool \in Pools : claimRewardPools[pool] <= s
    BY <1>1, BookTotals, VaultAssumption DEF FundsInv, VaultBooks, PoolTotal
  <2> QED
    BY <1>2, <1>3, <2>1
<1>5. accruedRewardBalances \in [Accounts -> 0 .. MaxRewardFunds]
  <2>1. /\ accruedRewardBalances \in [Accounts -> Nat]
        /\ \A a \in Accounts : accruedRewardBalances[a] <= r
    BY <1>1, BookTotals, AgentAssumption DEF FundsInv, VaultBooks, RewardTotal
  <2> QED
    BY <1>2, <1>3, <2>1
<1>6. agents \in [AgentIds -> AgentRecord]
  <2>1. agents \in [AgentIds -> BudgetRecord]
    BY DEF FundsInv, BudgetInv
  <2> SUFFICES ASSUME NEW i \in AgentIds
               PROVE  agents[i] \in AgentRecord
    BY <2>1
  <2>2. agents[i] \in BudgetRecord /\ Committed(agents[i])
    BY DEF FundsInv, BudgetInv
  <2>3. agents[i].budgetBalance <= b /\ agents[i].spendLimit <= MaxRewardFunds
    BY <1>1, BudgetsAreABook DEF FundsInv, AgentSettings
  <2>4. /\ agents[i].budgetBalance \in 0 .. MaxRewardFunds
        /\ agents[i].reservedBudget \in 0 .. MaxRewardFunds
        /\ agents[i].spentBudget \in 0 .. MaxRewardFunds
        /\ agents[i].spendLimit \in 0 .. MaxRewardFunds
    BY <1>1, <1>2, <1>3, <2>2, <2>3 DEF BudgetRecord, Committed
  <2> QED
    BY <2>2, <2>4 DEF BudgetRecord, AgentRecord
<1>7. policyRuns \in [Runners -> PolicyRun]
  <2>1. policyRuns = [q \in Runners |-> policyRuns[q]]
    BY DEF PaymentInv, PaymentTypes
  <2> SUFFICES ASSUME NEW q \in Runners, policyRuns[q] # Idle
               PROVE  policyRuns[q] \in PolicyRun
    BY <2>1 DEF PolicyRun
  <2>2. RunShape(policyRuns[q]) /\ RunTotals(policyRuns[q])
    BY DEF PaymentInv, PaymentTypes, TotalsInv
  <2> QED
    BY <2>2 DEF RunShape, RunTotals, PolicyRun
<1>8. /\ nextAgentId \in 1 .. MaxAgents + 1
      /\ agentControllers \in [AgentIds -> SUBSET Accounts]
  BY AgentAssumption DEF FundsInv, BudgetInv, AgentSettings
<1>9. {agentDepositsPaused, vaultDepositsPaused} \subseteq BOOLEAN
  <2>1. agentDepositsPaused \in BOOLEAN /\ vaultDepositsPaused \in BOOLEAN
    BY Zenon DEF FundsInv, AgentSettings, VaultBooks
  <2> QED
    BY <2>1, Zenon
<1>10. /\ settledRewards \subseteq SettlementIds
       /\ settledAmounts \in [SettlementIds -> 0 .. MaxRewardFunds]
       /\ rows \in [SettlementIds -> Row \cup {NoRow}]
       /\ started \in 0 .. MaxPolicyRuns
  BY DEF PaymentInv, PaymentTypes, TotalsInv, RowTotals
<1>11. {agentRegistryBalance, fundsReceived, vaultBalance} \subseteq 0 .. MaxRewardFunds
  BY <1>3
<1> QED
  BY <1>4, <1>5, <1>6, <1>7, <1>8, <1>9, <1>10, <1>11, Zenon DEF PolicyTypeOK

\* The total of a row is what the chain has paid the item up to its step, though the
\* run that wrote it had read its totals before other runs paid.
THEOREM TotalsAlwaysAddUp == PolicySpec => []TotalsAddUp
<1>1. PolicyInitial => RewardInv
  BY PaymentsAtInit, FundsAtInit, TotalsAtInit DEF RewardInv
<1>2. RewardInv => TotalsAddUp
  BY RewardTypes DEF RewardInv, TotalsInv, RowTotals, TotalsAddUp, PaidUpTo, PaidIn
<1> QED
  BY <1>1, <1>2, RewardsInductive, PTL DEF PolicySpec

-----------------------------------------------------------------------------
(***************************************************************************)
(* Pools.  What a run has yet to pay fits the pool when the run turns to   *)
(* it, and its own payments take as much from the one as from the other.   *)
(* Any other payment is one of a step that the run does not know.          *)
(***************************************************************************)

Owed(run, item) == run.targets[item] - run.accrued[item].accrued
OwedFrom(run, pool) ==
  SumFunctionOnSet([item \in Items |-> Owed(run, item)], run.todo \cap GroupOf(pool))

Known(run, item) ==
  run.accrued[item].count + (IF run.pc = "paid" /\ run.item = item THEN 1 ELSE 0)
Current(run, pool) == \A item \in GroupOf(pool) : SettledSteps(item) = 1 .. Known(run, item)

Suffices(run) ==
  \A pool \in Pools : Current(run, pool) => OwedFrom(run, pool) <= claimRewardPools[pool]

\* The item just paid is not to be paid again, and the others are owed something.
Owing(run) ==
  /\ run.pc = "paid" => run.item \notin run.todo
  /\ \A item \in run.todo : Owed(run, item) >= 0

OwingInv ==
  \A p \in Runners : policyRuns[p] # Idle => Owing(policyRuns[p]) /\ Suffices(policyRuns[p])

PolicyInv == RewardInv /\ OwingInv

\* The invariant says what PoolsSuffice says.
LEMMA OwingSuffices == OwingInv => PoolsSuffice
BY DEF OwingInv, Suffices, Current, Known, OwedFrom, Owed, PoolsSuffice, UpToDate, KnownSteps,
       Outstanding, Delta

\* What is owed is an integer, and so is its sum.
LEMMA OwedType ==
  ASSUME NEW run, RunTotals(run)
  PROVE  /\ \A item \in Items : Owed(run, item) \in Int
         /\ \A pool \in Pools : OwedFrom(run, pool) \in Int
<1>1. ASSUME NEW item \in Items
      PROVE  Owed(run, item) \in Int
  <2>1. run.accrued[item] \in Totals /\ run.targets[item] \in 0 .. MaxRewardFunds
    BY DEF RunTotals
  <2> QED
    BY <2>1, AgentAssumption DEF Totals, Owed
<1>2. ASSUME NEW pool \in Pools
      PROVE  OwedFrom(run, pool) \in Int
  <2> DEFINE f == [item \in Items |-> Owed(run, item)]
             T == run.todo \cap GroupOf(pool)
  <2>1. T \subseteq Items
    BY DEF RunTotals
  <2>2. \A item \in T : f[item] \in Int
    BY <1>1, <2>1
  <2> HIDE DEF f, T
  <2>3. IsFiniteSet(T)
    BY <2>1, Settings, FS_Subset
  <2>4. SumFunctionOnSet(f, T) \in Int
    BY <2>2, <2>3, SumInt
  <2> QED
    BY <2>4 DEF OwedFrom, f, T
<1> QED
  BY <1>1, <1>2

\* What is owed stands while the chain does and no pool falls.
LEMMA GrowingPoolsSuffice ==
  ASSUME PaymentTypes, TotalsInv, OwingInv, UNCHANGED <<settledRewards, policyRuns>>,
         claimRewardPools \in [Pools -> Nat], claimRewardPools' \in [Pools -> Nat],
         \A pool \in Pools : claimRewardPools'[pool] >= claimRewardPools[pool]
  PROVE  OwingInv'
<1> SUFFICES ASSUME NEW p \in Runners, policyRuns[p] # Idle
             PROVE  Suffices(policyRuns[p])'
  BY DEF OwingInv, Owing, Owed
<1> PICK run : run = policyRuns[p]
  OBVIOUS
<1>1. Suffices(run) /\ RunTotals(run)
  BY DEF OwingInv, TotalsInv
<1> SUFFICES ASSUME NEW pool \in Pools, Current(run, pool)'
             PROVE  OwedFrom(run, pool) <= claimRewardPools'[pool]
  BY DEF Suffices, OwedFrom, Owed, Current, Known
<1>2. Current(run, pool)
  BY DEF Current, SettledSteps
<1>3. OwedFrom(run, pool) <= claimRewardPools[pool]
  BY <1>1, <1>2 DEF Suffices
<1>4. OwedFrom(run, pool) \in Int
  BY <1>1, OwedType
<1> QED
  BY <1>3, <1>4

\* The other steps of the contracts take nothing from the pools.
LEMMA FundingKeepsOwing ==
  ASSUME PolicyInv, FundingStep, UNCHANGED policyVars
  PROVE  OwingInv'
<1>1. claimRewardPools \in [Pools -> Nat]
  BY DEF PolicyInv, RewardInv, FundsInv, VaultBooks
<1>2. UNCHANGED <<settledRewards, policyRuns>>
  BY DEF FundingStep, policyVars, vaultVars, FundClaimRewards, WithdrawAccruedRewards,
         SetVaultDepositsPaused
<1>3. /\ claimRewardPools' \in [Pools -> Nat]
      /\ \A pool \in Pools : claimRewardPools'[pool] >= claimRewardPools[pool]
  <2>1. CASE \E pool \in Pools, value \in Wei : FundClaimRewards(pool, value)
    BY <1>1, <2>1, AgentAssumption DEF FundClaimRewards, Wei
  <2>2. CASE UNCHANGED claimRewardPools
    BY <1>1, <2>2
  <2> QED
    BY <2>1, <2>2 DEF FundingStep, vaultVars, WithdrawAccruedRewards, SetVaultDepositsPaused
<1> QED
  BY <1>1, <1>2, <1>3, GrowingPoolsSuffice DEF PolicyInv, RewardInv, PaymentInv

\* A run that moves, or stops, while the chain stays.
LEMMA RunMovesKeepsOwing ==
  ASSUME PaymentTypes, OwingInv, NEW p \in Runners, NEW run,
         UNCHANGED <<settledRewards, claimRewardPools>>,
         policyRuns' = [policyRuns EXCEPT ![p] = run],
         run # Idle => Owing(run) /\ Suffices(run)
  PROVE  OwingInv'
<1>1. /\ policyRuns'[p] = run
      /\ \A q \in Runners \ {p} : policyRuns'[q] = policyRuns[q]
  BY DEF PaymentTypes
<1>2. \A q \in Runners : policyRuns'[q] # Idle =>
        Owing(policyRuns'[q]) /\ Suffices(policyRuns'[q])
  BY <1>1 DEF OwingInv
<1>3. \A item \in Items : SettledSteps(item)' = SettledSteps(item)
  BY DEF SettledSteps
<1> SUFFICES ASSUME NEW q \in Runners, policyRuns'[q] # Idle
             PROVE  Owing(policyRuns'[q]) /\ Suffices(policyRuns[q])'
  BY DEF OwingInv, Owing, Owed
<1>4. PICK r : r = policyRuns'[q]
  OBVIOUS
<1>5. Suffices(policyRuns'[q])
  BY <1>2
<1>6. Suffices(policyRuns[q])'
  <2>1. \A pool \in Pools : Current(policyRuns[q], pool)' <=> Current(policyRuns'[q], pool)
    BY <1>3 DEF Current, Known, GroupOf
  <2>2. \A pool \in Pools : OwedFrom(policyRuns[q], pool)' = OwedFrom(policyRuns'[q], pool)
    BY DEF OwedFrom, Owed
  <2> QED
    BY <1>5, <2>1, <2>2 DEF Suffices
<1> QED
  BY <1>2, <1>6

\* A run that has yet to come to a pool owes it nothing.
LEMMA StartKeepsOwing ==
  ASSUME PolicyInv, NEW p \in Runners, ApplyAutomaticRewardPolicy(p)
  PROVE  OwingInv'
<1> DEFINE run == [pc |-> "paying", accrued |-> ReadAccruedRewardTotals,
                   targets |-> [item \in Items |-> 0], groups |-> Pools, todo |-> {},
                   item |-> CHOOSE item \in Items : TRUE]
<1>1. /\ policyRuns' = [policyRuns EXCEPT ![p] = run]
      /\ UNCHANGED <<settledRewards, claimRewardPools>>
  BY DEF ApplyAutomaticRewardPolicy, rewardVars, vaultVars
<1>2. run.todo = {} /\ run.pc = "paying"
  OBVIOUS
<1> HIDE DEF run
<1>3. Owing(run)
  BY <1>2 DEF Owing
<1>4. \A pool \in Pools : OwedFrom(run, pool) = 0
  BY <1>2, SumEmpty DEF OwedFrom
<1>5. Suffices(run)
  BY <1>4 DEF Suffices, PolicyInv, RewardInv, FundsInv, VaultBooks
<1> QED
  BY <1>1, <1>3, <1>5, RunMovesKeepsOwing DEF PolicyInv, RewardInv, PaymentInv

LEMMA EndKeepsOwing ==
  ASSUME PolicyInv, NEW p \in Runners, EndPolicyRun(p)
  PROVE  OwingInv'
BY RunMovesKeepsOwing DEF EndPolicyRun, rewardVars, vaultVars, PolicyInv, RewardInv, PaymentInv

\* The targets fit the balance, and what has been paid before only helps.
LEMMA NextGroupKeepsOwing ==
  ASSUME PolicyInv, NEW p \in Runners, NextGroup(p)
  PROVE  OwingInv'
<1> DEFINE run == policyRuns[p]
<1>1. run # Idle /\ run.pc = "paying"
  BY DEF NextGroup, Idle
<1>2. RunTotals(run)
  BY <1>1 DEF PolicyInv, RewardInv, TotalsInv
<1>0. PICK pool \in run.groups : \E targets \in RewardTargets[pool][claimRewardPools[pool]] :
        policyRuns' = [policyRuns EXCEPT ![p] = Turned(run, pool, targets)]
  BY NextGroupRuns DEF PolicyInv, RewardInv, PaymentInv
<1>3. PICK targets \in RewardTargets[pool][claimRewardPools[pool]] :
        policyRuns' = [policyRuns EXCEPT ![p] = Turned(run, pool, targets)]
  BY <1>0
<1>4. pool \in Pools /\ claimRewardPools[pool] \in 0 .. MaxRewardFunds
  BY <1>2, PoolBounds DEF RunTotals, PolicyInv, RewardInv
<1>5. /\ targets \in [Items -> 0 .. claimRewardPools[pool]]
      /\ \A item \in Items \ GroupOf(pool) : targets[item] = 0
      /\ SumFunctionOnSet(targets, GroupOf(pool)) <= claimRewardPools[pool]
  BY <1>3, <1>4, TargetsFit
<1> DEFINE new == Turned(run, pool, targets)
<1>6. policyRuns' = [policyRuns EXCEPT ![p] = new]
  BY <1>3
<1>7. /\ new.pc = "paying" /\ new.targets = targets /\ new.accrued = run.accrued
      /\ new.todo = {item \in Items : targets[item] > run.accrued[item].accrued}
  BY <1>1 DEF Turned
<1> HIDE DEF new
<1>8. ASSUME NEW item \in Items
      PROVE  /\ targets[item] \in Nat /\ run.accrued[item].accrued \in Nat
             /\ Owed(new, item) = targets[item] - run.accrued[item].accrued
             /\ item \in new.todo => Owed(new, item) \in 0 .. targets[item]
             /\ item \in new.todo => item \in GroupOf(pool)
  <2>1. PICK t \in Nat, a \in Nat : t = targets[item] /\ a = run.accrued[item].accrued
    <3>1. run.accrued[item] \in Totals
      BY <1>2 DEF RunTotals
    <3>2. run.accrued[item].accrued \in Nat
      BY <3>1, AgentAssumption DEF Totals
    <3>3. targets[item] \in Nat
      BY <1>4, <1>5, AgentAssumption
    <3> QED
      BY <3>2, <3>3
  <2>2. Owed(new, item) = t - a
    BY <1>7, <2>1 DEF Owed
  <2>3. item \in new.todo => t > a
    BY <1>7, <2>1
  <2>4. item \notin GroupOf(pool) => t = 0
    BY <1>5, <2>1
  <2> QED
    BY <2>1, <2>2, <2>3, <2>4
<1>9. Owing(new)
  <2>1. new.todo \subseteq Items
    BY <1>7
  <2> QED
    BY <1>7, <1>8, <2>1 DEF Owing
<1>10. ASSUME NEW other \in Pools
       PROVE  OwedFrom(new, other) <= claimRewardPools[other]
  <2> DEFINE f == [item \in Items |-> Owed(new, item)]
             g == [item \in Items |-> targets[item]]
             T == new.todo \cap GroupOf(other)
  <2>1. OwedFrom(new, other) = SumFunctionOnSet(f, T)
    BY DEF OwedFrom
  <2>2. CASE other # pool
    <3>1. T = {}
      <4>1. \A item \in GroupOf(other) : item \in Items /\ item \notin GroupOf(pool)
        BY <2>2 DEF GroupOf
      <4> QED
        BY <1>8, <4>1
    <3>2. claimRewardPools[other] \in Nat
      BY DEF PolicyInv, RewardInv, FundsInv, VaultBooks
    <3> HIDE DEF f, T
    <3> QED
      BY <2>1, <3>1, <3>2, SumEmpty
  <2>3. CASE other = pool
    <3> DEFINE S == GroupOf(pool)
    <3>1. S \subseteq Items
      BY DEF GroupOf
    <3>2. T \in SUBSET S
      BY <2>3
    <3>3. \A item \in T : f[item] \in Int /\ targets[item] \in Int /\ f[item] <= targets[item]
      BY <1>8, <3>1, <3>2
    <3>4. \A item \in S : targets[item] \in Nat
      BY <1>8, <3>1
    <3> HIDE DEF f, T, S
    <3>5. IsFiniteSet(S) /\ IsFiniteSet(T)
      BY <3>1, <3>2, Settings, FS_Subset
    <3>6. SumFunctionOnSet(f, T) <= SumFunctionOnSet(targets, T)
      BY <3>3, <3>5, SumLeq
    <3>7. SumFunctionOnSet(targets, T) <= SumFunctionOnSet(targets, S)
      BY <3>2, <3>4, <3>5, SumPartLeq
    <3>8. /\ SumFunctionOnSet(f, T) \in Int /\ SumFunctionOnSet(targets, T) \in Int
          /\ SumFunctionOnSet(targets, S) \in Int
      BY <3>2, <3>3, <3>4, <3>5, SumInt
    <3>9. SumFunctionOnSet(targets, S) <= claimRewardPools[pool]
      BY <1>5 DEF S
    <3>10. claimRewardPools[pool] \in Int
      BY <1>4, AgentAssumption
    <3> QED
      BY <2>1, <2>3, <3>6, <3>7, <3>8, <3>9, <3>10
  <2> QED
    BY <2>2, <2>3
<1>11. Suffices(new)
  BY <1>10 DEF Suffices
<1>12. UNCHANGED <<settledRewards, claimRewardPools>>
  BY DEF NextGroup, rewardVars, vaultVars
<1> QED
  BY <1>6, <1>9, <1>11, <1>12, RunMovesKeepsOwing DEF PolicyInv, RewardInv, PaymentInv

\* The row of a payment changes nothing of what is known or owed.
LEMMA InsertKeepsOwing ==
  ASSUME PolicyInv, NEW p \in Runners, InsertWorkRewardSettlement(p)
  PROVE  OwingInv'
<1> DEFINE run == policyRuns[p]
<1>1. run # Idle /\ run.pc = "paid" /\ RunShape(run) /\ RunTotals(run)
  BY DEF InsertWorkRewardSettlement, Idle, PolicyInv, RewardInv, PaymentInv, PaymentTypes, TotalsInv
<1>2. PICK item \in Items : item = run.item
  BY <1>1 DEF RunTotals
<1>3. PICK n \in Nat : n = NextStep(p, item) /\ n = run.accrued[item].count + 1
  BY <1>1 DEF NextStep, RunShape
<1> DEFINE new == Remembering(run, item, n)
<1>4. policyRuns' = [policyRuns EXCEPT ![p] = new]
  BY <1>2, <1>3, InsertRuns DEF PolicyInv, RewardInv, PaymentInv
<1>5. /\ new.pc = "paying" /\ new.targets = run.targets /\ new.todo = run.todo
      /\ new.accrued[item].count = n
      /\ \A i \in Items \ {item} : new.accrued[i] = run.accrued[i]
  BY <1>1 DEF Remembering, RunTotals
<1> HIDE DEF new
<1>6. Owing(run) /\ Suffices(run)
  BY <1>1 DEF PolicyInv, OwingInv
<1>7. run.todo \subseteq Items \ {item}
  BY <1>1, <1>2, <1>6 DEF Owing, RunTotals
<1>8. \A i \in run.todo : Owed(new, i) = Owed(run, i)
  BY <1>5, <1>7 DEF Owed
<1>9. Owing(new)
  BY <1>5, <1>6, <1>8 DEF Owing
<1>10. ASSUME NEW pool \in Pools
       PROVE  OwedFrom(new, pool) = OwedFrom(run, pool)
  <2> DEFINE f == [i \in Items |-> Owed(new, i)]
             g == [i \in Items |-> Owed(run, i)]
             T == run.todo \cap GroupOf(pool)
  <2>1. \A i \in T : f[i] = g[i]
    BY <1>7, <1>8
  <2>2. OwedFrom(new, pool) = SumFunctionOnSet(f, T) /\ OwedFrom(run, pool) = SumFunctionOnSet(g, T)
    BY <1>5 DEF OwedFrom
  <2>3. T \subseteq Items
    BY <1>7
  <2> HIDE DEF f, g, T
  <2>4. IsFiniteSet(T)
    BY <2>3, Settings, FS_Subset
  <2> QED
    BY <2>1, <2>2, <2>4, SumSame
<1>11. \A i \in Items : Known(new, i) = Known(run, i)
  <2> SUFFICES ASSUME NEW i \in Items
               PROVE  Known(new, i) = Known(run, i)
    OBVIOUS
  <2>1. run.accrued[i].count \in Nat
    BY <1>1 DEF RunShape
  <2>2. CASE i = item
    BY <1>1, <1>2, <1>3, <1>5, <2>1, <2>2 DEF Known
  <2>3. CASE i # item
    BY <1>1, <1>2, <1>5, <2>1, <2>3 DEF Known
  <2> QED
    BY <2>2, <2>3
<1>12. Suffices(new)
  <2>1. \A pool \in Pools : Current(new, pool) <=> Current(run, pool)
    BY <1>11 DEF Current, GroupOf
  <2> QED
    BY <1>6, <1>10, <2>1 DEF Suffices
<1>13. UNCHANGED <<settledRewards, claimRewardPools>>
  BY DEF InsertWorkRewardSettlement, rewardVars, vaultVars
<1> QED
  BY <1>4, <1>9, <1>12, <1>13, RunMovesKeepsOwing DEF PolicyInv, RewardInv, PaymentInv

\* The steps a run knows are settled.
LEMMA KnownIsSettled ==
  ASSUME PaymentInv, NEW p \in Runners, policyRuns[p] # Idle, NEW item \in Items
  PROVE  1 .. Known(policyRuns[p], item) \subseteq SettledSteps(item)
<1> DEFINE run == policyRuns[p]
<1>1. RunShape(run)
  BY DEF PaymentInv, PaymentTypes
<1>2. PICK m \in Nat : m = run.accrued[item].count
  BY <1>1 DEF RunShape
<1>3. 1 .. m \subseteq SettledSteps(item)
  BY <1>2, PaymentsFollowChain DEF PaymentInv, RunsLagBehind, RowsFollowChain
<1>4. CASE run.pc = "paid" /\ run.item = item
  <2>1. <<item, m + 1>> \in settledRewards
    BY <1>2, <1>4 DEF PaymentInv, PaidIsSettled, NextStep
  <2>2. m + 1 \in SettledSteps(item)
    BY <2>1 DEF SettledSteps, PaymentInv, PaymentTypes, SettlementIds
  <2>3. \A k \in 1 .. (m + 1) : k \in 1 .. m \/ k = m + 1
    OBVIOUS
  <2>4. Known(run, item) = m + 1
    BY <1>2, <1>4 DEF Known
  <2> QED
    BY <1>3, <2>2, <2>3, <2>4
<1>5. CASE ~(run.pc = "paid" /\ run.item = item)
  <2>1. Known(run, item) = m
    BY <1>2, <1>5 DEF Known
  <2> QED
    BY <1>3, <2>1
<1> QED
  BY <1>4, <1>5

\* A payment takes from the pool what it takes from what is owed; to a run that is
\* not the one that pays it is news.
LEMMA SettleKeepsOwing ==
  ASSUME PolicyInv, NEW p \in Runners, NEW item \in Items, SettleWorkReward(p, item)
  PROVE  OwingInv'
<1> DEFINE run == policyRuns[p]
<1>0. PICK n, d, new : n = NextStep(p, item) /\ d = Delta(p, item) /\ new = Paying(run, item)
  OBVIOUS
<1>1. run # Idle /\ run.pc = "paying" /\ item \in run.todo /\ n <= MaxSteps
  BY <1>0 DEF SettleWorkReward, Idle
<1>2. RunShape(run) /\ RunTotals(run) /\ Owing(run) /\ Suffices(run)
  BY <1>1 DEF PolicyInv, RewardInv, PaymentInv, PaymentTypes, TotalsInv, OwingInv
<1>3. /\ <<item, n>> \notin settledRewards
      /\ settledRewards' = settledRewards \cup {<<item, n>>}
      /\ claimRewardPools' = [claimRewardPools EXCEPT ![PoolOf[item]] = @ - d]
  BY <1>0 DEF SettleWorkReward, AccrueWorkReward, Accruable
<1>4. /\ policyRuns'[p] = new
      /\ \A q \in Runners \ {p} : policyRuns'[q] = policyRuns[q]
  BY <1>0, SettleRuns DEF PolicyInv, RewardInv, PaymentInv, PaymentTypes
<1>5. PICK m \in Nat : m = run.accrued[item].count /\ n = m + 1
  BY <1>0, <1>2 DEF RunShape, NextStep
<1>6. n \in 1 .. MaxSteps /\ n \notin SettledSteps(item)
  BY <1>1, <1>3, <1>5, VaultAssumption DEF SettledSteps
<1>7. /\ SettledSteps(item)' = SettledSteps(item) \cup {n}
      /\ \A i \in Items \ {item} : SettledSteps(i)' = SettledSteps(i)
  BY <1>3, <1>6 DEF SettledSteps
<1>8. /\ claimRewardPools'[PoolOf[item]] = claimRewardPools[PoolOf[item]] - d
      /\ \A pool \in Pools \ {PoolOf[item]} : claimRewardPools'[pool] = claimRewardPools[pool]
      /\ claimRewardPools \in [Pools -> Nat] /\ PoolOf[item] \in Pools
  <2>1. claimRewardPools \in [Pools -> Nat] /\ PoolOf[item] \in Pools
    BY PolicyAssumption DEF PolicyInv, RewardInv, FundsInv, VaultBooks
  <2> QED
    BY <1>3, <2>1
<1>9. d = Owed(run, item) /\ d \in Int
  BY <1>0, <1>2, OwedType DEF Delta, Owed
<1>10. /\ new.pc = "paid" /\ new.item = item /\ new.todo = run.todo \ {item}
       /\ new.accrued = run.accrued /\ new.targets = run.targets
  BY <1>0 DEF Paying
<1>11. Owing(new)
  BY <1>2, <1>10 DEF Owing, Owed
<1>12. ASSUME NEW pool \in Pools, Current(new, pool)'
       PROVE  OwedFrom(new, pool) <= claimRewardPools'[pool]
  <2>1. ASSUME NEW i \in GroupOf(pool)
        PROVE  SettledSteps(i) = 1 .. Known(run, i)
    <3>0. i \in Items
      BY DEF GroupOf
    <3>1. SettledSteps(i)' = 1 .. Known(new, i)
      BY <1>12 DEF Current, GroupOf, Known
    <3>2. CASE i = item
      <4>1. Known(run, i) = m /\ Known(new, i) = n
        BY <1>1, <1>5, <1>10, <3>2 DEF Known
      <4>2. SettledSteps(item) \cup {n} = 1 .. (m + 1)
        BY <1>5, <1>7, <3>1, <3>2, <4>1
      <4>3. \A k : k \in 1 .. (m + 1) <=> (k \in 1 .. m \/ k = m + 1)
        OBVIOUS
      <4>4. m + 1 \notin 1 .. m
        OBVIOUS
      <4> QED
        BY <1>5, <1>6, <3>2, <4>1, <4>2, <4>3, <4>4
    <3>3. CASE i # item
      <4>1. Known(run, i) = Known(new, i)
        BY <1>1, <1>10, <3>3 DEF Known
      <4> QED
        BY <1>7, <3>0, <3>1, <3>3, <4>1
    <3> QED
      BY <3>2, <3>3
  <2>2. OwedFrom(run, pool) <= claimRewardPools[pool]
    BY <1>2, <2>1 DEF Suffices, Current
  <2> DEFINE f == [i \in Items |-> Owed(run, i)]
             T == run.todo \cap GroupOf(pool)
             U == new.todo \cap GroupOf(pool)
  <2>3. OwedFrom(run, pool) = SumFunctionOnSet(f, T) /\ OwedFrom(new, pool) = SumFunctionOnSet(f, U)
    BY <1>10 DEF OwedFrom, Owed
  <2>4. OwedFrom(run, pool) \in Int
    BY <1>2, OwedType
  <2>5. T \subseteq Items /\ (\A i \in T : f[i] \in Int) /\ f[item] = d
    BY <1>2, <1>9, OwedType DEF RunTotals
  <2>6. U = T \ {item} /\ (item \in T <=> PoolOf[item] = pool)
    BY <1>1, <1>10 DEF GroupOf
  <2> HIDE DEF f, T, U
  <2>7. IsFiniteSet(T)
    BY <2>5, Settings, FS_Subset
  <2>8. CASE PoolOf[item] = pool
    <3>1. SumFunctionOnSet(f, T) = d + SumFunctionOnSet(f, U)
      BY <2>5, <2>6, <2>7, <2>8, SumTakeOut
    <3>2. IsFiniteSet(U) /\ \A i \in U : f[i] \in Int
      BY <2>5, <2>6, <2>7, FS_Subset
    <3>3. SumFunctionOnSet(f, U) \in Int
      BY <3>2, SumInt
    <3>4. claimRewardPools'[pool] = claimRewardPools[pool] - d /\ claimRewardPools[pool] \in Int
      BY <1>8, <2>8
    <3> QED
      BY <1>9, <2>2, <2>3, <3>1, <3>3, <3>4
  <2>9. CASE PoolOf[item] # pool
    <3>1. U = T
      BY <2>6, <2>9
    <3>2. claimRewardPools'[pool] = claimRewardPools[pool]
      BY <1>8, <2>9
    <3> QED
      BY <2>2, <2>3, <3>1, <3>2
  <2> QED
    BY <2>8, <2>9
<1>13. ASSUME NEW q \in Runners \ {p}, policyRuns[q] # Idle, NEW pool \in Pools,
              Current(policyRuns[q], pool)'
       PROVE  OwedFrom(policyRuns[q], pool) <= claimRewardPools'[pool]
  <2> PICK other : other = policyRuns[q]
    OBVIOUS
  <2>1. \A i \in GroupOf(pool) : SettledSteps(i)' = 1 .. Known(other, i)
    BY <1>4, <1>13 DEF Current, GroupOf, Known
  <2>2. CASE PoolOf[item] = pool
    <3>1. SettledSteps(item) \cup {n} = 1 .. Known(other, item)
      BY <1>7, <2>1, <2>2 DEF GroupOf
    <3>2. 1 .. Known(other, item) \subseteq SettledSteps(item)
      BY <1>13, KnownIsSettled DEF PolicyInv, RewardInv
    <3> QED
      BY <1>6, <3>1, <3>2
  <2>3. CASE PoolOf[item] # pool
    <3>1. Current(other, pool)
      BY <1>7, <2>1, <2>3 DEF Current, GroupOf
    <3>2. Suffices(other)
      BY <1>13 DEF PolicyInv, OwingInv
    <3>3. claimRewardPools'[pool] = claimRewardPools[pool]
      BY <1>8, <2>3
    <3> QED
      BY <3>1, <3>2, <3>3 DEF Suffices
  <2> QED
    BY <2>2, <2>3
<1>14. ASSUME NEW q \in Runners, policyRuns'[q] # Idle
       PROVE  Owing(policyRuns'[q]) /\ Suffices(policyRuns[q])'
  <2>1. CASE q = p
    <3>1. ASSUME NEW pool \in Pools, Current(policyRuns[q], pool)'
          PROVE  OwedFrom(policyRuns[q], pool)' <= claimRewardPools'[pool]
      <4>1. Current(new, pool)'
        BY <1>4, <2>1, <3>1 DEF Current, Known, GroupOf
      <4>2. OwedFrom(policyRuns[q], pool)' = OwedFrom(new, pool)
        BY <1>4, <2>1 DEF OwedFrom, Owed
      <4> QED
        BY <1>12, <4>1, <4>2
    <3> QED
      BY <1>4, <1>11, <2>1, <3>1 DEF Suffices
  <2>2. CASE q # p
    <3>0. policyRuns'[q] = policyRuns[q]
      BY <1>4, <2>2
    <3>1. ASSUME NEW pool \in Pools, Current(policyRuns[q], pool)'
          PROVE  OwedFrom(policyRuns[q], pool)' <= claimRewardPools'[pool]
      <4>1. OwedFrom(policyRuns[q], pool)' = OwedFrom(policyRuns[q], pool)
        BY <3>0 DEF OwedFrom, Owed
      <4> QED
        BY <1>13, <1>14, <2>2, <3>0, <3>1, <4>1
    <3>2. Owing(policyRuns[q])
      BY <1>14, <3>0 DEF PolicyInv, OwingInv
    <3> QED
      BY <3>0, <3>1, <3>2 DEF Suffices
  <2> QED
    BY <2>1, <2>2
<1> QED
  BY <1>14 DEF OwingInv, Owing, Owed

\* Every step of the whole.
LEMMA PolicyInductive == PolicyInv /\ [PolicyNext]_allVars => PolicyInv'
<1> SUFFICES ASSUME PolicyInv, [PolicyNext]_allVars
             PROVE  OwingInv'
  BY RewardsInductive DEF PolicyInv
<1>1. CASE FundingStep /\ UNCHANGED policyVars
  BY <1>1, FundingKeepsOwing
<1>2. CASE PolicyStep
  BY <1>2, StartKeepsOwing, NextGroupKeepsOwing, SettleKeepsOwing, InsertKeepsOwing,
     EndKeepsOwing DEF PolicyStep
<1>3. CASE UNCHANGED allVars
  <2>1. claimRewardPools \in [Pools -> Nat] /\ UNCHANGED <<claimRewardPools, settledRewards, policyRuns>>
    BY <1>3 DEF allVars, rewardVars, vaultVars, policyVars, PolicyInv, RewardInv, FundsInv, VaultBooks
  <2>2. \A pool \in Pools : claimRewardPools'[pool] >= claimRewardPools[pool]
    BY <2>1
  <2> QED
    BY <2>1, <2>2, GrowingPoolsSuffice DEF PolicyInv, RewardInv, PaymentInv
<1> QED
  BY <1>1, <1>2, <1>3 DEF PolicyNext

\* However runs overlap, a run that has missed no settlement of a pool's work has no
\* more to pay from the pool than the pool holds, though it read the balance before
\* its first payment and rounded every target by itself.
THEOREM PoolsAlwaysSuffice == PolicySpec => []PoolsSuffice
<1>1. PolicyInitial => PolicyInv
  <2>1. PolicyInitial => OwingInv
    BY DEF PolicyInitial, PolicyInit, OwingInv
  <2> QED
    BY <2>1, PaymentsAtInit, FundsAtInit, TotalsAtInit DEF PolicyInv, RewardInv
<1>2. PolicyInv => PoolsSuffice
  BY OwingSuffices DEF PolicyInv
<1> QED
  BY <1>1, <1>2, PolicyInductive, PTL DEF PolicySpec
=============================================================================
