-------------------------- MODULE EpistemicMarket --------------------------
(***************************************************************************)
(* contracts/EpistemicMarket.sol: forecasts and challenges staked on the   *)
(* claims of the registry and settled against its EFFECTIVE decisions.     *)
(* The registry is the environment, and known by its promise, ClaimView;   *)
(* ClaimRegistry implements that promise.  The claims of the model have    *)
(* been created: a forecast on any other reverts.                          *)
(*                                                                         *)
(* Every account may call at any time; the settler and the resolver are    *)
(* trusted with WHEN they call and, for a challenge, with the verdict.     *)
(* A commitment to no valid preimage is one that is never revealed.  The   *)
(* replication, the evidence and the confidence of a position do not       *)
(* change what it is paid and are left out.                                *)
(*                                                                         *)
(* A definition whose name begins with Bug is one the model does not use:  *)
(* its neighbour with a defect the properties must notice.                 *)
(***************************************************************************)
EXTENDS ClaimView, FiniteSets, Functions

CONSTANTS
  Forecasters,             \* accounts
  Agent,                   \* a registered agent, or NoAgent for agent id 0
  NoAgent,
  MIN_CHALLENGE_DURATION,
  FORECAST_RECLAIM_DELAY,
  MaxForecasts,            \* bound: forecasts ever committed
  MaxChallenges,           \* bound: challenges ever opened
  MaxWindow,               \* bound: length of a reveal window
  MaxTime,                 \* bound: the clock
  MaxMarketFunds           \* bound: value ever sent to the market

ASSUME MarketAssumption ==
  /\ {MIN_CHALLENGE_DURATION, FORECAST_RECLAIM_DELAY, MaxForecasts, MaxChallenges,
      MaxWindow, MaxTime, MaxMarketFunds} \subseteq Nat
  /\ NoAgent # Agent
  /\ IsFiniteSet(Forecasters)

ForecastIds == 1 .. MaxForecasts
ChallengeIds == 1 .. MaxChallenges
Values == 1 .. MaxMarketFunds
AgentIds == {NoAgent, Agent}

VARIABLES
  timestamp,                 \* block.timestamp
  controllers,               \* accounts for which isAuthorizedController(Agent, _)
  marketDepositsPaused,
  forecasts,                 \* _forecasts
  challenges,                \* _challenges
  rewardPoolBalance,
  withdrawablePayouts,       \* by account
  totalWithdrawablePayouts,
  marketBalance,             \* the contract's own balance
  marketReceived,            \* history: value sent in
  withdrawn,                 \* history: value paid out, by account
  forecastPaid,              \* history: value credited for a forecast
  challengePaid              \* history: value credited for a challenge

positionVars == <<forecasts, challenges, forecastPaid, challengePaid>>
ledgerVars == <<rewardPoolBalance, withdrawablePayouts, totalWithdrawablePayouts,
                marketBalance, marketReceived, withdrawn>>
settingVars == <<timestamp, controllers, marketDepositsPaused>>
marketVars == <<positionVars, ledgerVars, settingVars>>

ForecastDirection == {"Supports", "Questions", "Refutes"}
ChallengeStatus == {"Open", "Sustained", "Dismissed", "Escalated", "Withdrawn"}

\* committed is the direction in the preimage of the commitment hash;
\* recordedAtCommit is history, the decisions the registry had made by then.
ForecastCommitment ==
  [claimId : ClaimIds, forecaster : Forecasters, agentId : AgentIds,
   committed : ForecastDirection, stakeAmount : Values, revealDeadline : 0 .. MaxTime,
   revealed : BOOLEAN, settled : BOOLEAN,
   effectiveDecisionIdAtCommit : DecisionIds \cup {0},
   resolutionDecisionId : DecisionIds \cup {0}, recordedAtCommit : SUBSET DecisionIds]
ChallengeBond ==
  [challenger : Forecasters, agentId : AgentIds, bondAmount : Values,
   status : ChallengeStatus, createdAt : 0 .. MaxTime]
NoPosition == [agentId |-> NoAgent]

ForecastExists(f) == forecasts[f] # NoPosition
ChallengeExists(k) == challenges[k] # NoPosition

MarketInit ==
  /\ timestamp = 0
  /\ controllers \in SUBSET Forecasters
  /\ marketDepositsPaused = FALSE
  /\ forecasts = [f \in ForecastIds |-> NoPosition]
  /\ challenges = [k \in ChallengeIds |-> NoPosition]
  /\ rewardPoolBalance = 0
  /\ withdrawablePayouts = [a \in Forecasters |-> 0]
  /\ totalWithdrawablePayouts = 0
  /\ marketBalance = 0
  /\ marketReceived = 0
  /\ withdrawn = [a \in Forecasters |-> 0]
  /\ forecastPaid = [f \in ForecastIds |-> 0]
  /\ challengePaid = [k \in ChallengeIds |-> 0]

(***************************************************************************)
(* Money.                                                                  *)
(***************************************************************************)
\* msg.value arriving with a deposit.
ReceiveValue(value) ==
  /\ ~marketDepositsPaused
  /\ marketReceived + value <= MaxMarketFunds
  /\ marketReceived' = marketReceived + value
  /\ marketBalance' = marketBalance + value

CreditPayout(beneficiary, amount) ==
  /\ withdrawablePayouts' = [withdrawablePayouts EXCEPT ![beneficiary] = @ + amount]
  /\ totalWithdrawablePayouts' = totalWithdrawablePayouts + amount
  /\ UNCHANGED <<marketBalance, marketReceived, withdrawn>>

\* A position's own value is doubled as far as the pool reaches ...
Bonus(amount) == IF rewardPoolBalance >= amount THEN amount ELSE rewardPoolBalance

PayWithBonus(beneficiary, amount) ==
  /\ rewardPoolBalance' = rewardPoolBalance - Bonus(amount)
  /\ CreditPayout(beneficiary, amount + Bonus(amount))
\* ... returned, ...
PayBack(beneficiary, amount) ==
  CreditPayout(beneficiary, amount) /\ UNCHANGED rewardPoolBalance
\* ... or lost to the pool.
Forfeit(amount) ==
  /\ rewardPoolBalance' = rewardPoolBalance + amount
  /\ UNCHANGED <<withdrawablePayouts, totalWithdrawablePayouts, marketBalance,
                 marketReceived, withdrawn>>

FundRewardPool(value) ==
  /\ ReceiveValue(value)
  /\ rewardPoolBalance' = rewardPoolBalance + value
  /\ UNCHANGED <<positionVars, withdrawablePayouts, totalWithdrawablePayouts, withdrawn,
                 settingVars, viewVars>>

\* The account names the recipient, who does not matter to the market.
WithdrawPayout(sender, amount) ==
  /\ withdrawablePayouts[sender] >= amount
  /\ marketBalance >= amount
  /\ withdrawablePayouts' = [withdrawablePayouts EXCEPT ![sender] = @ - amount]
  /\ totalWithdrawablePayouts' = totalWithdrawablePayouts - amount
  /\ marketBalance' = marketBalance - amount
  /\ withdrawn' = [withdrawn EXCEPT ![sender] = @ + amount]
  /\ UNCHANGED <<positionVars, rewardPoolBalance, marketReceived, settingVars, viewVars>>

(***************************************************************************)
(* Forecasts.                                                              *)
(***************************************************************************)
MayAct(position, owner, sender) ==
  IF position.agentId = NoAgent THEN sender = owner ELSE sender \in controllers

CommitForecast(sender, f, c, direction, value, revealDeadline, agentId) ==
  /\ ~ForecastExists(f) /\ \A g \in 1 .. f - 1 : ForecastExists(g)
  /\ status[c] \notin {"Refuted", "Fraudulent", "Deprecated"}
  /\ revealDeadline > timestamp
  /\ agentId # NoAgent => sender \in controllers
  /\ ReceiveValue(value)
  /\ forecasts' = [forecasts EXCEPT ![f] =
       [claimId |-> c, forecaster |-> sender, agentId |-> agentId,
        committed |-> direction, stakeAmount |-> value, revealDeadline |-> revealDeadline,
        revealed |-> FALSE, settled |-> FALSE,
        effectiveDecisionIdAtCommit |-> effective[c], resolutionDecisionId |-> 0,
        recordedAtCommit |-> {d \in DecisionIds : outcome[d] # NoOutcome}]]
  /\ UNCHANGED <<challenges, forecastPaid, challengePaid, rewardPoolBalance,
                 withdrawablePayouts, totalWithdrawablePayouts, withdrawn, settingVars, viewVars>>

BugRevealForecast(sender, f, direction) ==  \* after the window
  /\ ForecastExists(f)
  /\ MayAct(forecasts[f], forecasts[f].forecaster, sender)
  /\ ~forecasts[f].revealed
  /\ direction = forecasts[f].committed
  /\ forecasts' = [forecasts EXCEPT ![f].revealed = TRUE]
  /\ UNCHANGED <<challenges, forecastPaid, challengePaid, ledgerVars, settingVars, viewVars>>

RevealForecast(sender, f, direction) ==
  /\ ForecastExists(f)
  /\ MayAct(forecasts[f], forecasts[f].forecaster, sender)
  /\ ~forecasts[f].revealed
  /\ timestamp <= forecasts[f].revealDeadline
  /\ direction = forecasts[f].committed
  /\ forecasts' = [forecasts EXCEPT ![f].revealed = TRUE]
  /\ UNCHANGED <<challenges, forecastPaid, challengePaid, ledgerVars, settingVars, viewVars>>

ForecastMatches(direction, finalStatus) ==
  CASE direction = "Supports"  -> finalStatus \in {"Supported", "Qualified"}
    [] direction = "Questions" -> finalStatus \in {"Inconclusive", "Escalated"}
    [] OTHER                   -> finalStatus \in {"Refuted", "FraudSignal"}

WindowClosed(forecast) == timestamp > forecast.revealDeadline

\* settled and resolutionDecisionId of a forecast that ends, and what it paid.
EndForecast(f, decisionId, paid) ==
  /\ forecasts' = [forecasts EXCEPT ![f].settled = TRUE,
                                    ![f].resolutionDecisionId = decisionId]
  /\ forecastPaid' = [forecastPaid EXCEPT ![f] = @ + paid]
  /\ UNCHANGED <<challenges, challengePaid, settingVars, viewVars>>

BugSettles(d, forecast) ==  \* by the decision in force at the commit
  d # 0 /\ d = effective[forecast.claimId] /\ outcome[d][1] = forecast.claimId

\* The decision a settlement may use: effective, newer than what was effective
\* at the commit, and about the forecast's claim.
Settles(d, forecast) ==
  /\ d # 0
  /\ d = effective[forecast.claimId]
  /\ d > forecast.effectiveDecisionIdAtCommit
  /\ outcome[d][1] = forecast.claimId

\* An unrevealed forecast matches nothing.
Matched(forecast, d) ==
  forecast.revealed /\ ForecastMatches(forecast.committed, outcome[d][2])

SettleForecast(f, d) ==
  LET forecast == forecasts[f]
  IN /\ ForecastExists(f)
     /\ ~forecast.settled
     /\ forecast.revealed \/ WindowClosed(forecast)
     /\ Settles(d, forecast)
     /\ IF Matched(forecast, d)
        THEN /\ PayWithBonus(forecast.forecaster, forecast.stakeAmount)
             /\ EndForecast(f, d, forecast.stakeAmount + Bonus(forecast.stakeAmount))
        ELSE /\ Forfeit(forecast.stakeAmount)
             /\ EndForecast(f, d, 0)

BugForfeitUnrevealedForecast(f) ==  \* only of a resolved claim
  /\ ForecastExists(f)
  /\ ~forecasts[f].settled
  /\ ~forecasts[f].revealed
  /\ effective[forecasts[f].claimId] # 0
  /\ WindowClosed(forecasts[f])
  /\ Forfeit(forecasts[f].stakeAmount)
  /\ EndForecast(f, 0, 0)

ForfeitUnrevealedForecast(f) ==
  /\ ForecastExists(f)
  /\ ~forecasts[f].settled
  /\ ~forecasts[f].revealed
  /\ WindowClosed(forecasts[f])
  /\ Forfeit(forecasts[f].stakeAmount)
  /\ EndForecast(f, 0, 0)

BugReclaimToSender(sender, f) ==
  LET forecast == forecasts[f]
  IN /\ ForecastExists(f)
     /\ MayAct(forecast, forecast.forecaster, sender)
     /\ ~forecast.settled
     /\ forecast.revealed
     /\ timestamp > forecast.revealDeadline + FORECAST_RECLAIM_DELAY
     /\ PayBack(sender, forecast.stakeAmount)
     /\ EndForecast(f, 0, forecast.stakeAmount)

ReclaimForecast(sender, f) ==
  LET forecast == forecasts[f]
  IN /\ ForecastExists(f)
     /\ MayAct(forecast, forecast.forecaster, sender)
     /\ ~forecast.settled
     /\ forecast.revealed
     /\ timestamp > forecast.revealDeadline + FORECAST_RECLAIM_DELAY
     /\ PayBack(forecast.forecaster, forecast.stakeAmount)
     /\ EndForecast(f, 0, forecast.stakeAmount)

(***************************************************************************)
(* Challenges.                                                             *)
(***************************************************************************)
OpenChallenge(sender, k, value, agentId) ==
  /\ ~ChallengeExists(k) /\ \A j \in 1 .. k - 1 : ChallengeExists(j)
  /\ agentId # NoAgent => sender \in controllers
  /\ ReceiveValue(value)
  /\ challenges' = [challenges EXCEPT ![k] =
       [challenger |-> sender, agentId |-> agentId, bondAmount |-> value,
        status |-> "Open", createdAt |-> timestamp]]
  /\ UNCHANGED <<forecasts, forecastPaid, challengePaid, rewardPoolBalance,
                 withdrawablePayouts, totalWithdrawablePayouts, withdrawn, settingVars, viewVars>>

EndChallenge(k, status_, paid) ==
  /\ challenges' = [challenges EXCEPT ![k].status = status_]
  /\ challengePaid' = [challengePaid EXCEPT ![k] = @ + paid]
  /\ UNCHANGED <<forecasts, forecastPaid, settingVars, viewVars>>

WithdrawChallenge(sender, k) ==
  LET challenge == challenges[k]
  IN /\ ChallengeExists(k)
     /\ MayAct(challenge, challenge.challenger, sender)
     /\ challenge.status = "Open"
     /\ timestamp >= challenge.createdAt + MIN_CHALLENGE_DURATION
     /\ PayBack(challenge.challenger, challenge.bondAmount)
     /\ EndChallenge(k, "Withdrawn", challenge.bondAmount)

ResolveChallenge(k, verdict) ==
  LET challenge == challenges[k]
      bond == challenge.bondAmount
  IN /\ ChallengeExists(k)
     /\ challenge.status = "Open"
     /\ \/ /\ verdict = "Sustained"
           /\ PayWithBonus(challenge.challenger, bond)
           /\ EndChallenge(k, verdict, bond + Bonus(bond))
        \/ /\ verdict = "Dismissed"
           /\ Forfeit(bond)
           /\ EndChallenge(k, verdict, 0)
        \/ /\ verdict = "Escalated"
           /\ PayBack(challenge.challenger, bond)
           /\ EndChallenge(k, verdict, bond)

(***************************************************************************)
(* The environment: time, the agent registry, governance, the registry.    *)
(***************************************************************************)
Tick ==
  /\ timestamp < MaxTime
  /\ timestamp' = timestamp + 1
  /\ UNCHANGED <<positionVars, ledgerVars, controllers, marketDepositsPaused, viewVars>>

SetControllers(accounts) ==
  /\ controllers' = accounts
  /\ UNCHANGED <<positionVars, ledgerVars, timestamp, marketDepositsPaused, viewVars>>

SetMarketDepositsPaused(flag) ==
  /\ marketDepositsPaused' = flag
  /\ UNCHANGED <<positionVars, ledgerVars, timestamp, controllers, viewVars>>

ForecastStep ==
  \E f \in ForecastIds :
    \/ \E a \in Forecasters :
         \/ \E c \in ClaimIds, direction \in ForecastDirection, value \in Values,
               window \in 1 .. MaxWindow, agentId \in AgentIds :
              \* The model's clock outlasts every forecast.
              /\ timestamp + window + FORECAST_RECLAIM_DELAY < MaxTime
              /\ CommitForecast(a, f, c, direction, value, timestamp + window, agentId)
         \/ \E direction \in ForecastDirection : RevealForecast(a, f, direction)
         \/ ReclaimForecast(a, f)
    \/ \E d \in DecisionIds : SettleForecast(f, d)
    \/ ForfeitUnrevealedForecast(f)

ChallengeStep ==
  \E k \in ChallengeIds :
    \/ \E a \in Forecasters :
         \/ \E value \in Values, agentId \in AgentIds :
              \* The model's clock outlasts every challenge.
              /\ timestamp + MIN_CHALLENGE_DURATION <= MaxTime
              /\ OpenChallenge(a, k, value, agentId)
         \/ WithdrawChallenge(a, k)
    \/ \E verdict \in ChallengeStatus : ResolveChallenge(k, verdict)

MarketNext ==
  \/ ForecastStep
  \/ ChallengeStep
  \/ \E value \in Values : FundRewardPool(value)
  \/ \E a \in Forecasters, amount \in Values : WithdrawPayout(a, amount)
  \/ Tick
  \/ \E accounts \in SUBSET Forecasters : SetControllers(accounts)
  \/ \E flag \in BOOLEAN : SetMarketDepositsPaused(flag)
  \/ ViewNext /\ UNCHANGED marketVars

allMarketVars == <<marketVars, viewVars>>

AllMarketInit == ViewInit /\ MarketInit

MarketSpec == AllMarketInit /\ [][MarketNext]_allMarketVars

\* Time passes, anybody sweeps what was not revealed, and an owner who can take
\* a stake or a bond back does.  Nothing is assumed of the settler or resolver.
MarketFairness ==
  /\ WF_allMarketVars(Tick)
  /\ \A f \in ForecastIds :
       /\ WF_allMarketVars(ForfeitUnrevealedForecast(f))
       /\ WF_allMarketVars(\E a \in Forecasters : ReclaimForecast(a, f))
  /\ \A k \in ChallengeIds : WF_allMarketVars(\E a \in Forecasters : WithdrawChallenge(a, k))

FairMarketSpec == MarketSpec /\ MarketFairness

-----------------------------------------------------------------------------
(***************************************************************************)
(* Properties.                                                             *)
(***************************************************************************)

\* The values of the market's variables.
MarketTypeOK ==
  /\ timestamp \in 0 .. MaxTime
  /\ controllers \subseteq Forecasters
  /\ marketDepositsPaused \in BOOLEAN
  /\ forecasts \in [ForecastIds -> ForecastCommitment \cup {NoPosition}]
  /\ challenges \in [ChallengeIds -> ChallengeBond \cup {NoPosition}]
  /\ {rewardPoolBalance, totalWithdrawablePayouts, marketBalance, marketReceived}
       \subseteq 0 .. MaxMarketFunds
  /\ {withdrawablePayouts, withdrawn} \subseteq [Forecasters -> 0 .. MaxMarketFunds]
  /\ forecastPaid \in [ForecastIds -> 0 .. MaxMarketFunds]
  /\ challengePaid \in [ChallengeIds -> 0 .. MaxMarketFunds]

\* No balance is negative, and the contract holds exactly the pool, the credits
\* and the value of the live positions, in every order of settling, forfeiting,
\* reclaiming, challenging and withdrawing: the pool that doubles one position is the stake another lost.
\* And an account is credited, over all time, what its own positions paid,
\* whoever revealed, reclaimed or withdrew them for its agent.
MarketSolvent ==
  /\ MarketTypeOK
  /\ totalWithdrawablePayouts = SumFunctionOnSet(withdrawablePayouts, Forecasters)
  /\ marketBalance =
       rewardPoolBalance + totalWithdrawablePayouts
       + SumFunctionOnSet([f \in ForecastIds |->
            IF ForecastExists(f) /\ ~forecasts[f].settled
            THEN forecasts[f].stakeAmount ELSE 0], ForecastIds)
       + SumFunctionOnSet([k \in ChallengeIds |->
            IF ChallengeExists(k) /\ challenges[k].status = "Open"
            THEN challenges[k].bondAmount ELSE 0], ChallengeIds)
  /\ \A a \in Forecasters :
       withdrawn[a] + withdrawablePayouts[a] =
         SumFunctionOnSet(forecastPaid,
           {f \in ForecastIds : ForecastExists(f) /\ forecasts[f].forecaster = a})
         + SumFunctionOnSet(challengePaid,
           {k \in ChallengeIds : ChallengeExists(k) /\ challenges[k].challenger = a})

\* However decisions, reveals and settlements are ordered, a forecast is settled
\* only by a decision about its claim that nobody could have read when it was
\* committed.  "Refunding unrevealed stakes would let a forecaster commit opposite
\* forecasts and reveal only the winner for a free option": it pays nothing unless
\* it was revealed, a decision that contradicts it costs the stake, and a bonus
\* takes a decision that agrees with it.
NoFreeOption ==
  \A f \in ForecastIds : ForecastExists(f) =>
    LET forecast == forecasts[f]
        d == forecast.resolutionDecisionId
        judged == d # 0
        right == judged /\ ForecastMatches(forecast.committed, outcome[d][2])
    IN /\ judged => outcome[d][1] = forecast.claimId /\ d \notin forecast.recordedAtCommit
       /\ forecastPaid[f] > 0 => forecast.revealed /\ forecast.settled
       /\ forecastPaid[f] > forecast.stakeAmount => right
       /\ judged /\ ~right => forecastPaid[f] = 0
       /\ forecastPaid[f] <= 2 * forecast.stakeAmount

ForecastOver(f) == ForecastExists(f) /\ forecasts[f].settled
ChallengeOver(k) == ChallengeExists(k) /\ challenges[k].status # "Open"

\* A position ends once: settle, forfeit and reclaim race for a forecast, and
\* withdraw and resolve for a challenge, and the loser of the race finds it over.
EndsOnce ==
  [][/\ \A f \in ForecastIds : ForecastOver(f) =>
          forecasts'[f] = forecasts[f] /\ forecastPaid'[f] = forecastPaid[f]
     /\ \A k \in ChallengeIds : ChallengeOver(k) =>
          challenges'[k] = challenges[k] /\ challengePaid'[k] = challengePaid[k]]_allMarketVars

\* A position of an agent without a controller waits for the settler or resolver.
Locked(position) == position.agentId # NoAgent /\ controllers = {}

\* No stake and no bond stays in for good: without any help from the settler or
\* the resolver, and whether or not deposits are paused, every position ends,
\* unless its agent loses its controllers.
PositionsComeOut ==
  /\ \A f \in ForecastIds : ForecastExists(f) ~> ForecastOver(f) \/ Locked(forecasts[f])
  /\ \A k \in ChallengeIds : ChallengeExists(k) ~> ChallengeOver(k) \/ Locked(challenges[k])
=============================================================================
