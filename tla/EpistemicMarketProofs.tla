----------------------- MODULE EpistemicMarketProofs -----------------------
(***************************************************************************)
(* Proofs about module EpistemicMarket, for every set of accounts and any  *)
(* number of claims, decisions, forecasts, challenges and units of value:  *)
(* the market holds what it owes, an account is credited what its own      *)
(* positions paid, a position ends once, and a forecast is not a free      *)
(* option.  The registry is any that keeps the promise of ClaimView.       *)
(***************************************************************************)
EXTENDS EpistemicMarket, SumTheorems

-----------------------------------------------------------------------------
(***************************************************************************)
(* The inductive invariant.  MarketSolvent is not inductive alone: that    *)
(* the balances stay under the value ever received needs what was paid out *)
(* to be counted too, and that a position pays once needs an open one to   *)
(* have paid nothing.  NoFreeOption needs to know why no decision recorded *)
(* at a commitment can settle it, and EndsOnce that what was forfeited     *)
(* cannot be revealed any more.                                            *)
(***************************************************************************)

\* What a position still has in the market, and what an account got for it.
Stake(f) ==
  IF ForecastExists(f) /\ ~forecasts[f].settled THEN forecasts[f].stakeAmount ELSE 0
Bond(k) ==
  IF ChallengeExists(k) /\ challenges[k].status = "Open" THEN challenges[k].bondAmount ELSE 0
PaidForecast(a, f) ==
  IF ForecastExists(f) /\ forecasts[f].forecaster = a THEN forecastPaid[f] ELSE 0
PaidChallenge(a, k) ==
  IF ChallengeExists(k) /\ challenges[k].challenger = a THEN challengePaid[k] ELSE 0

Stakes == TotalOf([f \in ForecastIds |-> Stake(f)], ForecastIds)
BondsHeld == TotalOf([k \in ChallengeIds |-> Bond(k)], ChallengeIds)
FromForecasts(a) == TotalOf([f \in ForecastIds |-> PaidForecast(a, f)], ForecastIds)
FromChallenges(a) == TotalOf([k \in ChallengeIds |-> PaidChallenge(a, k)], ChallengeIds)

Settings ==
  /\ timestamp \in 0 .. MaxTime
  /\ controllers \subseteq Forecasters
  /\ marketDepositsPaused \in BOOLEAN

\* A position that is not over has paid nothing.
Positions ==
  /\ forecasts \in [ForecastIds -> ForecastCommitment \cup {NoPosition}]
  /\ challenges \in [ChallengeIds -> ChallengeBond \cup {NoPosition}]
  /\ forecastPaid \in [ForecastIds -> Nat]
  /\ challengePaid \in [ChallengeIds -> Nat]
  /\ \A f \in ForecastIds : ~ForecastOver(f) => forecastPaid[f] = 0
  /\ \A k \in ChallengeIds : ~ChallengeOver(k) => challengePaid[k] = 0

\* What came in is held or was paid out, what is held is the pool, the credits and
\* the live positions, and an account got what its positions paid.
Ledger ==
  /\ rewardPoolBalance \in Nat /\ totalWithdrawablePayouts \in Nat
  /\ marketBalance \in Nat /\ marketReceived \in Nat
  /\ withdrawablePayouts \in [Forecasters -> Nat]
  /\ withdrawn \in [Forecasters -> Nat]
  /\ totalWithdrawablePayouts = TotalOf(withdrawablePayouts, Forecasters)
  /\ marketBalance = rewardPoolBalance + totalWithdrawablePayouts + Stakes + BondsHeld
  /\ marketBalance + TotalOf(withdrawn, Forecasters) = marketReceived
  /\ marketReceived <= MaxMarketFunds
  /\ \A a \in Forecasters :
       withdrawn[a] + withdrawablePayouts[a] = FromForecasts(a) + FromChallenges(a)

\* The pointers of the registry, as far as the market reads them.
ViewTypes ==
  /\ outcome \in [DecisionIds -> (ClaimIds \cup {0}) \X ResolutionStatus]
  /\ effective \in [ClaimIds -> DecisionIds \cup {0}]

\* What was recorded at a commitment still is, and the effective decision of the
\* claim is the one of then or was not recorded then; an open forecast was judged
\* by none; and one that ended unrevealed ended after its window.
Commitments ==
  \A f \in ForecastIds : ForecastExists(f) =>
    LET forecast == forecasts[f]
    IN /\ \A d \in forecast.recordedAtCommit : outcome[d] # NoOutcome
       /\ effective[forecast.claimId] = forecast.effectiveDecisionIdAtCommit
            \/ effective[forecast.claimId] \notin forecast.recordedAtCommit
       /\ ~forecast.settled => forecast.resolutionDecisionId = 0
       /\ forecast.settled /\ ~forecast.revealed => WindowClosed(forecast)

MarketInv ==
  /\ Settings
  /\ Positions
  /\ Ledger
  /\ ViewTypes
  /\ Commitments
  /\ NoFreeOption

-----------------------------------------------------------------------------
(***************************************************************************)
(* Sums over the positions.                                                *)
(***************************************************************************)

\* Positions and accounts are finite in number.
LEMMA FinitePositions ==
  IsFiniteSet(ForecastIds) /\ IsFiniteSet(ChallengeIds) /\ IsFiniteSet(Forecasters)
BY MarketAssumption, FS_Interval DEF ForecastIds, ChallengeIds

\* An existing position is a record, with an owner and an amount.
LEMMA PositionFacts ==
  ASSUME Positions
  PROVE  /\ \A f \in ForecastIds : ForecastExists(f) =>
              /\ forecasts[f] \in ForecastCommitment
              /\ forecasts[f].forecaster \in Forecasters
              /\ forecasts[f].stakeAmount \in Nat
              /\ forecasts[f].stakeAmount \in Values
         /\ \A k \in ChallengeIds : ChallengeExists(k) =>
              /\ challenges[k] \in ChallengeBond
              /\ challenges[k].challenger \in Forecasters
              /\ challenges[k].bondAmount \in Nat
              /\ challenges[k].bondAmount \in Values
<1>1. Values \subseteq Nat
  BY MarketAssumption DEF Values
<1>2. \A f \in ForecastIds : ForecastExists(f) => forecasts[f] \in ForecastCommitment
  BY DEF Positions, ForecastExists
<1>3. \A k \in ChallengeIds : ChallengeExists(k) => challenges[k] \in ChallengeBond
  BY DEF Positions, ChallengeExists
<1>4. \A x \in ForecastCommitment : x.forecaster \in Forecasters /\ x.stakeAmount \in Values
  BY DEF ForecastCommitment
<1>5. \A x \in ChallengeBond : x.challenger \in Forecasters /\ x.bondAmount \in Values
  BY DEF ChallengeBond
<1> QED
  BY <1>1, <1>2, <1>3, <1>4, <1>5

\* The amounts are naturals.
Amounts ==
  /\ \A f \in ForecastIds : Stake(f) \in Nat
  /\ \A k \in ChallengeIds : Bond(k) \in Nat
  /\ \A a \in Forecasters, f \in ForecastIds : PaidForecast(a, f) \in Nat
  /\ \A a \in Forecasters, k \in ChallengeIds : PaidChallenge(a, k) \in Nat

\* They are where the positions are in order.
LEMMA AmountsAreNaturals == Positions => Amounts
BY PositionFacts DEF Amounts, Stake, Bond, PaidForecast, PaidChallenge, Positions

\* So are their totals.
Totals ==
  /\ Stakes \in Nat /\ BondsHeld \in Nat
  /\ \A a \in Forecasters : FromForecasts(a) \in Nat /\ FromChallenges(a) \in Nat

\* They too are where the positions are in order.
LEMMA TotalsAreNaturals == Positions => Totals
BY AmountsAreNaturals, FinitePositions, SumNat
DEF Amounts, Totals, TotalOf, Stakes, BondsHeld, FromForecasts, FromChallenges

\* Only forecast f moves.
OnlyForecast(f) ==
  /\ \A g \in ForecastIds \ {f} :
       forecasts'[g] = forecasts[g] /\ forecastPaid'[g] = forecastPaid[g]
  /\ UNCHANGED <<challenges, challengePaid>>

\* Only challenge k moves.
OnlyChallenge(k) ==
  /\ \A j \in ChallengeIds \ {k} :
       challenges'[j] = challenges[j] /\ challengePaid'[j] = challengePaid[j]
  /\ UNCHANGED <<forecasts, forecastPaid>>

\* The totals move by what the one forecast does.
LEMMA ForecastMovesTotals ==
  ASSUME Positions, Positions', NEW f \in ForecastIds, OnlyForecast(f)
  PROVE  /\ Stakes' = Stakes + (Stake(f)' - Stake(f))
         /\ BondsHeld' = BondsHeld
         /\ \A a \in Forecasters :
              /\ FromForecasts(a)' = FromForecasts(a) + (PaidForecast(a, f)' - PaidForecast(a, f))
              /\ FromChallenges(a)' = FromChallenges(a)
<1>1. Amounts /\ Amounts'
  BY AmountsAreNaturals, PTL
<1>2. /\ \A g \in ForecastIds \ {f} : Stake(g)' = Stake(g)
      /\ \A a \in Forecasters, g \in ForecastIds \ {f} : PaidForecast(a, g)' = PaidForecast(a, g)
  BY DEF OnlyForecast, Stake, PaidForecast, ForecastExists
<1>3. Stakes' = Stakes + (Stake(f)' - Stake(f))
  <2> DEFINE old == [g \in ForecastIds |-> Stake(g)]
             new == [g \in ForecastIds |-> Stake(g)']
  <2>1. /\ \A g \in ForecastIds : old[g] \in Int
        /\ new[f] \in Int /\ \A g \in ForecastIds \ {f} : new[g] = old[g]
        /\ new[f] = Stake(f)' /\ old[f] = Stake(f)
    BY <1>1, <1>2 DEF Amounts
  <2>2. Stakes' = TotalOf(new, ForecastIds) /\ Stakes = TotalOf(old, ForecastIds)
    BY DEF Stakes, TotalOf
  <2> HIDE DEF old, new
  <2>3. TotalOf(new, ForecastIds) = TotalOf(old, ForecastIds) + (new[f] - old[f])
    BY <2>1, FinitePositions, SumChange DEF TotalOf
  <2> QED
    BY <2>1, <2>2, <2>3
<1>4. ASSUME NEW a \in Forecasters
      PROVE  FromForecasts(a)' = FromForecasts(a) + (PaidForecast(a, f)' - PaidForecast(a, f))
  <2> DEFINE old == [g \in ForecastIds |-> PaidForecast(a, g)]
             new == [g \in ForecastIds |-> PaidForecast(a, g)']
  <2>1. /\ \A g \in ForecastIds : old[g] \in Int
        /\ new[f] \in Int /\ \A g \in ForecastIds \ {f} : new[g] = old[g]
        /\ new[f] = PaidForecast(a, f)' /\ old[f] = PaidForecast(a, f)
    BY <1>1, <1>2 DEF Amounts
  <2>2. /\ FromForecasts(a)' = TotalOf(new, ForecastIds)
        /\ FromForecasts(a) = TotalOf(old, ForecastIds)
    BY DEF FromForecasts, TotalOf
  <2> HIDE DEF old, new
  <2> QED
    BY <2>1, <2>2, FinitePositions, SumChange DEF TotalOf
<1>5. /\ BondsHeld' = BondsHeld
      /\ \A a \in Forecasters : FromChallenges(a)' = FromChallenges(a)
  BY DEF OnlyForecast, BondsHeld, FromChallenges, Bond, PaidChallenge, ChallengeExists, TotalOf
<1> QED
  BY <1>3, <1>4, <1>5

\* The totals move by what the one challenge does.
LEMMA ChallengeMovesTotals ==
  ASSUME Positions, Positions', NEW k \in ChallengeIds, OnlyChallenge(k)
  PROVE  /\ BondsHeld' = BondsHeld + (Bond(k)' - Bond(k))
         /\ Stakes' = Stakes
         /\ \A a \in Forecasters :
              /\ FromChallenges(a)' = FromChallenges(a) + (PaidChallenge(a, k)' - PaidChallenge(a, k))
              /\ FromForecasts(a)' = FromForecasts(a)
<1>1. Amounts /\ Amounts'
  BY AmountsAreNaturals, PTL
<1>2. /\ \A j \in ChallengeIds \ {k} : Bond(j)' = Bond(j)
      /\ \A a \in Forecasters, j \in ChallengeIds \ {k} : PaidChallenge(a, j)' = PaidChallenge(a, j)
  BY DEF OnlyChallenge, Bond, PaidChallenge, ChallengeExists
<1>3. BondsHeld' = BondsHeld + (Bond(k)' - Bond(k))
  <2> DEFINE old == [j \in ChallengeIds |-> Bond(j)]
             new == [j \in ChallengeIds |-> Bond(j)']
  <2>1. /\ \A j \in ChallengeIds : old[j] \in Int
        /\ new[k] \in Int /\ \A j \in ChallengeIds \ {k} : new[j] = old[j]
        /\ new[k] = Bond(k)' /\ old[k] = Bond(k)
    BY <1>1, <1>2 DEF Amounts
  <2>2. BondsHeld' = TotalOf(new, ChallengeIds) /\ BondsHeld = TotalOf(old, ChallengeIds)
    BY DEF BondsHeld, TotalOf
  <2> HIDE DEF old, new
  <2>3. TotalOf(new, ChallengeIds) = TotalOf(old, ChallengeIds) + (new[k] - old[k])
    BY <2>1, FinitePositions, SumChange, SMTT(60) DEF TotalOf
  <2> QED
    BY <2>1, <2>2, <2>3
<1>4. ASSUME NEW a \in Forecasters
      PROVE  FromChallenges(a)' = FromChallenges(a) + (PaidChallenge(a, k)' - PaidChallenge(a, k))
  <2> DEFINE old == [j \in ChallengeIds |-> PaidChallenge(a, j)]
             new == [j \in ChallengeIds |-> PaidChallenge(a, j)']
  <2>1. /\ \A j \in ChallengeIds : old[j] \in Int
        /\ new[k] \in Int /\ \A j \in ChallengeIds \ {k} : new[j] = old[j]
        /\ new[k] = PaidChallenge(a, k)' /\ old[k] = PaidChallenge(a, k)
    BY <1>1, <1>2 DEF Amounts
  <2>2. /\ FromChallenges(a)' = TotalOf(new, ChallengeIds)
        /\ FromChallenges(a) = TotalOf(old, ChallengeIds)
    BY DEF FromChallenges, TotalOf
  <2> HIDE DEF old, new
  <2>3. TotalOf(new, ChallengeIds) = TotalOf(old, ChallengeIds) + (new[k] - old[k])
    BY <2>1, FinitePositions, SumChange, SMTT(60) DEF TotalOf
  <2> QED
    BY <2>1, <2>2, <2>3
<1>5. /\ Stakes' = Stakes
      /\ \A a \in Forecasters : FromForecasts(a)' = FromForecasts(a)
  BY DEF OnlyChallenge, Stakes, FromForecasts, Stake, PaidForecast, ForecastExists, TotalOf
<1> QED
  BY <1>3, <1>4, <1>5

\* No position moves, no total does.
LEMMA SamePositionsSameTotals ==
  ASSUME UNCHANGED positionVars
  PROVE  /\ Stakes' = Stakes /\ BondsHeld' = BondsHeld
         /\ \A a : FromForecasts(a)' = FromForecasts(a) /\ FromChallenges(a)' = FromChallenges(a)
BY DEF positionVars, Stakes, BondsHeld, FromForecasts, FromChallenges, Stake, Bond, PaidForecast,
       PaidChallenge, ForecastExists, ChallengeExists, TotalOf

-----------------------------------------------------------------------------
(***************************************************************************)
(* What the steps do to the ledger.                                        *)
(***************************************************************************)

\* A position of an amount ends and pays its owner: from the pool if it is more,
\* into it if it is less.
Settlement(owner, amount, paid) ==
  /\ owner \in Forecasters /\ amount \in Nat /\ paid \in Nat
  /\ rewardPoolBalance' = rewardPoolBalance + amount - paid
  /\ rewardPoolBalance' \in Nat
  /\ Entry(withdrawablePayouts, withdrawablePayouts', Forecasters, owner, paid)
  /\ totalWithdrawablePayouts' = totalWithdrawablePayouts + paid
  /\ UNCHANGED <<marketBalance, marketReceived, withdrawn>>

\* The bonus is what the pool has of the amount.
LEMMA BonusFacts ==
  ASSUME Ledger, NEW amount \in Nat
  PROVE  Bonus(amount) \in Nat /\ Bonus(amount) <= amount /\ Bonus(amount) <= rewardPoolBalance
BY DEF Bonus, Ledger

\* The three ways to end a position are settlements.
LEMMA Settlements ==
  ASSUME Ledger, NEW owner \in Forecasters, NEW amount \in Nat
  PROVE  /\ PayWithBonus(owner, amount) => Settlement(owner, amount, amount + Bonus(amount))
         /\ PayBack(owner, amount) => Settlement(owner, amount, amount)
         /\ Forfeit(amount) => Settlement(owner, amount, 0)
<1>1. ASSUME NEW paid \in Nat, CreditPayout(owner, paid)
      PROVE  /\ Entry(withdrawablePayouts, withdrawablePayouts', Forecasters, owner, paid)
             /\ totalWithdrawablePayouts' = totalWithdrawablePayouts + paid
             /\ UNCHANGED <<marketBalance, marketReceived, withdrawn>>
  BY <1>1, FinitePositions DEF CreditPayout, Entry, Ledger
<1>2. PayWithBonus(owner, amount) => Settlement(owner, amount, amount + Bonus(amount))
  <2> DEFINE b == Bonus(amount)
  <2>1. b \in Nat /\ b <= rewardPoolBalance /\ rewardPoolBalance \in Nat
    BY BonusFacts DEF Ledger
  <2>2. PayWithBonus(owner, amount) => /\ rewardPoolBalance' = rewardPoolBalance - b
                                       /\ CreditPayout(owner, amount + b)
    BY DEF PayWithBonus
  <2> HIDE DEF b
  <2>3. amount + b \in Nat /\ rewardPoolBalance - b = rewardPoolBalance + amount - (amount + b)
        /\ rewardPoolBalance - b \in Nat
    BY <2>1
  <2>4. PayWithBonus(owner, amount) => Settlement(owner, amount, amount + b)
    BY <1>1, <2>2, <2>3 DEF Settlement
  <2> QED
    BY <2>4 DEF b
<1>3. PayBack(owner, amount) => Settlement(owner, amount, amount)
  BY <1>1 DEF PayBack, Settlement, Ledger
<1>4. Forfeit(amount) => Settlement(owner, amount, 0)
  <2>1. withdrawablePayouts = [withdrawablePayouts EXCEPT ![owner] = @ + 0]
    BY DEF Ledger
  <2>2. Entry(withdrawablePayouts, withdrawablePayouts, Forecasters, owner, 0)
    BY <2>1, FinitePositions DEF Entry, Ledger
  <2> QED
    BY <2>2 DEF Forfeit, Settlement, Ledger
<1> QED
  BY <1>2, <1>3, <1>4

\* A settlement keeps the ledger, if the positions lose the amount and the owner
\* is counted what was paid.
LEMMA SettlementKeepsLedger ==
  ASSUME Ledger, Positions, Positions', NEW owner, NEW amount, NEW paid,
         Settlement(owner, amount, paid),
         Stakes' + BondsHeld' = Stakes + BondsHeld - amount,
         \A a \in Forecasters : FromForecasts(a)' + FromChallenges(a)'
           = FromForecasts(a) + FromChallenges(a) + (IF a = owner THEN paid ELSE 0)
  PROVE  Ledger'
<1>1. Totals /\ Totals'
  BY TotalsAreNaturals, PTL
<1>2. /\ Stakes \in Nat /\ BondsHeld \in Nat /\ Stakes' \in Nat /\ BondsHeld' \in Nat
      /\ \A a \in Forecasters : FromForecasts(a) \in Nat /\ FromChallenges(a) \in Nat
  BY <1>1 DEF Totals
<1>3. /\ withdrawablePayouts' \in [Forecasters -> Nat]
      /\ \A a \in Forecasters :
           withdrawablePayouts'[a] = withdrawablePayouts[a] + (IF a = owner THEN paid ELSE 0)
  BY DEF Settlement, Entry
<1>4. TotalOf(withdrawablePayouts', Forecasters) = TotalOf(withdrawablePayouts, Forecasters) + paid
  BY BookEntry DEF Settlement
<1>5. /\ amount \in Nat /\ paid \in Nat /\ rewardPoolBalance' \in Nat
      /\ rewardPoolBalance' = rewardPoolBalance + amount - paid
      /\ totalWithdrawablePayouts' = totalWithdrawablePayouts + paid
      /\ marketBalance' = marketBalance /\ marketReceived' = marketReceived
      /\ withdrawn' = withdrawn
  BY DEF Settlement
<1>6. marketBalance' = rewardPoolBalance' + totalWithdrawablePayouts' + Stakes' + BondsHeld'
  <2>1. /\ marketBalance = rewardPoolBalance + totalWithdrawablePayouts + Stakes + BondsHeld
        /\ rewardPoolBalance \in Nat /\ totalWithdrawablePayouts \in Nat
    BY DEF Ledger
  <2>2. PICK s \in Nat, b \in Nat : s = Stakes' /\ b = BondsHeld'
    BY <1>2
  <2>3. s + b = Stakes + BondsHeld - amount
    BY <2>2
  <2>4. marketBalance' = rewardPoolBalance' + totalWithdrawablePayouts' + s + b
    BY <1>2, <1>5, <2>1, <2>3
  <2> QED
    BY <2>2, <2>4
<1>7. ASSUME NEW a \in Forecasters
      PROVE  withdrawn'[a] + withdrawablePayouts'[a] = FromForecasts(a)' + FromChallenges(a)'
  <2> DEFINE gain == IF a = owner THEN paid ELSE 0
  <2>1. gain \in Nat /\ withdrawablePayouts'[a] = withdrawablePayouts[a] + gain
    BY <1>3, <1>5
  <2>2. FromForecasts(a)' + FromChallenges(a)' = FromForecasts(a) + FromChallenges(a) + gain
    OBVIOUS
  <2>3. /\ withdrawn[a] \in Nat /\ withdrawablePayouts[a] \in Nat
        /\ withdrawn[a] + withdrawablePayouts[a] = FromForecasts(a) + FromChallenges(a)
    BY DEF Ledger
  <2> HIDE DEF gain
  <2> QED
    BY <1>2, <1>5, <2>1, <2>2, <2>3
<1> QED
  BY <1>3, <1>4, <1>5, <1>6, <1>7 DEF Ledger, TotalOf

\* A deposit keeps the ledger, if it goes to the pool or into a position.
LEMMA DepositKeepsLedger ==
  ASSUME Ledger, Positions, Positions', NEW v \in Nat, ReceiveValue(v),
         UNCHANGED <<withdrawablePayouts, totalWithdrawablePayouts, withdrawn>>,
         rewardPoolBalance' \in Nat,
         rewardPoolBalance' + Stakes' + BondsHeld' = rewardPoolBalance + Stakes + BondsHeld + v,
         \A a \in Forecasters : FromForecasts(a)' + FromChallenges(a)'
           = FromForecasts(a) + FromChallenges(a)
  PROVE  Ledger'
<1>1. Totals /\ Totals'
  BY TotalsAreNaturals, PTL
<1>2. Stakes \in Nat /\ BondsHeld \in Nat /\ Stakes' \in Nat /\ BondsHeld' \in Nat
  BY <1>1 DEF Totals
<1>3. /\ marketReceived' = marketReceived + v /\ marketBalance' = marketBalance + v
      /\ marketReceived' <= MaxMarketFunds
  BY DEF ReceiveValue
<1>4. marketBalance' = rewardPoolBalance' + totalWithdrawablePayouts' + Stakes' + BondsHeld'
  <2>1. /\ marketBalance = rewardPoolBalance + totalWithdrawablePayouts + Stakes + BondsHeld
        /\ rewardPoolBalance \in Nat /\ totalWithdrawablePayouts \in Nat
        /\ totalWithdrawablePayouts' = totalWithdrawablePayouts
    BY DEF Ledger
  <2>2. PICK s \in Nat, b \in Nat : s = Stakes' /\ b = BondsHeld'
    BY <1>2
  <2>3. rewardPoolBalance' + s + b = rewardPoolBalance + Stakes + BondsHeld + v
    BY <2>2
  <2>4. marketBalance' = rewardPoolBalance' + totalWithdrawablePayouts' + s + b
    <3>1. PICK pool \in Nat : pool = rewardPoolBalance'
      OBVIOUS
    <3>2. pool + s + b = rewardPoolBalance + Stakes + BondsHeld + v
      BY <2>3, <3>1
    <3>3. marketBalance' = pool + totalWithdrawablePayouts + s + b
      BY <1>2, <1>3, <2>1, <3>2
    <3> QED
      BY <2>1, <3>1, <3>3
  <2> QED
    BY <2>2, <2>4
<1>5. TotalOf(withdrawn, Forecasters) \in Nat
  BY FinitePositions, BookTotals DEF Ledger
<1>6. marketBalance' + TotalOf(withdrawn, Forecasters) = marketReceived'
  BY <1>3, <1>5 DEF Ledger
<1> QED
  BY <1>3, <1>4, <1>6 DEF Ledger, TotalOf

\* A call that moves no money and no position keeps the ledger.
LEMMA NothingKeepsLedger ==
  ASSUME Ledger, UNCHANGED positionVars, UNCHANGED ledgerVars
  PROVE  Ledger'
<1>1. /\ UNCHANGED <<rewardPoolBalance, withdrawablePayouts, totalWithdrawablePayouts>>
      /\ UNCHANGED <<marketBalance, marketReceived, withdrawn>>
  BY DEF ledgerVars
<1>2. /\ Stakes' = Stakes /\ BondsHeld' = BondsHeld
      /\ \A a : FromForecasts(a)' = FromForecasts(a) /\ FromChallenges(a)' = FromChallenges(a)
  BY SamePositionsSameTotals
<1> QED
  BY <1>1, <1>2 DEF Ledger, TotalOf

\* A withdrawal pays a credit out.
LEMMA WithdrawKeepsLedger ==
  ASSUME Ledger, Positions,
         NEW a \in Forecasters, NEW amount \in Values, WithdrawPayout(a, amount)
  PROVE  Ledger'
<1>1. amount \in Nat /\ -amount \in Int
  BY MarketAssumption DEF Values
<1>2. /\ withdrawablePayouts \in [Forecasters -> Nat] /\ withdrawn \in [Forecasters -> Nat]
      /\ withdrawablePayouts[a] >= amount /\ marketBalance >= amount
      /\ withdrawablePayouts' = [withdrawablePayouts EXCEPT ![a] = @ - amount]
      /\ withdrawn' = [withdrawn EXCEPT ![a] = @ + amount]
      /\ totalWithdrawablePayouts' = totalWithdrawablePayouts - amount
      /\ marketBalance' = marketBalance - amount
      /\ UNCHANGED <<rewardPoolBalance, marketReceived>>
  BY DEF WithdrawPayout, Ledger
<1>3. Entry(withdrawablePayouts, withdrawablePayouts', Forecasters, a, -amount)
  <2>1. withdrawablePayouts[a] - amount = withdrawablePayouts[a] + (-amount)
    BY <1>1, <1>2
  <2> QED
    BY <1>1, <1>2, <2>1, FinitePositions DEF Entry
<1>4. Entry(withdrawn, withdrawn', Forecasters, a, amount)
  BY <1>1, <1>2, FinitePositions DEF Entry
<1>5. /\ TotalOf(withdrawablePayouts', Forecasters) = TotalOf(withdrawablePayouts, Forecasters) + (-amount)
      /\ TotalOf(withdrawn', Forecasters) = TotalOf(withdrawn, Forecasters) + amount
  BY <1>3, <1>4, BookEntry
<1>6. /\ TotalOf(withdrawablePayouts, Forecasters) \in Nat /\ TotalOf(withdrawn, Forecasters) \in Nat
      /\ withdrawablePayouts[a] <= TotalOf(withdrawablePayouts, Forecasters)
  BY <1>2, FinitePositions, BookTotals
<1>7. /\ Stakes' = Stakes /\ BondsHeld' = BondsHeld
      /\ \A b : FromForecasts(b)' = FromForecasts(b) /\ FromChallenges(b)' = FromChallenges(b)
  BY SamePositionsSameTotals DEF WithdrawPayout
<1>8. /\ withdrawablePayouts' \in [Forecasters -> Nat] /\ withdrawn' \in [Forecasters -> Nat]
      /\ \A b \in Forecasters :
           withdrawn'[b] + withdrawablePayouts'[b] = withdrawn[b] + withdrawablePayouts[b]
  BY <1>1, <1>2
<1>9. /\ totalWithdrawablePayouts = TotalOf(withdrawablePayouts, Forecasters)
      /\ marketBalance = rewardPoolBalance + totalWithdrawablePayouts + Stakes + BondsHeld
      /\ marketBalance + TotalOf(withdrawn, Forecasters) = marketReceived
      /\ rewardPoolBalance \in Nat /\ marketBalance \in Nat /\ marketReceived \in Nat
      /\ marketReceived <= MaxMarketFunds
  BY DEF Ledger
<1>10. /\ totalWithdrawablePayouts' \in Nat /\ marketBalance' \in Nat
       /\ totalWithdrawablePayouts' = TotalOf(withdrawablePayouts', Forecasters)
       /\ marketBalance' + TotalOf(withdrawn', Forecasters) = marketReceived
  BY <1>1, <1>2, <1>5, <1>6, <1>9
<1>11. marketBalance' = rewardPoolBalance' + totalWithdrawablePayouts' + Stakes' + BondsHeld'
  <2>1. PICK s \in Nat, b \in Nat : s = Stakes /\ b = BondsHeld
    BY TotalsAreNaturals DEF Totals
  <2>2. marketBalance - amount = rewardPoolBalance + (totalWithdrawablePayouts - amount) + s + b
    BY <1>1, <1>6, <1>9, <2>1
  <2> QED
    BY <1>2, <1>7, <2>1, <2>2
<1> QED
  BY <1>2, <1>7, <1>8, <1>9, <1>10, <1>11 DEF Ledger, TotalOf

-----------------------------------------------------------------------------
(***************************************************************************)
(* What the steps do to the positions.                                     *)
(***************************************************************************)

\* A forecast that is over is not open any more.
ForecastOpen(f) == ForecastExists(f) /\ ~forecasts[f].settled
ChallengeOpen(k) == ChallengeExists(k) /\ challenges[k].status = "Open"

\* A forecast that ends keeps what was committed.
LEMMA EndedForecast ==
  ASSUME Positions, NEW f \in ForecastIds, ForecastOpen(f),
         NEW d \in DecisionIds \cup {0}, NEW paid \in Nat, EndForecast(f, d, paid)
  PROVE  /\ Positions' /\ OnlyForecast(f)
         /\ ForecastExists(f)'
         /\ forecasts'[f] = [forecasts[f] EXCEPT !.settled = TRUE, !.resolutionDecisionId = d]
         /\ forecastPaid'[f] = paid
<1>1. forecasts[f] \in ForecastCommitment /\ forecastPaid[f] = 0
  BY PositionFacts DEF ForecastOpen, Positions, ForecastOver
<1>2. /\ forecasts' = [forecasts EXCEPT ![f] =
           [forecasts[f] EXCEPT !.settled = TRUE, !.resolutionDecisionId = d]]
      /\ forecastPaid' = [forecastPaid EXCEPT ![f] = paid]
      /\ UNCHANGED <<challenges, challengePaid>>
  <2>1. forecastPaid[f] + paid = paid
    BY <1>1
  <2> QED
    BY <2>1 DEF EndForecast, Positions
<1> DEFINE new == [forecasts[f] EXCEPT !.settled = TRUE, !.resolutionDecisionId = d]
<1>3. new \in ForecastCommitment /\ new.settled /\ new # NoPosition
  <2>1. new \in ForecastCommitment /\ new.settled
    BY <1>1 DEF ForecastCommitment
  <2>2. new # NoPosition
    BY <1>1 DEF ForecastCommitment, NoPosition
  <2> QED
    BY <2>1, <2>2
<1> HIDE DEF new
<1>4. /\ forecasts'[f] = new /\ forecastPaid'[f] = paid
      /\ \A g \in ForecastIds \ {f} :
           forecasts'[g] = forecasts[g] /\ forecastPaid'[g] = forecastPaid[g]
  BY <1>2 DEF Positions, new
<1>5. OnlyForecast(f) /\ ForecastExists(f)'
  BY <1>2, <1>3, <1>4 DEF OnlyForecast, ForecastExists
<1>6. Positions'
  <2>1. /\ forecasts' \in [ForecastIds -> ForecastCommitment \cup {NoPosition}]
        /\ forecastPaid' \in [ForecastIds -> Nat]
    BY <1>2, <1>3 DEF Positions, new
  <2>2. ASSUME NEW g \in ForecastIds, ~ForecastOver(g)'
        PROVE  forecastPaid'[g] = 0
    BY <1>3, <1>4, <2>2 DEF Positions, ForecastOver, ForecastExists
  <2>3. \A k \in ChallengeIds : ~ChallengeOver(k)' => challengePaid'[k] = 0
    BY <1>2 DEF Positions, ChallengeOver, ChallengeExists
  <2> QED
    BY <1>2, <2>1, <2>2, <2>3 DEF Positions
<1> QED
  BY <1>4, <1>5, <1>6 DEF new

\* A forecast that ends as a settlement of its stake keeps the ledger.
LEMMA EndedForecastKeepsLedger ==
  ASSUME Positions, Ledger, NEW f \in ForecastIds, ForecastOpen(f),
         NEW d \in DecisionIds \cup {0}, NEW paid \in Nat, EndForecast(f, d, paid),
         Settlement(forecasts[f].forecaster, forecasts[f].stakeAmount, paid)
  PROVE  Positions' /\ Ledger'
<1> DEFINE owner == forecasts[f].forecaster
           stake == forecasts[f].stakeAmount
<1>1. /\ Positions' /\ OnlyForecast(f)
      /\ ForecastExists(f)'
      /\ forecasts'[f] = [forecasts[f] EXCEPT !.settled = TRUE, !.resolutionDecisionId = d]
      /\ forecastPaid'[f] = paid
  BY EndedForecast
<1>2. /\ forecasts[f] \in ForecastCommitment /\ stake \in Nat /\ owner \in Forecasters
      /\ forecastPaid[f] = 0
  BY PositionFacts DEF ForecastOpen, Positions, ForecastOver
<1>3. Stake(f) = stake /\ Stake(f)' = 0
  BY <1>1, <1>2 DEF Stake, ForecastOpen, ForecastCommitment
<1>4. ASSUME NEW a \in Forecasters
      PROVE  PaidForecast(a, f) = 0 /\ PaidForecast(a, f)' = IF a = owner THEN paid ELSE 0
  BY <1>1, <1>2 DEF PaidForecast, ForecastCommitment
<1> HIDE DEF owner, stake
<1>5. Totals
  BY TotalsAreNaturals
<1>6. Stakes' + BondsHeld' = Stakes + BondsHeld - stake
  <2>1. /\ Stakes' = Stakes + (Stake(f)' - Stake(f))
        /\ BondsHeld' = BondsHeld
    BY <1>1, ForecastMovesTotals
  <2> QED
    BY <1>2, <1>3, <1>5, <2>1 DEF Totals
<1>7. ASSUME NEW a \in Forecasters
      PROVE  FromForecasts(a)' + FromChallenges(a)'
               = FromForecasts(a) + FromChallenges(a) + (IF a = owner THEN paid ELSE 0)
  <2>1. /\ FromForecasts(a)' = FromForecasts(a) + (PaidForecast(a, f)' - PaidForecast(a, f))
        /\ FromChallenges(a)' = FromChallenges(a)
    BY <1>1, ForecastMovesTotals
  <2> QED
    BY <1>4, <1>5, <2>1 DEF Totals
<1>8. Ledger'
  BY <1>1, <1>6, <1>7, SettlementKeepsLedger DEF owner, stake
<1> QED
  BY <1>1, <1>8

\* Forecast f ends, judged by decision d or by none, and pays.
Ends(f, d, paid) ==
  /\ ForecastOpen(f)
  /\ EndForecast(f, d, paid)
  /\ Settlement(forecasts[f].forecaster, forecasts[f].stakeAmount, paid)
  /\ forecasts[f].revealed \/ WindowClosed(forecasts[f])
  /\ d # 0 => Settles(d, forecasts[f])
  /\ paid > 0 => forecasts[f].revealed
  /\ paid <= 2 * forecasts[f].stakeAmount
  /\ d # 0 /\ paid # 0 => Matched(forecasts[f], d)
  /\ d = 0 => paid <= forecasts[f].stakeAmount

\* The three ways a forecast ends, and what they pay.
LEMMA ForecastEndings ==
  ASSUME Positions, Ledger, NEW f \in ForecastIds, NEW d \in DecisionIds \cup {0},
         \/ SettleForecast(f, d)
         \/ ForfeitUnrevealedForecast(f) /\ d = 0
         \/ d = 0 /\ \E a \in Forecasters : ReclaimForecast(a, f)
  PROVE  \E paid \in Nat : Ends(f, d, paid)
<1> DEFINE stake == forecasts[f].stakeAmount
           owner == forecasts[f].forecaster
<1>1. ForecastOpen(f)
  BY DEF SettleForecast, ForfeitUnrevealedForecast, ReclaimForecast, ForecastOpen
<1>2. stake \in Nat /\ owner \in Forecasters
  BY <1>1, PositionFacts DEF ForecastOpen
<1>3. Bonus(stake) \in Nat /\ Bonus(stake) <= stake
  BY <1>2, BonusFacts
<1>4. /\ PayWithBonus(owner, stake) => Settlement(owner, stake, stake + Bonus(stake))
      /\ PayBack(owner, stake) => Settlement(owner, stake, stake)
      /\ Forfeit(stake) => Settlement(owner, stake, 0)
  BY <1>2, Settlements
<1>5. CASE SettleForecast(f, d)
  <2>1. /\ forecasts[f].revealed \/ WindowClosed(forecasts[f])
        /\ Settles(d, forecasts[f]) /\ d # 0
    BY <1>5 DEF SettleForecast, Settles
  <2>2. CASE Matched(forecasts[f], d)
    <3>1. PayWithBonus(owner, stake) /\ EndForecast(f, d, stake + Bonus(stake))
      BY <1>5, <2>2 DEF SettleForecast
    <3>2. stake + Bonus(stake) \in Nat /\ stake + Bonus(stake) <= 2 * stake
      BY <1>2, <1>3
    <3>3. Settlement(owner, stake, stake + Bonus(stake))
      BY <1>4, <3>1
    <3>4. forecasts[f].revealed
      BY <2>2 DEF Matched
    <3>5. Ends(f, d, stake + Bonus(stake))
      BY <1>1, <2>1, <2>2, <3>1, <3>2, <3>3, <3>4 DEF Ends
    <3> QED
      BY <3>2, <3>5
  <2>3. CASE ~Matched(forecasts[f], d)
    <3>1. Forfeit(stake) /\ EndForecast(f, d, 0)
      BY <1>5, <2>3 DEF SettleForecast
    <3>2. Settlement(owner, stake, 0)
      BY <1>4, <3>1
    <3>3. Ends(f, d, 0)
      BY <1>1, <1>2, <2>1, <3>1, <3>2 DEF Ends
    <3> QED
      BY <3>3
  <2> QED
    BY <2>2, <2>3
<1>6. CASE ForfeitUnrevealedForecast(f) /\ d = 0
  <2>1. Forfeit(stake) /\ EndForecast(f, d, 0) /\ WindowClosed(forecasts[f])
    BY <1>6 DEF ForfeitUnrevealedForecast
  <2>2. Settlement(owner, stake, 0)
    BY <1>4, <2>1
  <2>3. Ends(f, d, 0)
    BY <1>1, <1>2, <1>6, <2>1, <2>2 DEF Ends
  <2> QED
    BY <2>3
<1>7. CASE d = 0 /\ \E a \in Forecasters : ReclaimForecast(a, f)
  <2>1. PayBack(owner, stake) /\ EndForecast(f, d, stake) /\ forecasts[f].revealed
    BY <1>7 DEF ReclaimForecast
  <2>2. Settlement(owner, stake, stake)
    BY <1>4, <2>1
  <2>3. stake <= 2 * stake
    BY <1>2
  <2>4. Ends(f, d, stake)
    BY <1>1, <1>2, <1>7, <2>1, <2>2, <2>3 DEF Ends
  <2> QED
    BY <1>2, <2>4
<1> QED
  BY <1>5, <1>6, <1>7

\* A challenge ends as a settlement of its bond.
LEMMA EndedChallengeKeepsLedger ==
  ASSUME Positions, Ledger, NEW k \in ChallengeIds, ChallengeOpen(k),
         NEW s \in ChallengeStatus \ {"Open"}, NEW paid \in Nat, EndChallenge(k, s, paid),
         Settlement(challenges[k].challenger, challenges[k].bondAmount, paid)
  PROVE  Positions' /\ Ledger' /\ OnlyChallenge(k)
<1> DEFINE owner == challenges[k].challenger
           bond == challenges[k].bondAmount
           new == [challenges[k] EXCEPT !.status = s]
<1>1. /\ challenges[k] \in ChallengeBond /\ bond \in Nat /\ owner \in Forecasters
      /\ challengePaid[k] = 0
  BY PositionFacts DEF ChallengeOpen, Positions, ChallengeOver
<1>2. /\ challenges' = [challenges EXCEPT ![k] = new]
      /\ challengePaid' = [challengePaid EXCEPT ![k] = paid]
      /\ UNCHANGED <<forecasts, forecastPaid>>
  <2>1. challengePaid[k] + paid = paid
    BY <1>1
  <2> QED
    BY <2>1 DEF EndChallenge, Positions
<1>3. /\ new \in ChallengeBond /\ new.status # "Open"
      /\ new.challenger = owner /\ new # NoPosition
  <2>1. new \in ChallengeBond /\ new.status = s /\ new.challenger = owner
    BY <1>1 DEF ChallengeBond
  <2>2. new # NoPosition
    BY <1>1 DEF ChallengeBond, NoPosition
  <2> QED
    BY <2>1, <2>2
<1> HIDE DEF new
<1>4. /\ challenges'[k] = new /\ challengePaid'[k] = paid
      /\ \A j \in ChallengeIds \ {k} :
           challenges'[j] = challenges[j] /\ challengePaid'[j] = challengePaid[j]
  BY <1>2 DEF Positions
<1>5. OnlyChallenge(k) /\ ChallengeExists(k)'
  BY <1>2, <1>3, <1>4 DEF OnlyChallenge, ChallengeExists
<1>6. Positions'
  <2>1. /\ challenges' \in [ChallengeIds -> ChallengeBond \cup {NoPosition}]
        /\ challengePaid' \in [ChallengeIds -> Nat]
    BY <1>2, <1>3 DEF Positions
  <2>2. ASSUME NEW j \in ChallengeIds, ~ChallengeOver(j)'
        PROVE  challengePaid'[j] = 0
    BY <1>3, <1>4, <2>2 DEF Positions, ChallengeOver, ChallengeExists
  <2>3. \A f \in ForecastIds : ~ForecastOver(f)' => forecastPaid'[f] = 0
    BY <1>2 DEF Positions, ForecastOver, ForecastExists
  <2> QED
    BY <1>2, <2>1, <2>2, <2>3 DEF Positions
<1>7. Bond(k) = bond /\ Bond(k)' = 0
  BY <1>3, <1>4 DEF Bond, ChallengeOpen
<1>8. ASSUME NEW a \in Forecasters
      PROVE  PaidChallenge(a, k) = 0 /\ PaidChallenge(a, k)' = IF a = owner THEN paid ELSE 0
  BY <1>1, <1>3, <1>4, <1>5 DEF PaidChallenge
<1> HIDE DEF owner, bond
<1>9. Totals
  BY TotalsAreNaturals
<1>10. Stakes' + BondsHeld' = Stakes + BondsHeld - bond
  <2>1. BondsHeld' = BondsHeld + (Bond(k)' - Bond(k)) /\ Stakes' = Stakes
    BY <1>5, <1>6, ChallengeMovesTotals
  <2> QED
    BY <1>1, <1>7, <1>9, <2>1 DEF Totals
<1>11. ASSUME NEW a \in Forecasters
       PROVE  FromForecasts(a)' + FromChallenges(a)'
                = FromForecasts(a) + FromChallenges(a) + (IF a = owner THEN paid ELSE 0)
  <2>1. /\ FromChallenges(a)' = FromChallenges(a) + (PaidChallenge(a, k)' - PaidChallenge(a, k))
        /\ FromForecasts(a)' = FromForecasts(a)
    BY <1>5, <1>6, ChallengeMovesTotals
  <2> QED
    BY <1>8, <1>9, <2>1 DEF Totals
<1>12. Ledger'
  BY <1>6, <1>10, <1>11, SettlementKeepsLedger DEF owner, bond
<1> QED
  BY <1>5, <1>6, <1>12

\* The ways a challenge ends.
LEMMA ChallengeEndings ==
  ASSUME Positions, Ledger, NEW k \in ChallengeIds,
         \/ \E a \in Forecasters : WithdrawChallenge(a, k)
         \/ \E verdict \in ChallengeStatus : ResolveChallenge(k, verdict)
  PROVE  /\ ChallengeOpen(k)
         /\ Positions' /\ Ledger' /\ OnlyChallenge(k)
<1> DEFINE bond == challenges[k].bondAmount
           owner == challenges[k].challenger
<1>1. ChallengeOpen(k)
  BY DEF WithdrawChallenge, ResolveChallenge, ChallengeOpen
<1>2. bond \in Nat /\ owner \in Forecasters
  BY <1>1, PositionFacts DEF ChallengeOpen
<1>3. Bonus(bond) \in Nat /\ bond + Bonus(bond) \in Nat
  BY <1>2, BonusFacts
<1>4. /\ PayWithBonus(owner, bond) => Settlement(owner, bond, bond + Bonus(bond))
      /\ PayBack(owner, bond) => Settlement(owner, bond, bond)
      /\ Forfeit(bond) => Settlement(owner, bond, 0)
  BY <1>2, Settlements
<1>5. \E s \in ChallengeStatus \ {"Open"}, paid \in Nat :
        EndChallenge(k, s, paid) /\ Settlement(owner, bond, paid)
  <2>1. CASE \E a \in Forecasters : WithdrawChallenge(a, k)
    <3>1. EndChallenge(k, "Withdrawn", bond) /\ PayBack(owner, bond)
      BY <2>1 DEF WithdrawChallenge
    <3> QED
      BY <1>2, <1>4, <3>1 DEF ChallengeStatus
  <2>2. CASE \E verdict \in ChallengeStatus : ResolveChallenge(k, verdict)
    <3>1. \/ EndChallenge(k, "Sustained", bond + Bonus(bond)) /\ PayWithBonus(owner, bond)
          \/ EndChallenge(k, "Dismissed", 0) /\ Forfeit(bond)
          \/ EndChallenge(k, "Escalated", bond) /\ PayBack(owner, bond)
      BY <2>2 DEF ResolveChallenge
    <3>2. {"Sustained", "Dismissed", "Escalated"} \subseteq ChallengeStatus \ {"Open"}
      BY DEF ChallengeStatus
    <3> HIDE DEF bond, owner
    <3> QED
      BY <1>2, <1>3, <1>4, <3>1, <3>2
  <2> QED
    BY <2>1, <2>2
<1> QED
  BY <1>1, <1>5, EndedChallengeKeepsLedger

\* A commitment is a new forecast with its stake in the market.
LEMMA CommitKeepsLedger ==
  ASSUME Settings, ViewTypes, Positions, Ledger,
         NEW a \in Forecasters, NEW f \in ForecastIds, NEW c \in ClaimIds,
         NEW direction \in ForecastDirection, NEW value \in Values, NEW deadline \in 0 .. MaxTime,
         NEW agentId \in AgentIds, CommitForecast(a, f, c, direction, value, deadline, agentId)
  PROVE  Positions' /\ Ledger' /\ OnlyForecast(f)
<1> DEFINE new ==
      [claimId |-> c, forecaster |-> a, agentId |-> agentId,
       committed |-> direction, stakeAmount |-> value, revealDeadline |-> deadline,
       revealed |-> FALSE, settled |-> FALSE,
       effectiveDecisionIdAtCommit |-> effective[c], resolutionDecisionId |-> 0,
       recordedAtCommit |-> {d \in DecisionIds : outcome[d] # NoOutcome}]
<1>1. ~ForecastExists(f) /\ forecastPaid[f] = 0
  BY DEF CommitForecast, Positions, ForecastOver
<1>2. forecasts' = [forecasts EXCEPT ![f] = new]
  BY DEF CommitForecast
<1>3. /\ ReceiveValue(value)
      /\ UNCHANGED <<challenges, forecastPaid, challengePaid>>
      /\ UNCHANGED <<withdrawablePayouts, totalWithdrawablePayouts, withdrawn>>
      /\ rewardPoolBalance' = rewardPoolBalance
  BY DEF CommitForecast
<1>4. /\ new \in ForecastCommitment /\ ~new.settled
      /\ new.stakeAmount = value /\ new # NoPosition
  <2>1. effective[c] \in DecisionIds \cup {0}
    BY DEF ViewTypes
  <2>2. new \in ForecastCommitment
    BY <2>1 DEF ForecastCommitment
  <2>3. new # NoPosition
    BY DEF NoPosition
  <2> QED
    BY <2>2, <2>3
<1> HIDE DEF new
<1>5. /\ forecasts'[f] = new
      /\ \A g \in ForecastIds \ {f} :
           forecasts'[g] = forecasts[g] /\ forecastPaid'[g] = forecastPaid[g]
  BY <1>2, <1>3 DEF Positions
<1>6. OnlyForecast(f) /\ ForecastExists(f)'
  BY <1>3, <1>4, <1>5 DEF OnlyForecast, ForecastExists
<1>7. Positions'
  <2>1. forecasts' \in [ForecastIds -> ForecastCommitment \cup {NoPosition}]
    BY <1>2, <1>4 DEF Positions
  <2>2. ASSUME NEW g \in ForecastIds, ~ForecastOver(g)'
        PROVE  forecastPaid'[g] = 0
    BY <1>1, <1>3, <1>5, <2>2 DEF Positions, ForecastOver, ForecastExists
  <2>3. \A k \in ChallengeIds : ~ChallengeOver(k)' => challengePaid'[k] = 0
    BY <1>3 DEF Positions, ChallengeOver, ChallengeExists
  <2> QED
    BY <1>3, <2>1, <2>2, <2>3 DEF Positions
<1>8. value \in Nat
  BY MarketAssumption DEF Values
<1>9. Stake(f) = 0 /\ Stake(f)' = value
  BY <1>1, <1>4, <1>5, <1>6 DEF Stake
<1>10. \A b \in Forecasters : PaidForecast(b, f) = 0 /\ PaidForecast(b, f)' = 0
  BY <1>1, <1>3 DEF PaidForecast
<1>11. Totals
  BY TotalsAreNaturals
<1>12. rewardPoolBalance' + Stakes' + BondsHeld' = rewardPoolBalance + Stakes + BondsHeld + value
  <2>1. Stakes' = Stakes + (Stake(f)' - Stake(f)) /\ BondsHeld' = BondsHeld
    BY <1>6, <1>7, ForecastMovesTotals
  <2>2. PICK s \in Nat, b \in Nat, p \in Nat : s = Stakes /\ b = BondsHeld /\ p = rewardPoolBalance
    BY <1>11 DEF Totals, Ledger
  <2>3. Stakes' = s + value /\ BondsHeld' = b /\ rewardPoolBalance' = p
    BY <1>3, <1>8, <1>9, <2>1, <2>2
  <2>4. p + (s + value) + b = p + s + b + value
    BY <1>8
  <2> QED
    BY <2>2, <2>3, <2>4
<1>13. ASSUME NEW b \in Forecasters
       PROVE  FromForecasts(b)' + FromChallenges(b)' = FromForecasts(b) + FromChallenges(b)
  <2>1. /\ FromForecasts(b)' = FromForecasts(b) + (PaidForecast(b, f)' - PaidForecast(b, f))
        /\ FromChallenges(b)' = FromChallenges(b)
    BY <1>6, <1>7, ForecastMovesTotals
  <2> QED
    BY <1>10, <1>11, <2>1 DEF Totals
<1>14. rewardPoolBalance' \in Nat
  BY <1>3 DEF Ledger
<1>15. Ledger'
  BY <1>3, <1>7, <1>8, <1>12, <1>13, <1>14, DepositKeepsLedger
<1> QED
  BY <1>6, <1>7, <1>15

\* A challenge is a new position with its bond in the market.
LEMMA OpenKeepsLedger ==
  ASSUME Settings, Positions, Ledger,
         NEW a \in Forecasters, NEW k \in ChallengeIds, NEW value \in Values,
         NEW agentId \in AgentIds, OpenChallenge(a, k, value, agentId)
  PROVE  Positions' /\ Ledger' /\ OnlyChallenge(k)
<1> DEFINE new == [challenger |-> a, agentId |-> agentId, bondAmount |-> value,
                   status |-> "Open", createdAt |-> timestamp]
<1>1. ~ChallengeExists(k) /\ challengePaid[k] = 0
  BY DEF OpenChallenge, Positions, ChallengeOver
<1>2. challenges' = [challenges EXCEPT ![k] = new]
  BY DEF OpenChallenge
<1>3. /\ ReceiveValue(value)
      /\ UNCHANGED <<forecasts, forecastPaid, challengePaid>>
      /\ UNCHANGED <<withdrawablePayouts, totalWithdrawablePayouts, withdrawn>>
      /\ rewardPoolBalance' = rewardPoolBalance
  BY DEF OpenChallenge
<1>4. /\ new \in ChallengeBond /\ new.status = "Open"
      /\ new.bondAmount = value /\ new # NoPosition
  <2>1. new \in ChallengeBond
    BY DEF ChallengeBond, ChallengeStatus, Settings
  <2>2. new # NoPosition
    BY DEF NoPosition
  <2> QED
    BY <2>1, <2>2
<1> HIDE DEF new
<1>5. /\ challenges'[k] = new
      /\ \A j \in ChallengeIds \ {k} :
           challenges'[j] = challenges[j] /\ challengePaid'[j] = challengePaid[j]
  BY <1>2, <1>3 DEF Positions
<1>6. OnlyChallenge(k) /\ ChallengeExists(k)'
  BY <1>3, <1>4, <1>5 DEF OnlyChallenge, ChallengeExists
<1>7. Positions'
  <2>1. challenges' \in [ChallengeIds -> ChallengeBond \cup {NoPosition}]
    BY <1>2, <1>4 DEF Positions
  <2>2. ASSUME NEW j \in ChallengeIds, ~ChallengeOver(j)'
        PROVE  challengePaid'[j] = 0
    BY <1>1, <1>3, <1>5, <2>2 DEF Positions, ChallengeOver, ChallengeExists
  <2>3. \A f \in ForecastIds : ~ForecastOver(f)' => forecastPaid'[f] = 0
    BY <1>3 DEF Positions, ForecastOver, ForecastExists
  <2> QED
    BY <1>3, <2>1, <2>2, <2>3 DEF Positions
<1>8. value \in Nat
  BY MarketAssumption DEF Values
<1>9. Bond(k) = 0 /\ Bond(k)' = value
  BY <1>1, <1>4, <1>5, <1>6 DEF Bond
<1>10. \A b \in Forecasters : PaidChallenge(b, k) = 0 /\ PaidChallenge(b, k)' = 0
  BY <1>1, <1>3 DEF PaidChallenge
<1>11. Totals
  BY TotalsAreNaturals
<1>12. rewardPoolBalance' + Stakes' + BondsHeld' = rewardPoolBalance + Stakes + BondsHeld + value
  <2>1. BondsHeld' = BondsHeld + (Bond(k)' - Bond(k)) /\ Stakes' = Stakes
    BY <1>6, <1>7, ChallengeMovesTotals
  <2>2. PICK s \in Nat, b \in Nat, p \in Nat : s = Stakes /\ b = BondsHeld /\ p = rewardPoolBalance
    BY <1>11 DEF Totals, Ledger
  <2>3. Stakes' = s /\ BondsHeld' = b + value /\ rewardPoolBalance' = p
    BY <1>3, <1>8, <1>9, <2>1, <2>2
  <2>4. p + s + (b + value) = p + s + b + value
    BY <1>8
  <2> QED
    BY <2>2, <2>3, <2>4
<1>13. ASSUME NEW b \in Forecasters
       PROVE  FromForecasts(b)' + FromChallenges(b)' = FromForecasts(b) + FromChallenges(b)
  <2>1. /\ FromChallenges(b)' = FromChallenges(b) + (PaidChallenge(b, k)' - PaidChallenge(b, k))
        /\ FromForecasts(b)' = FromForecasts(b)
    BY <1>6, <1>7, ChallengeMovesTotals
  <2> QED
    BY <1>10, <1>11, <2>1 DEF Totals
<1>14. rewardPoolBalance' \in Nat
  BY <1>3 DEF Ledger
<1>15. Ledger'
  BY <1>3, <1>7, <1>8, <1>12, <1>13, <1>14, DepositKeepsLedger
<1> QED
  BY <1>6, <1>7, <1>15

\* A reveal moves no money.
LEMMA RevealKeepsLedger ==
  ASSUME Positions, Ledger, NEW a \in Forecasters, NEW f \in ForecastIds,
         NEW direction, RevealForecast(a, f, direction)
  PROVE  /\ Positions' /\ Ledger' /\ OnlyForecast(f)
         /\ ForecastExists(f) /\ ForecastExists(f)'
         /\ forecasts'[f] = [forecasts[f] EXCEPT !.revealed = TRUE]
         /\ forecastPaid'[f] = forecastPaid[f]
<1> DEFINE new == [forecasts[f] EXCEPT !.revealed = TRUE]
<1>1. ForecastExists(f) /\ forecasts[f] \in ForecastCommitment
  BY PositionFacts DEF RevealForecast
<1>2. /\ forecasts' = [forecasts EXCEPT ![f] = new]
      /\ UNCHANGED <<challenges, forecastPaid, challengePaid>> /\ UNCHANGED ledgerVars
  BY DEF RevealForecast
<1>3. /\ new \in ForecastCommitment /\ new # NoPosition
      /\ new.settled = forecasts[f].settled /\ new.stakeAmount = forecasts[f].stakeAmount
      /\ new.forecaster = forecasts[f].forecaster
  <2>1. new # NoPosition
    BY <1>1 DEF ForecastCommitment, NoPosition
  <2> QED
    BY <1>1, <2>1 DEF ForecastCommitment
<1> HIDE DEF new
<1>4. /\ forecasts'[f] = new
      /\ \A g \in ForecastIds \ {f} : forecasts'[g] = forecasts[g]
  BY <1>2 DEF Positions
<1>5. OnlyForecast(f) /\ ForecastExists(f)'
  BY <1>2, <1>3, <1>4 DEF OnlyForecast, ForecastExists
<1>6. Positions'
  <2>1. forecasts' \in [ForecastIds -> ForecastCommitment \cup {NoPosition}]
    BY <1>2, <1>3 DEF Positions
  <2>2. ASSUME NEW g \in ForecastIds, ~ForecastOver(g)'
        PROVE  forecastPaid'[g] = 0
    BY <1>2, <1>3, <1>4, <1>5, <2>2 DEF Positions, ForecastOver, ForecastExists
  <2>3. \A k \in ChallengeIds : ~ChallengeOver(k)' => challengePaid'[k] = 0
    BY <1>2 DEF Positions, ChallengeOver, ChallengeExists
  <2> QED
    BY <1>2, <2>1, <2>2, <2>3 DEF Positions
<1>7. /\ \A g \in ForecastIds : Stake(g)' = Stake(g)
      /\ \A b, g \in ForecastIds : PaidForecast(b, g)' = PaidForecast(b, g)
      /\ \A b : \A g \in ForecastIds : PaidForecast(b, g)' = PaidForecast(b, g)
  BY <1>1, <1>2, <1>3, <1>4, <1>5 DEF Stake, PaidForecast, ForecastExists
<1>8. /\ Stakes' = Stakes /\ BondsHeld' = BondsHeld
      /\ \A b : FromForecasts(b)' = FromForecasts(b) /\ FromChallenges(b)' = FromChallenges(b)
  BY <1>2, <1>7 DEF Stakes, BondsHeld, FromForecasts, FromChallenges, Bond, PaidChallenge,
                    ChallengeExists, TotalOf
<1>9. Ledger'
  BY <1>2, <1>8 DEF Ledger, TotalOf, ledgerVars
<1> QED
  BY <1>1, <1>2, <1>4, <1>5, <1>6, <1>9 DEF new

\* Whoever funds the pool adds to it.
LEMMA FundKeepsLedger ==
  ASSUME Positions, Ledger, NEW value \in Values, FundRewardPool(value)
  PROVE  Positions' /\ Ledger'
<1>1. /\ ReceiveValue(value) /\ rewardPoolBalance' = rewardPoolBalance + value
      /\ UNCHANGED <<withdrawablePayouts, totalWithdrawablePayouts, withdrawn>>
      /\ UNCHANGED positionVars
  BY DEF FundRewardPool
<1>2. Positions'
  BY <1>1 DEF positionVars, Positions, ForecastOver, ChallengeOver, ForecastExists, ChallengeExists
<1>3. /\ Stakes' = Stakes /\ BondsHeld' = BondsHeld
      /\ \A a : FromForecasts(a)' = FromForecasts(a) /\ FromChallenges(a)' = FromChallenges(a)
  BY <1>1, SamePositionsSameTotals
<1>4. value \in Nat /\ rewardPoolBalance \in Nat
  BY MarketAssumption DEF Values, Ledger
<1>5. rewardPoolBalance' + Stakes' + BondsHeld' = rewardPoolBalance + Stakes + BondsHeld + value
  <2>1. PICK s \in Nat, b \in Nat : s = Stakes /\ b = BondsHeld
    BY TotalsAreNaturals DEF Totals
  <2>2. (rewardPoolBalance + value) + s + b = rewardPoolBalance + s + b + value
    BY <1>4
  <2> QED
    BY <1>1, <1>3, <2>1, <2>2
<1>6. Ledger'
  BY <1>1, <1>2, <1>3, <1>4, <1>5, DepositKeepsLedger
<1> QED
  BY <1>2, <1>6

-----------------------------------------------------------------------------
(***************************************************************************)
(* Every step, by what it does to the positions.                           *)
(***************************************************************************)

\* A step in which no position moves.
Otherwise ==
  /\ UNCHANGED positionVars
  /\ \/ \E value \in Values : FundRewardPool(value)
     \/ \E a \in Forecasters, amount \in Values : WithdrawPayout(a, amount)
     \/ UNCHANGED ledgerVars
  /\ Settings'
  /\ timestamp' \in Nat /\ timestamp' >= timestamp
  /\ [ViewNext]_viewVars

\* A commitment with a deadline on the clock.
Commits(a, f, c, direction, value, deadline, agentId) ==
  /\ a \in Forecasters /\ c \in ClaimIds /\ direction \in ForecastDirection
  /\ value \in Values /\ deadline \in 0 .. MaxTime /\ agentId \in AgentIds
  /\ CommitForecast(a, f, c, direction, value, deadline, agentId)

\* The cases of a step.
LEMMA MarketCases ==
  ASSUME Settings, Positions, Ledger, [MarketNext]_allMarketVars
  PROVE  \/ \E f \in ForecastIds : \E a, c, direction, value, deadline, agentId :
              Commits(a, f, c, direction, value, deadline, agentId)
         \/ \E f \in ForecastIds, a \in Forecasters, direction \in ForecastDirection :
              RevealForecast(a, f, direction)
         \/ \E f \in ForecastIds, d \in DecisionIds \cup {0}, paid \in Nat : Ends(f, d, paid)
         \/ \E k \in ChallengeIds, a \in Forecasters, value \in Values, agentId \in AgentIds :
              OpenChallenge(a, k, value, agentId)
         \/ \E k \in ChallengeIds :
              \/ \E a \in Forecasters : WithdrawChallenge(a, k)
              \/ \E verdict \in ChallengeStatus : ResolveChallenge(k, verdict)
         \/ Otherwise
<1> timestamp \in Nat /\ MaxTime \in Nat /\ marketDepositsPaused \in BOOLEAN
  BY MarketAssumption DEF Settings
<1>1. ASSUME NEW f \in ForecastIds, NEW a \in Forecasters, NEW c \in ClaimIds,
             NEW direction \in ForecastDirection, NEW value \in Values,
             NEW window \in 1 .. MaxWindow, NEW agentId \in AgentIds,
             timestamp + window + FORECAST_RECLAIM_DELAY < MaxTime,
             CommitForecast(a, f, c, direction, value, timestamp + window, agentId)
      PROVE  Commits(a, f, c, direction, value, timestamp + window, agentId)
  <2>1. timestamp + window \in 0 .. MaxTime
    BY <1>1, MarketAssumption
  <2> QED
    BY <1>1, <2>1 DEF Commits
<1>2. ASSUME NEW f \in ForecastIds,
             \/ \E a \in Forecasters : ReclaimForecast(a, f)
             \/ \E d \in DecisionIds : SettleForecast(f, d)
             \/ ForfeitUnrevealedForecast(f)
      PROVE  \E d \in DecisionIds \cup {0}, paid \in Nat : Ends(f, d, paid)
  BY <1>2, ForecastEndings
<1>3. CASE ForecastStep
  BY <1>1, <1>2, <1>3 DEF ForecastStep
<1>4. CASE ChallengeStep
  BY <1>4 DEF ChallengeStep
<1>5. CASE \E value \in Values : FundRewardPool(value)
  BY <1>5 DEF FundRewardPool, Otherwise, Settings, settingVars
<1>6. CASE \E a \in Forecasters, amount \in Values : WithdrawPayout(a, amount)
  <2>1. UNCHANGED positionVars /\ UNCHANGED settingVars /\ UNCHANGED viewVars
    BY <1>6 DEF WithdrawPayout
  <2>2. Settings' /\ timestamp' = timestamp
    BY <2>1 DEF Settings, settingVars
  <2> QED
    BY <1>6, <2>1, <2>2 DEF Otherwise
<1>7. CASE Tick
  BY <1>7 DEF Tick, Otherwise, Settings
<1>8. CASE \E accounts \in SUBSET Forecasters : SetControllers(accounts)
  BY <1>8 DEF SetControllers, Otherwise, Settings
<1>9. CASE \E flag \in BOOLEAN : SetMarketDepositsPaused(flag)
  BY <1>9 DEF SetMarketDepositsPaused, Otherwise, Settings
<1>10. CASE ViewNext /\ UNCHANGED marketVars
  BY <1>10 DEF marketVars, settingVars, Otherwise, Settings
<1>11. CASE UNCHANGED allMarketVars
  BY <1>11 DEF allMarketVars, marketVars, settingVars, Otherwise, Settings
<1> QED
  BY <1>3, <1>4, <1>5, <1>6, <1>7, <1>8, <1>9, <1>10, <1>11 DEF MarketNext

\* The calls but the environment's leave time, settings and registry alone.
LEMMA CallsLeaveSettings ==
  ASSUME NEW f, NEW k
  PROVE  /\ \A a, c, direction, value, deadline, agentId :
              Commits(a, f, c, direction, value, deadline, agentId)
                => UNCHANGED settingVars /\ UNCHANGED viewVars
         /\ \A a, direction : RevealForecast(a, f, direction)
              => UNCHANGED settingVars /\ UNCHANGED viewVars
         /\ \A d, paid : Ends(f, d, paid) => UNCHANGED settingVars /\ UNCHANGED viewVars
         /\ \A a, value, agentId : OpenChallenge(a, k, value, agentId)
              => UNCHANGED settingVars /\ UNCHANGED viewVars
         /\ \A a : WithdrawChallenge(a, k) => UNCHANGED settingVars /\ UNCHANGED viewVars
         /\ \A verdict : ResolveChallenge(k, verdict)
              => UNCHANGED settingVars /\ UNCHANGED viewVars
BY DEF Commits, CommitForecast, RevealForecast, Ends, EndForecast, OpenChallenge,
       WithdrawChallenge, ResolveChallenge, EndChallenge

\* Every step keeps the positions, the ledger and the settings.
LEMMA StepKeepsLedger ==
  ASSUME Settings, ViewTypes, Positions, Ledger, [MarketNext]_allMarketVars
  PROVE  /\ Positions' /\ Ledger' /\ Settings'
         /\ timestamp' \in Nat /\ timestamp' >= timestamp
         /\ [ViewNext]_viewVars
<1> timestamp \in Nat
  BY MarketAssumption DEF Settings
<1>0. ASSUME UNCHANGED settingVars, UNCHANGED viewVars
      PROVE  /\ Settings' /\ timestamp' \in Nat /\ timestamp' >= timestamp
             /\ [ViewNext]_viewVars
  BY <1>0 DEF settingVars, Settings
<1>1. ASSUME NEW f \in ForecastIds, NEW a, NEW c, NEW direction, NEW value, NEW deadline, NEW agentId,
             Commits(a, f, c, direction, value, deadline, agentId)
      PROVE  Positions' /\ Ledger' /\ UNCHANGED settingVars /\ UNCHANGED viewVars
  <2>1. Positions' /\ Ledger'
    BY <1>1, CommitKeepsLedger DEF Commits
  <2> QED
    BY <1>1, <2>1, CallsLeaveSettings
<1>2. ASSUME NEW f \in ForecastIds, NEW a \in Forecasters, NEW direction, RevealForecast(a, f, direction)
      PROVE  Positions' /\ Ledger' /\ UNCHANGED settingVars /\ UNCHANGED viewVars
  BY <1>2, RevealKeepsLedger, CallsLeaveSettings
<1>3. ASSUME NEW f \in ForecastIds, NEW d \in DecisionIds \cup {0}, NEW paid \in Nat, Ends(f, d, paid)
      PROVE  Positions' /\ Ledger' /\ UNCHANGED settingVars /\ UNCHANGED viewVars
  <2>1. Positions' /\ Ledger'
    BY <1>3, EndedForecastKeepsLedger DEF Ends
  <2> QED
    BY <1>3, <2>1, CallsLeaveSettings
<1>4. ASSUME NEW k \in ChallengeIds, NEW a \in Forecasters, NEW value \in Values,
             NEW agentId \in AgentIds, OpenChallenge(a, k, value, agentId)
      PROVE  Positions' /\ Ledger' /\ UNCHANGED settingVars /\ UNCHANGED viewVars
  BY <1>4, OpenKeepsLedger, CallsLeaveSettings
<1>5. ASSUME NEW k \in ChallengeIds,
             \/ \E a \in Forecasters : WithdrawChallenge(a, k)
             \/ \E verdict \in ChallengeStatus : ResolveChallenge(k, verdict)
      PROVE  Positions' /\ Ledger' /\ UNCHANGED settingVars /\ UNCHANGED viewVars
  <2>1. Positions' /\ Ledger'
    BY <1>5, ChallengeEndings
  <2> QED
    BY <1>5, <2>1, CallsLeaveSettings
<1>6. CASE Otherwise
  <2>1. Positions'
    BY <1>6 DEF Otherwise, positionVars, Positions, ForecastOver, ChallengeOver, ForecastExists,
                ChallengeExists
  <2>2. Ledger'
    BY <1>6, FundKeepsLedger, WithdrawKeepsLedger, NothingKeepsLedger DEF Otherwise
  <2> QED
    BY <1>6, <2>1, <2>2 DEF Otherwise
<1> QED
  BY <1>0, <1>1, <1>2, <1>3, <1>4, <1>5, <1>6, MarketCases

\* What the registry promises: a recorded outcome stays, and a decision that
\* becomes effective is a new one.
LEMMA ViewSteps ==
  ASSUME ViewTypes, [ViewNext]_viewVars
  PROVE  /\ ViewTypes'
         /\ \A d \in DecisionIds : outcome[d] # NoOutcome => outcome'[d] = outcome[d]
         /\ \A c \in ClaimIds : \/ effective'[c] = effective[c]
                                \/ /\ effective'[c] \in DecisionIds
                                   /\ outcome[effective'[c]] = NoOutcome
<1>1. CASE UNCHANGED <<outcome, effective>>
  BY <1>1 DEF ViewTypes
<1>2. ASSUME NEW c \in ClaimIds, NEW d \in DecisionIds, NEW r \in ResolutionStatus, Recorded(c, d, r)
      PROVE  /\ outcome' \in [DecisionIds -> (ClaimIds \cup {0}) \X ResolutionStatus]
             /\ \A e \in DecisionIds : outcome[e] # NoOutcome => outcome'[e] = outcome[e]
             /\ outcome[d] = NoOutcome
  BY <1>2 DEF Recorded, ViewTypes
<1>3. ASSUME NEW c \in ClaimIds, DecideEffectively(c)
      PROVE  /\ ViewTypes'
             /\ \A d \in DecisionIds : outcome[d] # NoOutcome => outcome'[d] = outcome[d]
             /\ \A e \in ClaimIds : \/ effective'[e] = effective[e]
                                    \/ /\ effective'[e] \in DecisionIds
                                       /\ outcome[effective'[e]] = NoOutcome
  <2>1. PICK d \in DecisionIds, r \in ResolutionStatus :
          Recorded(c, d, r) /\ effective' = [effective EXCEPT ![c] = d]
    BY <1>3 DEF DecideEffectively
  <2>2. /\ effective' \in [ClaimIds -> DecisionIds \cup {0}]
        /\ \A e \in ClaimIds : effective'[e] = effective[e] \/ effective'[e] = d
    BY <2>1 DEF ViewTypes
  <2> QED
    BY <1>2, <2>1, <2>2 DEF ViewTypes
<1>4. ASSUME NEW c \in ClaimIds, DecideWithoutEffect(c)
      PROVE  /\ ViewTypes' /\ effective' = effective
             /\ \A d \in DecisionIds : outcome[d] # NoOutcome => outcome'[d] = outcome[d]
  BY <1>2, <1>4 DEF DecideWithoutEffect, ViewTypes
<1> QED
  BY <1>1, <1>3, <1>4 DEF ViewNext, viewVars, MoveByHand, Deprecate

-----------------------------------------------------------------------------
(***************************************************************************)
(* Commitments.                                                            *)
(***************************************************************************)

\* The parts of Commitments and NoFreeOption, for one forecast.
Committed(f) ==
  LET forecast == forecasts[f]
  IN /\ \A d \in forecast.recordedAtCommit : outcome[d] # NoOutcome
     /\ effective[forecast.claimId] = forecast.effectiveDecisionIdAtCommit
          \/ effective[forecast.claimId] \notin forecast.recordedAtCommit
     /\ ~forecast.settled => forecast.resolutionDecisionId = 0
     /\ forecast.settled /\ ~forecast.revealed => WindowClosed(forecast)

Right(f) ==
  /\ forecasts[f].resolutionDecisionId # 0
  /\ ForecastMatches(forecasts[f].committed, outcome[forecasts[f].resolutionDecisionId][2])

NotFree(f) ==
  LET forecast == forecasts[f]
      d == forecast.resolutionDecisionId
  IN /\ d # 0 => outcome[d][1] = forecast.claimId /\ d \notin forecast.recordedAtCommit
     /\ forecastPaid[f] > 0 => forecast.revealed /\ forecast.settled
     /\ forecastPaid[f] > forecast.stakeAmount => Right(f)
     /\ d # 0 /\ ~Right(f) => forecastPaid[f] = 0
     /\ forecastPaid[f] <= 2 * forecast.stakeAmount

\* The two are the conjunctions of their parts.
LEMMA ForecastByForecast ==
  /\ Commitments <=> \A f \in ForecastIds : ForecastExists(f) => Committed(f)
  /\ NoFreeOption <=> \A f \in ForecastIds : ForecastExists(f) => NotFree(f)
BY DEF Commitments, Committed, NoFreeOption, NotFree, Right

\* The fields of a forecast.
LEMMA ForecastFields ==
  ASSUME Positions, NEW f \in ForecastIds, ForecastExists(f)
  PROVE  /\ forecasts[f].claimId \in ClaimIds
         /\ forecasts[f].recordedAtCommit \in SUBSET DecisionIds
         /\ forecasts[f].resolutionDecisionId \in DecisionIds \cup {0}
         /\ forecasts[f].effectiveDecisionIdAtCommit \in DecisionIds \cup {0}
         /\ forecasts[f].revealDeadline \in Int
         /\ forecasts[f].settled \in BOOLEAN /\ forecasts[f].revealed \in BOOLEAN
         /\ forecastPaid[f] \in Nat /\ forecasts[f].stakeAmount \in Nat
<1>1. forecasts[f] \in ForecastCommitment /\ forecasts[f].stakeAmount \in Nat
  BY PositionFacts
<1>2. forecastPaid[f] \in Nat
  BY DEF Positions
<1> QED
  BY <1>1, <1>2 DEF ForecastCommitment

\* A decision that is the judge of a forecast is recorded, and what is recorded stays.
LEMMA JudgeStays ==
  ASSUME ViewTypes, [ViewNext]_viewVars, NEW c \in ClaimIds, NEW d \in DecisionIds, outcome[d][1] = c
  PROVE  outcome'[d] = outcome[d]
<1>1. outcome[d] # NoOutcome
  BY IdsAssumption DEF NoOutcome
<1> QED
  BY <1>1, ViewSteps

\* Time and the registry do not change what was committed.
LEMMA UntouchedForecast ==
  ASSUME Settings, ViewTypes, Positions, NEW f \in ForecastIds, ForecastExists(f),
         Committed(f), NotFree(f),
         forecasts'[f] = forecasts[f], forecastPaid'[f] = forecastPaid[f],
         timestamp' \in Nat, timestamp' >= timestamp, [ViewNext]_viewVars
  PROVE  Committed(f)' /\ NotFree(f)'
<1> DEFINE forecast == forecasts[f]
           c == forecast.claimId
           d == forecast.resolutionDecisionId
<1>1. /\ c \in ClaimIds /\ forecast.recordedAtCommit \in SUBSET DecisionIds
      /\ d \in DecisionIds \cup {0} /\ forecast.revealDeadline \in Int
  BY ForecastFields
<1>2. timestamp \in Int
  BY MarketAssumption DEF Settings
<1>3. \A e \in forecast.recordedAtCommit : outcome'[e] # NoOutcome
  BY <1>1, ViewSteps DEF Committed
<1>4. effective'[c] = forecast.effectiveDecisionIdAtCommit \/ effective'[c] \notin forecast.recordedAtCommit
  BY <1>1, ViewSteps DEF Committed
<1>5. WindowClosed(forecast) => timestamp' > forecast.revealDeadline
  BY <1>1, <1>2 DEF WindowClosed
<1>6. Committed(f)'
  BY <1>3, <1>4, <1>5 DEF Committed, WindowClosed
<1>7. d # 0 => outcome'[d] = outcome[d]
  BY <1>1, JudgeStays DEF NotFree
<1>8. Right(f)' <=> Right(f)
  BY <1>7 DEF Right
<1>9. NotFree(f)'
  BY <1>7, <1>8 DEF NotFree
<1> QED
  BY <1>6, <1>9

\* A new forecast knows every decision there is, and has been judged by none.
LEMMA CommittedForecast ==
  ASSUME Settings, ViewTypes, Positions, NEW f \in ForecastIds,
         NEW a, NEW c, NEW direction, NEW value, NEW deadline, NEW agentId,
         Commits(a, f, c, direction, value, deadline, agentId)
  PROVE  Committed(f)' /\ NotFree(f)'
<1>1. /\ ~ForecastExists(f) /\ forecastPaid[f] = 0 /\ forecastPaid' = forecastPaid
      /\ UNCHANGED <<outcome, effective>>
  BY DEF Commits, CommitForecast, Positions, ForecastOver, viewVars
<1>2. /\ forecasts'[f].recordedAtCommit = {d \in DecisionIds : outcome[d] # NoOutcome}
      /\ forecasts'[f].effectiveDecisionIdAtCommit = effective[c]
      /\ forecasts'[f].claimId = c
      /\ forecasts'[f].settled = FALSE /\ forecasts'[f].resolutionDecisionId = 0
      /\ forecasts'[f].stakeAmount = value
  BY DEF Commits, CommitForecast, Positions
<1>3. Committed(f)'
  BY <1>1, <1>2 DEF Committed
<1>4. value \in Nat
  BY MarketAssumption DEF Commits, Values
<1>5. NotFree(f)'
  BY <1>1, <1>2, <1>4 DEF NotFree
<1> QED
  BY <1>3, <1>5

\* A reveal comes in the window, and so not after the forecast ended without one.
LEMMA RevealedForecast ==
  ASSUME Settings, Positions, Ledger, NEW a \in Forecasters, NEW f \in ForecastIds,
         NEW direction, RevealForecast(a, f, direction), Committed(f), NotFree(f)
  PROVE  Committed(f)' /\ NotFree(f)' /\ ~forecasts[f].settled
<1>1. /\ ForecastExists(f)
      /\ forecasts'[f] = [forecasts[f] EXCEPT !.revealed = TRUE]
      /\ forecastPaid'[f] = forecastPaid[f]
  BY RevealKeepsLedger
<1>2. /\ UNCHANGED <<outcome, effective>> /\ timestamp' = timestamp
      /\ timestamp <= forecasts[f].revealDeadline /\ ~forecasts[f].revealed
  BY DEF RevealForecast, viewVars, settingVars
<1>3. forecasts[f].revealDeadline \in Int /\ timestamp \in Int
  BY <1>1, ForecastFields, MarketAssumption DEF Settings
<1>4. ~forecasts[f].settled
  BY <1>2, <1>3 DEF Committed, WindowClosed
<1>5. forecasts[f] \in ForecastCommitment
  BY <1>1, PositionFacts
<1> DEFINE new == forecasts'[f]
<1>6. /\ new.claimId = forecasts[f].claimId /\ new.recordedAtCommit = forecasts[f].recordedAtCommit
      /\ new.effectiveDecisionIdAtCommit = forecasts[f].effectiveDecisionIdAtCommit
      /\ new.resolutionDecisionId = forecasts[f].resolutionDecisionId
      /\ new.settled = forecasts[f].settled /\ new.stakeAmount = forecasts[f].stakeAmount
      /\ new.committed = forecasts[f].committed /\ new.revealed = TRUE
  BY <1>1, <1>5 DEF ForecastCommitment
<1>7. Right(f)' <=> Right(f)
  BY <1>2, <1>6 DEF Right
<1>8. Committed(f)'
  BY <1>2, <1>4, <1>6 DEF Committed
<1>9. NotFree(f)'
  BY <1>1, <1>2, <1>6, <1>7 DEF NotFree
<1> QED
  BY <1>4, <1>8, <1>9

\* A forecast that ends is judged by a decision nobody could have read when it was
\* committed, and is paid a bonus by one that agrees with it.
LEMMA EndedForecastIsFair ==
  ASSUME Settings, ViewTypes, Positions, NEW f \in ForecastIds, NEW d \in DecisionIds \cup {0},
         NEW paid \in Nat, Ends(f, d, paid), Committed(f)
  PROVE  Committed(f)' /\ NotFree(f)'
<1>1. /\ ForecastExists(f) /\ ~forecasts[f].settled
      /\ forecasts'[f] = [forecasts[f] EXCEPT !.settled = TRUE, !.resolutionDecisionId = d]
      /\ forecastPaid'[f] = paid
  BY EndedForecast DEF Ends, ForecastOpen
<1>2. forecasts[f] \in ForecastCommitment
  BY <1>1, PositionFacts
<1>3. UNCHANGED <<outcome, effective>> /\ timestamp' = timestamp
  BY DEF Ends, EndForecast, viewVars, settingVars
<1> DEFINE new == forecasts'[f]
<1>4. /\ new.claimId = forecasts[f].claimId /\ new.recordedAtCommit = forecasts[f].recordedAtCommit
      /\ new.effectiveDecisionIdAtCommit = forecasts[f].effectiveDecisionIdAtCommit
      /\ new.resolutionDecisionId = d /\ new.revealDeadline = forecasts[f].revealDeadline
      /\ new.settled = TRUE /\ new.stakeAmount = forecasts[f].stakeAmount
      /\ new.committed = forecasts[f].committed /\ new.revealed = forecasts[f].revealed
  BY <1>1, <1>2 DEF ForecastCommitment
<1>5. Committed(f)'
  BY <1>3, <1>4 DEF Committed, Ends, WindowClosed
<1>6. d # 0 => /\ outcome[d][1] = forecasts[f].claimId
               /\ d \notin forecasts[f].recordedAtCommit
  <2>1. d # 0 => /\ d = effective[forecasts[f].claimId]
                 /\ d > forecasts[f].effectiveDecisionIdAtCommit
                 /\ outcome[d][1] = forecasts[f].claimId
    BY DEF Ends, Settles
  <2>2. d # 0 => d # forecasts[f].effectiveDecisionIdAtCommit
    <3>1. d \in Int
      BY IdsAssumption
    <3>2. forecasts[f].effectiveDecisionIdAtCommit \in DecisionIds \cup {0}
      BY <1>1, ForecastFields
    <3> QED
      BY <2>1, <3>1, <3>2, IdsAssumption
  <2> QED
    BY <2>1, <2>2 DEF Committed
<1>7. d # 0 /\ paid # 0 => Right(f)'
  BY <1>3, <1>4 DEF Ends, Matched, Right
<1>8. d = 0 => paid <= forecasts[f].stakeAmount
  BY DEF Ends
<1>9. paid > forecasts[f].stakeAmount => Right(f)'
  <2>1. forecasts[f].stakeAmount \in Nat
    BY <1>1, ForecastFields
  <2> QED
    BY <1>7, <1>8, <2>1
<1>10. paid <= 2 * forecasts[f].stakeAmount /\ (paid > 0 => forecasts[f].revealed)
  BY DEF Ends
<1>11. NotFree(f)'
  BY <1>1, <1>3, <1>4, <1>6, <1>7, <1>9, <1>10 DEF NotFree
<1> QED
  BY <1>5, <1>11

\* What a step does to a forecast: nothing, or one of the three things that happen
\* to it; and to one that is over, nothing.
LEMMA ForecastSteps ==
  ASSUME MarketInv, [MarketNext]_allMarketVars, NEW f \in ForecastIds
  PROVE  /\ ForecastExists(f)' => Committed(f)' /\ NotFree(f)'
         /\ ForecastOver(f) => forecasts'[f] = forecasts[f] /\ forecastPaid'[f] = forecastPaid[f]
<1> USE DEF MarketInv
<1>1. /\ timestamp' \in Nat /\ timestamp' >= timestamp /\ [ViewNext]_viewVars
  BY StepKeepsLedger
<1>2. ForecastExists(f) => Committed(f) /\ NotFree(f)
  BY ForecastByForecast
<1>3. CASE forecasts'[f] = forecasts[f] /\ forecastPaid'[f] = forecastPaid[f]
  <2>1. ForecastExists(f)' <=> ForecastExists(f)
    BY <1>3 DEF ForecastExists
  <2> QED
    BY <1>1, <1>2, <1>3, <2>1, UntouchedForecast
<1>4. ASSUME NEW g \in ForecastIds, NEW a, NEW c, NEW direction, NEW value, NEW deadline, NEW agentId,
             Commits(a, g, c, direction, value, deadline, agentId)
      PROVE  \/ forecasts'[f] = forecasts[f] /\ forecastPaid'[f] = forecastPaid[f]
             \/ Committed(f)' /\ NotFree(f)' /\ ~ForecastExists(f)
  <2>1. CASE g = f
    BY <1>4, <2>1, CommittedForecast DEF Commits, CommitForecast
  <2>2. CASE g # f
    BY <1>4, <2>2, CommitKeepsLedger DEF Commits, OnlyForecast
  <2> QED
    BY <2>1, <2>2
<1>5. ASSUME NEW g \in ForecastIds, NEW a \in Forecasters, NEW direction, RevealForecast(a, g, direction)
      PROVE  \/ forecasts'[f] = forecasts[f] /\ forecastPaid'[f] = forecastPaid[f]
             \/ Committed(f)' /\ NotFree(f)' /\ ~forecasts[f].settled
  <2>1. CASE g = f
    BY <1>2, <1>5, <2>1, RevealedForecast, RevealKeepsLedger
  <2>2. CASE g # f
    BY <1>5, <2>2, RevealKeepsLedger DEF OnlyForecast
  <2> QED
    BY <2>1, <2>2
<1>6. ASSUME NEW g \in ForecastIds, NEW d \in DecisionIds \cup {0}, NEW paid \in Nat, Ends(g, d, paid)
      PROVE  \/ forecasts'[f] = forecasts[f] /\ forecastPaid'[f] = forecastPaid[f]
             \/ Committed(f)' /\ NotFree(f)' /\ ~forecasts[f].settled
  <2>1. CASE g = f
    BY <1>2, <1>6, <2>1, EndedForecastIsFair DEF Ends, ForecastOpen
  <2>2. CASE g # f
    BY <1>6, <2>2, EndedForecast DEF Ends, OnlyForecast
  <2> QED
    BY <2>1, <2>2
<1>7. ASSUME NEW k \in ChallengeIds, NEW a \in Forecasters, NEW value \in Values,
             NEW agentId \in AgentIds, OpenChallenge(a, k, value, agentId)
      PROVE  forecasts'[f] = forecasts[f] /\ forecastPaid'[f] = forecastPaid[f]
  BY <1>7 DEF OpenChallenge
<1>8. ASSUME NEW k \in ChallengeIds,
             \/ \E a \in Forecasters : WithdrawChallenge(a, k)
             \/ \E verdict \in ChallengeStatus : ResolveChallenge(k, verdict)
      PROVE  forecasts'[f] = forecasts[f] /\ forecastPaid'[f] = forecastPaid[f]
  BY <1>8 DEF WithdrawChallenge, ResolveChallenge, EndChallenge
<1>9. CASE Otherwise
  BY <1>3, <1>9 DEF Otherwise, positionVars
<1>10. \/ forecasts'[f] = forecasts[f] /\ forecastPaid'[f] = forecastPaid[f]
       \/ Committed(f)' /\ NotFree(f)' /\ (~ForecastExists(f) \/ ~forecasts[f].settled)
  BY <1>4, <1>5, <1>6, <1>7, <1>8, <1>9, MarketCases DEF Otherwise, positionVars
<1> QED
  BY <1>3, <1>10 DEF ForecastOver

\* A challenge that is over stays as it is.
LEMMA ChallengeSteps ==
  ASSUME MarketInv, [MarketNext]_allMarketVars, NEW k \in ChallengeIds, ChallengeOver(k)
  PROVE  challenges'[k] = challenges[k] /\ challengePaid'[k] = challengePaid[k]
<1> USE DEF MarketInv
<1>1. ASSUME NEW j \in ChallengeIds, NEW a \in Forecasters, NEW value \in Values,
             NEW agentId \in AgentIds, OpenChallenge(a, j, value, agentId)
      PROVE  challenges'[k] = challenges[k] /\ challengePaid'[k] = challengePaid[k]
  <2>1. j # k
    BY <1>1 DEF OpenChallenge, ChallengeOver
  <2> QED
    BY <1>1, <2>1, OpenKeepsLedger DEF OnlyChallenge
<1>2. ASSUME NEW j \in ChallengeIds,
             \/ \E a \in Forecasters : WithdrawChallenge(a, j)
             \/ \E verdict \in ChallengeStatus : ResolveChallenge(j, verdict)
      PROVE  challenges'[k] = challenges[k] /\ challengePaid'[k] = challengePaid[k]
  <2>1. ChallengeOpen(j) /\ OnlyChallenge(j)
    BY <1>2, ChallengeEndings
  <2>2. j # k
    BY <2>1 DEF ChallengeOver, ChallengeOpen
  <2> QED
    BY <2>1, <2>2 DEF OnlyChallenge
<1>3. ASSUME NEW f \in ForecastIds, NEW a, NEW c, NEW direction, NEW value, NEW deadline, NEW agentId,
             Commits(a, f, c, direction, value, deadline, agentId)
      PROVE  UNCHANGED <<challenges, challengePaid>>
  BY <1>3 DEF Commits, CommitForecast
<1>4. ASSUME NEW f \in ForecastIds, NEW a \in Forecasters, NEW direction, RevealForecast(a, f, direction)
      PROVE  UNCHANGED <<challenges, challengePaid>>
  BY <1>4 DEF RevealForecast
<1>5. ASSUME NEW f \in ForecastIds, NEW d \in DecisionIds \cup {0}, NEW paid \in Nat, Ends(f, d, paid)
      PROVE  UNCHANGED <<challenges, challengePaid>>
  BY <1>5 DEF Ends, EndForecast
<1>6. Otherwise => UNCHANGED <<challenges, challengePaid>>
  BY DEF Otherwise, positionVars
<1> QED
  BY <1>1, <1>2, <1>3, <1>4, <1>5, <1>6, MarketCases

-----------------------------------------------------------------------------
(***************************************************************************)
(* The invariant.                                                          *)
(***************************************************************************)

\* The empty market satisfies it.
LEMMA InitMarketInv == AllMarketInit => MarketInv
<1> SUFFICES ASSUME AllMarketInit
             PROVE  MarketInv
  OBVIOUS
<1> USE DEF AllMarketInit, MarketInit
<1>1. Settings
  <2>1. timestamp = 0 /\ MaxTime \in Nat
    BY MarketAssumption
  <2>2. controllers \subseteq Forecasters
    OBVIOUS
  <2>3. marketDepositsPaused = FALSE
    OBVIOUS
  <2>4. marketDepositsPaused \in BOOLEAN
    BY <2>3, Zenon
  <2>5. timestamp \in 0 .. MaxTime
    BY <2>1
  <2> QED
    BY <2>2, <2>4, <2>5, Zenon DEF Settings
<1>2. \A f \in ForecastIds : ~ForecastExists(f) /\ ~ForecastOver(f)
  BY DEF ForecastExists, ForecastOver
<1>3. \A k \in ChallengeIds : ~ChallengeExists(k) /\ ~ChallengeOver(k)
  BY DEF ChallengeExists, ChallengeOver
<1>4. Positions
  BY <1>2, <1>3 DEF Positions
<1>5. /\ Stakes = 0 /\ BondsHeld = 0
      /\ \A a \in Forecasters : FromForecasts(a) = 0 /\ FromChallenges(a) = 0
  BY <1>2, <1>3, FinitePositions, SumZero
  DEF TotalOf, Stakes, BondsHeld, FromForecasts, FromChallenges, Stake, Bond, PaidForecast,
      PaidChallenge
<1>6. TotalOf(withdrawablePayouts, Forecasters) = 0 /\ TotalOf(withdrawn, Forecasters) = 0
  BY FinitePositions, SumZero DEF TotalOf
<1>7. Ledger
  BY <1>5, <1>6, MarketAssumption DEF Ledger
<1>8. ViewTypes
  BY DEF ViewTypes, ViewInit, NoOutcome, ResolutionStatus
<1>9. Commitments /\ NoFreeOption
  BY <1>2, ForecastByForecast
<1> QED
  BY <1>1, <1>4, <1>7, <1>8, <1>9 DEF MarketInv

\* Every step keeps it.
LEMMA MarketNextKeepsInv == MarketInv /\ [MarketNext]_allMarketVars => MarketInv'
<1> SUFFICES ASSUME MarketInv, [MarketNext]_allMarketVars
             PROVE  MarketInv'
  OBVIOUS
<1>1. Positions' /\ Ledger' /\ Settings' /\ [ViewNext]_viewVars
  BY StepKeepsLedger DEF MarketInv
<1>2. ViewTypes'
  BY <1>1, ViewSteps DEF MarketInv
<1>3. \A f \in ForecastIds : ForecastExists(f)' => Committed(f)' /\ NotFree(f)'
  BY ForecastSteps
<1>4. Commitments' /\ NoFreeOption'
  <2>1. Commitments' <=> \A f \in ForecastIds : ForecastExists(f)' => Committed(f)'
    BY DEF Commitments, Committed
  <2>2. NoFreeOption' <=> \A f \in ForecastIds : ForecastExists(f)' => NotFree(f)'
    BY DEF NoFreeOption, NotFree, Right
  <2> QED
    BY <1>3, <2>1, <2>2
<1> QED
  BY <1>1, <1>2, <1>4 DEF MarketInv

\* The invariant holds of every reachable state.
THEOREM MarketInvariant == MarketSpec => []MarketInv
<1>1. AllMarketInit => MarketInv
  BY InitMarketInv
<1>2. MarketInv /\ [MarketNext]_allMarketVars => MarketInv'
  BY MarketNextKeepsInv
<1> QED
  BY <1>1, <1>2, PTL DEF MarketSpec

-----------------------------------------------------------------------------
(***************************************************************************)
(* The properties.                                                         *)
(***************************************************************************)

\* Every balance is bounded by the value received.
LEMMA MarketTypesBounded == Settings /\ Positions /\ Ledger => MarketTypeOK
<1> SUFFICES ASSUME Settings, Positions, Ledger
             PROVE  MarketTypeOK
  OBVIOUS
<1>1. MaxMarketFunds \in Nat
  BY MarketAssumption
<1>2. Totals /\ Amounts
  BY TotalsAreNaturals, AmountsAreNaturals
<1>3. /\ \A a \in Forecasters : withdrawablePayouts[a] <= TotalOf(withdrawablePayouts, Forecasters)
      /\ \A a \in Forecasters : withdrawn[a] <= TotalOf(withdrawn, Forecasters)
      /\ TotalOf(withdrawablePayouts, Forecasters) \in Nat /\ TotalOf(withdrawn, Forecasters) \in Nat
  BY FinitePositions, BookTotals DEF Ledger
<1>4. PICK s \in Nat, b \in Nat, w \in Nat : s = Stakes /\ b = BondsHeld
                                             /\ w = TotalOf(withdrawn, Forecasters)
  BY <1>2, <1>3 DEF Totals
<1>5. /\ rewardPoolBalance \in Nat /\ totalWithdrawablePayouts \in Nat
      /\ marketBalance \in Nat /\ marketReceived \in Nat
      /\ totalWithdrawablePayouts = TotalOf(withdrawablePayouts, Forecasters)
      /\ marketBalance = rewardPoolBalance + totalWithdrawablePayouts + s + b
      /\ marketBalance + w = marketReceived /\ marketReceived <= MaxMarketFunds
  BY <1>4 DEF Ledger
<1>6. /\ rewardPoolBalance \in 0 .. MaxMarketFunds /\ marketReceived \in 0 .. MaxMarketFunds
      /\ marketBalance \in 0 .. MaxMarketFunds /\ totalWithdrawablePayouts \in 0 .. MaxMarketFunds
      /\ totalWithdrawablePayouts + w <= MaxMarketFunds
  BY <1>1, <1>5
<1>7. \A a \in Forecasters : /\ withdrawablePayouts[a] \in 0 .. MaxMarketFunds
                             /\ withdrawn[a] \in 0 .. MaxMarketFunds
                             /\ withdrawn[a] + withdrawablePayouts[a] <= MaxMarketFunds
  BY <1>1, <1>3, <1>4, <1>5, <1>6 DEF Ledger
<1>8. ASSUME NEW a \in Forecasters
      PROVE  FromForecasts(a) <= MaxMarketFunds /\ FromChallenges(a) <= MaxMarketFunds
  BY <1>1, <1>2, <1>7 DEF Ledger, Totals
<1>9. ASSUME NEW f \in ForecastIds
      PROVE  forecastPaid[f] \in 0 .. MaxMarketFunds
  <2>1. CASE ~ForecastExists(f)
    BY <1>1, <2>1 DEF Positions, ForecastOver
  <2>2. CASE ForecastExists(f)
    <3> DEFINE a == forecasts[f].forecaster
               paid == [g \in ForecastIds |-> PaidForecast(a, g)]
    <3>1. a \in Forecasters
      BY <2>2, PositionFacts
    <3>2. paid[f] <= SumFunctionOnSet(paid, ForecastIds)
      <4>1. \A g \in ForecastIds : paid[g] \in Nat
        BY <1>2, <3>1 DEF Amounts
      <4> HIDE DEF paid
      <4> QED
        BY <4>1, FinitePositions, SumAbove
    <3>3. paid[f] = forecastPaid[f] /\ SumFunctionOnSet(paid, ForecastIds) = FromForecasts(a)
      BY <2>2 DEF PaidForecast, FromForecasts, TotalOf
    <3>4. forecastPaid[f] \in Nat /\ FromForecasts(a) \in Nat
      BY <1>2, <3>1 DEF Positions, Totals
    <3> HIDE DEF a, paid
    <3> QED
      BY <1>1, <1>8, <3>1, <3>2, <3>3, <3>4
  <2> QED
    BY <2>1, <2>2
<1>10. ASSUME NEW k \in ChallengeIds
       PROVE  challengePaid[k] \in 0 .. MaxMarketFunds
  <2>1. CASE ~ChallengeExists(k)
    BY <1>1, <2>1 DEF Positions, ChallengeOver
  <2>2. CASE ChallengeExists(k)
    <3> DEFINE a == challenges[k].challenger
               paid == [j \in ChallengeIds |-> PaidChallenge(a, j)]
    <3>1. a \in Forecasters
      BY <2>2, PositionFacts
    <3>2. paid[k] <= SumFunctionOnSet(paid, ChallengeIds)
      <4>1. \A j \in ChallengeIds : paid[j] \in Nat
        BY <1>2, <3>1 DEF Amounts
      <4> HIDE DEF paid
      <4> QED
        BY <4>1, FinitePositions, SumAbove
    <3>3. paid[k] = challengePaid[k] /\ SumFunctionOnSet(paid, ChallengeIds) = FromChallenges(a)
      BY <2>2 DEF PaidChallenge, FromChallenges, TotalOf
    <3>4. challengePaid[k] \in Nat /\ FromChallenges(a) \in Nat
      BY <1>2, <3>1 DEF Positions, Totals
    <3> HIDE DEF a, paid
    <3> QED
      BY <1>1, <1>8, <3>1, <3>2, <3>3, <3>4
  <2> QED
    BY <2>1, <2>2
<1> QED
  BY <1>6, <1>7, <1>9, <1>10 DEF MarketTypeOK, Settings, Positions, Ledger

\* What an account got for its forecasts and challenges, counted over them alone.
LEMMA OwnPositions ==
  ASSUME Positions, NEW a \in Forecasters
  PROVE  /\ FromForecasts(a) = SumFunctionOnSet(forecastPaid,
              {f \in ForecastIds : ForecastExists(f) /\ forecasts[f].forecaster = a})
         /\ FromChallenges(a) = SumFunctionOnSet(challengePaid,
              {k \in ChallengeIds : ChallengeExists(k) /\ challenges[k].challenger = a})
<1>1. /\ \A f \in ForecastIds : forecastPaid[f] \in Int
      /\ \A k \in ChallengeIds : challengePaid[k] \in Int
  BY DEF Positions
<1>2. ASSUME NEW T \in SUBSET ForecastIds
      PROVE  SumFunctionOnSet(forecastPaid, T) =
               SumFunctionOnSet([f \in ForecastIds |-> IF f \in T THEN forecastPaid[f] ELSE 0],
                                ForecastIds)
  BY <1>1, FinitePositions, SumOfPart
<1>3. ASSUME NEW T \in SUBSET ChallengeIds
      PROVE  SumFunctionOnSet(challengePaid, T) =
               SumFunctionOnSet([k \in ChallengeIds |-> IF k \in T THEN challengePaid[k] ELSE 0],
                                ChallengeIds)
  BY <1>1, FinitePositions, SumOfPart
<1> DEFINE F == {f \in ForecastIds : ForecastExists(f) /\ forecasts[f].forecaster = a}
           K == {k \in ChallengeIds : ChallengeExists(k) /\ challenges[k].challenger = a}
<1>4. /\ [f \in ForecastIds |-> IF f \in F THEN forecastPaid[f] ELSE 0]
           = [f \in ForecastIds |-> PaidForecast(a, f)]
      /\ [k \in ChallengeIds |-> IF k \in K THEN challengePaid[k] ELSE 0]
           = [k \in ChallengeIds |-> PaidChallenge(a, k)]
  BY DEF PaidForecast, PaidChallenge
<1>5. F \in SUBSET ForecastIds /\ K \in SUBSET ChallengeIds
  OBVIOUS
<1> HIDE DEF F, K
<1>6. FromForecasts(a) = SumFunctionOnSet(forecastPaid, F)
  BY <1>2, <1>4, <1>5 DEF FromForecasts, TotalOf
<1>7. FromChallenges(a) = SumFunctionOnSet(challengePaid, K)
  BY <1>3, <1>4, <1>5 DEF FromChallenges, TotalOf
<1> QED
  BY <1>6, <1>7 DEF F, K

\* EpistemicMarket holds what it owes, and credits an account what its own
\* positions paid.
THEOREM MarketIsSolvent == MarketSpec => []MarketSolvent
<1>1. ASSUME MarketInv
      PROVE  MarketSolvent
  <2>1. MarketTypeOK
    BY <1>1, MarketTypesBounded DEF MarketInv
  <2>2. \A a \in Forecasters :
          withdrawn[a] + withdrawablePayouts[a] =
            SumFunctionOnSet(forecastPaid,
              {f \in ForecastIds : ForecastExists(f) /\ forecasts[f].forecaster = a})
            + SumFunctionOnSet(challengePaid,
              {k \in ChallengeIds : ChallengeExists(k) /\ challenges[k].challenger = a})
    BY <1>1, OwnPositions DEF MarketInv, Ledger
  <2>3. /\ totalWithdrawablePayouts = SumFunctionOnSet(withdrawablePayouts, Forecasters)
        /\ marketBalance = rewardPoolBalance + totalWithdrawablePayouts + Stakes + BondsHeld
    BY <1>1 DEF MarketInv, Ledger, TotalOf
  <2>4. /\ Stakes = SumFunctionOnSet([f \in ForecastIds |->
                      IF ForecastExists(f) /\ ~forecasts[f].settled
                      THEN forecasts[f].stakeAmount ELSE 0], ForecastIds)
        /\ BondsHeld = SumFunctionOnSet([k \in ChallengeIds |->
                         IF ChallengeExists(k) /\ challenges[k].status = "Open"
                         THEN challenges[k].bondAmount ELSE 0], ChallengeIds)
    BY DEF Stakes, BondsHeld, Stake, Bond, TotalOf
  <2> QED
    BY <2>1, <2>2, <2>3, <2>4 DEF MarketSolvent
<1> QED
  BY <1>1, MarketInvariant, PTL

\* A forecast is settled by a decision nobody could have read at the commitment,
\* and pays only what its outcome earns.
THEOREM ForecastsAreNoFreeOptions == MarketSpec => []NoFreeOption
<1>1. MarketInv => NoFreeOption
  BY DEF MarketInv
<1> QED
  BY <1>1, MarketInvariant, PTL

\* settle, forfeit, reclaim, withdraw and resolve: one of them ends a position.
THEOREM PositionsEndOnce == MarketSpec => EndsOnce
<1>1. MarketInv /\ [MarketNext]_allMarketVars =>
        [/\ \A f \in ForecastIds : ForecastOver(f) =>
              forecasts'[f] = forecasts[f] /\ forecastPaid'[f] = forecastPaid[f]
         /\ \A k \in ChallengeIds : ChallengeOver(k) =>
              challenges'[k] = challenges[k] /\ challengePaid'[k] = challengePaid[k]]_allMarketVars
  BY ForecastSteps, ChallengeSteps
<1> QED
  BY <1>1, MarketInvariant, PTL DEF MarketSpec, EndsOnce
=============================================================================
