---------------------------- MODULE RewardShares ----------------------------
(***************************************************************************)
(* The arithmetic of src/rewards/policy.ts: how the quality of completed   *)
(* work, the balance of the pool that pays for it and the attention its    *)
(* claim gets become the amount the policy wants each item to have been    *)
(* paid.                                                                   *)
(*                                                                         *)
(* Rates are in basis points.  The candidates of a group are a finite set, *)
(* with their qualities, their buckets and their places in the order in    *)
(* which the tables list them as functions on it; an item that is no       *)
(* candidate yet is one of quality zero, which is paid nothing and ranks   *)
(* below every other.  A missing operator or recipient is a bucket of the  *)
(* item's own.                                                             *)
(*                                                                         *)
(* A definition whose name begins with Bug is one the model does not use:  *)
(* its neighbour with a defect the properties must notice.                 *)
(***************************************************************************)
EXTENDS Integers, FiniteSets, Functions

BpsScale == 10000

\* The entry of POLICY_CONFIG for a kind of work.
Config ==
  [baseReward : Nat, distributionFraction : 0 .. BpsScale, fundingTarget : Nat,
   minimumQuality : Nat]

ClampInteger(value, low, high) ==
  IF value < low THEN low ELSE IF value > high THEN high ELSE value

\* Math.round of a quotient that is not negative.
Rounded(n, d) == (2 * n + d) \div (2 * d)

-----------------------------------------------------------------------------
(***************************************************************************)
(* What repeated work of one kind, operator, agent or recipient is worth.  *)
(***************************************************************************)

\* The place of an item in its bucket once sorted, best first; the sort is stable.
Rank(S, quality, bucket, place, i) ==
  Cardinality({j \in S : bucket[j] = bucket[i]
                 /\ \/ quality[j] > quality[i]
                    \/ quality[j] = quality[i] /\ place[j] < place[i]})

DiscountBps(rank, step, minimum) ==
  IF BpsScale - rank * step < minimum THEN minimum ELSE BpsScale - rank * step

ApplyRankDiscounts(S, quality, bucket, place, step, minimum) ==
  [i \in S |->
     Rounded(quality[i] * DiscountBps(Rank(S, quality, bucket, place, i), step, minimum),
             BpsScale)]

\* applyRedundancyDiscounts, then applyRecipientConcentrationDiscounts.
ApplyCandidateQualityDiscounts(S, quality, work, place) ==
  LET ByRedundancy ==
        ApplyRankDiscounts(S, quality, [i \in S |-> "__all__"], place, 1500, 5500)
      ByOperator ==
        ApplyRankDiscounts(S, ByRedundancy, [i \in S |-> work[i].operator], place, 1250, 6000)
      ByIdentity ==
        ApplyRankDiscounts(S, ByOperator, [i \in S |-> work[i].identity], place, 1500, 5000)
  IN ApplyRankDiscounts(S, ByIdentity, [i \in S |-> work[i].recipient], place, 2000, 4500)

-----------------------------------------------------------------------------
(***************************************************************************)
(* The shares of a pool.                                                   *)
(***************************************************************************)
PoolPressureBps(balance, fundingTarget) ==
  IF fundingTarget = 0 THEN BpsScale
  ELSE ClampInteger((balance * BpsScale) \div fundingTarget, 5000, 20000)

MarketPressureBps(config, balance, attention) ==
  ClampInteger((PoolPressureBps(balance, config.fundingTarget) * attention) \div BpsScale,
               5000, 25000)

DistributablePool(config, balance, attention) ==
  ClampInteger((((balance * config.distributionFraction) \div BpsScale) * attention)
                 \div BpsScale,
               0, balance)

RawTarget(config, quality, pressure) ==
  IF quality < config.minimumQuality THEN 0
  ELSE (config.baseReward * quality * pressure) \div (BpsScale * BpsScale)

BugShare(distributable, raw, total) ==  \* rounded up, in favour of the work
  IF total = 0 THEN 0 ELSE (distributable * raw + total - 1) \div total

\* What one raw target of the sum of all gets.
Share(distributable, raw, total) ==
  IF total = 0 THEN 0 ELSE (distributable * raw) \div total

DeriveRewardTargetsForGroup(config, S, quality, balance, attention) ==
  LET pressure == MarketPressureBps(config, balance, attention)
      raw == [i \in S |-> RawTarget(config, quality[i], pressure)]
      total == SumFunctionOnSet(raw, S)
  IN [i \in S |-> Share(DistributablePool(config, balance, attention), raw[i], total)]
=============================================================================
