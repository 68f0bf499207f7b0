------------------------- MODULE MCEpistemicMarket -------------------------
(* EpistemicMarket on small instances. *)
EXTENDS EpistemicMarket, TLC

CONSTANTS a1, a2

(* One resolution for every direction. *)
OneEach ==
  \A d \in DecisionIds : outcome'[d][2] \in {"Pending", "Supported", "Inconclusive", "Refuted"}

(* Two accounts that keep control of one agent, and no pause ...           *)
BoundedInit == AllMarketInit /\ controllers = {a1, a2}
(* ... with a forecast and a challenge under one decision ...              *)
LedgerPart == outcome'[2] = NoOutcome /\ OneEach
(* ... or one forecast against two decisions.                              *)
OutcomePart ==
  /\ \A k \in ChallengeIds : ~ChallengeExists(k)'
  /\ marketReceived' <= 2

Symmetric == Permutations({a1, a2})

BoundedNext ==
  /\ MarketNext
  /\ LedgerPart \/ OutcomePart
  /\ UNCHANGED <<controllers, marketDepositsPaused>>
BoundedSpec == BoundedInit /\ [][BoundedNext]_allMarketVars

(* For the exits, which do not depend on the outcome. *)
ExitNext == MarketNext /\ OneEach
ExitSpec == AllMarketInit /\ [][ExitNext]_allMarketVars /\ MarketFairness
=============================================================================
