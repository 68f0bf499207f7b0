------------------------------- MODULE Chain -------------------------------
(***************************************************************************)
(* The chain as the services read it: one block after another, each with   *)
(* at most one event of one claim, its decisions and one forecast on it.   *)
(* The newest blocks may be replaced.  What events may follow one another  *)
(* is what ClaimRegistry and EpistemicMarket emit; a status is its         *)
(* strength, so that every change of it is upward.                         *)
(***************************************************************************)
EXTENDS Integers, FiniteSets, FiniteSetsExt

CONSTANTS
  MaxBlocks,   \* bound: the height of the chain
  MaxStatus,   \* the strongest status
  MaxReorgs,   \* bound: reorganizations
  Depth        \* blocks below the head that are taken as final

ASSUME ChainAssumption ==
  MaxBlocks \in Nat /\ MaxStatus \in Nat /\ MaxReorgs \in Nat /\ Depth \in Nat

VARIABLES
  chain,      \* the canonical blocks, by number; NoBlock above the head
  head,       \* the number of the newest
  fork,       \* reorganizations so far
  confirmed,  \* history: the highest block that ever lay Depth below the head
  deep        \* history: a confirmed block was replaced

chainVars == <<chain, head, fork, confirmed, deep>>

Heights == 1 .. MaxBlocks

\* What a block does: the status it gives the claim (0: none), the decision it
\* records or settles the forecast with (0: none), the branch it was mined on.
EventKind == {"empty", "created", "status", "decided", "committed", "settled"}
Block == [kind : EventKind, status : 0 .. MaxStatus, decision : 0 .. MaxBlocks, fork : 0 .. MaxReorgs]
NoBlock == [kind |-> "none"]

MaxOrZero(S) == IF S = {} THEN 0 ELSE Max(S)

\* The records of the contracts after block n.
StatusAt(n) ==
  LET i == MaxOrZero({j \in 1 .. n : chain[j].status # 0})
  IN IF i = 0 THEN 0 ELSE chain[i].status
DecisionsAt(n) == {chain[i] : i \in {j \in 1 .. n : chain[j].kind = "decided"}}
EffectiveAt(n) ==
  LET i == MaxOrZero({j \in 1 .. n : chain[j].kind = "decided" /\ chain[j].status # 0})
  IN IF i = 0 THEN 0 ELSE chain[i].decision
NoForecast == [settled |-> FALSE, decision |-> -1]
ForecastAt(n) ==
  LET S == {j \in 1 .. n : chain[j].kind = "settled"}
  IN IF \A j \in 1 .. n : chain[j].kind # "committed" THEN NoForecast
     ELSE IF S = {} THEN [settled |-> FALSE, decision |-> 0]
     ELSE [settled |-> TRUE, decision |-> chain[Max(S)].decision]

\* A hash commits to its block and all below.
Hash(n) == [i \in 1 .. n |-> chain[i]]
NoHash == <<>>

ChainInit ==
  /\ chain = [i \in Heights |-> NoBlock]
  /\ head = 0 /\ fork = 0 /\ confirmed = 0 /\ deep = FALSE

Confirm == confirmed' = MaxOrZero({confirmed, head' - Depth})

\* The events that may come next: a status only moves up, decisions are numbered
\* and may establish a status, a forecast is settled by nothing (forfeited,
\* reclaimed) or by a decision that became effective after its commit.
NextEvent(kind, status, decision) ==
  CASE kind = "empty"     -> status = 0 /\ decision = 0
    [] kind = "created"   -> StatusAt(head) = 0 /\ status = 1 /\ decision = 0
    [] kind = "status"    -> StatusAt(head) # 0 /\ status > StatusAt(head) /\ decision = 0
    [] kind = "decided"   -> /\ StatusAt(head) # 0
                             /\ status = 0 \/ status > StatusAt(head)
                             /\ decision = Cardinality(DecisionsAt(head)) + 1
    [] kind = "committed" -> /\ StatusAt(head) # 0 /\ ForecastAt(head) = NoForecast
                             /\ status = 0 /\ decision = 0
    [] kind = "settled"   -> /\ ForecastAt(head) = [settled |-> FALSE, decision |-> 0]
                             /\ status = 0
                             /\ \/ decision = 0
                                \/ /\ decision = EffectiveAt(head)
                                   /\ \E i \in 1 .. head : /\ chain[i].kind = "committed"
                                                           /\ decision > EffectiveAt(i)
    [] OTHER -> FALSE

Mine(kind, status, decision) ==
  /\ head < MaxBlocks
  /\ NextEvent(kind, status, decision)
  /\ chain' = [chain EXCEPT ![head + 1] =
       [kind |-> kind, status |-> status, decision |-> decision, fork |-> fork]]
  /\ head' = head + 1
  /\ Confirm
  /\ UNCHANGED <<fork, deep>>

\* The blocks above n are orphaned; others are mined in their place.
Reorganize(n) ==
  /\ n < head /\ fork < MaxReorgs
  /\ chain' = [i \in Heights |-> IF i <= n THEN chain[i] ELSE NoBlock]
  /\ head' = n
  /\ fork' = fork + 1
  /\ deep' = (deep \/ n < confirmed)
  /\ UNCHANGED confirmed

ChainStep ==
  \/ \E kind \in EventKind, status \in 0 .. MaxStatus, decision \in 0 .. MaxBlocks :
       Mine(kind, status, decision)
  \/ \E n \in 0 .. MaxBlocks : Reorganize(n)
=============================================================================
