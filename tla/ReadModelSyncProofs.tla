-------------------------- MODULE ReadModelSyncProofs --------------------------
(***************************************************************************)
(* Proofs about the indexer, for a chain of any height, any number of      *)
(* processes that sync, any size of their chunks and any number of crashes *)
(* and errors.  First what the blocks of a chain have in common, then the  *)
(* rows: what every one of them was read or computed from.                 *)
(***************************************************************************)
EXTENDS ReadModelSync, SumTheorems, Sequences

(***************************************************************************)
(* Newest blocks.                                                          *)
(***************************************************************************)

\* A nonempty set of heights has a greatest.
LEMMA MaxIsGreatest ==
  ASSUME NEW n \in Nat, NEW S \in SUBSET (1 .. n), S # {}
  PROVE  /\ MaxOrZero(S) = Max(S) /\ Max(S) \in S /\ \A j \in S : j <= Max(S)
<1> DEFINE T == {n - j : j \in S}
<1>1. T \in SUBSET Nat /\ T # {}
  <2>1. \A j \in S : n - j \in Nat
    OBVIOUS
  <2> QED
    BY <2>1
<1>2. PICK t \in T : \A u \in T : t <= u
  <2> HIDE DEF T
  <2> QED
    BY <1>1, LeastNatural
<1>3. PICK m \in S : t = n - m
  BY <1>2
<1>4. ASSUME NEW j \in S
      PROVE  m >= j
  <2>1. n - m <= n - j
    BY <1>2, <1>3
  <2>2. m \in Int /\ j \in Int
    OBVIOUS
  <2> QED
    BY <2>1, <2>2
<1>5. Max(S) \in S /\ \A j \in S : Max(S) >= j
  BY <1>3, <1>4 DEF Max
<1> QED
  BY <1>5 DEF MaxOrZero

\* The greater of two numbers, one of them natural.
LEMMA MaxOfTwo ==
  ASSUME NEW a \in Nat, NEW b \in Int
  PROVE  MaxOrZero({a, b}) = IF a >= b THEN a ELSE b
<1>1. Max({a, b}) = IF a >= b THEN a ELSE b
  BY DEF Max
<1> QED
  BY <1>1 DEF MaxOrZero

\* The smaller of two.
LEMMA MinOfTwo ==
  ASSUME NEW a \in Nat, NEW b \in Nat
  PROVE  Min({a, b}) = IF a <= b THEN a ELSE b
BY DEF Min

(***************************************************************************)
(* Chains.                                                                 *)
(***************************************************************************)
ChainTypes ==
  /\ chain \in [Heights -> Block \cup {NoBlock}]
  /\ head \in 0 .. MaxBlocks
  /\ \A i \in 1 .. head : chain[i] \in Block
  /\ fork \in 0 .. MaxReorgs
  /\ confirmed \in 0 .. MaxBlocks
  /\ deep \in BOOLEAN

\* As long as nothing confirmed is replaced, the head is not below what was confirmed.
Confirmations ==
  /\ head - Depth <= confirmed
  /\ deep = FALSE => confirmed <= head
  /\ fork = 0 => deep = FALSE

\* What the events of a claim have in common: the status grows, it is created and
\* its forecast is committed and settled once, and decisions are numbered.
EventsInOrder ==
  /\ \A j \in 1 .. head :
       /\ chain[j].kind = "created" => chain[j].status = 1
       /\ chain[j].kind \in {"empty", "committed", "settled"} => chain[j].status = 0
       /\ chain[j].kind = "settled" => \E i \in 1 .. j - 1 : chain[i].kind = "committed"
       /\ \A i \in 1 .. j - 1 :
            /\ chain[j].status # 0 => chain[i].status < chain[j].status
            /\ chain[j].kind = "decided" /\ chain[i].kind = "decided" =>
                 chain[i].decision < chain[j].decision
            /\ chain[j].kind \in {"committed", "settled"} => chain[i].kind # chain[j].kind
  /\ \A n \in 0 .. head : \A i \in 1 .. n :
       chain[i].kind = "decided" => chain[i].decision <= Cardinality(DecisionsAt(n))

ChainInv == ChainTypes /\ Confirmations /\ EventsInOrder


\* The status after a block is that of the last event that gave one.
LEMMA StatusIsLast ==
  ASSUME NEW n \in Nat
  PROVE  \/ StatusAt(n) = 0 /\ \A j \in 1 .. n : chain[j].status = 0
         \/ \E i \in 1 .. n : /\ StatusAt(n) = chain[i].status /\ chain[i].status # 0
                              /\ \A j \in 1 .. n : chain[j].status # 0 => j <= i
<1> DEFINE S == {j \in 1 .. n : chain[j].status # 0}
<1>1. S \in SUBSET (1 .. n)
  OBVIOUS
<1>2. CASE S = {}
  BY <1>2 DEF StatusAt, MaxOrZero
<1>3. CASE S # {}
  <2>1. MaxOrZero(S) \in S /\ \A j \in S : j <= MaxOrZero(S)
    <3> HIDE DEF S
    <3> QED
      BY <1>1, <1>3, MaxIsGreatest
  <2>2. StatusAt(n) = chain[MaxOrZero(S)].status
    BY <2>1 DEF StatusAt
  <2> QED
    BY <2>1, <2>2
<1> QED
  BY <1>2, <1>3

\* The effective decision after a block is the last that gave a status.
LEMMA EffectiveIsLast ==
  ASSUME NEW n \in Nat
  PROVE  LET Gives(j) == chain[j].kind = "decided" /\ chain[j].status # 0
         IN \/ EffectiveAt(n) = 0 /\ \A j \in 1 .. n : ~Gives(j)
            \/ \E i \in 1 .. n : /\ EffectiveAt(n) = chain[i].decision /\ Gives(i)
                                 /\ \A j \in 1 .. n : Gives(j) => j <= i
<1> DEFINE S == {j \in 1 .. n : chain[j].kind = "decided" /\ chain[j].status # 0}
<1>1. S \in SUBSET (1 .. n)
  OBVIOUS
<1>2. CASE S = {}
  BY <1>2 DEF EffectiveAt, MaxOrZero
<1>3. CASE S # {}
  <2>1. MaxOrZero(S) \in S /\ \A j \in S : j <= MaxOrZero(S)
    <3> HIDE DEF S
    <3> QED
      BY <1>1, <1>3, MaxIsGreatest
  <2>2. EffectiveAt(n) = chain[MaxOrZero(S)].decision
    BY <2>1 DEF EffectiveAt
  <2> QED
    BY <2>1, <2>2
<1> QED
  BY <1>2, <1>3

\* What the records say of a block depends on the blocks up to there.
LEMMA BlocksDecide ==
  ASSUME NEW n \in Nat, \A i \in 1 .. n : chain'[i] = chain[i]
  PROVE  /\ StatusAt(n)' = StatusAt(n) /\ DecisionsAt(n)' = DecisionsAt(n)
         /\ EffectiveAt(n)' = EffectiveAt(n) /\ ForecastAt(n)' = ForecastAt(n)
         /\ Hash(n)' = Hash(n)
<1>1. {j \in 1 .. n : chain'[j].status # 0} = {j \in 1 .. n : chain[j].status # 0}
  OBVIOUS
<1>2. StatusAt(n)' = StatusAt(n)
  <2>1. CASE {j \in 1 .. n : chain[j].status # 0} = {}
    BY <1>1, <2>1 DEF StatusAt, MaxOrZero
  <2>2. CASE {j \in 1 .. n : chain[j].status # 0} # {}
    <3> DEFINE S == {j \in 1 .. n : chain[j].status # 0}
    <3>1. S \in SUBSET (1 .. n)
      OBVIOUS
    <3>2. MaxOrZero(S) \in S
      <4> HIDE DEF S
      <4> QED
        BY <2>2, <3>1, MaxIsGreatest DEF S
    <3> QED
      BY <1>1, <3>2 DEF StatusAt
  <2> QED
    BY <2>1, <2>2
<1>3. EffectiveAt(n)' = EffectiveAt(n)
  <2> DEFINE S == {j \in 1 .. n : chain[j].kind = "decided" /\ chain[j].status # 0}
             T == {j \in 1 .. n : chain'[j].kind = "decided" /\ chain'[j].status # 0}
  <2>1. S = T /\ S \in SUBSET (1 .. n)
    OBVIOUS
  <2>2. S = {} \/ MaxOrZero(S) \in S
    <3> HIDE DEF S, T
    <3> QED
      BY <2>1, MaxIsGreatest
  <2>3. CASE S = {}
    BY <2>1, <2>3 DEF EffectiveAt, MaxOrZero
  <2>4. CASE MaxOrZero(S) \in S
    BY <2>1, <2>4 DEF EffectiveAt
  <2> QED
    BY <2>2, <2>3, <2>4
<1>4. ForecastAt(n)' = ForecastAt(n)
  <2> DEFINE S == {j \in 1 .. n : chain[j].kind = "settled"}
             T == {j \in 1 .. n : chain'[j].kind = "settled"}
  <2>1. S = T /\ S \in SUBSET (1 .. n)
    OBVIOUS
  <2>2. S = {} \/ Max(S) \in S
    <3> HIDE DEF S, T
    <3> QED
      BY <2>1, MaxIsGreatest
  <2>3. (\A j \in 1 .. n : chain'[j].kind # "committed") <=>
          (\A j \in 1 .. n : chain[j].kind # "committed")
    OBVIOUS
  <2>4. S # {} => Max(S) \in 1 .. n
    BY <2>2
  <2> HIDE DEF S, T
  <2>5. CASE \A j \in 1 .. n : chain[j].kind # "committed"
    BY <2>3, <2>5 DEF ForecastAt
  <2>6. CASE ~(\A j \in 1 .. n : chain[j].kind # "committed") /\ S = {}
    <3>1. ForecastAt(n) = [settled |-> FALSE, decision |-> 0]
      BY <2>6 DEF ForecastAt, S
    <3>2. ForecastAt(n)' = [settled |-> FALSE, decision |-> 0]
      BY <2>1, <2>3, <2>6 DEF ForecastAt, T
    <3> QED
      BY <3>1, <3>2
  <2>7. CASE ~(\A j \in 1 .. n : chain[j].kind # "committed") /\ S # {}
    <3>1. ForecastAt(n) = [settled |-> TRUE, decision |-> chain[Max(S)].decision]
      BY <2>7 DEF ForecastAt, S
    <3>2. ForecastAt(n)' = [settled |-> TRUE, decision |-> chain'[Max(T)].decision]
      BY <2>1, <2>3, <2>7 DEF ForecastAt, T
    <3> QED
      BY <2>1, <2>4, <2>7, <3>1, <3>2
  <2> QED
    BY <2>5, <2>6, <2>7
<1> QED
  BY <1>2, <1>3, <1>4 DEF DecisionsAt, Hash

\* A forecast is none, open or settled.
LEMMA ForecastIsLast ==
  ASSUME NEW n \in Nat
  PROVE  \/ /\ ForecastAt(n) = NoForecast
            /\ \A j \in 1 .. n : chain[j].kind # "committed"
         \/ /\ ForecastAt(n) = [settled |-> FALSE, decision |-> 0]
            /\ \E j \in 1 .. n : chain[j].kind = "committed"
            /\ \A j \in 1 .. n : chain[j].kind # "settled"
         \/ /\ \E j \in 1 .. n : chain[j].kind = "committed"
            /\ \E i \in 1 .. n : /\ chain[i].kind = "settled"
                                 /\ ForecastAt(n) = [settled |-> TRUE, decision |-> chain[i].decision]
                                 /\ \A j \in 1 .. n : chain[j].kind = "settled" => j <= i
<1> DEFINE S == {j \in 1 .. n : chain[j].kind = "settled"}
<1>1. S \in SUBSET (1 .. n)
  OBVIOUS
<1>2. S # {} => Max(S) \in S /\ \A j \in S : j <= Max(S)
  <2> HIDE DEF S
  <2> QED
    BY <1>1, MaxIsGreatest
<1>3. CASE \A j \in 1 .. n : chain[j].kind # "committed"
  <2>1. ForecastAt(n) = NoForecast
    BY <1>3 DEF ForecastAt
  <2> QED
    BY <1>3, <2>1
<1>4. CASE (\E j \in 1 .. n : chain[j].kind = "committed") /\ S = {}
  <2>1. ForecastAt(n) = [settled |-> FALSE, decision |-> 0]
    BY <1>4 DEF ForecastAt
  <2> QED
    BY <1>4, <2>1
<1>5. CASE (\E j \in 1 .. n : chain[j].kind = "committed") /\ S # {}
  <2>1. ForecastAt(n) = [settled |-> TRUE, decision |-> chain[Max(S)].decision]
    BY <1>5 DEF ForecastAt
  <2> QED
    BY <1>2, <1>5, <2>1
<1> QED
  BY <1>3, <1>4, <1>5

\* The decisions up to a block are finitely many.
LEMMA DecisionsAreFinite ==
  ASSUME NEW n \in Nat
  PROVE  IsFiniteSet(DecisionsAt(n)) /\ Cardinality(DecisionsAt(n)) \in Nat
<1> DEFINE D == {j \in 1 .. n : chain[j].kind = "decided"}
<1>1. D \in SUBSET (1 .. n) /\ IsFiniteSet(1 .. n)
  BY FS_Interval
<1> HIDE DEF D
<1>2. IsFiniteSet(D)
  BY <1>1, FS_Subset
<1>3. [i \in D |-> chain[i]] \in Surjection(D, DecisionsAt(n))
  BY DEF Surjection, DecisionsAt, D
<1>4. IsFiniteSet(DecisionsAt(n))
  BY <1>2, <1>3, FS_Surjection
<1> QED
  BY <1>4, FS_CardinalityType

\* What a chain has in common is not disturbed by the next block ...
LEMMA MineKeepsChain ==
  ASSUME ChainInv, NEW kind \in EventKind, NEW status \in 0 .. MaxStatus,
         NEW decision \in 0 .. MaxBlocks, Mine(kind, status, decision)
  PROVE  ChainInv'
<1> ChainTypes /\ Confirmations /\ EventsInOrder
  BY DEF ChainInv
<1> DEFINE new == [kind |-> kind, status |-> status, decision |-> decision, fork |-> fork]
<1>1. /\ head < MaxBlocks /\ head \in Nat /\ head' = head + 1 /\ NextEvent(kind, status, decision)
      /\ chain' = [chain EXCEPT ![head + 1] = new]
      /\ confirmed' = MaxOrZero({confirmed, head' - Depth})
      /\ UNCHANGED <<fork, deep>>
  BY DEF Mine, Confirm, ChainTypes
<1>2. /\ new \in Block /\ new.kind = kind /\ new.status = status /\ new.decision = decision
      /\ head + 1 \in Heights
  BY <1>1, ChainAssumption DEF Block, ChainTypes, Heights
<1> HIDE DEF new
<1>3. /\ \A i \in 1 .. head : chain'[i] = chain[i] /\ chain[i] \in Block
      /\ chain'[head + 1] = new
  BY <1>1, <1>2, ChainAssumption DEF ChainTypes, Heights
<1>4. ChainTypes' /\ Confirmations'
  <2>1. head + 1 - Depth \in Int /\ confirmed \in Nat /\ Depth \in Nat /\ MaxBlocks \in Nat
    BY <1>1, ChainAssumption DEF ChainTypes
  <2>2. confirmed' = IF confirmed >= head + 1 - Depth THEN confirmed ELSE head + 1 - Depth
    BY <1>1, <2>1, MaxOfTwo
  <2>3. confirmed' \in 0 .. MaxBlocks
    BY <1>1, <2>1, <2>2 DEF ChainTypes
  <2>4. ChainTypes'
    BY <1>1, <1>2, <1>3, <2>3, ChainAssumption DEF ChainTypes
  <2>5. Confirmations'
    BY <1>1, <2>1, <2>2 DEF Confirmations
  <2> QED
    BY <2>4, <2>5
<1>5. \A i \in 1 .. head : chain[i].status <= StatusAt(head)
  BY <1>1, <1>3, StatusIsLast DEF EventsInOrder, Block
<1>6. \A i \in 1 .. head : chain[i].kind = "decided" =>
        chain[i].decision <= Cardinality(DecisionsAt(head))
  BY <1>1 DEF EventsInOrder
<1>7. Cardinality(DecisionsAt(head)) \in Nat /\ IsFiniteSet(DecisionsAt(head))
  BY <1>1, DecisionsAreFinite
<1>8. \A i \in 1 .. head : chain[i].status \in Nat /\ chain[i].decision \in Nat
  BY <1>3 DEF Block
<1>9. /\ kind = "created" => status = 1 /\ StatusAt(head) = 0
      /\ kind \in {"empty", "committed", "settled"} => status = 0
      /\ status # 0 => status > StatusAt(head)
      /\ kind = "decided" => decision = Cardinality(DecisionsAt(head)) + 1
      /\ kind = "committed" => ForecastAt(head) = NoForecast
      /\ kind = "settled" => ForecastAt(head) = [settled |-> FALSE, decision |-> 0]
  BY <1>1 DEF NextEvent, EventKind
<1>10. /\ kind = "committed" => \A i \in 1 .. head : chain[i].kind # "committed"
       /\ kind = "settled" => /\ \A i \in 1 .. head : chain[i].kind # "settled"
                              /\ \E i \in 1 .. head : chain[i].kind = "committed"
  <2>1. \A i \in 1 .. head : chain[i].decision # -1
    BY <1>8
  <2>2. ASSUME kind = "committed"
        PROVE  \A i \in 1 .. head : chain[i].kind # "committed"
    BY <1>1, <1>9, <2>1, <2>2, ForecastIsLast DEF NoForecast
  <2>3. ASSUME kind = "settled"
        PROVE  /\ \A i \in 1 .. head : chain[i].kind # "settled"
               /\ \E i \in 1 .. head : chain[i].kind = "committed"
    BY <1>1, <1>9, <2>3, ForecastIsLast DEF NoForecast
  <2> QED
    BY <2>2, <2>3
<1>11. ASSUME NEW j \in 1 .. head'
       PROVE  /\ chain'[j].kind = "created" => chain'[j].status = 1
              /\ chain'[j].kind \in {"empty", "committed", "settled"} => chain'[j].status = 0
              /\ chain'[j].kind = "settled" => \E i \in 1 .. j - 1 : chain'[i].kind = "committed"
              /\ \A i \in 1 .. j - 1 :
                   /\ chain'[j].status # 0 => chain'[i].status < chain'[j].status
                   /\ chain'[j].kind = "decided" /\ chain'[i].kind = "decided" =>
                        chain'[i].decision < chain'[j].decision
                   /\ chain'[j].kind \in {"committed", "settled"} => chain'[i].kind # chain'[j].kind
  <2>1. CASE j \in 1 .. head
    <3>1. \A i \in 1 .. j - 1 : i \in 1 .. head
      BY <1>1, <2>1
    <3> QED
      BY <1>3, <2>1, <3>1 DEF EventsInOrder
  <2>2. CASE j = head + 1
    <3>1. 1 .. j - 1 = 1 .. head
      BY <1>1, <2>2
    <3>2. StatusAt(head) \in Nat
      BY <1>1, <1>8, StatusIsLast
    <3>3. chain'[j].kind = kind /\ chain'[j].status = status /\ chain'[j].decision = decision
      BY <1>2, <1>3, <2>2
    <3>4. status \in Nat /\ decision \in Nat
      OBVIOUS
    <3>5. ASSUME NEW i \in 1 .. head
          PROVE  /\ status # 0 => chain'[i].status < status
                 /\ kind = "decided" /\ chain'[i].kind = "decided" => chain'[i].decision < decision
                 /\ kind \in {"committed", "settled"} => chain'[i].kind # kind
      <4>1. status # 0 => chain'[i].status < status
        <5>1. chain'[i] = chain[i] /\ chain[i].status \in Nat /\ chain[i].status <= StatusAt(head)
          BY <1>3, <1>5, <1>8
        <5> QED
          BY <1>9, <3>2, <3>4, <5>1
      <4>2. kind = "decided" /\ chain'[i].kind = "decided" => chain'[i].decision < decision
        <5>1. chain'[i] = chain[i] /\ chain[i].decision \in Nat
          BY <1>3, <1>8
        <5> QED
          BY <1>6, <1>7, <1>9, <3>4, <5>1
      <4>3. kind \in {"committed", "settled"} => chain'[i].kind # kind
        BY <1>3, <1>10
      <4> QED
        BY <4>1, <4>2, <4>3
    <3>6. kind = "settled" => \E i \in 1 .. j - 1 : chain'[i].kind = "committed"
      BY <1>3, <1>10, <3>1
    <3>7. /\ kind = "created" => status = 1
          /\ kind \in {"empty", "committed", "settled"} => status = 0
      BY <1>9
    <3> QED
      BY <3>1, <3>3, <3>5, <3>6, <3>7
  <2> QED
    BY <1>1, <2>1, <2>2
<1>12. ASSUME NEW n \in 0 .. head', NEW i \in 1 .. n, chain'[i].kind = "decided"
       PROVE  chain'[i].decision <= Cardinality(DecisionsAt(n)')
  <2>1. CASE n <= head
    <3>1. n \in 0 .. head /\ i \in 1 .. head /\ \A k \in 1 .. n : k \in 1 .. head
      BY <1>1, <2>1
    <3>2. DecisionsAt(n)' = DecisionsAt(n)
      BY <1>3, <3>1, BlocksDecide
    <3> QED
      BY <1>3, <1>12, <3>1, <3>2 DEF EventsInOrder
  <2>2. CASE n = head + 1 /\ kind = "decided"
    <3> DEFINE D == DecisionsAt(head)
    <3>1. DecisionsAt(n)' = D \cup {new}
      <4>1. {j \in 1 .. n : chain'[j].kind = "decided"} =
              {j \in 1 .. head : chain[j].kind = "decided"} \cup {head + 1}
        BY <1>1, <1>2, <1>3, <2>2
      <4> QED
        BY <1>3, <4>1 DEF DecisionsAt
    <3>2. new \notin D
      <4> SUFFICES ASSUME new \in D PROVE FALSE
        OBVIOUS
      <4>1. PICK k \in 1 .. head : chain[k].kind = "decided" /\ new = chain[k]
        BY DEF DecisionsAt
      <4> QED
        BY <1>2, <1>6, <1>7, <1>8, <1>9, <2>2, <4>1
    <3>3. Cardinality(D \cup {new}) = Cardinality(D) + 1
      <4> HIDE DEF D
      <4> QED
        BY <1>7, <3>2, FS_AddElement DEF D
    <3>4. CASE i \in 1 .. head
      BY <1>3, <1>6, <1>7, <1>8, <1>12, <3>1, <3>3, <3>4
    <3>5. CASE i = head + 1
      <4>1. chain'[i].decision = decision
        BY <1>2, <1>3, <3>5
      <4>2. decision = Cardinality(D) + 1
        BY <1>9, <2>2
      <4>3. Cardinality(DecisionsAt(n)') = Cardinality(D) + 1
        BY <3>1, <3>3
      <4>4. Cardinality(D) + 1 \in Nat
        BY <1>7
      <4> HIDE DEF D
      <4> QED
        BY <4>1, <4>2, <4>3, <4>4
    <3> QED
      BY <1>1, <2>2, <3>4, <3>5
  <2>3. CASE n = head + 1 /\ kind # "decided"
    <3>1. DecisionsAt(n)' = DecisionsAt(head)
      <4>1. {j \in 1 .. n : chain'[j].kind = "decided"} =
              {j \in 1 .. head : chain[j].kind = "decided"}
        BY <1>1, <1>2, <1>3, <2>3
      <4> QED
        BY <1>3, <4>1 DEF DecisionsAt
    <3>2. i \in 1 .. head
      BY <1>1, <1>2, <1>3, <1>12, <2>3
    <3> QED
      BY <1>3, <1>6, <1>12, <3>1, <3>2
  <2> QED
    BY <1>1, <2>1, <2>2, <2>3
<1>13. EventsInOrder'
  BY <1>11, <1>12 DEF EventsInOrder
<1> QED
  BY <1>4, <1>13 DEF ChainInv

\* ... nor by a reorganization.
LEMMA ReorganizeKeepsChain ==
  ASSUME ChainInv, NEW m \in 0 .. MaxBlocks, Reorganize(m)
  PROVE  ChainInv' /\ (deep' = FALSE => deep = FALSE /\ confirmed <= m)
<1> ChainTypes /\ Confirmations /\ EventsInOrder
  BY DEF ChainInv
<1>1. /\ m < head /\ head \in Nat /\ head' = m /\ fork' = fork + 1 /\ fork < MaxReorgs
      /\ chain' = [i \in Heights |-> IF i <= m THEN chain[i] ELSE NoBlock]
      /\ UNCHANGED confirmed
  BY DEF Reorganize, ChainTypes
<1>2. deep' \in BOOLEAN /\ (deep' = FALSE => deep = FALSE /\ ~(m < confirmed))
  BY Zenon DEF Reorganize, ChainTypes
<1>3. /\ m \in Nat /\ confirmed \in Nat /\ Depth \in Nat /\ fork \in Nat /\ MaxReorgs \in Nat
      /\ MaxBlocks \in Nat
  BY ChainAssumption DEF ChainTypes
<1>4. \A i \in 1 .. m : i \in 1 .. head /\ chain'[i] = chain[i]
  BY <1>1, <1>3 DEF ChainTypes, Heights
<1>5. ChainTypes'
  BY <1>1, <1>2, <1>3, <1>4 DEF ChainTypes, Heights
<1>6. Confirmations'
  BY <1>1, <1>2, <1>3 DEF Confirmations
<1>7. EventsInOrder'
  <2>1. ASSUME NEW j \in 1 .. m
        PROVE  /\ chain'[j] = chain[j] /\ j \in 1 .. head
               /\ \A i \in 1 .. j - 1 : chain'[i] = chain[i]
    BY <1>3, <1>4
  <2>2. ASSUME NEW n \in 0 .. m
        PROVE  DecisionsAt(n)' = DecisionsAt(n) /\ n \in 0 .. head
    BY <1>1, <1>3, <1>4, BlocksDecide
  <2>3. ASSUME NEW n \in 0 .. m, NEW i \in 1 .. n, chain'[i].kind = "decided"
        PROVE  chain'[i].decision <= Cardinality(DecisionsAt(n)')
    <3>1. i \in 1 .. m
      BY <1>3
    <3> QED
      BY <1>4, <2>2, <2>3, <3>1 DEF EventsInOrder
  <2> QED
    BY <1>1, <2>1, <2>3, SMTT(60) DEF EventsInOrder
<1> QED
  BY <1>2, <1>3, <1>5, <1>6, <1>7 DEF ChainInv

-----------------------------------------------------------------------------
(***************************************************************************)
(* Syncs.  Who holds the lock works on the blocks that follow the cursor,  *)
(* none of them above what was once confirmed: a stale target, a crash or  *)
(* another process in between leave nothing else behind.                   *)
(***************************************************************************)
Segments == UNION {[D -> Block] : D \in SUBSET Heights}
Branches == UNION {[1 .. n -> Block \cup {NoBlock}] : n \in 0 .. MaxBlocks}
Chunks == Segments \cup {<<>>}
Hashes == Branches \cup {NoHash}
Forecasts == [settled : BOOLEAN, decision : Int]
Sync ==
  [pc : {"idle", "started", "locked", "ready", "fetched", "hashed", "read", "finishing"},
   latest : Nat, from : Nat, to : Nat, events : Chunks, hash : Hashes,
   claim : Nat, forecast : Forecasts]

SyncTypes ==
  /\ syncs \in [Syncers -> Sync]
  /\ cursor \in Nat /\ latestBlock \in Nat
  /\ checkpoints \in [Heights -> Hashes]

\* The lock is held by the process that works, and by nobody else.
LockInv == \A p \in Syncers : HoldsLock(p) <=> lock = p

\* What the holder has read of the chain, as long as no confirmed block is replaced.
ChunkInv(p) ==
  LET sync == syncs[p]
  IN /\ sync.latest <= confirmed
     /\ sync.pc \in {"ready", "fetched", "hashed", "read"} => sync.from = cursor + 1
     /\ sync.pc = "finishing" => sync.latest <= cursor
     /\ sync.pc \in {"fetched", "hashed", "read"} =>
          /\ sync.from <= sync.to /\ sync.to <= sync.latest
          /\ DOMAIN sync.events = sync.from .. sync.to
          /\ \A i \in sync.from .. sync.to : sync.events[i] = chain[i]
     /\ sync.pc \in {"hashed", "read"} => sync.hash = Hash(sync.to)

RowsInv ==
  /\ cursor <= confirmed /\ latestBlock <= cursor
  /\ decisionRows = DecisionsAt(cursor)
  /\ effectiveRow = EffectiveAt(cursor)
  /\ cursor > 0 => checkpoints[cursor] = Hash(cursor)

IndexInv ==
  /\ ChainInv /\ SyncTypes /\ LockInv
  /\ deep = FALSE => RowsInv /\ \A p \in Syncers : ChunkInv(p)

\* The chain moves under the syncs, and what they have read stays true.
LEMMA ChainMovesKeepIndex ==
  ASSUME IndexInv, ChainStep, UNCHANGED syncVars
  PROVE  IndexInv'
<1> ChainInv /\ SyncTypes /\ LockInv /\ ChainTypes /\ Confirmations
  BY DEF IndexInv, ChainInv
<1>1. UNCHANGED <<syncs, lock, cursor, latestBlock, checkpoints, decisionRows, effectiveRow>>
  BY DEF syncVars, progressVars, rowVars
<1>2. SyncTypes' /\ LockInv'
  <2>1. LockInv'
    BY <1>1 DEF LockInv, HoldsLock
  <2> QED
    BY <1>1, <2>1 DEF SyncTypes
<1>3. /\ ChainInv'
      /\ deep' = FALSE => /\ deep = FALSE /\ confirmed <= confirmed'
                          /\ \A i \in 1 .. confirmed : chain'[i] = chain[i]
  <2>1. ASSUME NEW kind \in EventKind, NEW status \in 0 .. MaxStatus,
               NEW decision \in 0 .. MaxBlocks, Mine(kind, status, decision)
        PROVE  /\ ChainInv'
               /\ deep' = FALSE => /\ deep = FALSE /\ confirmed <= confirmed'
                                   /\ \A i \in 1 .. confirmed : chain'[i] = chain[i]
    <3>1. ChainInv'
      BY <2>1, MineKeepsChain
    <3>2. /\ chain' = [chain EXCEPT ![head + 1] =
               [kind |-> kind, status |-> status, decision |-> decision, fork |-> fork]]
          /\ confirmed' = MaxOrZero({confirmed, head' - Depth}) /\ deep' = deep
          /\ head' = head + 1
      BY <2>1 DEF Mine, Confirm
    <3>3. head' - Depth \in Int /\ confirmed \in Nat /\ head \in Nat
      BY <3>2, ChainAssumption DEF ChainTypes
    <3>4. confirmed <= confirmed'
      BY <3>2, <3>3, MaxOfTwo
    <3>5. deep = FALSE => \A i \in 1 .. confirmed : chain'[i] = chain[i]
      BY <3>2, <3>3 DEF Confirmations, ChainTypes, Heights
    <3> QED
      BY <3>1, <3>2, <3>4, <3>5
  <2>2. ASSUME NEW m \in 0 .. MaxBlocks, Reorganize(m)
        PROVE  /\ ChainInv'
               /\ deep' = FALSE => /\ deep = FALSE /\ confirmed <= confirmed'
                                   /\ \A i \in 1 .. confirmed : chain'[i] = chain[i]
    <3>1. ChainInv' /\ (deep' = FALSE => deep = FALSE /\ confirmed <= m)
      BY <2>2, ReorganizeKeepsChain
    <3>2. /\ chain' = [i \in Heights |-> IF i <= m THEN chain[i] ELSE NoBlock]
          /\ confirmed' = confirmed
      BY <2>2 DEF Reorganize
    <3>3. confirmed \in Nat /\ confirmed <= MaxBlocks /\ MaxBlocks \in Nat
      BY ChainAssumption DEF ChainTypes
    <3> QED
      BY <3>1, <3>2, <3>3 DEF Heights
  <2> QED
    BY <2>1, <2>2 DEF ChainStep
<1>4. ASSUME deep' = FALSE
      PROVE  RowsInv' /\ \A p \in Syncers : ChunkInv(p)'
  <2>1. /\ RowsInv /\ (\A p \in Syncers : ChunkInv(p)) /\ confirmed <= confirmed'
        /\ \A i \in 1 .. confirmed : chain'[i] = chain[i]
    BY <1>3, <1>4 DEF IndexInv
  <2>2. confirmed \in Nat /\ confirmed' \in Nat
    BY <1>3, ChainAssumption DEF ChainInv, ChainTypes
  <2>3. ASSUME NEW n \in Nat, n <= confirmed
        PROVE  /\ DecisionsAt(n)' = DecisionsAt(n) /\ EffectiveAt(n)' = EffectiveAt(n)
               /\ Hash(n)' = Hash(n)
    <3>1. \A i \in 1 .. n : chain'[i] = chain[i]
      BY <2>1, <2>2, <2>3
    <3> QED
      BY <3>1, BlocksDecide
  <2>4. RowsInv'
    <3>1. cursor \in Nat /\ cursor <= confirmed
      BY <2>1 DEF RowsInv, SyncTypes
    <3> QED
      BY <1>1, <2>1, <2>2, <2>3, <3>1 DEF RowsInv
  <2>5. ASSUME NEW p \in Syncers
        PROVE  ChunkInv(p)'
    <3>1. ChunkInv(p) /\ syncs[p].to \in Nat /\ syncs[p].from \in Nat /\ syncs[p].latest \in Nat
      BY <2>1 DEF SyncTypes, Sync
    <3>2. ASSUME syncs[p].pc \in {"fetched", "hashed", "read"}, syncs[p].from >= 1
          PROVE  \A i \in syncs[p].from .. syncs[p].to : chain'[i] = chain[i]
      BY <2>1, <2>2, <3>1, <3>2 DEF ChunkInv
    <3>3. syncs[p].pc \in {"fetched", "hashed", "read"} => syncs[p].from >= 1
      BY <3>1 DEF ChunkInv, SyncTypes
    <3>4. syncs[p].pc \in {"hashed", "read"} => Hash(syncs[p].to)' = Hash(syncs[p].to)
      <4>1. syncs[p].pc \in {"hashed", "read"} => syncs[p].to <= confirmed
        BY <2>2, <3>1 DEF ChunkInv
      <4> QED
        BY <1>1, <2>3, <3>1, <4>1
    <3> QED
      BY <1>1, <2>1, <2>2, <3>1, <3>2, <3>3, <3>4 DEF ChunkInv
  <2> QED
    BY <2>4, <2>5
<1> QED
  BY <1>2, <1>3, <1>4 DEF IndexInv

\* A process begins with nothing read.
LEMMA NothingRead == <<>> \in Chunks /\ NoHash \in Hashes /\ NoForecast \in Forecasts
<1>1. <<>> \in Chunks
  BY DEF Chunks
<1>2. NoHash \in Hashes
  BY DEF Hashes
<1>3. NoForecast \in Forecasts
  BY DEF Forecasts, NoForecast
<1> QED
  BY <1>1, <1>2, <1>3

\* A step of one process, which writes rows only while it holds the lock.
LEMMA SyncMoves ==
  ASSUME IndexInv, UNCHANGED chainVars, SyncTypes', NEW p \in Syncers,
         \A q \in Syncers \ {p} : syncs'[q] = syncs[q],
         \/ lock' = lock /\ (HoldsLock(p)' <=> HoldsLock(p))
         \/ HoldsLock(p) /\ lock' = NoSyncer /\ ~HoldsLock(p)'
         \/ lock = NoSyncer /\ lock' = p /\ HoldsLock(p)',
         cursor' = cursor \/ HoldsLock(p),
         deep = FALSE => RowsInv' /\ ChunkInv(p)'
  PROVE  IndexInv'
<1> ChainInv /\ SyncTypes /\ LockInv
  BY DEF IndexInv
<1>1. ChainInv'
  BY DEF chainVars, ChainInv, ChainTypes, Confirmations, EventsInOrder, DecisionsAt
<1>2. LockInv'
  BY SyncAssumption DEF LockInv, HoldsLock
<1>3. ASSUME deep = FALSE, NEW q \in Syncers \ {p}
      PROVE  ChunkInv(q)'
  <2>1. ChunkInv(q) /\ UNCHANGED <<chain, confirmed>>
    BY <1>3 DEF IndexInv, chainVars
  <2>2. CASE cursor' = cursor
    BY <2>1, <2>2 DEF ChunkInv, Hash
  <2>3. CASE HoldsLock(p)
    <3>1. ~HoldsLock(q)
      BY <2>3 DEF LockInv
    <3>2. syncs[q].pc \in {"idle", "started"}
      BY <3>1 DEF HoldsLock, SyncTypes, Sync
    <3> QED
      BY <2>1, <3>2 DEF ChunkInv
  <2> QED
    BY <2>2, <2>3
<1>4. deep' = deep
  BY DEF chainVars
<1> QED
  BY <1>1, <1>2, <1>3, <1>4 DEF IndexInv

\* The rows are kept where nothing is written.
LEMMA NoRowNews ==
  ASSUME IndexInv, UNCHANGED chainVars, UNCHANGED <<progressVars, decisionRows, effectiveRow>>
  PROVE  deep = FALSE => RowsInv'
BY DEF IndexInv, RowsInv, chainVars, progressVars, DecisionsAt, EffectiveAt, Hash

\* A sync that ends, one way or another, releases the lock and leaves the rows.
LEMMA SyncsEnd ==
  ASSUME IndexInv, UNCHANGED chainVars, NEW p \in Syncers,
         syncs' = [syncs EXCEPT ![p] = Idle],
         UNCHANGED <<progressVars, rowVars>>,
         \/ HoldsLock(p) /\ lock' = NoSyncer
         \/ ~HoldsLock(p) /\ lock' = lock
  PROVE  IndexInv'
<1> SyncTypes
  BY DEF IndexInv
<1>1. Idle \in Sync
  BY NothingRead DEF Idle, Sync
<1>2. /\ SyncTypes' /\ syncs'[p] = Idle /\ \A q \in Syncers \ {p} : syncs'[q] = syncs[q]
      /\ cursor' = cursor
  BY <1>1 DEF SyncTypes, progressVars
<1>3. Idle.pc = "idle" /\ Idle.latest = 0
  BY DEF Idle
<1>4. ~HoldsLock(p)'
  BY <1>2, <1>3 DEF HoldsLock
<1>5. ChunkInv(p)'
  BY <1>2, <1>3 DEF ChunkInv, IndexInv, ChainInv, ChainTypes, chainVars
<1> QED
  BY <1>2, <1>4, <1>5, SyncMoves, NoRowNews DEF rowVars

\* The steps of a sync but its writes.
LEMMA ReadsKeepIndex ==
  ASSUME IndexInv, UNCHANGED chainVars, NEW p \in Syncers,
         \/ ReadHead(p) \/ AcquireLock(p) \/ FetchChunkEvents(p) \/ ReadBlockHash(p)
         \/ ReadRecords(p)
  PROVE  IndexInv'
<1> ChainInv /\ ChainTypes /\ Confirmations /\ SyncTypes /\ LockInv
  BY DEF IndexInv, ChainInv
<1> DEFINE sync == syncs[p]
<1>1. sync \in Sync /\ head \in Nat /\ confirmed \in Nat /\ Depth \in Nat /\ cursor \in Nat
  BY ChainAssumption DEF SyncTypes, ChainTypes
<1>2. CASE ReadHead(p)
  <2> DEFINE target == MaxOrZero({0, head - Depth})
  <2>1. target \in Nat /\ target <= confirmed
    <3>1. head - Depth \in Int
      BY <1>1
    <3>2. target = IF 0 >= head - Depth THEN 0 ELSE head - Depth
      BY <3>1, MaxOfTwo
    <3> HIDE DEF target
    <3> QED
      BY <1>1, <3>1, <3>2 DEF Confirmations
  <2> DEFINE new == [Idle EXCEPT !.pc = "started", !.latest = target]
  <2>2. /\ sync.pc = "idle" /\ syncs' = [syncs EXCEPT ![p] = new]
        /\ UNCHANGED <<lock, progressVars, rowVars>>
    BY <1>2 DEF ReadHead
  <2> HIDE DEF target
  <2>3. new \in Sync /\ new.pc = "started" /\ new.latest = target
    BY <2>1, NothingRead DEF Idle, Sync
  <2> HIDE DEF new
  <2>4. /\ SyncTypes' /\ syncs'[p] = new /\ \A q \in Syncers \ {p} : syncs'[q] = syncs[q]
        /\ cursor' = cursor /\ lock' = lock
    BY <2>2, <2>3 DEF SyncTypes, progressVars
  <2>5. ~HoldsLock(p) /\ ~HoldsLock(p)'
    BY <2>2, <2>3, <2>4 DEF HoldsLock
  <2>6. ChunkInv(p)'
    BY <2>1, <2>3, <2>4 DEF ChunkInv, chainVars
  <2>7. deep = FALSE => RowsInv'
    BY <2>2, NoRowNews DEF rowVars
  <2> QED
    BY <2>4, <2>5, <2>6, <2>7, SyncMoves
<1>3. CASE AcquireLock(p)
  <2>1. sync.pc = "started" /\ UNCHANGED <<progressVars, rowVars>>
    BY <1>3 DEF AcquireLock
  <2>2. CASE syncs' = [syncs EXCEPT ![p] = Idle] /\ lock' = lock
    BY <2>1, <2>2, SyncsEnd DEF HoldsLock
  <2>3. CASE lock = NoSyncer /\ lock' = p /\ syncs' = [syncs EXCEPT ![p].pc = "locked"]
    <3> DEFINE new == [sync EXCEPT !.pc = "locked"]
    <3>1. new \in Sync /\ new.pc = "locked" /\ new.latest = sync.latest
      BY <1>1 DEF Sync
    <3>2. syncs' = [syncs EXCEPT ![p] = new]
      BY <2>3
    <3> HIDE DEF new
    <3>3. /\ SyncTypes' /\ syncs'[p] = new /\ \A q \in Syncers \ {p} : syncs'[q] = syncs[q]
          /\ cursor' = cursor
      BY <2>1, <3>1, <3>2 DEF SyncTypes, progressVars
    <3>4. HoldsLock(p)'
      BY <3>1, <3>3 DEF HoldsLock
    <3>5. deep = FALSE => ChunkInv(p)'
      BY <3>1, <3>3 DEF ChunkInv, IndexInv, chainVars
    <3>6. deep = FALSE => RowsInv'
      BY <2>1, NoRowNews DEF rowVars
    <3> QED
      BY <2>3, <3>3, <3>4, <3>5, <3>6, SyncMoves
  <2> QED
    BY <1>3, <2>2, <2>3 DEF AcquireLock, Goto
<1>4. CASE FetchChunkEvents(p)
  <2> DEFINE to == Min({sync.from + BatchSize - 1, sync.latest})
             events == [i \in (sync.from .. to) \cap (1 .. head) |-> chain[i]]
             new == [sync EXCEPT !.pc = "fetched", !.to = to, !.events = events]
  <2>1. /\ sync.pc = "ready" /\ sync.from <= sync.latest /\ syncs' = [syncs EXCEPT ![p] = new]
        /\ UNCHANGED <<lock, progressVars, rowVars>>
    BY <1>4 DEF FetchChunkEvents
  <2>2. /\ sync.from \in Nat /\ sync.latest \in Nat /\ BatchSize \in Nat \ {0}
        /\ sync.from + BatchSize - 1 \in Nat
    BY <1>1, SyncAssumption DEF Sync
  <2>3. to \in Nat /\ sync.from <= to /\ to <= sync.latest
    <3>1. to = IF sync.from + BatchSize - 1 <= sync.latest
               THEN sync.from + BatchSize - 1 ELSE sync.latest
      BY <2>2, MinOfTwo
    <3> HIDE DEF to
    <3> QED
      BY <2>1, <2>2, <3>1
  <2> HIDE DEF to
  <2>4. events \in Chunks
    <3> DEFINE D == (sync.from .. to) \cap (1 .. head)
    <3>1. D \in SUBSET Heights /\ \A i \in D : chain[i] \in Block
      <4>1. \A i \in 1 .. head : i \in Heights /\ chain[i] \in Block
        BY <1>1, ChainAssumption DEF ChainTypes, Heights
      <4> QED
        BY <4>1
    <3> HIDE DEF D
    <3>2. [i \in D |-> chain[i]] \in [D -> Block]
      BY <3>1
    <3>3. [D -> Block] \in {[E -> Block] : E \in SUBSET Heights}
      BY <3>1
    <3> QED
      BY <3>2, <3>3 DEF Chunks, Segments, D
  <2>5. /\ DOMAIN events = (sync.from .. to) \cap (1 .. head)
        /\ \A i \in (sync.from .. to) \cap (1 .. head) : events[i] = chain[i]
    OBVIOUS
  <2> HIDE DEF events
  <2>6. /\ new \in Sync /\ new.pc = "fetched" /\ new.to = to /\ new.events = events
        /\ new.from = sync.from /\ new.latest = sync.latest
    BY <1>1, <2>3, <2>4 DEF Sync
  <2> HIDE DEF new
  <2>7. /\ SyncTypes' /\ syncs'[p] = new /\ \A q \in Syncers \ {p} : syncs'[q] = syncs[q]
        /\ cursor' = cursor /\ lock' = lock
    BY <2>1, <2>6 DEF SyncTypes, progressVars
  <2>8. HoldsLock(p) /\ HoldsLock(p)'
    BY <2>1, <2>6, <2>7 DEF HoldsLock
  <2>9. ASSUME deep = FALSE PROVE ChunkInv(p)'
    <3>1. ChunkInv(p) /\ confirmed <= head
      BY <2>9 DEF IndexInv, Confirmations
    <3>2. sync.latest <= confirmed /\ sync.from = cursor + 1
      BY <2>1, <3>1 DEF ChunkInv
    <3>3. (sync.from .. to) \cap (1 .. head) = sync.from .. to
      BY <1>1, <2>2, <2>3, <3>1, <3>2
    <3>4. UNCHANGED <<chain, confirmed>>
      BY DEF chainVars
    <3> QED
      BY <2>3, <2>5, <2>6, <2>7, <3>2, <3>3, <3>4 DEF ChunkInv
  <2>10. deep = FALSE => RowsInv'
    BY <2>1, NoRowNews DEF rowVars
  <2> QED
    BY <2>7, <2>8, <2>9, <2>10, SyncMoves
<1>5. CASE ReadBlockHash(p)
  <2> DEFINE new == [sync EXCEPT !.pc = "hashed", !.hash = Hash(sync.to)]
  <2>1. /\ sync.pc = "fetched" /\ sync.to <= head /\ syncs' = [syncs EXCEPT ![p] = new]
        /\ UNCHANGED <<lock, progressVars, rowVars>>
    BY <1>5 DEF ReadBlockHash
  <2>2. Hash(sync.to) \in Hashes
    <3>1. sync.to \in 0 .. MaxBlocks /\ MaxBlocks \in Nat
      BY <1>1, <2>1, ChainAssumption DEF Sync, ChainTypes
    <3>2. \A i \in 1 .. sync.to : chain[i] \in Block \cup {NoBlock}
      BY <3>1 DEF ChainTypes, Heights
    <3>3. Hash(sync.to) \in [1 .. sync.to -> Block \cup {NoBlock}]
      BY <3>2 DEF Hash
    <3> QED
      BY <3>1, <3>3 DEF Hashes, Branches
  <2>3. /\ new \in Sync /\ new.pc = "hashed" /\ new.hash = Hash(sync.to) /\ new.to = sync.to
        /\ new.events = sync.events /\ new.from = sync.from /\ new.latest = sync.latest
    BY <1>1, <2>2 DEF Sync
  <2> HIDE DEF new
  <2>4. /\ SyncTypes' /\ syncs'[p] = new /\ \A q \in Syncers \ {p} : syncs'[q] = syncs[q]
        /\ cursor' = cursor /\ lock' = lock
    BY <2>1, <2>3 DEF SyncTypes, progressVars
  <2>5. HoldsLock(p) /\ HoldsLock(p)'
    BY <2>1, <2>3, <2>4 DEF HoldsLock
  <2>6. ASSUME deep = FALSE PROVE ChunkInv(p)'
    <3>1. ChunkInv(p) /\ UNCHANGED <<chain, confirmed>>
      BY <2>6 DEF IndexInv, chainVars
    <3>2. cursor' = cursor /\ Hash(sync.to)' = Hash(sync.to)
      BY <2>3, <2>4, <3>1 DEF Hash
    <3>3. \A i \in sync.from .. sync.to : sync.events[i] = chain[i]
      BY <2>1, <3>1 DEF ChunkInv
    <3> QED
      BY <2>1, <2>3, <2>4, <3>1, <3>2, <3>3 DEF ChunkInv
  <2>7. deep = FALSE => RowsInv'
    BY <2>1, NoRowNews DEF rowVars
  <2> QED
    BY <2>4, <2>5, <2>6, <2>7, SyncMoves
<1>6. CASE ReadRecords(p)
  <2> DEFINE claim == IF CreatesClaim(p) THEN StatusAt(head) ELSE 0
             forecast == IF TouchesForecast(p) THEN ForecastAt(head) ELSE NoForecast
             new == [sync EXCEPT !.pc = "read", !.claim = claim, !.forecast = forecast]
  <2>1. /\ sync.pc = "hashed" /\ syncs' = [syncs EXCEPT ![p] = new]
        /\ UNCHANGED <<lock, progressVars, rowVars>>
    BY <1>6 DEF ReadRecords
  <2>2. \A i \in 1 .. head : chain[i].status \in Nat /\ chain[i].decision \in Int
    BY DEF ChainTypes, Block
  <2>3. claim \in Nat /\ forecast \in Forecasts
    <3>1. StatusAt(head) \in Nat
      BY <1>1, <2>2, StatusIsLast
    <3>2. ForecastAt(head) \in Forecasts
      <4>1. \/ ForecastAt(head) = NoForecast
            \/ ForecastAt(head) = [settled |-> FALSE, decision |-> 0]
            \/ \E i \in 1 .. head :
                 ForecastAt(head) = [settled |-> TRUE, decision |-> chain[i].decision]
        BY <1>1, ForecastIsLast
      <4>2. \A i \in 1 .. head : [settled |-> TRUE, decision |-> chain[i].decision] \in Forecasts
        BY <2>2 DEF Forecasts
      <4>3. [settled |-> FALSE, decision |-> 0] \in Forecasts
        BY DEF Forecasts
      <4> QED
        BY <4>1, <4>2, <4>3, NothingRead
    <3> QED
      BY <3>1, <3>2 DEF Forecasts, NoForecast
  <2> HIDE DEF claim, forecast
  <2>4. /\ new \in Sync /\ new.pc = "read" /\ new.hash = sync.hash /\ new.to = sync.to
        /\ new.events = sync.events /\ new.from = sync.from /\ new.latest = sync.latest
    BY <1>1, <2>3 DEF Sync
  <2> HIDE DEF new
  <2>5. /\ SyncTypes' /\ syncs'[p] = new /\ \A q \in Syncers \ {p} : syncs'[q] = syncs[q]
        /\ cursor' = cursor /\ lock' = lock
    BY <2>1, <2>4 DEF SyncTypes, progressVars
  <2>6. HoldsLock(p) /\ HoldsLock(p)'
    BY <2>1, <2>4, <2>5 DEF HoldsLock
  <2>7. ASSUME deep = FALSE PROVE ChunkInv(p)'
    <3>1. ChunkInv(p) /\ UNCHANGED <<chain, confirmed>>
      BY <2>7 DEF IndexInv, chainVars
    <3>2. cursor' = cursor /\ Hash(sync.to)' = Hash(sync.to)
      BY <2>4, <2>5, <3>1 DEF Hash
    <3> QED
      BY <2>1, <2>4, <2>5, <3>1, <3>2 DEF ChunkInv
  <2>8. deep = FALSE => RowsInv'
    BY <2>1, NoRowNews DEF rowVars
  <2> QED
    BY <2>5, <2>6, <2>7, <2>8, SyncMoves
<1> QED
  BY <1>2, <1>3, <1>4, <1>5, <1>6

\* The cursor's block is checked, and its hash kept if there was none.
LEMMA CheckCursorKeepsIndex ==
  ASSUME IndexInv, UNCHANGED chainVars, NEW p \in Syncers, CheckCursor(p)
  PROVE  IndexInv'
<1> ChainInv /\ ChainTypes /\ SyncTypes /\ LockInv
  BY DEF IndexInv, ChainInv
<1> DEFINE sync == syncs[p]
<1>1. sync \in Sync /\ sync.pc = "locked" /\ HoldsLock(p) /\ cursor <= head /\ cursor \in Nat
  BY DEF CheckCursor, SyncTypes, HoldsLock
<1>2. CASE FailSync(p)
  BY <1>1, <1>2, SyncsEnd DEF FailSync
<1>3. CASE syncs' = [syncs EXCEPT ![p].pc = "ready", ![p].from = cursor + 1]
  <2> DEFINE new == [sync EXCEPT !.pc = "ready", !.from = cursor + 1]
  <2>1. /\ syncs' = [syncs EXCEPT ![p] = new]
        /\ checkpoints' = [n \in Heights |->
             IF n = cursor /\ checkpoints[n] = NoHash THEN Hash(n) ELSE checkpoints[n]]
        /\ UNCHANGED <<lock, cursor, latestBlock, rowVars>>
    <3>1. sync.pc # "idle"
      BY <1>1
    <3>2. syncs'[p].pc = "ready"
      BY <1>3 DEF SyncTypes
    <3>3. syncs' # [syncs EXCEPT ![p] = Idle]
      BY <3>2 DEF Idle, SyncTypes
    <3> QED
      BY <1>3, <3>3 DEF CheckCursor, FailSync
  <2>2. /\ new \in Sync /\ new.pc = "ready" /\ new.from = cursor + 1
        /\ new.latest = sync.latest
    <3>1. cursor + 1 \in Nat
      BY <1>1
    <3> QED
      BY <1>1, <3>1 DEF Sync
  <2> HIDE DEF new
  <2>3. checkpoints' \in [Heights -> Hashes]
    <3>1. ASSUME NEW n \in Heights PROVE Hash(n) \in Hashes
      <4>1. n \in 0 .. MaxBlocks /\ \A i \in 1 .. n : chain[i] \in Block \cup {NoBlock}
        BY ChainAssumption DEF Heights, ChainTypes
      <4>2. Hash(n) \in [1 .. n -> Block \cup {NoBlock}]
        BY <4>1 DEF Hash
      <4> QED
        BY <4>1, <4>2 DEF Hashes, Branches
    <3> QED
      BY <2>1, <3>1 DEF SyncTypes
  <2>4. /\ SyncTypes' /\ syncs'[p] = new /\ \A q \in Syncers \ {p} : syncs'[q] = syncs[q]
        /\ cursor' = cursor /\ lock' = lock
    BY <2>1, <2>2, <2>3 DEF SyncTypes
  <2>5. HoldsLock(p)'
    BY <2>2, <2>4 DEF HoldsLock
  <2>6. ASSUME deep = FALSE PROVE ChunkInv(p)'
    BY <2>2, <2>4, <2>6 DEF ChunkInv, IndexInv, chainVars
  <2>7. ASSUME deep = FALSE PROVE RowsInv'
    <3>1. RowsInv /\ UNCHANGED <<chain, confirmed>>
      BY <2>7 DEF IndexInv, chainVars
    <3>2. cursor > 0 => checkpoints'[cursor] = Hash(cursor)
      <4>1. cursor > 0 => cursor \in Heights
        BY <1>1, ChainAssumption DEF ChainTypes, Heights
      <4> QED
        BY <2>1, <3>1, <4>1 DEF RowsInv
    <3>3. /\ DecisionsAt(cursor)' = DecisionsAt(cursor) /\ EffectiveAt(cursor)' = EffectiveAt(cursor)
          /\ Hash(cursor)' = Hash(cursor)
      BY <2>4, <3>1 DEF DecisionsAt, EffectiveAt, Hash
    <3> QED
      BY <2>1, <3>1, <3>2, <3>3 DEF RowsInv, rowVars
  <2> QED
    BY <1>1, <2>4, <2>5, <2>6, <2>7, SyncMoves
<1> QED
  BY <1>2, <1>3 DEF CheckCursor

\* A chunk brings the rows from one block of the chain to a later one.
LEMMA ChunkFollowsLog ==
  ASSUME ChainInv, deep = FALSE, RowsInv, NEW p \in Syncers, ChunkInv(p), syncs[p] \in Sync,
         syncs[p].pc = "read", cursor \in Nat
  PROVE  /\ DecisionsAfter(p) = DecisionsAt(syncs[p].to)
         /\ EffectiveAfter(p) = EffectiveAt(syncs[p].to)
<1> ChainTypes /\ Confirmations /\ EventsInOrder
  BY DEF ChainInv
<1> DEFINE sync == syncs[p]
           from == sync.from
           to == sync.to
<1>1. /\ from \in Nat /\ to \in Nat /\ head \in Nat /\ from = cursor + 1 /\ from <= to
      /\ to <= head /\ DOMAIN sync.events = from .. to
      /\ \A i \in from .. to : sync.events[i] = chain[i]
  <2>1. confirmed \in Nat /\ confirmed <= head /\ head \in Nat
    BY DEF Confirmations, ChainTypes
  <2>2. sync.from \in Nat /\ sync.to \in Nat /\ sync.latest \in Nat
    BY DEF Sync
  <2> QED
    BY <2>1, <2>2 DEF ChunkInv
<1>2. /\ 1 .. to = (1 .. cursor) \cup (from .. to)
      /\ \A i \in 1 .. to : i \in 1 .. head /\ chain[i] \in Block
  BY <1>1 DEF ChainTypes
<1>3. Blocks(p, {"decided"}) = {i \in from .. to : chain[i].kind = "decided"}
  BY <1>1 DEF Blocks
<1> HIDE DEF from, to
<1>4. DecisionsAfter(p) = DecisionsAt(to)
  <2> DEFINE read == {sync.events[i] : i \in Blocks(p, {"decided"})}
  <2>1. read = {chain[i] : i \in {j \in from .. to : chain[j].kind = "decided"}}
    BY <1>1, <1>3
  <2>2. DecisionsAt(to) = DecisionsAt(cursor) \cup read
    BY <1>2, <2>1 DEF DecisionsAt
  <2>3. ASSUME NEW e \in read, NEW row \in DecisionsAt(cursor)
        PROVE  row.decision # e.decision
    <3>1. PICK i \in from .. to : e = chain[i] /\ chain[i].kind = "decided"
      BY <2>1, <2>3
    <3>2. PICK k \in 1 .. cursor : row = chain[k] /\ chain[k].kind = "decided"
      BY <2>3 DEF DecisionsAt
    <3>3. i \in 1 .. head /\ k \in 1 .. i - 1
      BY <1>1, <3>1, <3>2 DEF from, to
    <3>4. chain[k].decision < chain[i].decision
      BY <3>1, <3>2, <3>3 DEF EventsInOrder
    <3>5. chain[k].decision \in Nat /\ chain[i].decision \in Nat
      BY <1>1, <1>2, <3>1, <3>2 DEF Block
    <3> QED
      BY <3>1, <3>2, <3>4, <3>5
  <2>4. DecisionsAfter(p) = DecisionsAt(cursor) \cup read
    BY <2>3 DEF DecisionsAfter, RowsInv
  <2> QED
    BY <2>2, <2>4
<1>5. EffectiveAfter(p) = EffectiveAt(to)
  <2> DEFINE S == {j \in from .. to : chain[j].kind = "decided" /\ chain[j].status # 0}
             T == {j \in Blocks(p, {"decided"}) : sync.events[j].status # 0}
  <2>1. T = S
    BY <1>1, <1>3
  <2>2. S \in SUBSET (1 .. to)
    BY <1>1, <1>2
  <2>3. CASE S = {}
    <3>1. EffectiveAfter(p) = effectiveRow
      BY <2>1, <2>3 DEF EffectiveAfter, MaxOrZero
    <3>2. {j \in 1 .. to : chain[j].kind = "decided" /\ chain[j].status # 0} =
            {j \in 1 .. cursor : chain[j].kind = "decided" /\ chain[j].status # 0}
      BY <1>2, <2>3
    <3>3. EffectiveAt(to) = EffectiveAt(cursor)
      <4>1. CASE {j \in 1 .. cursor : chain[j].kind = "decided" /\ chain[j].status # 0} = {}
        BY <3>2, <4>1 DEF EffectiveAt, MaxOrZero
      <4>2. CASE {j \in 1 .. cursor : chain[j].kind = "decided" /\ chain[j].status # 0} # {}
        BY <3>2, <4>2 DEF EffectiveAt
      <4> QED
        BY <4>1, <4>2
    <3> QED
      BY <3>1, <3>3 DEF RowsInv
  <2>4. CASE S # {}
    <3> DEFINE i == MaxOrZero(S)
    <3>1. i \in S /\ \A j \in S : j <= i
      <4> HIDE DEF S
      <4> QED
        BY <1>1, <2>2, <2>4, MaxIsGreatest DEF to
    <3> HIDE DEF i
    <3>2. i \in from .. to /\ chain[i].kind = "decided" /\ chain[i].status # 0
      BY <3>1
    <3>3. EffectiveAfter(p) = chain[i].decision
      <4>1. i # 0 /\ sync.events[i] = chain[i]
        BY <1>1, <3>2
      <4> QED
        BY <2>1, <4>1 DEF EffectiveAfter, i
    <3>4. PICK k \in 1 .. to : /\ EffectiveAt(to) = chain[k].decision
                               /\ chain[k].kind = "decided" /\ chain[k].status # 0
                               /\ \A j \in 1 .. to : chain[j].kind = "decided" /\ chain[j].status # 0
                                    => j <= k
      <4>1. i \in 1 .. to
        BY <1>1, <3>2
      <4>2. to \in Nat
        BY <1>1
      <4> QED
        BY <3>2, <4>1, <4>2, EffectiveIsLast
    <3>5. i <= k /\ k <= to /\ i >= from /\ k \in Int /\ i \in Int
      BY <1>1, <3>2, <3>4
    <3>6. k \in S
      BY <1>1, <3>4, <3>5
    <3> QED
      BY <3>1, <3>3, <3>4, <3>5, <3>6
  <2> QED
    BY <2>3, <2>4
<1> QED
  BY <1>4, <1>5 DEF to

\* A chunk is applied as a whole.
LEMMA ApplyChunkKeepsIndex ==
  ASSUME IndexInv, UNCHANGED chainVars, NEW p \in Syncers, ApplyChunk(p)
  PROVE  IndexInv'
<1> ChainInv /\ ChainTypes /\ SyncTypes /\ LockInv
  BY DEF IndexInv, ChainInv
<1> DEFINE sync == syncs[p]
           new == [Idle EXCEPT !.pc = "ready", !.latest = sync.latest, !.from = sync.to + 1]
<1>1. /\ sync \in Sync /\ sync.pc = "read" /\ HoldsLock(p) /\ cursor \in Nat
      /\ sync.to \in Nat /\ sync.latest \in Nat /\ sync.hash \in Hashes
  BY DEF ApplyChunk, SyncTypes, HoldsLock, Sync
<1>2. /\ syncs' = [syncs EXCEPT ![p] = new] /\ lock' = lock
      /\ cursor' = sync.to /\ latestBlock' = sync.to
      /\ checkpoints' = [checkpoints EXCEPT ![sync.to] = sync.hash]
      /\ decisionRows' = DecisionsAfter(p) /\ effectiveRow' = EffectiveAfter(p)
  BY DEF ApplyChunk, WriteProgress
<1>3. new \in Sync /\ new.pc = "ready" /\ new.from = sync.to + 1 /\ new.latest = sync.latest
  <2>1. sync.to + 1 \in Nat
    BY <1>1
  <2> QED
    BY <1>1, <2>1, NothingRead DEF Idle, Sync
<1> HIDE DEF new
<1>4. /\ SyncTypes' /\ syncs'[p] = new /\ \A q \in Syncers \ {p} : syncs'[q] = syncs[q]
  BY <1>1, <1>2, <1>3 DEF SyncTypes
<1>5. HoldsLock(p)'
  BY <1>3, <1>4 DEF HoldsLock
<1>6. ASSUME deep = FALSE
      PROVE  RowsInv' /\ ChunkInv(p)'
  <2>1. /\ RowsInv /\ ChunkInv(p) /\ UNCHANGED <<chain, confirmed>>
    BY <1>6 DEF IndexInv, chainVars
  <2>2. /\ DecisionsAfter(p) = DecisionsAt(sync.to) /\ EffectiveAfter(p) = EffectiveAt(sync.to)
    BY <1>1, <1>6, <2>1, ChunkFollowsLog
  <2>3. /\ sync.from = cursor + 1 /\ sync.from <= sync.to /\ sync.to <= sync.latest
        /\ sync.latest <= confirmed /\ sync.hash = Hash(sync.to)
    BY <1>1, <2>1 DEF ChunkInv
  <2>4. sync.to \in Heights /\ confirmed \in Nat
    BY <1>1, <2>3, ChainAssumption DEF ChainTypes, Heights
  <2>5. /\ DecisionsAt(cursor)' = DecisionsAt(sync.to) /\ EffectiveAt(cursor)' = EffectiveAt(sync.to)
        /\ Hash(cursor)' = Hash(sync.to)
    BY <1>2, <2>1 DEF DecisionsAt, EffectiveAt, Hash
  <2>6. checkpoints'[sync.to] = sync.hash
    BY <1>2, <2>4 DEF SyncTypes
  <2>7. RowsInv'
    BY <1>1, <1>2, <2>1, <2>2, <2>3, <2>4, <2>5, <2>6 DEF RowsInv
  <2>8. ChunkInv(p)'
    BY <1>2, <1>3, <1>4, <2>1, <2>3 DEF ChunkInv
  <2> QED
    BY <2>7, <2>8
<1> QED
  BY <1>1, <1>2, <1>4, <1>5, <1>6, SyncMoves

\* The metadata announce a target that has been reached.
LEMMA FinishKeepsIndex ==
  ASSUME IndexInv, UNCHANGED chainVars, NEW p \in Syncers, FinishChunks(p)
  PROVE  IndexInv'
<1> ChainInv /\ ChainTypes /\ SyncTypes /\ LockInv
  BY DEF IndexInv, ChainInv
<1> DEFINE sync == syncs[p]
           new == [sync EXCEPT !.pc = "finishing"]
<1>1. /\ sync \in Sync /\ sync.pc = "ready" /\ HoldsLock(p) /\ sync.from > sync.latest
      /\ sync.latest \in Nat /\ sync.from \in Nat /\ cursor \in Nat
  BY DEF FinishChunks, SyncTypes, HoldsLock, Sync
<1>2. /\ syncs' = [syncs EXCEPT ![p] = new] /\ latestBlock' = sync.latest
      /\ UNCHANGED <<lock, cursor, checkpoints, decisionRows, effectiveRow>>
  BY DEF FinishChunks, Goto, rowVars
<1>3. new \in Sync /\ new.pc = "finishing" /\ new.latest = sync.latest
  BY <1>1 DEF Sync
<1> HIDE DEF new
<1>4. /\ SyncTypes' /\ syncs'[p] = new /\ \A q \in Syncers \ {p} : syncs'[q] = syncs[q]
  BY <1>1, <1>2, <1>3 DEF SyncTypes
<1>5. HoldsLock(p)'
  BY <1>3, <1>4 DEF HoldsLock
<1>6. ASSUME deep = FALSE
      PROVE  RowsInv' /\ ChunkInv(p)'
  <2>1. /\ RowsInv /\ ChunkInv(p) /\ UNCHANGED <<chain, confirmed>>
    BY <1>6 DEF IndexInv, chainVars
  <2>2. sync.latest <= cursor
    BY <1>1, <2>1 DEF ChunkInv
  <2>3. /\ DecisionsAt(cursor)' = DecisionsAt(cursor) /\ EffectiveAt(cursor)' = EffectiveAt(cursor)
        /\ Hash(cursor)' = Hash(cursor)
    BY <1>2, <2>1 DEF DecisionsAt, EffectiveAt, Hash
  <2>4. RowsInv'
    BY <1>2, <2>1, <2>2, <2>3 DEF RowsInv
  <2>5. ChunkInv(p)'
    BY <1>2, <1>3, <1>4, <2>1, <2>2 DEF ChunkInv
  <2> QED
    BY <2>4, <2>5
<1> QED
  BY <1>1, <1>2, <1>4, <1>5, <1>6, SyncMoves

\* Every step keeps the rows those of one prefix of the chain.
LEMMA StepsKeepIndex == IndexInv /\ [Next]_vars => IndexInv'
<1> SUFFICES ASSUME IndexInv, [Next]_vars PROVE IndexInv'
  OBVIOUS
<1>1. CASE ChainStep /\ UNCHANGED syncVars
  BY <1>1, ChainMovesKeepIndex
<1>2. ASSUME NEW p \in Syncers, SyncStep(p) \/ Throw(p) \/ Crash(p), UNCHANGED chainVars
      PROVE  IndexInv'
  <2>1. CASE ReadHead(p) \/ AcquireLock(p) \/ FetchChunkEvents(p) \/ ReadBlockHash(p) \/ ReadRecords(p)
    BY <1>2, <2>1, ReadsKeepIndex
  <2>2. CASE CheckCursor(p)
    BY <1>2, <2>2, CheckCursorKeepsIndex
  <2>3. CASE ApplyChunk(p)
    BY <1>2, <2>3, ApplyChunkKeepsIndex
  <2>4. CASE FinishChunks(p)
    BY <1>2, <2>4, FinishKeepsIndex
  <2>5. CASE MissingOnChain(p) \/ RefuseChunk(p) \/ MarkSyncSucceeded(p) \/ Throw(p) \/ Crash(p)
    <3>1. /\ HoldsLock(p) /\ lock' = NoSyncer /\ syncs' = [syncs EXCEPT ![p] = Idle]
          /\ UNCHANGED <<progressVars, rowVars>>
      BY <2>5 DEF MissingOnChain, RefuseChunk, MarkSyncSucceeded, Throw, Crash, FailSync, HoldsLock
    <3> QED
      BY <1>2, <3>1, SyncsEnd
  <2> QED
    BY <1>2, <2>1, <2>2, <2>3, <2>4, <2>5 DEF SyncStep
<1>3. CASE UNCHANGED vars
  <2>1. UNCHANGED <<chainVars, syncs, lock, progressVars, rowVars>>
    BY <1>3 DEF vars, syncVars
  <2>2. ChainInv'
    BY <2>1 DEF IndexInv, chainVars, ChainInv, ChainTypes, Confirmations, EventsInOrder, DecisionsAt
  <2>3. SyncTypes' /\ LockInv'
    BY <2>1 DEF IndexInv, SyncTypes, LockInv, HoldsLock, progressVars
  <2>4. deep = FALSE => \A p \in Syncers : ChunkInv(p)'
    BY <2>1 DEF IndexInv, chainVars, progressVars, ChunkInv, Hash
  <2>5. deep = FALSE => RowsInv'
    BY <2>1, NoRowNews DEF rowVars
  <2> QED
    BY <2>1, <2>2, <2>3, <2>4, <2>5 DEF IndexInv, chainVars
<1> QED
  BY <1>1, <1>2, <1>3 DEF Next

\* At first there is neither chain nor row.
LEMMA InitIndex == Init => IndexInv
<1> SUFFICES ASSUME Init PROVE IndexInv
  OBVIOUS
<1> USE DEF Init, ChainInit, SyncInit
<1>1. 1 .. 0 = {} /\ MaxOrZero({}) = 0
  BY DEF MaxOrZero
<1>2. ChainInv
  <2>1. ChainTypes /\ Confirmations
    <3>1. MaxBlocks \in Nat /\ MaxReorgs \in Nat /\ 0 - Depth <= 0
      BY ChainAssumption
    <3>2. deep \in BOOLEAN /\ chain \in [Heights -> Block \cup {NoBlock}]
      BY Zenon
    <3>3. /\ head \in 0 .. MaxBlocks /\ fork \in 0 .. MaxReorgs /\ confirmed \in 0 .. MaxBlocks
          /\ \A i \in 1 .. head : chain[i] \in Block
      BY <3>1
    <3>4. ChainTypes
      BY <3>2, <3>3 DEF ChainTypes
    <3> QED
      BY <3>1, <3>4 DEF Confirmations
  <2> QED
    BY <1>1, <2>1 DEF ChainInv, EventsInOrder
<1>3. Idle.pc = "idle" /\ Idle.latest = 0 /\ Idle \in Sync
  BY NothingRead DEF Idle, Sync
<1>4. \A p \in Syncers : syncs[p] = Idle
  OBVIOUS
<1>5. SyncTypes /\ LockInv
  BY <1>3, <1>4, NothingRead, SyncAssumption DEF SyncTypes, LockInv, HoldsLock
<1>6. EffectiveAt(0) = 0 /\ DecisionsAt(0) = {}
  <2>1. EffectiveAt(0) = 0
    BY <1>1, EffectiveIsLast
  <2> QED
    BY <1>1, <2>1 DEF DecisionsAt
<1>7. RowsInv /\ \A p \in Syncers : ChunkInv(p)
  BY <1>3, <1>4, <1>6 DEF RowsInv, ChunkInv
<1> QED
  BY <1>2, <1>5, <1>7 DEF IndexInv

\* IndexInv: types, the order of a claim's events, who holds the lock, and what rows
\* and chunks hold of the chain.
THEOREM IndexInvariant == Spec => []IndexInv
BY InitIndex, StepsKeepIndex, PTL DEF Spec

\* RowsFollowLog: as long as no confirmed block is replaced, what is appended from
\* events and the cursor are those of one prefix of the chain, whoever wrote them.
THEOREM RowsAlwaysFollowLog == Spec => []RowsFollowLog
<1>1. IndexInv => RowsFollowLog
  <2> SUFFICES ASSUME IndexInv, deep = FALSE PROVE RowsFollowLog
    BY Zenon DEF RowsFollowLog, IndexInv, ChainInv, ChainTypes
  <2>1. RowsInv /\ confirmed <= head /\ cursor \in Nat /\ confirmed \in Nat /\ head \in Nat
    BY DEF IndexInv, ChainInv, Confirmations, SyncTypes, ChainTypes
  <2> QED
    BY <2>1 DEF RowsInv, RowsFollowLog
<1> QED
  BY <1>1, IndexInvariant, PTL

-----------------------------------------------------------------------------
(***************************************************************************)
(* Rows read from records.  They may be ahead of the cursor, but each is   *)
(* what its record was at some block between the cursor and the head; and  *)
(* a forecast row is never newer than the record a chunk will write.       *)
(***************************************************************************)
ReadInv(p) ==
  syncs[p].pc = "read" =>
    /\ CreatesClaim(p) => \E h \in syncs[p].to .. head : syncs[p].claim = StatusAt(h)
    /\ TouchesForecast(p) =>
         \E h \in syncs[p].to .. head : \E k \in cursor .. h :
           forecastRow = ForecastAt(k) /\ syncs[p].forecast = ForecastAt(h)

RecordsInv ==
  fork = 0 =>
    /\ \E h \in cursor .. head : claimRow = StatusAt(h)
    /\ \E h \in cursor .. head : forecastRow = ForecastAt(h)
    /\ \A p \in Syncers : ReadInv(p)

\* A status grows, and only by events that give one.
LEMMA StatusGrows ==
  ASSUME ChainInv, NEW m \in 0 .. head, NEW n \in 0 .. m
  PROVE  /\ StatusAt(n) \in Nat /\ StatusAt(m) \in Nat /\ StatusAt(n) <= StatusAt(m)
         /\ (\A j \in n + 1 .. m : chain[j].status = 0) => StatusAt(n) = StatusAt(m)
<1>1. \A i \in 1 .. head : chain[i].status \in Nat
  BY DEF ChainInv, ChainTypes, Block
<1>2. m \in Nat /\ n \in Nat /\ n <= m /\ m <= head /\ head \in Nat
  BY DEF ChainInv, ChainTypes
<1>3. \A i, j \in 1 .. head : i < j /\ chain[j].status # 0 => chain[i].status < chain[j].status
  BY <1>2 DEF ChainInv, EventsInOrder
<1>4. \/ StatusAt(n) = 0 /\ \A j \in 1 .. n : chain[j].status = 0
      \/ \E i \in 1 .. n : /\ StatusAt(n) = chain[i].status /\ chain[i].status # 0
                           /\ \A j \in 1 .. n : chain[j].status # 0 => j <= i
  BY <1>2, StatusIsLast
<1>5. \/ StatusAt(m) = 0 /\ \A j \in 1 .. m : chain[j].status = 0
      \/ \E i \in 1 .. m : /\ StatusAt(m) = chain[i].status /\ chain[i].status # 0
                           /\ \A j \in 1 .. m : chain[j].status # 0 => j <= i
  BY <1>2, StatusIsLast
<1>6. StatusAt(n) \in Nat /\ StatusAt(m) \in Nat
  BY <1>1, <1>2, <1>4, <1>5
<1>7. CASE StatusAt(n) = 0 /\ \A j \in 1 .. n : chain[j].status = 0
  BY <1>2, <1>5, <1>6, <1>7
<1>8. ASSUME NEW i \in 1 .. n, StatusAt(n) = chain[i].status, chain[i].status # 0,
             \A j \in 1 .. n : chain[j].status # 0 => j <= i
      PROVE  /\ StatusAt(n) <= StatusAt(m)
             /\ (\A j \in n + 1 .. m : chain[j].status = 0) => StatusAt(n) = StatusAt(m)
  <2>1. PICK k \in 1 .. m : /\ StatusAt(m) = chain[k].status /\ chain[k].status # 0
                            /\ \A j \in 1 .. m : chain[j].status # 0 => j <= k
    BY <1>2, <1>5, <1>8
  <2>2. i \in 1 .. head /\ k \in 1 .. head /\ i <= k
    BY <1>2, <1>8, <2>1
  <2>3. k \notin n + 1 .. m => k = i
    BY <1>2, <1>8, <2>1, <2>2
  <2> QED
    BY <1>1, <1>3, <1>6, <1>8, <2>1, <2>2, <2>3
<1> QED
  BY <1>4, <1>6, <1>7, <1>8

\* The record of a forecast, by the events so far.
LEMMA ForecastCases ==
  ASSUME ChainInv, NEW n \in 0 .. head
  PROVE  /\ (\A j \in 1 .. n : chain[j].kind # "committed") =>
              /\ ForecastAt(n) = NoForecast
              /\ \A j \in 1 .. n : chain[j].kind # "settled"
         /\ (\E j \in 1 .. n : chain[j].kind = "committed")
              /\ (\A j \in 1 .. n : chain[j].kind # "settled") =>
              ForecastAt(n) = [settled |-> FALSE, decision |-> 0]
         /\ \A i \in 1 .. n : chain[i].kind = "settled" =>
              ForecastAt(n) = [settled |-> TRUE, decision |-> chain[i].decision]
<1>1. n \in Nat /\ n <= head /\ head \in Nat
  BY DEF ChainInv, ChainTypes
<1>2. \A j \in 1 .. n : chain[j].kind = "settled" => \E i \in 1 .. n : chain[i].kind = "committed"
  <2> SUFFICES ASSUME NEW j \in 1 .. n, chain[j].kind = "settled"
               PROVE  \E i \in 1 .. n : chain[i].kind = "committed"
    OBVIOUS
  <2>1. PICK i \in 1 .. j - 1 : chain[i].kind = "committed"
    BY <1>1 DEF ChainInv, EventsInOrder
  <2> QED
    BY <1>1, <2>1
<1>3. \A i, j \in 1 .. n : chain[i].kind = "settled" /\ chain[j].kind = "settled" => i = j
  <2> SUFFICES ASSUME NEW i \in 1 .. n, NEW j \in 1 .. n, chain[i].kind = "settled",
                      chain[j].kind = "settled", i < j
               PROVE  FALSE
    BY <1>1
  <2>1. j \in 1 .. head /\ i \in 1 .. j - 1
    BY <1>1
  <2> QED
    BY <2>1 DEF ChainInv, EventsInOrder
<1>4. CASE \A j \in 1 .. n : chain[j].kind # "committed"
  BY <1>1, <1>2, <1>4, ForecastIsLast
<1>5. CASE /\ \E j \in 1 .. n : chain[j].kind = "committed"
           /\ \A j \in 1 .. n : chain[j].kind # "settled"
  <2>1. ForecastAt(n) = [settled |-> FALSE, decision |-> 0]
    BY <1>1, <1>5, ForecastIsLast
  <2> QED
    BY <1>5, <2>1
<1>6. ASSUME NEW i \in 1 .. n, chain[i].kind = "settled"
      PROVE  ForecastAt(n) = [settled |-> TRUE, decision |-> chain[i].decision]
  <2>1. \E j \in 1 .. n : chain[j].kind = "committed"
    BY <1>2, <1>6
  <2>2. PICK k \in 1 .. n : /\ chain[k].kind = "settled"
                            /\ ForecastAt(n) = [settled |-> TRUE, decision |-> chain[k].decision]
    BY <1>1, <1>6, <2>1, ForecastIsLast
  <2> QED
    BY <1>3, <1>6, <2>2
<1> QED
  BY <1>4, <1>5, <1>6

\* It moves only by its own events, and not once it is settled.
LEMMA ForecastMoves ==
  ASSUME ChainInv, NEW m \in 0 .. head, NEW n \in 0 .. m
  PROVE  /\ (\A j \in n + 1 .. m : chain[j].kind \notin {"committed", "settled"}) =>
              ForecastAt(n) = ForecastAt(m)
         /\ (\E i \in 1 .. n : chain[i].kind = "settled") => ForecastAt(n) = ForecastAt(m)
<1>1. m \in Nat /\ n \in Nat /\ n <= m /\ m <= head /\ head \in Nat /\ n \in 0 .. head
  BY DEF ChainInv, ChainTypes
<1>2. ASSUME NEW i \in 1 .. n, chain[i].kind = "settled"
      PROVE  ForecastAt(n) = ForecastAt(m)
  <2>1. i \in 1 .. m
    BY <1>1
  <2> QED
    BY <1>1, <1>2, <2>1, ForecastCases
<1>3. ASSUME \A j \in n + 1 .. m : chain[j].kind \notin {"committed", "settled"}
      PROVE  ForecastAt(n) = ForecastAt(m)
  <2>1. \A j \in 1 .. m : chain[j].kind \in {"committed", "settled"} => j \in 1 .. n
    BY <1>1, <1>3
  <2>2. \A j \in 1 .. n : j \in 1 .. m
    BY <1>1
  <2>3. CASE \E i \in 1 .. n : chain[i].kind = "settled"
    BY <1>2, <2>3
  <2>4. CASE \A j \in 1 .. n : chain[j].kind # "committed"
    <3>1. ForecastAt(n) = NoForecast
      BY <1>1, <2>4, ForecastCases
    <3>2. ForecastAt(m) = NoForecast
      BY <2>1, <2>4, ForecastCases
    <3> QED
      BY <3>1, <3>2
  <2>5. CASE /\ \E j \in 1 .. n : chain[j].kind = "committed"
             /\ \A j \in 1 .. n : chain[j].kind # "settled"
    <3>1. ForecastAt(n) = [settled |-> FALSE, decision |-> 0]
      BY <1>1, <2>5, ForecastCases
    <3>2. ForecastAt(m) = [settled |-> FALSE, decision |-> 0]
      BY <2>1, <2>2, <2>5, ForecastCases
    <3> QED
      BY <3>1, <3>2
  <2> QED
    BY <2>3, <2>4, <2>5
<1> QED
  BY <1>2, <1>3

\* The claim row after a chunk is the record of some block at or above its last.
LEMMA ClaimRowFollows ==
  ASSUME ChainInv, fork = 0, NEW p \in Syncers, ChunkInv(p), ReadInv(p), syncs[p] \in Sync,
         syncs[p].pc = "read", cursor \in Nat, NEW k \in cursor .. head, claimRow = StatusAt(k)
  PROVE  \E h \in syncs[p].to .. head : ClaimAfter(p) = StatusAt(h)
<1> ChainTypes /\ Confirmations /\ EventsInOrder
  BY DEF ChainInv
<1> DEFINE sync == syncs[p]
           from == sync.from
           to == sync.to
           S == {j \in Blocks(p, {"status", "decided"}) : sync.events[j].status # 0}
<1>1. /\ from \in Nat /\ to \in Nat /\ head \in Nat /\ from = cursor + 1 /\ from <= to
      /\ to <= head /\ DOMAIN sync.events = from .. to
      /\ \A i \in from .. to : sync.events[i] = chain[i]
  <2>1. confirmed \in Nat /\ confirmed <= head /\ head \in Nat
    BY DEF Confirmations, ChainTypes
  <2>2. sync.from \in Nat /\ sync.to \in Nat /\ sync.latest \in Nat
    BY DEF Sync
  <2> QED
    BY <2>1, <2>2 DEF ChunkInv
<1>2. \A i \in from .. to : i \in 1 .. head /\ chain[i] \in Block
  BY <1>1 DEF ChainTypes
<1> HIDE DEF from, to
<1>3. S = {i \in from .. to : chain[i].kind \in {"status", "decided"} /\ chain[i].status # 0}
  BY <1>1 DEF Blocks
<1>4. S \in SUBSET (1 .. to)
  BY <1>1, <1>3
<1>5. CASE S # {}
  <2> DEFINE i == MaxOrZero(S)
  <2>1. i \in S /\ \A j \in S : j <= i
    <3> HIDE DEF S
    <3> QED
      BY <1>1, <1>4, <1>5, MaxIsGreatest
  <2> HIDE DEF i
  <2>2. i \in from .. to /\ i \in 1 .. to /\ chain[i].status # 0
    BY <1>1, <1>3, <2>1
  <2>3. ClaimAfter(p) = chain[i].status
    <3>1. i # 0 /\ sync.events[i] = chain[i]
      BY <1>1, <2>2
    <3> QED
      BY <3>1 DEF ClaimAfter, i
  <2>4. PICK n \in 1 .. to : /\ StatusAt(to) = chain[n].status /\ chain[n].status # 0
                             /\ \A j \in 1 .. to : chain[j].status # 0 => j <= n
    BY <1>1, <2>2, StatusIsLast
  <2>5. n \in from .. to /\ i <= n
    BY <1>1, <2>2, <2>4
  <2>6. ASSUME i < n PROVE n \in S
    <3>1. n \in 1 .. head /\ i \in 1 .. n - 1 /\ chain[i].status \in Nat /\ chain[n] \in Block
      BY <1>1, <1>2, <2>2, <2>5, <2>6 DEF Block
    <3>2. chain[i].status < chain[n].status
      BY <2>4, <3>1 DEF EventsInOrder
    <3>3. chain[n].kind # "created"
      BY <2>2, <3>1, <3>2 DEF EventsInOrder
    <3>4. chain[n].kind \notin {"empty", "committed", "settled"}
      BY <2>4, <3>1 DEF EventsInOrder
    <3> QED
      BY <1>3, <2>4, <2>5, <3>1, <3>3, <3>4 DEF Block, EventKind
  <2>7. i = n
    BY <1>1, <2>1, <2>2, <2>5, <2>6
  <2> QED
    BY <1>1, <2>3, <2>4, <2>7 DEF to
<1>6. CASE S = {} /\ CreatesClaim(p)
  <2>1. ClaimAfter(p) = sync.claim
    BY <1>6 DEF ClaimAfter, MaxOrZero
  <2> QED
    BY <1>6, <2>1 DEF ReadInv
<1>7. CASE S = {} /\ ~CreatesClaim(p)
  <2>1. ClaimAfter(p) = claimRow
    BY <1>7 DEF ClaimAfter, MaxOrZero
  <2>2. ASSUME NEW j \in from .. to PROVE chain[j].status = 0
    <3>1. chain[j].kind # "created"
      BY <1>1, <1>7 DEF CreatesClaim, Blocks
    <3>2. chain[j].kind \in EventKind /\ j \in 1 .. head
      BY <1>2 DEF Block
    <3>3. chain[j].kind \in {"empty", "committed", "settled"} => chain[j].status = 0
      BY <3>2 DEF EventsInOrder
    <3> QED
      BY <1>3, <1>7, <3>1, <3>2, <3>3 DEF EventKind
  <2>3. CASE k >= to
    BY <1>1, <2>1, <2>3 DEF to
  <2>4. CASE k < to
    <3>1. \A j \in k + 1 .. to : chain[j].status = 0
      BY <1>1, <2>2
    <3>2. to \in 0 .. head /\ k \in 0 .. to
      BY <1>1, <2>4
    <3>3. StatusAt(k) = StatusAt(to)
      BY <3>1, <3>2, StatusGrows
    <3> QED
      BY <1>1, <2>1, <3>3 DEF to
  <2> QED
    BY <1>1, <2>3, <2>4
<1> QED
  BY <1>5, <1>6, <1>7

\* So is the forecast row.
LEMMA ForecastRowFollows ==
  ASSUME ChainInv, fork = 0, NEW p \in Syncers, ChunkInv(p), ReadInv(p), syncs[p] \in Sync,
         syncs[p].pc = "read", cursor \in Nat, NEW r \in cursor .. head, forecastRow = ForecastAt(r)
  PROVE  \E h \in syncs[p].to .. head : ForecastAfter(p) = ForecastAt(h)
<1> ChainTypes /\ Confirmations /\ EventsInOrder
  BY DEF ChainInv
<1> DEFINE sync == syncs[p]
           from == sync.from
           to == sync.to
           S == Blocks(p, {"settled"})
<1>1. /\ from \in Nat /\ to \in Nat /\ head \in Nat /\ from = cursor + 1 /\ from <= to
      /\ to <= head /\ DOMAIN sync.events = from .. to
      /\ \A i \in from .. to : sync.events[i] = chain[i]
  <2>1. confirmed \in Nat /\ confirmed <= head /\ head \in Nat
    BY DEF Confirmations, ChainTypes
  <2>2. sync.from \in Nat /\ sync.to \in Nat /\ sync.latest \in Nat
    BY DEF Sync
  <2> QED
    BY <2>1, <2>2 DEF ChunkInv
<1> HIDE DEF from, to
<1>2. /\ S = {i \in from .. to : chain[i].kind = "settled"}
      /\ TouchesForecast(p) <=> \E i \in from .. to : chain[i].kind \in {"committed", "settled"}
  BY <1>1 DEF Blocks, TouchesForecast
<1>3. CASE S # {}
  <2> DEFINE i == Max(S)
  <2>1. i \in S
    <3>1. S \in SUBSET (1 .. to)
      BY <1>1, <1>2
    <3> HIDE DEF S
    <3> QED
      BY <1>1, <1>3, <3>1, MaxIsGreatest
  <2> HIDE DEF i
  <2>2. i \in from .. to /\ i \in 1 .. to /\ chain[i].kind = "settled" /\ to \in 0 .. head
    BY <1>1, <1>2, <2>1
  <2>3. ForecastAfter(p) = [settled |-> TRUE, decision |-> chain[i].decision]
    BY <1>1, <1>3, <2>2 DEF ForecastAfter, i
  <2>4. ForecastAt(to) = [settled |-> TRUE, decision |-> chain[i].decision]
    BY <2>2, ForecastCases
  <2> QED
    BY <1>1, <2>3, <2>4 DEF to
<1>4. CASE S = {} /\ TouchesForecast(p)
  <2>1. PICK h \in to .. head : \E k \in cursor .. h :
          forecastRow = ForecastAt(k) /\ sync.forecast = ForecastAt(h)
    BY <1>4 DEF ReadInv, to
  <2>2. PICK k \in cursor .. h : forecastRow = ForecastAt(k) /\ sync.forecast = ForecastAt(h)
    BY <2>1
  <2>3. h \in 0 .. head /\ k \in 0 .. h /\ k \in 0 .. head
    BY <1>1, <2>1, <2>2
  <2>4. ForecastAfter(p) =
          [settled |-> sync.forecast.settled,
           decision |-> IF forecastRow.decision > 0 THEN forecastRow.decision
                        ELSE sync.forecast.decision]
    BY <1>4 DEF ForecastAfter, Upserted
  <2>5. sync.forecast = [settled |-> sync.forecast.settled, decision |-> sync.forecast.decision]
    BY DEF Sync, Forecasts
  <2>6. forecastRow.decision > 0 => forecastRow = sync.forecast
    <3>1. CASE \E i \in 1 .. k : chain[i].kind = "settled"
      BY <2>2, <2>3, <3>1, ForecastMoves
    <3>2. CASE \A i \in 1 .. k : chain[i].kind # "settled"
      <4>1. \/ ForecastAt(k) = NoForecast
            \/ ForecastAt(k) = [settled |-> FALSE, decision |-> 0]
        BY <2>3, <3>2, ForecastCases
      <4>2. NoForecast.decision = -1 /\ [settled |-> FALSE, decision |-> 0].decision = 0
        BY DEF NoForecast
      <4>3. ~(forecastRow.decision > 0)
        BY <2>2, <4>1, <4>2
      <4> QED
        BY <4>3
    <3> QED
      BY <3>1, <3>2
  <2>7. ForecastAfter(p) = sync.forecast
    <3>1. CASE forecastRow.decision > 0
      <4>1. ForecastAfter(p) =
              [settled |-> sync.forecast.settled, decision |-> sync.forecast.decision]
        BY <2>4, <2>6, <3>1
      <4> QED
        BY <2>5, <4>1
    <3>2. CASE ~(forecastRow.decision > 0)
      <4>1. ForecastAfter(p) =
              [settled |-> sync.forecast.settled, decision |-> sync.forecast.decision]
        BY <2>4, <3>2
      <4> QED
        BY <2>5, <4>1
    <3> QED
      BY <3>1, <3>2
  <2> QED
    BY <2>1, <2>2, <2>7 DEF to
<1>5. CASE ~TouchesForecast(p)
  <2>1. S = {}
    BY <1>2, <1>5
  <2>2. ForecastAfter(p) = ForecastAt(r)
    BY <1>5, <2>1 DEF ForecastAfter, Upserted
  <2>3. CASE r >= to
    BY <1>1, <2>2, <2>3 DEF to
  <2>4. CASE r < to
    <3>1. \A j \in r + 1 .. to : chain[j].kind \notin {"committed", "settled"}
      BY <1>1, <1>2, <1>5
    <3>2. to \in 0 .. head /\ r \in 0 .. to
      BY <1>1, <2>4
    <3>3. ForecastAt(r) = ForecastAt(to)
      BY <3>1, <3>2, ForecastMoves
    <3> QED
      BY <1>1, <2>2, <3>3 DEF to
  <2> QED
    BY <1>1, <2>3, <2>4
<1> QED
  BY <1>3, <1>4, <1>5

\* Until a reorganization the chain only grows.
LEMMA ChainMovesKeepRecords ==
  ASSUME IndexInv, RecordsInv, ChainStep, UNCHANGED syncVars
  PROVE  RecordsInv'
<1> ChainInv /\ ChainTypes /\ SyncTypes
  BY DEF IndexInv, ChainInv
<1> SUFFICES ASSUME fork' = 0 PROVE RecordsInv'
  BY DEF RecordsInv
<1>1. UNCHANGED <<syncs, cursor, claimRow, forecastRow>>
  BY DEF syncVars, progressVars, rowVars
<1>2. /\ fork = 0 /\ head' = head + 1 /\ head \in Nat /\ cursor \in Nat
      /\ \A i \in 1 .. head : chain'[i] = chain[i]
  <2>1. \A m \in 0 .. MaxBlocks : ~Reorganize(m)
    BY DEF Reorganize, ChainTypes
  <2>2. PICK kind \in EventKind, status \in 0 .. MaxStatus, decision \in 0 .. MaxBlocks :
          Mine(kind, status, decision)
    BY <2>1 DEF ChainStep
  <2> QED
    BY <2>2 DEF Mine, ChainTypes, SyncTypes
<1>3. ASSUME NEW h \in 0 .. head
      PROVE  StatusAt(h)' = StatusAt(h) /\ ForecastAt(h)' = ForecastAt(h) /\ h \in 0 .. head'
  <2>1. h \in Nat /\ \A i \in 1 .. h : chain'[i] = chain[i]
    BY <1>2
  <2> QED
    BY <1>2, <2>1, BlocksDecide
<1>4. \A n \in Nat : n .. head \subseteq n .. head'
  BY <1>2
<1>5. \E h \in cursor .. head' : claimRow = StatusAt(h)'
  BY <1>2, <1>3, <1>4 DEF RecordsInv
<1>6. \E h \in cursor .. head' : forecastRow = ForecastAt(h)'
  BY <1>2, <1>3, <1>4 DEF RecordsInv
<1>7. ASSUME NEW p \in Syncers PROVE ReadInv(p)'
  <2>1. ReadInv(p) /\ syncs[p].to \in Nat
    BY <1>2 DEF RecordsInv, SyncTypes, Sync
  <2>2. ASSUME syncs[p].pc = "read", CreatesClaim(p)
        PROVE  \E h \in syncs[p].to .. head' : syncs[p].claim = StatusAt(h)'
    BY <1>2, <1>3, <1>4, <2>1, <2>2 DEF ReadInv
  <2>3. ASSUME syncs[p].pc = "read", TouchesForecast(p)
        PROVE  \E h \in syncs[p].to .. head' : \E k \in cursor .. h :
                 forecastRow = ForecastAt(k)' /\ syncs[p].forecast = ForecastAt(h)'
    <3>1. PICK h \in syncs[p].to .. head : \E k \in cursor .. h :
            forecastRow = ForecastAt(k) /\ syncs[p].forecast = ForecastAt(h)
      BY <2>1, <2>3 DEF ReadInv
    <3>2. PICK k \in cursor .. h : forecastRow = ForecastAt(k) /\ syncs[p].forecast = ForecastAt(h)
      BY <3>1
    <3>3. h \in 0 .. head /\ k \in 0 .. head /\ h \in syncs[p].to .. head'
      BY <1>2, <2>1, <3>1, <3>2
    <3> QED
      BY <1>3, <3>2, <3>3
  <2> QED
    BY <1>1, <2>2, <2>3 DEF ReadInv, CreatesClaim, TouchesForecast, Blocks
<1> QED
  BY <1>1, <1>5, <1>6, <1>7 DEF RecordsInv

\* A step of one process, in three ways: nothing written or read, records read, or a
\* chunk applied.
LEMMA SyncsKeepRecords ==
  ASSUME IndexInv, RecordsInv, UNCHANGED chainVars, NEW p \in Syncers,
         SyncStep(p) \/ Throw(p) \/ Crash(p)
  PROVE  RecordsInv'
<1> ChainInv /\ ChainTypes /\ Confirmations /\ SyncTypes /\ LockInv
  BY DEF IndexInv, ChainInv
<1> SUFFICES ASSUME fork = 0 PROVE RecordsInv'
  BY DEF RecordsInv, chainVars
<1>1. /\ deep = FALSE /\ ChunkInv(p) /\ UNCHANGED <<chain, head, fork>>
      /\ cursor \in Nat /\ head \in Nat /\ syncs[p] \in Sync
  BY DEF IndexInv, Confirmations, chainVars, SyncTypes, ChainTypes
<1>2. PICK a \in cursor .. head : claimRow = StatusAt(a)
  BY DEF RecordsInv
<1>3. PICK b \in cursor .. head : forecastRow = ForecastAt(b)
  BY DEF RecordsInv
<1>4. \A n : StatusAt(n)' = StatusAt(n) /\ ForecastAt(n)' = ForecastAt(n)
  BY <1>1 DEF StatusAt, ForecastAt
<1>5. \A q \in Syncers : ReadInv(q)
  BY DEF RecordsInv
<1>6. CASE /\ UNCHANGED <<cursor, claimRow, forecastRow>>
           /\ \A q \in Syncers : syncs'[q] = syncs[q] \/ syncs'[q].pc # "read"
  <2>1. ASSUME NEW q \in Syncers PROVE ReadInv(q)'
    <3>1. CASE syncs'[q] = syncs[q]
      BY <1>1, <1>4, <1>5, <1>6, <3>1 DEF ReadInv, CreatesClaim, TouchesForecast, Blocks
    <3>2. CASE syncs'[q].pc # "read"
      BY <3>2 DEF ReadInv
    <3> QED
      BY <1>6, <3>1, <3>2
  <2> QED
    BY <1>1, <1>2, <1>3, <1>4, <1>6, <2>1 DEF RecordsInv
<1>7. CASE ReadRecords(p)
  <2> DEFINE sync == syncs[p]
             claim == IF CreatesClaim(p) THEN StatusAt(head) ELSE 0
             forecast == IF TouchesForecast(p) THEN ForecastAt(head) ELSE NoForecast
             new == [sync EXCEPT !.pc = "read", !.claim = claim, !.forecast = forecast]
  <2>1. /\ sync.pc = "hashed" /\ syncs' = [syncs EXCEPT ![p] = new]
        /\ UNCHANGED <<cursor, claimRow, forecastRow>>
    BY <1>7 DEF ReadRecords, progressVars, rowVars
  <2> HIDE DEF claim, forecast
  <2>2. /\ new.to = sync.to /\ new.events = sync.events /\ new.claim = claim
        /\ new.forecast = forecast
    BY <1>1 DEF Sync
  <2> HIDE DEF new
  <2>3. syncs'[p] = new /\ \A q \in Syncers \ {p} : syncs'[q] = syncs[q]
    BY <2>1 DEF SyncTypes
  <2>4. sync.to \in Nat /\ sync.to <= head
    <3>1. sync.to <= sync.latest /\ sync.latest <= confirmed /\ confirmed <= head
      BY <1>1, <2>1 DEF ChunkInv, Confirmations
    <3>2. confirmed \in Nat /\ sync.latest \in Nat /\ sync.to \in Nat
      BY <1>1 DEF ChainTypes, Sync
    <3> QED
      BY <1>1, <3>1, <3>2
  <2>5. head \in sync.to .. head /\ b \in cursor .. head
    BY <1>1, <2>4
  <2>6. (CreatesClaim(p)' <=> CreatesClaim(p)) /\ (TouchesForecast(p)' <=> TouchesForecast(p))
    BY <2>2, <2>3 DEF CreatesClaim, TouchesForecast, Blocks
  <2>7. ReadInv(p)'
    <3>1. CreatesClaim(p) => claim = StatusAt(head)
      BY DEF claim
    <3>2. TouchesForecast(p) => forecast = ForecastAt(head)
      BY DEF forecast
    <3> QED
      BY <1>1, <1>3, <1>4, <2>1, <2>2, <2>3, <2>5, <2>6, <3>1, <3>2 DEF ReadInv
  <2>8. ASSUME NEW q \in Syncers \ {p} PROVE ReadInv(q)'
    BY <1>1, <1>4, <1>5, <2>1, <2>3 DEF ReadInv, CreatesClaim, TouchesForecast, Blocks
  <2> QED
    BY <1>1, <1>2, <1>3, <1>4, <2>1, <2>7, <2>8 DEF RecordsInv
<1>8. CASE ApplyChunk(p)
  <2> DEFINE sync == syncs[p]
  <2>1. /\ sync.pc = "read" /\ cursor' = sync.to
        /\ claimRow' = ClaimAfter(p) /\ forecastRow' = ForecastAfter(p)
    BY <1>8 DEF ApplyChunk, WriteProgress
  <2>2. \E h \in sync.to .. head : ClaimAfter(p) = StatusAt(h)
    BY <1>1, <1>2, <1>5, <2>1, ClaimRowFollows
  <2>3. \E h \in sync.to .. head : ForecastAfter(p) = ForecastAt(h)
    BY <1>1, <1>3, <1>5, <2>1, ForecastRowFollows
  <2>4. ASSUME NEW q \in Syncers PROVE ReadInv(q)'
    <3>1. CASE q = p
      <4>1. syncs'[p].pc = "ready"
        BY <1>8 DEF ApplyChunk, SyncTypes, Idle
      <4> QED
        BY <3>1, <4>1 DEF ReadInv
    <3>2. CASE q # p
      <4>1. syncs[q].pc # "read"
        BY <2>1, <3>2 DEF LockInv, HoldsLock
      <4>2. syncs'[q] = syncs[q]
        BY <1>8, <3>2 DEF ApplyChunk, SyncTypes
      <4> QED
        BY <4>1, <4>2 DEF ReadInv
    <3> QED
      BY <3>1, <3>2
  <2> QED
    BY <1>1, <1>4, <2>1, <2>2, <2>3, <2>4 DEF RecordsInv
<1>9. CASE ~ReadRecords(p) /\ ~ApplyChunk(p)
  <2>1. UNCHANGED <<cursor, claimRow, forecastRow>>
    BY <1>9 DEF SyncStep, Throw, Crash, FailSync, ReadHead, AcquireLock, CheckCursor,
       FetchChunkEvents, ReadBlockHash, MissingOnChain, RefuseChunk, FinishChunks,
       MarkSyncSucceeded, progressVars, rowVars
  <2>2. \A q \in Syncers : syncs'[q] = syncs[q] \/ syncs'[q].pc # "read"
    <3>1. Idle.pc = "idle" /\ \A l : [Idle EXCEPT !.pc = "started", !.latest = l].pc = "started"
      BY DEF Idle
    <3>2. /\ \A x : [syncs EXCEPT ![p] = x][p] = x
          /\ \A x : \A q \in Syncers \ {p} : [syncs EXCEPT ![p] = x][q] = syncs[q]
      BY DEF SyncTypes
    <3>3. SUFFICES \E x : syncs' = [syncs EXCEPT ![p] = x] /\ x.pc # "read"
      BY <3>2
    <3>4. CASE ReadHead(p)
      BY <3>1, <3>4 DEF ReadHead
    <3>5. CASE /\ syncs' = [syncs EXCEPT ![p] = Idle]
      BY <3>1, <3>5
    <3>6. CASE AcquireLock(p) /\ syncs' # [syncs EXCEPT ![p] = Idle]
      <4>1. syncs' = [syncs EXCEPT ![p] = [syncs[p] EXCEPT !.pc = "locked"]]
        BY <3>6 DEF AcquireLock, Goto
      <4>2. [syncs[p] EXCEPT !.pc = "locked"].pc = "locked"
        BY <1>1 DEF Sync
      <4> QED
        BY <4>1, <4>2
    <3>7. CASE CheckCursor(p) /\ syncs' # [syncs EXCEPT ![p] = Idle]
      <4>1. syncs' = [syncs EXCEPT ![p] = [syncs[p] EXCEPT !.pc = "ready", !.from = cursor + 1]]
        BY <3>7 DEF CheckCursor, FailSync
      <4>2. [syncs[p] EXCEPT !.pc = "ready", !.from = cursor + 1].pc = "ready"
        BY <1>1 DEF Sync
      <4> QED
        BY <4>1, <4>2
    <3>8. CASE FetchChunkEvents(p)
      <4>1. PICK to, events :
              syncs' = [syncs EXCEPT ![p] = [syncs[p] EXCEPT !.pc = "fetched", !.to = to,
                                                             !.events = events]]
        BY <3>8 DEF FetchChunkEvents
      <4>2. [syncs[p] EXCEPT !.pc = "fetched", !.to = to, !.events = events].pc = "fetched"
        BY <1>1 DEF Sync
      <4> QED
        BY <4>1, <4>2
    <3>9. CASE ReadBlockHash(p)
      <4>1. syncs' = [syncs EXCEPT ![p] = [syncs[p] EXCEPT !.pc = "hashed",
                                                           !.hash = Hash(syncs[p].to)]]
        BY <3>9 DEF ReadBlockHash
      <4>2. [syncs[p] EXCEPT !.pc = "hashed", !.hash = Hash(syncs[p].to)].pc = "hashed"
        BY <1>1 DEF Sync
      <4> QED
        BY <4>1, <4>2
    <3>10. CASE FinishChunks(p)
      <4>1. syncs' = [syncs EXCEPT ![p] = [syncs[p] EXCEPT !.pc = "finishing"]]
        BY <3>10 DEF FinishChunks, Goto
      <4>2. [syncs[p] EXCEPT !.pc = "finishing"].pc = "finishing"
        BY <1>1 DEF Sync
      <4> QED
        BY <4>1, <4>2
    <3> QED
      BY <1>9, <3>4, <3>5, <3>6, <3>7, <3>8, <3>9, <3>10
      DEF SyncStep, MissingOnChain, RefuseChunk, MarkSyncSucceeded, Throw, Crash, FailSync
  <2> QED
    BY <1>6, <2>1, <2>2
<1> QED
  BY <1>7, <1>8, <1>9

\* RowsConverge: rows that mix records read at the head with older events settle all
\* the same; until a reorganization, once the last event of a claim or a forecast is
\* indexed its row is its record.
THEOREM RowsAlwaysConverge == Spec => []RowsConverge
<1>1. Init => RecordsInv
  <2> SUFFICES ASSUME Init PROVE RecordsInv
    OBVIOUS
  <2> USE DEF Init, ChainInit, SyncInit
  <2>1. StatusAt(0) = 0
    BY StatusIsLast
  <2>2. ForecastAt(0) = NoForecast
    BY ForecastIsLast
  <2>3. \A p \in Syncers : syncs[p].pc # "read"
    BY DEF Idle
  <2>4. 0 \in cursor .. head
    OBVIOUS
  <2> QED
    BY <2>1, <2>2, <2>3, <2>4 DEF RecordsInv, ReadInv
<1>2. IndexInv /\ RecordsInv /\ [Next]_vars => RecordsInv'
  <2> SUFFICES ASSUME IndexInv, RecordsInv, [Next]_vars PROVE RecordsInv'
    OBVIOUS
  <2>1. CASE UNCHANGED vars
    <3>1. UNCHANGED <<chain, head, fork, syncs, cursor, claimRow, forecastRow>>
      BY <2>1 DEF vars, chainVars, syncVars, progressVars, rowVars
    <3>2. \A n : StatusAt(n)' = StatusAt(n) /\ ForecastAt(n)' = ForecastAt(n)
      BY <3>1 DEF StatusAt, ForecastAt
    <3> QED
      BY <3>1, <3>2 DEF RecordsInv, ReadInv, CreatesClaim, TouchesForecast, Blocks
  <2> QED
    BY <2>1, ChainMovesKeepRecords, SyncsKeepRecords DEF Next
<1>3. IndexInv /\ RecordsInv => RowsConverge
  <2> SUFFICES ASSUME IndexInv, RecordsInv, fork = 0 PROVE RowsConverge
    BY DEF RowsConverge
  <2>1. ChainInv /\ cursor \in Nat /\ head \in Nat
    BY DEF IndexInv, ChainInv, ChainTypes, SyncTypes
  <2>2. ASSUME StatusAt(cursor) = StatusAt(head) PROVE claimRow = StatusAt(head)
    <3>1. PICK h \in cursor .. head : claimRow = StatusAt(h)
      BY DEF RecordsInv
    <3>2. h \in 0 .. head /\ cursor \in 0 .. h /\ head \in 0 .. head
      BY <2>1, <3>1
    <3>3. StatusAt(cursor) <= StatusAt(h) /\ StatusAt(cursor) \in Nat /\ StatusAt(h) \in Nat
      BY <2>1, <3>2, StatusGrows
    <3>4. StatusAt(h) <= StatusAt(head)
      BY <2>1, <3>2, StatusGrows
    <3> QED
      BY <2>2, <3>1, <3>3, <3>4
  <2>3. ASSUME ForecastAt(cursor) = ForecastAt(head) PROVE forecastRow = ForecastAt(head)
    <3>1. PICK h \in cursor .. head : forecastRow = ForecastAt(h)
      BY DEF RecordsInv
    <3>2. h \in 0 .. head /\ cursor \in 0 .. h /\ head \in 0 .. head /\ cursor \in 0 .. head
      BY <2>1, <3>1
    <3>3. /\ \A i \in 1 .. cursor : i \in 1 .. h /\ i \in 1 .. head
          /\ \A i \in 1 .. h : i \in 1 .. head
      BY <2>1, <3>2
    <3>4. CASE \E i \in 1 .. cursor : chain[i].kind = "settled"
      BY <2>1, <2>3, <3>1, <3>2, <3>4, ForecastMoves
    <3>5. CASE \A j \in 1 .. head : chain[j].kind # "committed"
      <4>1. ForecastAt(h) = NoForecast /\ ForecastAt(head) = NoForecast
        BY <2>1, <3>2, <3>3, <3>5, ForecastCases
      <4> QED
        BY <3>1, <4>1
    <3>6. CASE /\ \A i \in 1 .. cursor : chain[i].kind # "settled"
               /\ \E j \in 1 .. head : chain[j].kind = "committed"
      <4>1. ForecastAt(cursor) \in {NoForecast, [settled |-> FALSE, decision |-> 0]}
        BY <2>1, <3>2, <3>6, ForecastCases
      <4>2. ForecastAt(head) = [settled |-> FALSE, decision |-> 0]
            /\ \A i \in 1 .. head : chain[i].kind # "settled"
        <5>1. ForecastAt(head) # NoForecast
          <6>1. \/ ForecastAt(head) = [settled |-> FALSE, decision |-> 0]
                \/ \E i \in 1 .. head :
                     ForecastAt(head) = [settled |-> TRUE, decision |-> chain[i].decision]
            BY <2>1, <3>2, <3>6, ForecastCases
          <6>2. \A i \in 1 .. head : chain[i].decision # -1
            BY <2>1 DEF ChainInv, ChainTypes, Block
          <6> QED
            BY <6>1, <6>2 DEF NoForecast
        <5>2. ForecastAt(head) = [settled |-> FALSE, decision |-> 0]
          BY <2>3, <4>1, <5>1
        <5>3. ASSUME NEW i \in 1 .. head, chain[i].kind = "settled" PROVE FALSE
          <6>1. ForecastAt(head) = [settled |-> TRUE, decision |-> chain[i].decision]
            BY <2>1, <3>2, <5>3, ForecastCases
          <6> QED
            BY <5>2, <6>1
        <5> QED
          BY <5>2, <5>3
      <4>3. \E j \in 1 .. cursor : chain[j].kind = "committed"
        <5>1. SUFFICES ASSUME \A j \in 1 .. cursor : chain[j].kind # "committed" PROVE FALSE
          OBVIOUS
        <5>2. ForecastAt(cursor) = NoForecast
          BY <2>1, <3>2, <5>1, ForecastCases
        <5> QED
          BY <2>3, <4>2, <5>2 DEF NoForecast
      <4>4. (\E j \in 1 .. h : chain[j].kind = "committed")
            /\ \A j \in 1 .. h : chain[j].kind # "settled"
        BY <3>3, <4>2, <4>3
      <4>5. ForecastAt(h) = [settled |-> FALSE, decision |-> 0]
        BY <2>1, <3>2, <4>4, ForecastCases
      <4> QED
        BY <3>1, <4>2, <4>5
    <3> QED
      BY <3>4, <3>5, <3>6
  <2> QED
    BY <2>2, <2>3 DEF RowsConverge
<1> QED
  BY <1>1, <1>2, <1>3, IndexInvariant, PTL DEF Spec

-----------------------------------------------------------------------------
(***************************************************************************)
(* Forks.  A block of a hash that is no longer canonical is of an earlier  *)
(* branch than what replaces it, now or later: the hash will not fit again.*)
(***************************************************************************)
Lags(h, j) == h[j].fork < (IF j <= head THEN chain[j].fork ELSE fork)
Branch(h, n) ==
  /\ n \in Heights /\ h \in [1 .. n -> Block]
  /\ \A j \in 1 .. n : Lags(h, j) \/ (j <= head /\ h[j] = chain[j])

ForkInv ==
  /\ \A j \in 1 .. head : chain[j].fork <= fork
  /\ cursor > 0 => Branch(checkpoints[cursor], cursor)
  /\ \A p \in Syncers :
       /\ syncs[p].pc = "ready" => syncs[p].from >= 1
       /\ syncs[p].pc = "fetched" => syncs[p].to >= 1
       /\ syncs[p].pc \in {"hashed", "read"} => Branch(syncs[p].hash, syncs[p].to)

\* The cursor's block has been replaced, and nobody is past the check for that.
Stuck ==
  /\ cursor > 0 /\ \E j \in 1 .. cursor : Lags(checkpoints[cursor], j)
  /\ \A p \in Syncers : syncs[p].pc \in {"idle", "started", "locked"}

\* The next blocks are of the newest branch.
LEMMA NewBlocks ==
  ASSUME ChainInv, \A j \in 1 .. head : chain[j].fork <= fork, ChainStep
  PROVE  /\ \A j \in 1 .. head' : chain'[j].fork <= fork'
         /\ \A j \in Heights : \A h : h[j] \in Block /\ Lags(h, j) => Lags(h, j)'
         /\ \A j \in Heights : \A h :
              h[j] \in Block /\ j <= head /\ h[j] = chain[j] =>
                Lags(h, j)' \/ (j <= head' /\ h[j] = chain'[j])
<1> ChainTypes
  BY DEF ChainInv
<1>1. head \in Nat /\ fork \in Nat /\ Heights \subseteq Nat /\ MaxBlocks \in Nat
  BY ChainAssumption DEF ChainTypes, Heights
<1>2. /\ \A b \in Block : b.fork \in Nat
      /\ \A j \in 1 .. head : j \in Heights /\ chain[j] \in Block
  BY <1>1, ChainAssumption DEF Block, ChainTypes, Heights
<1>3. ASSUME NEW kind \in EventKind, NEW status \in 0 .. MaxStatus, NEW decision \in 0 .. MaxBlocks,
             Mine(kind, status, decision)
      PROVE  /\ head' = head + 1 /\ fork' = fork /\ chain'[head + 1].fork = fork
             /\ \A j \in 1 .. head : chain'[j] = chain[j]
  <2>1. /\ head' = head + 1 /\ fork' = fork /\ head + 1 \in Heights
        /\ chain' = [chain EXCEPT ![head + 1] =
             [kind |-> kind, status |-> status, decision |-> decision, fork |-> fork]]
    BY <1>1, <1>3 DEF Mine, Heights
  <2>2. chain'[head + 1] = [kind |-> kind, status |-> status, decision |-> decision, fork |-> fork]
    BY <2>1 DEF ChainTypes
  <2>3. \A j \in 1 .. head : chain'[j] = chain[j]
    BY <1>1, <1>2, <2>1 DEF ChainTypes
  <2> QED
    BY <2>1, <2>2, <2>3
<1>4. ASSUME NEW m \in 0 .. MaxBlocks, Reorganize(m)
      PROVE  /\ head' = m /\ m < head /\ fork' = fork + 1 /\ m \in Nat
             /\ \A j \in 1 .. m : chain'[j] = chain[j] /\ j \in 1 .. head
  BY <1>1, <1>2, <1>4 DEF Reorganize, Heights
<1>5. CASE \E kind \in EventKind, status \in 0 .. MaxStatus, decision \in 0 .. MaxBlocks :
             Mine(kind, status, decision)
  <2>1. /\ head' = head + 1 /\ fork' = fork /\ chain'[head + 1].fork = fork
        /\ \A j \in 1 .. head : chain'[j] = chain[j]
    BY <1>3, <1>5
  <2>2. \A j \in Heights : j <= head \/ j = head + 1 \/ j > head + 1
    BY <1>1
  <2>3. \A j \in Heights : j <= head => j \in 1 .. head
    BY <1>1 DEF Heights
  <2>4. \A j \in 1 .. head' : chain'[j].fork <= fork'
    <3> SUFFICES ASSUME NEW j \in 1 .. head' PROVE chain'[j].fork <= fork'
      OBVIOUS
    <3>1. CASE j = head + 1
      BY <1>1, <2>1, <3>1
    <3>2. CASE j # head + 1
      <4>1. j \in 1 .. head
        BY <1>1, <2>1, <3>2
      <4> QED
        BY <2>1, <4>1
    <3> QED
      BY <3>1, <3>2
  <2>5. ASSUME NEW j \in Heights, NEW h, h[j] \in Block, Lags(h, j) PROVE Lags(h, j)'
    <3>1. CASE j <= head
      <4>1. j \in 1 .. head /\ j <= head' /\ chain'[j] = chain[j] /\ j <= head
        BY <1>1, <2>1, <2>3, <3>1
      <4> QED
        BY <2>5, <4>1 DEF Lags
    <3>2. CASE j = head + 1
      <4>1. h[j].fork < fork /\ j <= head' /\ chain'[j].fork = fork
        BY <1>1, <2>1, <2>5, <3>2 DEF Lags
      <4> QED
        BY <4>1 DEF Lags
    <3>3. CASE j > head + 1
      <4>1. h[j].fork < fork /\ ~(j <= head') /\ fork' = fork
        BY <1>1, <2>1, <2>5, <3>3 DEF Lags
      <4> QED
        BY <4>1 DEF Lags
    <3> QED
      BY <2>2, <3>1, <3>2, <3>3
  <2>6. ASSUME NEW j \in Heights, NEW h, h[j] \in Block, j <= head, h[j] = chain[j]
        PROVE  Lags(h, j)' \/ (j <= head' /\ h[j] = chain'[j])
    BY <1>1, <2>1, <2>3, <2>6
  <2> QED
    BY <2>4, <2>5, <2>6
<1>6. CASE \E m \in 0 .. MaxBlocks : Reorganize(m)
  <2>1. /\ head' \in Nat /\ head' < head /\ fork' = fork + 1
        /\ \A j \in 1 .. head' : chain'[j] = chain[j] /\ j \in 1 .. head
    BY <1>4, <1>6
  <2>2. \A j \in Heights : /\ j <= head' => j \in 1 .. head'
                           /\ j <= head => j \in 1 .. head
    BY <1>1, <2>1 DEF Heights
  <2>3. \A j \in 1 .. head : chain[j].fork < fork'
    BY <1>1, <1>2, <2>1
  <2>4. \A j \in 1 .. head' : chain'[j].fork <= fork'
    BY <1>2, <1>1, <2>1
  <2>5. ASSUME NEW j \in Heights, NEW h, h[j] \in Block, Lags(h, j) PROVE Lags(h, j)'
    BY <1>1, <1>2, <2>1, <2>2, <2>3, <2>5 DEF Lags
  <2>6. ASSUME NEW j \in Heights, NEW h, h[j] \in Block, j <= head, h[j] = chain[j]
        PROVE  Lags(h, j)' \/ (j <= head' /\ h[j] = chain'[j])
    BY <1>1, <1>2, <2>1, <2>2, <2>3, <2>6 DEF Lags
  <2> QED
    BY <2>4, <2>5, <2>6
<1> QED
  BY <1>5, <1>6 DEF ChainStep

\* A hash stays what it was, of a branch.
LEMMA BranchesStay ==
  ASSUME ChainInv, \A j \in 1 .. head : chain[j].fork <= fork, ChainStep, NEW h, NEW n, Branch(h, n)
  PROVE  n \in Heights /\ h \in [1 .. n -> Block]
         /\ \A j \in 1 .. n : Lags(h, j)' \/ (j <= head' /\ h[j] = chain'[j])
<1>1. n \in Heights /\ h \in [1 .. n -> Block]
  BY DEF Branch
<1>2. \A j \in 1 .. n : j \in Heights /\ h[j] \in Block
  BY <1>1, ChainAssumption DEF Heights
<1> QED
  BY <1>1, <1>2, NewBlocks DEF Branch

\* The hash of a block is that of the canonical branch.
LEMMA HashIsBranch ==
  ASSUME ChainInv, NEW n \in 1 .. head
  PROVE  Branch(Hash(n), n)
<1>1. head \in Nat /\ MaxBlocks \in Nat /\ head <= MaxBlocks /\ \A j \in 1 .. head : chain[j] \in Block
  BY ChainAssumption DEF ChainInv, ChainTypes
<1>2. n \in Heights /\ \A j \in 1 .. n : j \in 1 .. head /\ j <= head
  BY <1>1 DEF Heights
<1>3. Hash(n) = [j \in 1 .. n |-> chain[j]]
  BY DEF Hash
<1> QED
  BY <1>1, <1>2, <1>3 DEF Branch

\* Every step keeps the hashes those of branches.
LEMMA StepsKeepForks == IndexInv /\ ForkInv /\ [Next]_vars => ForkInv'
<1> SUFFICES ASSUME IndexInv, ForkInv, [Next]_vars PROVE ForkInv'
  OBVIOUS
<1> ChainInv /\ ChainTypes /\ SyncTypes
  BY DEF IndexInv, ChainInv
<1>1. CASE ChainStep /\ UNCHANGED syncVars
  <2>1. UNCHANGED <<syncs, cursor, checkpoints>>
    BY <1>1 DEF syncVars, progressVars
  <2>2. \A j \in 1 .. head' : chain'[j].fork <= fork'
    BY <1>1, NewBlocks DEF ForkInv
  <2>3. \A h, n : Branch(h, n) =>
          n \in Heights /\ h \in [1 .. n -> Block]
          /\ \A j \in 1 .. n : Lags(h, j)' \/ (j <= head' /\ h[j] = chain'[j])
    BY <1>1, BranchesStay DEF ForkInv
  <2>4. cursor > 0 => Branch(checkpoints[cursor], cursor)'
    BY <2>1, <2>3 DEF ForkInv, Branch, Lags
  <2>5. ASSUME NEW p \in Syncers
        PROVE  /\ syncs[p].pc = "ready" => syncs[p].from >= 1
               /\ syncs[p].pc = "fetched" => syncs[p].to >= 1
               /\ syncs[p].pc \in {"hashed", "read"} => Branch(syncs[p].hash, syncs[p].to)'
    BY <2>1, <2>3 DEF ForkInv, Branch, Lags
  <2> QED
    BY <2>1, <2>2, <2>4, <2>5 DEF ForkInv
<1>2. ASSUME UNCHANGED chainVars, cursor' > 0 => Branch(checkpoints'[cursor'], cursor'),
             \A p \in Syncers :
               /\ syncs'[p].pc = "ready" => syncs'[p].from >= 1
               /\ syncs'[p].pc = "fetched" => syncs'[p].to >= 1
               /\ syncs'[p].pc \in {"hashed", "read"} => Branch(syncs'[p].hash, syncs'[p].to)
      PROVE  ForkInv'
  BY <1>2 DEF ForkInv, Branch, Lags, chainVars
<1>3. ASSUME NEW p \in Syncers, SyncStep(p) \/ Throw(p) \/ Crash(p), UNCHANGED chainVars
      PROVE  /\ cursor' > 0 => Branch(checkpoints'[cursor'], cursor')
             /\ \A q \in Syncers :
                  /\ syncs'[q].pc = "ready" => syncs'[q].from >= 1
                  /\ syncs'[q].pc = "fetched" => syncs'[q].to >= 1
                  /\ syncs'[q].pc \in {"hashed", "read"} => Branch(syncs'[q].hash, syncs'[q].to)
  <2> DEFINE sync == syncs[p]
             OK(s) == /\ s.pc = "ready" => s.from >= 1
                      /\ s.pc = "fetched" => s.to >= 1
                      /\ s.pc \in {"hashed", "read"} => Branch(s.hash, s.to)
  <2>1. /\ sync \in Sync /\ cursor \in Nat /\ OK(sync) /\ \A q \in Syncers : OK(syncs[q])
        /\ head \in Nat
    BY DEF SyncTypes, ForkInv, ChainTypes
  <2>2. /\ \A x : [syncs EXCEPT ![p] = x][p] = x
        /\ \A x : \A q \in Syncers \ {p} : [syncs EXCEPT ![p] = x][q] = syncs[q]
    BY DEF SyncTypes
  <2>3. Idle.pc = "idle" /\ \A l : [Idle EXCEPT !.pc = "started", !.latest = l].pc = "started"
    BY DEF Idle
  <2>4. SUFFICES /\ cursor' > 0 => Branch(checkpoints'[cursor'], cursor')
                 /\ \E x : syncs' = [syncs EXCEPT ![p] = x] /\ OK(x)
    BY <2>1, <2>2
  <2>5. CASE syncs' = [syncs EXCEPT ![p] = Idle] /\ UNCHANGED progressVars
    BY <2>3, <2>5 DEF progressVars, ForkInv
  <2>6. CASE ReadHead(p)
    BY <2>3, <2>6 DEF ReadHead, progressVars, ForkInv
  <2>7. CASE AcquireLock(p) /\ syncs' # [syncs EXCEPT ![p] = Idle]
    <3>1. syncs' = [syncs EXCEPT ![p] = [sync EXCEPT !.pc = "locked"]] /\ UNCHANGED progressVars
      BY <2>7 DEF AcquireLock, Goto
    <3>2. [sync EXCEPT !.pc = "locked"].pc = "locked"
      BY <2>1 DEF Sync
    <3> QED
      BY <3>1, <3>2 DEF progressVars, ForkInv
  <2>8. CASE CheckCursor(p) /\ syncs' # [syncs EXCEPT ![p] = Idle]
    <3> DEFINE new == [sync EXCEPT !.pc = "ready", !.from = cursor + 1]
    <3>1. /\ syncs' = [syncs EXCEPT ![p] = new] /\ cursor' = cursor /\ cursor <= head
          /\ checkpoints' = [n \in Heights |->
               IF n = cursor /\ checkpoints[n] = NoHash THEN Hash(n) ELSE checkpoints[n]]
      BY <2>8 DEF CheckCursor, FailSync
    <3>2. new.pc = "ready" /\ new.from >= 1
      BY <2>1 DEF Sync
    <3>3. cursor > 0 => Branch(checkpoints'[cursor], cursor)
      <4> SUFFICES ASSUME cursor > 0 PROVE Branch(checkpoints'[cursor], cursor)
        OBVIOUS
      <4>1. cursor \in Heights /\ cursor \in 1 .. head
        BY <2>1, <3>1 DEF ForkInv, Branch
      <4>2. checkpoints'[cursor] \in {Hash(cursor), checkpoints[cursor]}
        BY <3>1, <4>1
      <4> QED
        BY <4>1, <4>2, HashIsBranch DEF ForkInv
    <3> QED
      BY <3>1, <3>2, <3>3
  <2>9. CASE FetchChunkEvents(p)
    <3> DEFINE to == Min({sync.from + BatchSize - 1, sync.latest})
    <3>1. /\ sync.pc = "ready" /\ sync.from <= sync.latest /\ UNCHANGED progressVars
      BY <2>9 DEF FetchChunkEvents
    <3>2. PICK events : syncs' = [syncs EXCEPT ![p] =
                          [sync EXCEPT !.pc = "fetched", !.to = to, !.events = events]]
      BY <2>9 DEF FetchChunkEvents
    <3>3. to >= 1
      <4>1. /\ sync.from \in Nat /\ sync.latest \in Nat /\ sync.from >= 1
            /\ sync.from + BatchSize - 1 \in Nat /\ BatchSize \in Nat \ {0}
        BY <2>1, <3>1, SyncAssumption DEF Sync
      <4>2. to = IF sync.from + BatchSize - 1 <= sync.latest
                 THEN sync.from + BatchSize - 1 ELSE sync.latest
        BY <4>1, MinOfTwo
      <4> HIDE DEF to
      <4> QED
        BY <3>1, <4>1, <4>2
    <3> HIDE DEF to
    <3>4. /\ [sync EXCEPT !.pc = "fetched", !.to = to, !.events = events].pc = "fetched"
          /\ [sync EXCEPT !.pc = "fetched", !.to = to, !.events = events].to = to
      BY <2>1 DEF Sync
    <3> QED
      BY <3>1, <3>2, <3>3, <3>4 DEF progressVars, ForkInv
  <2>10. CASE ReadBlockHash(p)
    <3> DEFINE new == [sync EXCEPT !.pc = "hashed", !.hash = Hash(sync.to)]
    <3>1. /\ sync.pc = "fetched" /\ sync.to <= head /\ UNCHANGED progressVars
          /\ syncs' = [syncs EXCEPT ![p] = new]
      BY <2>10 DEF ReadBlockHash
    <3>2. new.pc = "hashed" /\ new.hash = Hash(sync.to) /\ new.to = sync.to
      BY <2>1 DEF Sync
    <3>3. Branch(Hash(sync.to), sync.to)
      <4>1. sync.to \in 1 .. head
        BY <2>1, <3>1 DEF Sync
      <4> QED
        BY <4>1, HashIsBranch
    <3> HIDE DEF new
    <3> QED
      BY <3>1, <3>2, <3>3 DEF progressVars, ForkInv
  <2>11. CASE ReadRecords(p)
    <3>1. PICK claim, forecast : syncs' = [syncs EXCEPT ![p] =
            [sync EXCEPT !.pc = "read", !.claim = claim, !.forecast = forecast]]
      BY <2>11, ZenonT(60) DEF ReadRecords
    <3> DEFINE new == [sync EXCEPT !.pc = "read", !.claim = claim, !.forecast = forecast]
    <3>2. new.pc = "read" /\ new.hash = sync.hash /\ new.to = sync.to
      BY <2>1 DEF Sync
    <3>3. sync.pc = "hashed" /\ UNCHANGED progressVars
      BY <2>11 DEF ReadRecords
    <3>4. syncs' = [syncs EXCEPT ![p] = new]
      BY <3>1
    <3> HIDE DEF new
    <3> QED
      BY <2>1, <3>2, <3>3, <3>4 DEF progressVars, ForkInv
  <2>12. CASE ApplyChunk(p)
    <3> DEFINE new == [Idle EXCEPT !.pc = "ready", !.latest = sync.latest, !.from = sync.to + 1]
    <3>1. /\ sync.pc = "read" /\ cursor' = sync.to /\ syncs' = [syncs EXCEPT ![p] = new]
          /\ checkpoints' = [checkpoints EXCEPT ![sync.to] = sync.hash]
      BY <2>12 DEF ApplyChunk, WriteProgress
    <3>2. new.pc = "ready" /\ new.from >= 1
      BY <2>1 DEF Idle, Sync
    <3>3. Branch(sync.hash, sync.to) /\ sync.to \in Heights
      BY <2>1, <3>1 DEF Branch
    <3>4. checkpoints'[sync.to] = sync.hash
      BY <3>1, <3>3 DEF SyncTypes
    <3> HIDE DEF new
    <3> QED
      BY <3>1, <3>2, <3>3, <3>4
  <2>13. CASE FinishChunks(p)
    <3>1. /\ syncs' = [syncs EXCEPT ![p] = [sync EXCEPT !.pc = "finishing"]]
          /\ UNCHANGED <<cursor, checkpoints>>
      BY <2>13 DEF FinishChunks, Goto
    <3>2. [sync EXCEPT !.pc = "finishing"].pc = "finishing"
      BY <2>1 DEF Sync
    <3> QED
      BY <3>1, <3>2 DEF ForkInv
  <2>14. ASSUME \/ MissingOnChain(p) \/ RefuseChunk(p) \/ MarkSyncSucceeded(p) \/ Throw(p) \/ Crash(p)
                \/ (AcquireLock(p) \/ CheckCursor(p)) /\ syncs' = [syncs EXCEPT ![p] = Idle]
         PROVE  syncs' = [syncs EXCEPT ![p] = Idle]
    BY <2>14 DEF MissingOnChain, RefuseChunk, MarkSyncSucceeded, Throw, Crash, FailSync
  <2>15. ASSUME \/ MissingOnChain(p) \/ RefuseChunk(p) \/ MarkSyncSucceeded(p) \/ Throw(p) \/ Crash(p)
         PROVE  UNCHANGED progressVars
    BY <2>15 DEF MissingOnChain, RefuseChunk, MarkSyncSucceeded, Throw, Crash, FailSync
  <2>16. ASSUME AcquireLock(p) PROVE UNCHANGED progressVars
    BY <2>16 DEF AcquireLock
  <2>17. ASSUME CheckCursor(p), syncs' = [syncs EXCEPT ![p] = Idle] PROVE UNCHANGED progressVars
    <3>1. CASE FailSync(p)
      BY <3>1 DEF FailSync
    <3>2. CASE syncs' = [syncs EXCEPT ![p] = [sync EXCEPT !.pc = "ready", !.from = cursor + 1]]
      <4>1. [sync EXCEPT !.pc = "ready", !.from = cursor + 1].pc = "ready"
        BY <2>1 DEF Sync
      <4>2. syncs'[p].pc = "ready" /\ syncs'[p].pc = "idle"
        BY <2>2, <2>3, <2>17, <3>2, <4>1
      <4> QED
        BY <4>2
    <3> QED
      BY <2>17, <3>1, <3>2, ZenonT(60) DEF CheckCursor
  <2>18. \/ MissingOnChain(p) \/ RefuseChunk(p) \/ MarkSyncSucceeded(p) \/ Throw(p) \/ Crash(p)
         \/ (AcquireLock(p) \/ CheckCursor(p))
         \/ ReadHead(p) \/ FetchChunkEvents(p) \/ ReadBlockHash(p) \/ ReadRecords(p)
         \/ ApplyChunk(p) \/ FinishChunks(p)
    BY <1>3 DEF SyncStep
  <2> HIDE DEF OK
  <2> QED
    BY <2>5, <2>6, <2>7, <2>8, <2>9, <2>10, <2>11, <2>12, <2>13, <2>14, <2>15, <2>16, <2>17, <2>18
<1>4. CASE UNCHANGED vars
  BY <1>2, <1>4 DEF vars, chainVars, syncVars, progressVars, ForkInv
<1> QED
  BY <1>1, <1>2, <1>3, <1>4 DEF Next

\* While the cursor's block is a replaced one, every sync ends at the check.
LEMMA StuckStays == IndexInv /\ ForkInv /\ Stuck /\ [Next]_vars => Stuck'
<1> SUFFICES ASSUME IndexInv, ForkInv, Stuck, [Next]_vars PROVE Stuck'
  OBVIOUS
<1> ChainInv /\ ChainTypes /\ SyncTypes
  BY DEF IndexInv, ChainInv
<1>1. PICK h : h = checkpoints[cursor]
  OBVIOUS
<1>2. cursor > 0 /\ Branch(h, cursor) /\ cursor \in Nat /\ head \in Nat
  BY <1>1 DEF Stuck, ForkInv, SyncTypes, ChainTypes
<1>3. PICK j \in 1 .. cursor : Lags(h, j)
  BY <1>1 DEF Stuck
<1>4. /\ j \in Heights /\ h \in [1 .. cursor -> Block] /\ h[j] \in Block /\ h[j].fork \in Nat
      /\ j \in Nat /\ 1 <= j /\ j <= cursor
  BY <1>2, <1>3, ChainAssumption DEF Branch, Heights, Block
<1>5. CASE ChainStep /\ UNCHANGED syncVars
  <2>1. UNCHANGED <<syncs, cursor, checkpoints>>
    BY <1>5 DEF syncVars, progressVars
  <2>2. Lags(h, j)'
    BY <1>3, <1>4, <1>5, NewBlocks DEF ForkInv
  <2>3. h[j].fork < (IF j <= head' THEN chain'[j].fork ELSE fork')
    BY <2>2 DEF Lags
  <2> QED
    BY <1>1, <1>2, <1>3, <2>1, <2>3 DEF Stuck, Lags
<1>6. ASSUME UNCHANGED <<chainVars, cursor, checkpoints>>,
             \A p \in Syncers : syncs'[p].pc \in {"idle", "started", "locked"}
      PROVE  Stuck'
  BY <1>6 DEF Stuck, Lags, chainVars
<1>7. ASSUME NEW p \in Syncers, SyncStep(p) \/ Throw(p) \/ Crash(p), UNCHANGED chainVars
      PROVE  /\ UNCHANGED <<cursor, checkpoints>>
             /\ \A q \in Syncers : syncs'[q].pc \in {"idle", "started", "locked"}
  <2> DEFINE sync == syncs[p]
  <2>1. /\ sync \in Sync /\ sync.pc \in {"idle", "started", "locked"}
        /\ \A q \in Syncers : syncs[q].pc \in {"idle", "started", "locked"}
    BY DEF SyncTypes, Stuck
  <2>2. /\ \A x : [syncs EXCEPT ![p] = x][p] = x
        /\ \A x : \A q \in Syncers \ {p} : [syncs EXCEPT ![p] = x][q] = syncs[q]
    BY DEF SyncTypes
  <2>3. SUFFICES /\ UNCHANGED <<cursor, checkpoints>>
                 /\ \E x : syncs' = [syncs EXCEPT ![p] = x] /\ x.pc \in {"idle", "started", "locked"}
    BY <2>1, <2>2
  <2>4. Idle.pc = "idle" /\ \A l : [Idle EXCEPT !.pc = "started", !.latest = l].pc = "started"
    BY DEF Idle
  <2>5. CASE ReadHead(p)
    BY <2>4, <2>5 DEF ReadHead, progressVars
  <2>6. CASE AcquireLock(p)
    <3>1. [sync EXCEPT !.pc = "locked"].pc = "locked"
      BY <2>1 DEF Sync
    <3>2. syncs' = [syncs EXCEPT ![p] = [sync EXCEPT !.pc = "locked"]]
          \/ syncs' = [syncs EXCEPT ![p] = Idle]
      BY <2>6 DEF AcquireLock, Goto
    <3>3. UNCHANGED <<cursor, checkpoints>>
      BY <2>6 DEF AcquireLock, progressVars
    <3> QED
      BY <2>4, <3>1, <3>2, <3>3
  <2>7. CASE CheckCursor(p)
    <3>1. ASSUME OnBranch, cursor <= head PROVE FALSE
      <4>1. h # NoHash
        <5>1. h \in Seq(Block) /\ Len(h) = cursor
          BY <1>2, <1>4
        <5> QED
          BY <1>2, <5>1 DEF NoHash
      <4>2. h = Hash(cursor)
        BY <1>1, <1>2, <3>1, <4>1 DEF OnBranch
      <4>3. h[j] = chain[j] /\ j <= head
        BY <1>2, <1>4, <3>1, <4>2 DEF Hash
      <4> QED
        BY <1>3, <1>4, <4>3 DEF Lags
    <3>2. FailSync(p)
      BY <2>7, <3>1 DEF CheckCursor
    <3> QED
      BY <2>4, <3>2 DEF FailSync, progressVars
  <2>8. CASE MissingOnChain(p) \/ Throw(p) \/ Crash(p)
    <3>1. syncs' = [syncs EXCEPT ![p] = Idle] /\ UNCHANGED <<cursor, checkpoints>>
      BY <2>8 DEF MissingOnChain, Throw, Crash, FailSync, progressVars
    <3> QED
      BY <2>4, <3>1
  <2>9. ~(\/ FetchChunkEvents(p) \/ ReadBlockHash(p) \/ ReadRecords(p) \/ ApplyChunk(p)
          \/ RefuseChunk(p) \/ FinishChunks(p) \/ MarkSyncSucceeded(p))
    BY <2>1 DEF FetchChunkEvents, ReadBlockHash, ReadRecords, ApplyChunk, RefuseChunk, FinishChunks,
                MarkSyncSucceeded
  <2> QED
    BY <1>7, <2>5, <2>6, <2>7, <2>8, <2>9 DEF SyncStep
<1>8. CASE UNCHANGED vars
  <2>1. UNCHANGED <<chainVars, cursor, checkpoints, syncs>>
    BY <1>8 DEF vars, syncVars, progressVars
  <2> QED
    BY <1>6, <2>1 DEF Stuck
<1> QED
  BY <1>5, <1>6, <1>7, <1>8 DEF Next

\* A replaced block makes a cursor forked ...
LEMMA StuckIsForked == IndexInv /\ Stuck => Forked
<1> SUFFICES ASSUME IndexInv, Stuck, ~Forked PROVE FALSE
  OBVIOUS
<1>1. /\ cursor \in Nat /\ head \in Nat /\ ChainTypes
      /\ cursor <= head /\ checkpoints[cursor] = Hash(cursor)
  BY DEF IndexInv, ChainInv, ChainTypes, SyncTypes, Forked, Stuck
<1>2. PICK j \in 1 .. cursor : Lags(checkpoints[cursor], j)
  BY DEF Stuck
<1>3. checkpoints[cursor][j] = chain[j] /\ j <= head /\ j \in Heights
  BY <1>1, <1>2, ChainAssumption DEF Hash, ChainTypes, Heights
<1>4. chain[j].fork \in Nat
  BY <1>1, <1>2, <1>3 DEF ChainTypes, Block
<1> QED
  BY <1>2, <1>3, <1>4 DEF Lags

\* ... and only that does, once the lock is free.
LEMMA ForkedIsStuck == IndexInv /\ ForkInv /\ Forked /\ lock = NoSyncer => Stuck
<1> SUFFICES ASSUME IndexInv, ForkInv, Forked, lock = NoSyncer PROVE Stuck
  OBVIOUS
<1>1. cursor \in Nat /\ head \in Nat /\ ChainTypes /\ SyncTypes /\ LockInv
  BY DEF IndexInv, ChainInv, ChainTypes, SyncTypes
<1>2. \A p \in Syncers : syncs[p].pc \in {"idle", "started", "locked"}
  <2> SUFFICES ASSUME NEW p \in Syncers PROVE syncs[p].pc \in {"idle", "started"}
    OBVIOUS
  <2>1. ~HoldsLock(p)
    BY <1>1, SyncAssumption DEF LockInv
  <2>2. syncs[p] \in Sync
    BY <1>1 DEF SyncTypes
  <2> QED
    BY <2>1, <2>2 DEF HoldsLock, Sync
<1>3. cursor > 0
  BY <1>1 DEF Forked
<1>4. PICK h : h = checkpoints[cursor]
  OBVIOUS
<1>5. Branch(h, cursor)
  BY <1>3, <1>4 DEF ForkInv
<1>6. ASSUME \A j \in 1 .. cursor : ~Lags(h, j) PROVE FALSE
  <2>1. \A j \in 1 .. cursor : j <= head /\ h[j] = chain[j]
    BY <1>5, <1>6 DEF Branch
  <2>2. cursor <= head
    BY <1>1, <1>3, <2>1
  <2>3. h \in [1 .. cursor -> Block] /\ Hash(cursor) = [j \in 1 .. cursor |-> chain[j]]
    BY <1>5 DEF Branch, Hash
  <2>4. h = Hash(cursor)
    BY <2>1, <2>3
  <2> QED
    BY <1>1, <1>4, <2>2, <2>4 DEF Forked
<1> QED
  BY <1>2, <1>3, <1>4, <1>6 DEF Stuck

\* A sync never continues from a forked cursor: once the cursor's block has
\* been replaced while nobody was syncing (checkCursor refuses it), the cursor
\* stays forked, however the chain goes on and whoever syncs.
THEOREM NeverContinuesFromFork == Spec => StopsOnFork
<1>1. Init => ForkInv
  <2> SUFFICES ASSUME Init PROVE ForkInv
    OBVIOUS
  <2>1. head = 0 /\ cursor = 0 /\ \A p \in Syncers : syncs[p].pc = "idle"
    BY DEF Init, ChainInit, SyncInit, Idle
  <2> QED
    BY <2>1 DEF ForkInv
<1>2. Spec => [](IndexInv /\ ForkInv)
  BY <1>1, StepsKeepForks, IndexInvariant, PTL DEF Spec
<1>3. Spec => []((Forked /\ lock = NoSyncer) => []Forked)
  BY <1>2, StuckStays, StuckIsForked, ForkedIsStuck, PTL DEF Spec
<1> QED
  BY <1>3 DEF StopsOnFork
=============================================================================
