-------------------------- MODULE BondEscrowProofs --------------------------
(***************************************************************************)
(* Proofs about module BondEscrow, for every set of accounts and any       *)
(* number of claims, replications and units of value: the escrow holds     *)
(* what it owes and no more, a bounty is paid for evidence and once, and   *)
(* no claim is published without the bond it requires.                     *)
(***************************************************************************)
EXTENDS BondEscrow, ClaimRegistryProofs, SumTheorems

-----------------------------------------------------------------------------
(***************************************************************************)
(* The inductive invariant.  Solvent is not inductive alone: that the      *)
(* balances stay under the value ever received needs the balance of the    *)
(* contract to be compared with it, that a fresh reservation is live needs *)
(* the unwritten ones to be blank, and that a released bounty still names  *)
(* its replicator needs the registry's invariant, by which a replication   *)
(* is never overwritten.                                                   *)
(***************************************************************************)

\* The books balance: what came in is at least what is held, what is held is what
\* is owed, and no claim has more bond left than it was given.
Books ==
  /\ depositsPaused \in BOOLEAN
  /\ authorBondBalances \in [ClaimIds -> Nat]
  /\ authorRefundCredits \in [Actors -> Nat]
  /\ bountyBalances \in [ClaimIds -> Nat]
  /\ bondsDeposited \in [ClaimIds -> Nat]
  /\ escrowBalance \in Nat /\ received \in Nat
  /\ escrowBalance = TotalOf(authorBondBalances, ClaimIds) + TotalOf(bountyBalances, ClaimIds)
                   + TotalOf(authorRefundCredits, Actors)
  /\ escrowBalance <= received /\ received <= MaxFunds
  /\ TotalOf(bondsDeposited, ClaimIds) <= received
  /\ \A c \in ClaimIds : authorBondBalances[c] <= bondsDeposited[c]

\* What is live of the reservations of a claim, by replication.
LiveAmounts(c) == [r \in ReplicationIds |-> Reserved(c, r)]

\* The reservations of a claim add up to what is reserved of its bounty.
Reservations ==
  /\ reservations \in [ClaimIds -> [ReplicationIds -> BountyReservation]]
  /\ reservedBountyBalances \in [ClaimIds -> Nat]
  /\ \A c \in ClaimIds, r \in ReplicationIds :
       reservations[c][r].amount = 0 => reservations[c][r] = NoReservation
  /\ \A c \in ClaimIds :
       /\ reservedBountyBalances[c] = TotalOf(LiveAmounts(c), ReplicationIds)
       /\ reservedBountyBalances[c] <= bountyBalances[c]

\* Every claim has an account for its author, where a refund goes.
AuthorsKnown == \A c \in ClaimIds : ClaimExists(c) => claims[c].author \in Actors

EscrowInv ==
  /\ Inv
  /\ Books
  /\ Reservations
  /\ AuthorsKnown
  /\ PaidForEvidence
  /\ PublishedWasBonded

\* Claims and replications are finite in number, and so are the accounts.
LEMMA FiniteIds ==
  IsFiniteSet(ClaimIds) /\ IsFiniteSet(ReplicationIds) /\ IsFiniteSet(Actors)
BY ReplicationAssumption, EscrowAssumption, FS_Interval DEF ClaimIds, ReplicationIds

-----------------------------------------------------------------------------
(***************************************************************************)
(* What the invariant says of the properties.                              *)
(***************************************************************************)

\* The invariant bounds every balance by the value received.
LEMMA EscrowTypesBounded == Books /\ Reservations => EscrowTypeOK
<1> SUFFICES ASSUME Books, Reservations
             PROVE  EscrowTypeOK
  OBVIOUS
<1> USE EscrowAssumption
<1> DEFINE bonds == TotalOf(authorBondBalances, ClaimIds)
           bounties == TotalOf(bountyBalances, ClaimIds)
           refunds == TotalOf(authorRefundCredits, Actors)
           deposits == TotalOf(bondsDeposited, ClaimIds)
<1>1. /\ bonds \in Nat /\ \A c \in ClaimIds : authorBondBalances[c] <= bonds
      /\ bounties \in Nat /\ \A c \in ClaimIds : bountyBalances[c] <= bounties
      /\ refunds \in Nat /\ \A a \in Actors : authorRefundCredits[a] <= refunds
      /\ deposits \in Nat /\ \A c \in ClaimIds : bondsDeposited[c] <= deposits
  BY FiniteIds, BookTotals DEF Books
<1>2. escrowBalance = bonds + bounties + refunds /\ deposits <= received
  BY DEF Books
<1> HIDE DEF bonds, bounties, refunds, deposits
<1>3. /\ bonds <= MaxFunds /\ bounties <= MaxFunds /\ refunds <= MaxFunds
      /\ deposits <= MaxFunds
  BY <1>1, <1>2 DEF Books
<1>4. \A c \in ClaimIds : /\ authorBondBalances[c] \in 0 .. MaxFunds
                          /\ bountyBalances[c] \in 0 .. MaxFunds
                          /\ bondsDeposited[c] \in 0 .. MaxFunds
                          /\ reservedBountyBalances[c] \in 0 .. MaxFunds
  BY <1>1, <1>3 DEF Books, Reservations
<1>5. \A a \in Actors : authorRefundCredits[a] \in 0 .. MaxFunds
  BY <1>1, <1>3 DEF Books
<1> QED
  BY <1>4, <1>5 DEF EscrowTypeOK, Books, Reservations

\* The invariant implies that the escrow is solvent.
LEMMA BooksSolvent == Books /\ Reservations => Solvent
BY EscrowTypesBounded DEF Solvent, Books, Reservations, TotalOf, LiveAmounts

-----------------------------------------------------------------------------
(***************************************************************************)
(* The steps of the escrow: what each entry point does to the books.       *)
(***************************************************************************)

\* Nothing has been deposited or reserved at deployment.
LEMMA BooksAtInit == EscrowInit => Books /\ Reservations
<1> SUFFICES ASSUME EscrowInit
             PROVE  Books /\ Reservations
  OBVIOUS
<1> USE EscrowAssumption
<1>1. /\ TotalOf(authorBondBalances, ClaimIds) = 0 /\ TotalOf(bountyBalances, ClaimIds) = 0
      /\ TotalOf(authorRefundCredits, Actors) = 0 /\ TotalOf(bondsDeposited, ClaimIds) = 0
  BY FiniteIds, SumZero DEF TotalOf, EscrowInit
<1>2. Books
  <2>1. /\ depositsPaused \in BOOLEAN /\ escrowBalance = 0 /\ received = 0
        /\ authorBondBalances \in [ClaimIds -> Nat] /\ authorRefundCredits \in [Actors -> Nat]
        /\ bountyBalances \in [ClaimIds -> Nat] /\ bondsDeposited \in [ClaimIds -> Nat]
        /\ \A c \in ClaimIds : authorBondBalances[c] = 0 /\ bondsDeposited[c] = 0
    BY DEF EscrowInit
  <2>2. /\ escrowBalance = TotalOf(authorBondBalances, ClaimIds)
                         + TotalOf(bountyBalances, ClaimIds) + TotalOf(authorRefundCredits, Actors)
        /\ TotalOf(bondsDeposited, ClaimIds) <= received
        /\ received <= MaxFunds
    BY <1>1, <2>1
  <2>3. \A c \in ClaimIds : authorBondBalances[c] <= bondsDeposited[c]
    BY <2>1
  <2> QED
    BY <2>1, <2>2, <2>3 DEF Books
<1>3. ASSUME NEW c \in ClaimIds
      PROVE  TotalOf(LiveAmounts(c), ReplicationIds) = 0
  <2>1. \A r \in ReplicationIds : LiveAmounts(c)[r] = 0
    BY DEF LiveAmounts, Reserved, Active, NoReservation, EscrowInit
  <2> QED
    BY <2>1, FiniteIds, SumZero DEF TotalOf
<1>4. Reservations
  BY <1>3 DEF Reservations, EscrowInit, NoReservation, BountyReservation
<1> QED
  BY <1>2, <1>4

\* The live amounts depend on the reservations alone.
LEMMA SameLiveAmounts ==
  ASSUME reservations' = reservations, NEW c \in ClaimIds
  PROVE  LiveAmounts(c)' = LiveAmounts(c)
BY DEF LiveAmounts, Reserved, Active

\* The reservations stay in order if neither they nor the bounties move, or the
\* bounty of a claim grows.
LEMMA UntouchedReservations ==
  ASSUME Reservations, Books, UNCHANGED <<reservations, reservedBountyBalances>>,
         bountyBalances' \in [ClaimIds -> Nat],
         \A c \in ClaimIds : bountyBalances'[c] >= bountyBalances[c]
  PROVE  Reservations'
<1>1. ASSUME NEW c \in ClaimIds
      PROVE  /\ reservedBountyBalances'[c] = TotalOf(LiveAmounts(c)', ReplicationIds)
             /\ reservedBountyBalances'[c] <= bountyBalances'[c]
  BY SameLiveAmounts DEF Reservations, Books
<1> QED
  BY <1>1 DEF Reservations, TotalOf

\* The types of the books, and of their totals.
LEMMA BookTypes ==
  ASSUME Books
  PROVE  /\ IsFiniteSet(ClaimIds) /\ IsFiniteSet(Actors)
         /\ authorBondBalances \in [ClaimIds -> Nat] /\ bondsDeposited \in [ClaimIds -> Nat]
         /\ bountyBalances \in [ClaimIds -> Nat] /\ authorRefundCredits \in [Actors -> Nat]
         /\ TotalOf(authorBondBalances, ClaimIds) \in Nat
         /\ TotalOf(bondsDeposited, ClaimIds) \in Nat
         /\ TotalOf(bountyBalances, ClaimIds) \in Nat
         /\ TotalOf(authorRefundCredits, Actors) \in Nat
BY FiniteIds, BookTotals DEF Books

\* A deposit of author bond adds to the bond of the claim and to the balance.
LEMMA DepositKeepsBooks ==
  ASSUME Books, Reservations,
         NEW a \in Actors, NEW c \in ClaimIds, NEW amount \in Amounts,
         DepositAuthorBond(a, c, amount)
  PROVE  Books' /\ Reservations'
<1>1. amount \in Nat
  BY EscrowAssumption DEF Amounts
<1>2. /\ Entry(authorBondBalances, authorBondBalances', ClaimIds, c, amount)
      /\ Entry(bondsDeposited, bondsDeposited', ClaimIds, c, amount)
  BY <1>1, BookTypes DEF DepositAuthorBond, Entry
<1>3. /\ escrowBalance' = escrowBalance + amount /\ received' = received + amount
      /\ received' <= MaxFunds
      /\ UNCHANGED <<depositsPaused, authorRefundCredits, bountyBalances,
                     reservedBountyBalances, reservations>>
  BY DEF DepositAuthorBond, Receive
<1>4. /\ TotalOf(authorBondBalances', ClaimIds) = TotalOf(authorBondBalances, ClaimIds) + amount
      /\ TotalOf(bondsDeposited', ClaimIds) = TotalOf(bondsDeposited, ClaimIds) + amount
  BY <1>2, BookEntry
<1>5. /\ authorBondBalances' \in [ClaimIds -> Nat] /\ bondsDeposited' \in [ClaimIds -> Nat]
      /\ \A d \in ClaimIds : authorBondBalances'[d] <= bondsDeposited'[d]
  BY <1>1, <1>2 DEF Books, Entry
<1>6. Books'
  BY <1>1, <1>3, <1>4, <1>5, BookTypes DEF Books, TotalOf
<1>7. Reservations'
  BY <1>3, UntouchedReservations DEF Books
<1> QED
  BY <1>6, <1>7

\* A bounty adds to the balance and leaves what is reserved of it.
LEMMA FundKeepsBooks ==
  ASSUME Books, Reservations, NEW c \in ClaimIds, NEW amount \in Amounts,
         FundReplicationBounty(c, amount)
  PROVE  Books' /\ Reservations'
<1>1. amount \in Nat
  BY EscrowAssumption DEF Amounts
<1>2. Entry(bountyBalances, bountyBalances', ClaimIds, c, amount)
  BY <1>1, BookTypes DEF FundReplicationBounty, Entry
<1>3. /\ escrowBalance' = escrowBalance + amount /\ received' = received + amount
      /\ received' <= MaxFunds
      /\ UNCHANGED <<depositsPaused, authorRefundCredits, authorBondBalances, bondsDeposited,
                     reservedBountyBalances, reservations>>
  BY DEF FundReplicationBounty, Receive
<1>4. TotalOf(bountyBalances', ClaimIds) = TotalOf(bountyBalances, ClaimIds) + amount
  BY <1>2, BookEntry
<1>5. /\ bountyBalances' \in [ClaimIds -> Nat]
      /\ \A d \in ClaimIds : bountyBalances'[d] >= bountyBalances[d]
  BY <1>1, <1>2 DEF Entry
<1>6. Books'
  BY <1>1, <1>3, <1>4, <1>5, BookTypes DEF Books, TotalOf
<1>7. Reservations'
  BY <1>3, <1>5, UntouchedReservations
<1> QED
  BY <1>6, <1>7

\* A slash takes bond out of the contract.
LEMMA SlashKeepsBooks ==
  ASSUME Books, Reservations, NEW c \in ClaimIds, NEW amount \in Amounts,
         SlashAuthorBond(c, amount)
  PROVE  Books' /\ Reservations'
<1>1. amount \in Nat /\ -amount \in Int /\ authorBondBalances[c] >= amount
  BY EscrowAssumption DEF Amounts, SlashAuthorBond
<1>2. Entry(authorBondBalances, authorBondBalances', ClaimIds, c, -amount)
  BY <1>1, BookTypes DEF SlashAuthorBond, Entry
<1>3. /\ escrowBalance' = escrowBalance - amount /\ escrowBalance >= amount
      /\ UNCHANGED <<received, depositsPaused, authorRefundCredits, bountyBalances,
                     bondsDeposited, reservedBountyBalances, reservations>>
  BY DEF SlashAuthorBond, Pay
<1>4. TotalOf(authorBondBalances', ClaimIds) = TotalOf(authorBondBalances, ClaimIds) - amount
  BY <1>1, <1>2, BookEntry, BookTypes
<1>5. /\ authorBondBalances' \in [ClaimIds -> Nat]
      /\ \A d \in ClaimIds : authorBondBalances'[d] <= bondsDeposited[d]
  BY <1>1, <1>2 DEF Entry, Books
<1>6. Books'
  BY <1>1, <1>3, <1>4, <1>5, BookTypes DEF Books, TotalOf
<1>7. Reservations'
  BY <1>3, UntouchedReservations DEF Books
<1> QED
  BY <1>6, <1>7

\* A refund turns bond into a credit of the author.
LEMMA RefundKeepsBooks ==
  ASSUME Books, Reservations, NEW c \in ClaimIds, NEW amount \in Amounts,
         RefundAuthorBond(c, amount), NEW a \in Actors, a = claims[c].author
  PROVE  Books' /\ Reservations'
<1>1. amount \in Nat /\ -amount \in Int /\ authorBondBalances[c] >= amount
  BY EscrowAssumption DEF Amounts, RefundAuthorBond
<1>2. Entry(authorBondBalances, authorBondBalances', ClaimIds, c, -amount)
  BY <1>1, BookTypes DEF RefundAuthorBond, Entry
<1>3. Entry(authorRefundCredits, authorRefundCredits', Actors, a, amount)
  BY <1>1, BookTypes DEF RefundAuthorBond, Entry
<1>4. UNCHANGED <<received, escrowBalance, depositsPaused, bountyBalances, bondsDeposited,
                  reservedBountyBalances, reservations>>
  BY DEF RefundAuthorBond
<1>5. /\ TotalOf(authorBondBalances', ClaimIds) = TotalOf(authorBondBalances, ClaimIds) - amount
      /\ TotalOf(authorRefundCredits', Actors) = TotalOf(authorRefundCredits, Actors) + amount
  BY <1>1, <1>2, <1>3, BookEntry, BookTypes
<1>6. /\ authorBondBalances' \in [ClaimIds -> Nat] /\ authorRefundCredits' \in [Actors -> Nat]
      /\ \A d \in ClaimIds : authorBondBalances'[d] <= bondsDeposited[d]
  BY <1>1, <1>2, <1>3 DEF Entry, Books
<1>7. Books'
  BY <1>1, <1>4, <1>5, <1>6, BookTypes DEF Books, TotalOf
<1>8. Reservations'
  BY <1>4, UntouchedReservations DEF Books
<1> QED
  BY <1>7, <1>8

\* A withdrawal pays a credit out.
LEMMA WithdrawKeepsBooks ==
  ASSUME Books, Reservations, NEW a \in Actors, NEW amount \in Amounts,
         WithdrawAuthorBondRefund(a, amount)
  PROVE  Books' /\ Reservations'
<1>1. amount \in Nat /\ -amount \in Int /\ authorRefundCredits[a] >= amount
  BY EscrowAssumption DEF Amounts, WithdrawAuthorBondRefund
<1>2. Entry(authorRefundCredits, authorRefundCredits', Actors, a, -amount)
  BY <1>1, BookTypes DEF WithdrawAuthorBondRefund, Entry
<1>3. /\ escrowBalance' = escrowBalance - amount /\ escrowBalance >= amount
      /\ UNCHANGED <<received, depositsPaused, authorBondBalances, bountyBalances,
                     bondsDeposited, reservedBountyBalances, reservations>>
  BY DEF WithdrawAuthorBondRefund, Pay
<1>4. TotalOf(authorRefundCredits', Actors) = TotalOf(authorRefundCredits, Actors) - amount
  BY <1>1, <1>2, BookEntry, BookTypes
<1>5. authorRefundCredits' \in [Actors -> Nat]
  BY <1>1, <1>2 DEF Entry
<1>6. Books'
  BY <1>1, <1>3, <1>4, <1>5, BookTypes DEF Books, TotalOf
<1>7. Reservations'
  BY <1>3, UntouchedReservations DEF Books
<1> QED
  BY <1>6, <1>7

-----------------------------------------------------------------------------
(***************************************************************************)
(* Reservations.                                                           *)
(***************************************************************************)

\* One reservation is replaced by res.
Replaced(c, r, res) ==
  /\ res \in BountyReservation
  /\ res.amount = 0 => res = NoReservation
  /\ reservations' = [reservations EXCEPT ![c][r] = res]

\* What counts of a reservation.
LiveOf(res) == IF Active(res) THEN res.amount ELSE 0

\* Replacing a reservation keeps the others, and moves what the claim has
\* reserved by the difference it makes.
LEMMA ReplaceKeepsReservations ==
  ASSUME Reservations, Books, NEW c \in ClaimIds, NEW r \in ReplicationIds, NEW res,
         Replaced(c, r, res),
         reservedBountyBalances' =
           [reservedBountyBalances EXCEPT ![c] = @ + (LiveOf(res) - LiveOf(reservations[c][r]))],
         bountyBalances' \in [ClaimIds -> Nat],
         reservedBountyBalances'[c] <= bountyBalances'[c],
         \A d \in ClaimIds \ {c} : bountyBalances'[d] = bountyBalances[d]
  PROVE  Reservations'
<1> DEFINE delta == LiveOf(res) - LiveOf(reservations[c][r])
<1>1. /\ reservations' \in [ClaimIds -> [ReplicationIds -> BountyReservation]]
      /\ reservations'[c][r] = res
      /\ \A d \in ClaimIds, q \in ReplicationIds :
           d # c \/ q # r => reservations'[d][q] = reservations[d][q]
  BY DEF Reservations, Replaced
<1>2. \A d \in ClaimIds, q \in ReplicationIds :
        reservations'[d][q].amount = 0 => reservations'[d][q] = NoReservation
  BY <1>1 DEF Reservations, Replaced
<1>3. /\ \A d \in ClaimIds, q \in ReplicationIds :
           /\ LiveAmounts(d)[q] = LiveOf(reservations[d][q])
           /\ LiveAmounts(d)'[q] = LiveOf(reservations'[d][q])
      /\ \A d \in ClaimIds, q \in ReplicationIds :
           LiveOf(reservations[d][q]) \in Nat /\ LiveOf(reservations'[d][q]) \in Nat
  <2>1. \A b \in BountyReservation : LiveOf(b) \in Nat
    BY EscrowAssumption DEF LiveOf, BountyReservation
  <2>2. \A d \in ClaimIds, q \in ReplicationIds :
          reservations[d][q] \in BountyReservation /\ reservations'[d][q] \in BountyReservation
    BY <1>1, ZenonT(60) DEF Reservations
  <2> QED
    BY <2>1, <2>2 DEF LiveAmounts, LiveOf, Reserved
<1>4. delta \in Int /\ LiveOf(res) \in Nat
  BY <1>1, <1>3
<1>5. Entry(LiveAmounts(c), LiveAmounts(c)', ReplicationIds, r, delta)
  <2>1. LiveAmounts(c) \in [ReplicationIds -> Nat] /\ LiveAmounts(c)' \in [ReplicationIds -> Nat]
    BY <1>3 DEF LiveAmounts
  <2>2. LiveAmounts(c)'[r] = LiveAmounts(c)[r] + delta
    BY <1>1, <1>3, <1>4
  <2>3. \A q \in ReplicationIds \ {r} : LiveAmounts(c)'[q] = LiveAmounts(c)[q]
    BY <1>1, <1>3
  <2> HIDE DEF delta
  <2> QED
    BY <1>4, <2>1, <2>2, <2>3, FiniteIds DEF Entry
<1> HIDE DEF delta
<1>6. TotalOf(LiveAmounts(c)', ReplicationIds) = TotalOf(LiveAmounts(c), ReplicationIds) + delta
  BY <1>5, BookEntry
<1>7. \A d \in ClaimIds \ {c} : LiveAmounts(d)' = LiveAmounts(d)
  BY <1>1 DEF LiveAmounts, Reserved
<1>8. reservedBountyBalances'[c] = TotalOf(LiveAmounts(c)', ReplicationIds)
  BY <1>6 DEF Reservations, delta
<1>9. TotalOf(LiveAmounts(c)', ReplicationIds) \in Nat
  BY <1>5, <1>3, FiniteIds, BookTotals DEF LiveAmounts
<1>10. reservedBountyBalances' \in [ClaimIds -> Nat]
  BY <1>8, <1>9 DEF Reservations
<1>11. ASSUME NEW d \in ClaimIds
       PROVE  /\ reservedBountyBalances'[d] = TotalOf(LiveAmounts(d)', ReplicationIds)
              /\ reservedBountyBalances'[d] <= bountyBalances'[d]
  <2>1. CASE d = c
    BY <1>8, <2>1
  <2>2. CASE d # c
    BY <1>7, <2>2 DEF Reservations
  <2> QED
    BY <2>1, <2>2
<1> QED
  BY <1>1, <1>2, <1>10, <1>11 DEF Reservations, TotalOf

\* A new reservation, in an entry nobody has used, is covered by what the bounty
\* has free.
LEMMA ReserveKeepsBooks ==
  ASSUME TypeOK, Books, Reservations,
         NEW c \in ClaimIds, NEW r \in ReplicationIds, NEW amount \in Amounts,
         ReserveBountyPayout(c, r, amount)
  PROVE  Books' /\ Reservations'
<1> DEFINE res == [NoReservation EXCEPT !.recipient = replications[r].replicator,
                                        !.amount = amount]
<1>1. amount \in Nat /\ amount \in 0 .. MaxFunds /\ amount # 0
  BY EscrowAssumption DEF Amounts
<1>2. reservations[c][r] = NoReservation
  BY DEF ReserveBountyPayout, Reservations
<1>3. reservations' = [reservations EXCEPT ![c][r] = res]
  <2>1. reservations' = [reservations EXCEPT ![c][r] =
          [reservations[c][r] EXCEPT !.recipient = replications[r].replicator, !.amount = amount]]
    BY ZenonT(60) DEF ReserveBountyPayout, Reservations
  <2> QED
    BY <1>2, <2>1
<1>4. replications[r].replicator \in Actors \cup {ZeroAddress}
  BY DEF TypeOK, ReplicationRecord
<1>5. Replaced(c, r, res)
  BY <1>1, <1>3, <1>4 DEF Replaced, BountyReservation, NoReservation
<1>6. LiveOf(res) = amount /\ LiveOf(reservations[c][r]) = 0
  BY <1>1, <1>2 DEF LiveOf, Active, NoReservation
<1> HIDE DEF res
<1>7. /\ reservedBountyBalances' = [reservedBountyBalances EXCEPT ![c] = @ + amount]
      /\ reservedBountyBalances[c] \in Nat /\ bountyBalances[c] \in Nat
      /\ bountyBalances[c] - reservedBountyBalances[c] >= amount
      /\ UNCHANGED <<depositsPaused, authorBondBalances, authorRefundCredits, bountyBalances,
                     escrowBalance, bondsDeposited, received>>
  BY DEF ReserveBountyPayout, Reservations, Books
<1>8. reservedBountyBalances'[c] <= bountyBalances'[c]
  BY <1>1, <1>7 DEF Reservations
<1>9. amount = LiveOf(res) - LiveOf(reservations[c][r])
  BY <1>1, <1>6
<1>10. Reservations'
  BY <1>5, <1>7, <1>8, <1>9, ReplaceKeepsReservations DEF Books
<1>11. Books'
  BY <1>7 DEF Books, TotalOf
<1> QED
  BY <1>10, <1>11

\* A live reservation counts, and is covered by the bounty.
LEMMA LiveIsCovered ==
  ASSUME Books, Reservations, NEW c \in ClaimIds, NEW r \in ReplicationIds,
         Active(reservations[c][r])
  PROVE  /\ reservations[c][r] \in BountyReservation
         /\ reservations[c][r].amount \in Nat /\ reservations[c][r].amount # 0
         /\ LiveOf(reservations[c][r]) = reservations[c][r].amount
         /\ reservedBountyBalances[c] \in Nat /\ bountyBalances[c] \in Nat
         /\ reservedBountyBalances[c] <= bountyBalances[c]
BY EscrowAssumption DEF Active, LiveOf, Books, Reservations, BountyReservation

\* A release pays a live reservation out of the bounty.
LEMMA ReleaseKeepsBooks ==
  ASSUME Books, Reservations, NEW c \in ClaimIds, NEW r \in ReplicationIds,
         ReleaseReservedPayout(c, r)
  PROVE  Books' /\ Reservations'
<1> DEFINE old == reservations[c][r]
           res == [old EXCEPT !.released = TRUE]
           amount == old.amount
<1>1. Active(old)
  BY DEF ReleaseReservedPayout
<1>2. /\ old \in BountyReservation /\ amount \in Nat /\ amount # 0 /\ LiveOf(old) = amount
      /\ reservedBountyBalances[c] \in Nat /\ bountyBalances[c] \in Nat
      /\ reservedBountyBalances[c] <= bountyBalances[c]
  BY <1>1, LiveIsCovered
<1>3. reservations' = [reservations EXCEPT ![c][r] = res]
  BY DEF ReleaseReservedPayout, Reservations
<1>4. /\ reservedBountyBalances' = [reservedBountyBalances EXCEPT ![c] = @ - amount]
      /\ bountyBalances' = [bountyBalances EXCEPT ![c] = @ - amount]
      /\ reservedBountyBalances[c] >= amount /\ bountyBalances[c] >= amount
      /\ escrowBalance >= amount /\ escrowBalance' = escrowBalance - amount
      /\ UNCHANGED <<depositsPaused, authorBondBalances, authorRefundCredits,
                     bondsDeposited, received>>
  BY DEF ReleaseReservedPayout, Pay
<1>5. Replaced(c, r, res)
  BY <1>2, <1>3 DEF Replaced, BountyReservation
<1>6. LiveOf(res) = 0
  BY <1>2 DEF LiveOf, Active, BountyReservation
<1> HIDE DEF old, res, amount
<1>7. Entry(bountyBalances, bountyBalances', ClaimIds, c, -amount)
  <2>1. -amount \in Int /\ bountyBalances[c] - amount = bountyBalances[c] + (-amount)
    BY <1>2
  <2> QED
    BY <1>4, <2>1, BookTypes DEF Entry
<1>8. TotalOf(bountyBalances', ClaimIds) = TotalOf(bountyBalances, ClaimIds) - amount
  BY <1>2, <1>7, BookEntry, BookTypes
<1>9. /\ bountyBalances' \in [ClaimIds -> Nat]
      /\ \A d \in ClaimIds \ {c} : bountyBalances'[d] = bountyBalances[d]
      /\ reservedBountyBalances'[c] <= bountyBalances'[c]
  BY <1>2, <1>4 DEF Books, Reservations
<1>10. Books'
  BY <1>2, <1>4, <1>8, <1>9, BookTypes DEF Books, TotalOf
<1>11. reservedBountyBalances' = [reservedBountyBalances EXCEPT ![c] = @ + (LiveOf(res) - LiveOf(old))]
  <2>1. reservedBountyBalances[c] - amount = reservedBountyBalances[c] + (LiveOf(res) - LiveOf(old))
    BY <1>2, <1>6
  <2> QED
    BY <1>4, <2>1
<1>12. Reservations'
  BY <1>5, <1>9, <1>11, ReplaceKeepsReservations DEF old
<1> QED
  BY <1>10, <1>12

\* A cancellation returns a live reservation to the pool of the claim.
LEMMA CancelKeepsBooks ==
  ASSUME Books, Reservations, NEW c \in ClaimIds, NEW r \in ReplicationIds,
         CancelReservedPayout(c, r)
  PROVE  Books' /\ Reservations'
<1> DEFINE old == reservations[c][r]
           res == [old EXCEPT !.cancelled = TRUE]
           amount == old.amount
<1>1. Active(old)
  BY DEF CancelReservedPayout
<1>2. /\ old \in BountyReservation /\ amount \in Nat /\ amount # 0 /\ LiveOf(old) = amount
      /\ reservedBountyBalances[c] \in Nat /\ bountyBalances[c] \in Nat
      /\ reservedBountyBalances[c] <= bountyBalances[c]
  BY <1>1, LiveIsCovered
<1>3. reservations' = [reservations EXCEPT ![c][r] = res]
  BY DEF CancelReservedPayout, Reservations
<1>4. /\ reservedBountyBalances' = [reservedBountyBalances EXCEPT ![c] = @ - amount]
      /\ reservedBountyBalances[c] >= amount
      /\ UNCHANGED <<depositsPaused, authorBondBalances, authorRefundCredits, bountyBalances,
                     escrowBalance, bondsDeposited, received>>
  BY DEF CancelReservedPayout
<1>5. Replaced(c, r, res)
  BY <1>2, <1>3 DEF Replaced, BountyReservation
<1>6. LiveOf(res) = 0
  BY <1>2 DEF LiveOf, Active, BountyReservation
<1> HIDE DEF old, res, amount
<1>7. reservedBountyBalances'[c] <= bountyBalances'[c]
  BY <1>2, <1>4 DEF Reservations
<1>8. reservedBountyBalances' = [reservedBountyBalances EXCEPT ![c] = @ + (LiveOf(res) - LiveOf(old))]
  <2>1. reservedBountyBalances[c] - amount = reservedBountyBalances[c] + (LiveOf(res) - LiveOf(old))
    BY <1>2, <1>6
  <2> QED
    BY <1>4, <2>1
<1>9. Reservations'
  BY <1>4, <1>5, <1>7, <1>8, ReplaceKeepsReservations DEF old, Books
<1>10. Books'
  BY <1>4 DEF Books, TotalOf
<1> QED
  BY <1>9, <1>10

-----------------------------------------------------------------------------
(***************************************************************************)
(* What the steps of the registries leave to the escrow.                   *)
(***************************************************************************)

\* A replication keeps its claim and its replicator, and its outcome once it has one.
LEMMA ReplicationsKept ==
  ASSUME Inv, [Next]_claimVars, NEW r \in ReplicationIds
  PROVE  /\ ReplicationExists(r) => /\ replications'[r].claimId = replications[r].claimId
                                    /\ replications'[r].replicator = replications[r].replicator
         /\ IsReplicationResolved(r) => IsReplicationResolved(r)'
<1> USE DEF ReplicationExists, IsReplicationResolved
<1> TypeOK
  BY DEF Inv
<1>1. CASE UNCHANGED replicationVars
  BY <1>1 DEF replicationVars
<1>2. CASE \E a \in Actors, c \in ClaimIds : Submit(a, c)
  <2>1. PICK a \in Actors, c \in ClaimIds : Submit(a, c)
    BY <1>2
  <2>2. \A q \in ReplicationIds : q # nextReplicationId => replications'[q] = replications[q]
    BY <2>1 DEF Submit, SubmitReplication, TypeOK
  <2>3. r = nextReplicationId => replications[r] = ZeroReplication
    BY DEF Inv, Fresh, TypeOK, ReplicationIds
  <2> QED
    BY <2>2, <2>3 DEF ZeroReplication
<1>3. CASE \E q \in ReplicationIds, s \in ResolutionStatus : Resolve(q, s)
  <2>1. PICK q \in ReplicationIds, s \in ResolutionStatus : Resolve(q, s)
    BY <1>3
  <2>2. replications' = [replications EXCEPT ![q].status = s] /\ s # "Pending"
    BY <2>1, AcceptedAreResolutions DEF Resolve, ResolveReplicationOutcome
  <2> QED
    BY <2>2 DEF TypeOK, ReplicationRecord
<1> QED
  BY <1>1, <1>2, <1>3, CreationCases
  DEF Next, RegistryStep, EvidenceStep, ModuleAdministration, SetClaimStatus,
      FinalizeClaimResolution, claimVars

\* A claim keeps everything but its status; a new one is a draft of an account,
\* with no decision.
LEMMA ClaimsKept ==
  ASSUME Inv, [Next]_claimVars, NEW c \in ClaimIds
  PROVE  \/ /\ claims'[c].claimId = claims[c].claimId
            /\ claims'[c].author = claims[c].author
            /\ claims'[c].requiredAuthorBond = claims[c].requiredAuthorBond
         \/ /\ ~ClaimExists(c)
            /\ claims'[c].author \in Actors
            /\ claims'[c].status = "Draft"
            /\ effectiveClaimDecisionId'[c] = 0
<1> TypeOK
  BY DEF Inv
<1>1. CASE claims' = claims
  BY <1>1
<1>2. CASE CreationStep
  <2>1. CASE UNCHANGED recordVars
    BY <2>1 DEF recordVars
  <2>2. CASE \E a \in Actors, b \in Bonds, p \in ClaimIds \cup {0},
               m \in Modules \cup {NoModule} : Creates(a, b, p, m)
    <3>1. UNCHANGED effectiveClaimDecisionId
      BY <1>2, CreationCases DEF decisionVars
    <3>2. c # nextClaimId => claims'[c] = claims[c]
      BY <2>2 DEF Creates, NewClaim, TypeOK
    <3>3. c = nextClaimId => claims'[c].author \in Actors /\ claims'[c].status = "Draft"
      BY <2>2 DEF Creates, NewClaim, TypeOK
    <3>4. c = nextClaimId => ~ClaimExists(c) /\ effectiveClaimDecisionId[c] = 0
      BY DEF Inv, Fresh, TypeOK, ClaimExists, ZeroClaim, ClaimIds
    <3> QED
      BY <3>1, <3>2, <3>3, <3>4
  <2> QED
    BY <1>2, <2>1, <2>2, CreationCases
<1>3. CASE \E e \in ClaimIds : \E s : claims' = [claims EXCEPT ![e].status = s]
  BY <1>3 DEF TypeOK, ClaimRecord
<1> QED
  BY <1>1, <1>2, <1>3
  DEF Next, RegistryStep, EvidenceStep, ModuleAdministration, SetClaimStatus, Submit, Resolve,
      FinalizeClaimResolution, claimVars, recordVars

\* A claim that cannot do without its author bond.
NeedsBond(c) ==
  claims[c].status \notin {"Draft", "Deprecated"} \/ effectiveClaimDecisionId[c] # 0

\* No decision takes a claim out of Draft, or out of Deprecated: evidence comes to
\* claims that were published.
LEMMA EvidenceNeedsNoBond ==
  ASSUME Inv, RegistryStep, NEW c \in ClaimIds, NeedsBond(c)'
  PROVE  NeedsBond(c) /\ claims'[c].requiredAuthorBond = claims[c].requiredAuthorBond
<1> TypeOK
  BY DEF Inv
<1>1. [Next]_claimVars
  BY DEF Next
<1>2. CASE UNCHANGED <<claims, effectiveClaimDecisionId>>
  BY <1>2 DEF NeedsBond
<1>3. CASE CreationStep
  <2>1. UNCHANGED effectiveClaimDecisionId
    BY <1>3, CreationCases DEF decisionVars
  <2>2. \/ claims'[c] = claims[c]
        \/ claims'[c].status = "Draft" /\ effectiveClaimDecisionId[c] = 0
    <3>1. CASE UNCHANGED recordVars
      BY <3>1 DEF recordVars
    <3>2. CASE \E a \in Actors, b \in Bonds, p \in ClaimIds \cup {0},
                 m \in Modules \cup {NoModule} : Creates(a, b, p, m)
      <4>1. c # nextClaimId => claims'[c] = claims[c]
        BY <3>2 DEF Creates, NewClaim, TypeOK
      <4>2. c = nextClaimId => claims'[c].status = "Draft"
        BY <3>2 DEF Creates, NewClaim, TypeOK
      <4>3. c = nextClaimId => effectiveClaimDecisionId[c] = 0
        BY DEF Inv, Fresh, TypeOK, ClaimIds
      <4> QED
        BY <4>1, <4>2, <4>3
    <3> QED
      BY <1>3, <3>1, <3>2, CreationCases
  <2> QED
    BY <2>1, <2>2 DEF NeedsBond
<1>4. CASE \E e \in ClaimIds, r \in ReplicationIds : FinalizeClaimResolution(e, r)
  <2>1. PICK e \in ClaimIds, r \in ReplicationIds : FinalizeClaimResolution(e, r)
    BY <1>4
  <2> DEFINE s == ClaimStatusForResolution(replications[r].status)
             d == nextResolutionDecisionId
  <2>2. s \in ResolutionDerived \cup {"UnderReplication"}
    BY <2>1, FinalizeFacts
  <2>3. \/ /\ Advances(claims[e].status, s)
           /\ claims' = [claims EXCEPT ![e].status = s]
           /\ effectiveClaimDecisionId' = [effectiveClaimDecisionId EXCEPT ![e] = d]
        \/ /\ Confirms(e, s)
           /\ claims' = claims
           /\ effectiveClaimDecisionId' = [effectiveClaimDecisionId EXCEPT ![e] = d]
        \/ claims' = claims /\ effectiveClaimDecisionId' = effectiveClaimDecisionId
    BY <2>1, FinalizeFacts
  <2> HIDE DEF s, d
  <2>4. Advances(claims[e].status, s) => claims[e].status \notin {"Draft", "Deprecated"}
    BY <2>2 DEF Advances, AllowedTransition, ResolutionDerived
  <2>5. Confirms(e, s) => claims[e].status \notin {"Draft", "Deprecated"}
    BY <2>2 DEF Confirms, ResolutionDerived
  <2> QED
    BY <2>3, <2>4, <2>5 DEF NeedsBond, TypeOK, ClaimRecord
<1> QED
  BY <1>2, <1>3, <1>4
  DEF RegistryStep, EvidenceStep, ModuleAdministration, Submit, Resolve, recordVars, decisionVars

\* setClaimStatus publishes no claim whose bond the escrow does not hold.
LEMMA PublicationNeedsBond ==
  ASSUME TypeOK, NEW e \in ClaimIds, NEW s \in ClaimStatus, NEW satisfied,
         SetClaimStatus(e, s, satisfied), NEW c \in ClaimIds, NeedsBond(c)'
  PROVE  /\ claims'[c].requiredAuthorBond = claims[c].requiredAuthorBond
         /\ NeedsBond(c) \/ (c = e /\ satisfied)
<1>1. /\ claims' = [claims EXCEPT ![e].status = s]
      /\ UNCHANGED effectiveClaimDecisionId
      /\ s \in AllowedTransition(claims[e].status)
      /\ s = "Published" => satisfied
  BY DEF SetClaimStatus, decisionVars
<1>2. claims'[c].requiredAuthorBond = claims[c].requiredAuthorBond
  BY <1>1 DEF TypeOK, ClaimRecord
<1>3. CASE c # e
  BY <1>1, <1>2, <1>3 DEF NeedsBond, TypeOK
<1>4. CASE c = e
  <2>1. claims'[e].status = s
    BY <1>1 DEF TypeOK, ClaimRecord
  <2>2. claims[e].status \in {"Draft", "Deprecated"} => s \in {"Published", "Deprecated"}
    BY <1>1 DEF AllowedTransition
  <2> QED
    BY <1>1, <1>2, <1>4, <2>1, <2>2 DEF NeedsBond
<1> QED
  BY <1>3, <1>4

-----------------------------------------------------------------------------
(***************************************************************************)
(* The invariant.                                                          *)
(***************************************************************************)

\* A step is one of the registries, with what the escrow says of the bond if it
\* asks, or one of the escrow.
LEMMA EscrowedCases ==
  ASSUME [EscrowedNext]_vars
  PROVE  \/ [Next]_claimVars /\ UNCHANGED escrowVars
         \/ EscrowStep /\ UNCHANGED claimVars
<1>1. ASSUME NEW c \in ClaimIds, NEW s \in ClaimStatus,
             SetClaimStatus(c, s, IsAuthorBondSatisfied(c))
      PROVE  Next
  <2>1. SetClaimStatus(c, s, TRUE)
    BY <1>1 DEF SetClaimStatus
  <2> QED
    BY <2>1 DEF Next
<1> QED
  BY <1>1 DEF EscrowedNext, Next, vars

\* The books are the escrow's own: a step of the registries leaves them.
LEMMA RegistryKeepsBooks ==
  ASSUME Books, Reservations, UNCHANGED escrowVars
  PROVE  Books' /\ Reservations'
<1>1. /\ UNCHANGED <<depositsPaused, authorBondBalances, authorRefundCredits, bountyBalances,
                     escrowBalance, bondsDeposited, received>>
      /\ UNCHANGED <<reservations, reservedBountyBalances>>
  BY DEF escrowVars, balanceVars
<1>2. Books'
  BY <1>1 DEF Books, TotalOf
<1>3. Reservations'
  BY <1>1, UntouchedReservations DEF Books
<1> QED
  BY <1>2, <1>3

\* The switch moves no money.
LEMMA SwitchKeepsBooks ==
  ASSUME Books, Reservations, NEW flag \in BOOLEAN, SetDepositsPaused(flag)
  PROVE  Books' /\ Reservations'
<1>1. /\ UNCHANGED <<authorBondBalances, authorRefundCredits, bountyBalances,
                     escrowBalance, bondsDeposited, received>>
      /\ UNCHANGED <<reservations, reservedBountyBalances>>
  BY DEF SetDepositsPaused, balanceVars
<1>2. depositsPaused' \in BOOLEAN
  BY DEF SetDepositsPaused
<1>3. Books'
  BY <1>1, <1>2 DEF Books, TotalOf
<1>4. Reservations'
  BY <1>1, UntouchedReservations DEF Books
<1> QED
  BY <1>3, <1>4

\* Every entry point keeps the books.
LEMMA EscrowStepKeepsBooks ==
  ASSUME TypeOK, Books, Reservations, AuthorsKnown, EscrowStep
  PROVE  Books' /\ Reservations'
<1>1. CASE \E flag \in BOOLEAN : SetDepositsPaused(flag)
  BY <1>1, SwitchKeepsBooks
<1>2. CASE \E c \in ClaimIds, amount \in Amounts, a \in Actors : DepositAuthorBond(a, c, amount)
  BY <1>2, DepositKeepsBooks
<1>3. CASE \E c \in ClaimIds, amount \in Amounts : FundReplicationBounty(c, amount)
  BY <1>3, FundKeepsBooks
<1>4. CASE \E c \in ClaimIds, amount \in Amounts : SlashAuthorBond(c, amount)
  BY <1>4, SlashKeepsBooks
<1>5. CASE \E c \in ClaimIds, amount \in Amounts : RefundAuthorBond(c, amount)
  <2>1. PICK c \in ClaimIds, amount \in Amounts : RefundAuthorBond(c, amount)
    BY <1>5
  <2>2. claims[c].author \in Actors
    BY <2>1 DEF AuthorsKnown, RefundAuthorBond
  <2> QED
    BY <2>1, <2>2, RefundKeepsBooks
<1>6. CASE \E c \in ClaimIds, amount \in Amounts, r \in ReplicationIds :
             ReserveBountyPayout(c, r, amount)
  BY <1>6, ReserveKeepsBooks
<1>7. CASE \E c \in ClaimIds, r \in ReplicationIds : ReleaseReservedPayout(c, r)
  BY <1>7, ReleaseKeepsBooks
<1>8. CASE \E c \in ClaimIds, r \in ReplicationIds : CancelReservedPayout(c, r)
  BY <1>8, CancelKeepsBooks
<1>9. CASE \E a \in Actors, amount \in Amounts : WithdrawAuthorBondRefund(a, amount)
  BY <1>9, WithdrawKeepsBooks
<1> QED
  BY <1>1, <1>2, <1>3, <1>4, <1>5, <1>6, <1>7, <1>8, <1>9 DEF EscrowStep

\* A claim is created by an account and keeps its author.
LEMMA AuthorsStayKnown ==
  ASSUME Inv, AuthorsKnown, [Next]_claimVars
  PROVE  AuthorsKnown'
BY ClaimsKept DEF AuthorsKnown, ClaimExists

\* What the steps of the escrow do to a reservation: nothing, a first one of the
\* replication's, or a settlement of a live one.
LEMMA ReservationSteps ==
  ASSUME Reservations, EscrowStep, NEW c \in ClaimIds, NEW r \in ReplicationIds
  PROVE  LET old == reservations[c][r]
             new == reservations'[c][r]
         IN \/ new = old
            \/ /\ old.amount = 0
               /\ ReplicationExists(r) /\ replications[r].claimId = c
               /\ new.recipient = replications[r].replicator
               /\ ~new.released
            \/ /\ Active(old)
               /\ new.amount = old.amount /\ new.recipient = old.recipient
               /\ \/ IsReplicationResolved(r) /\ ~new.cancelled
                  \/ new.released = old.released /\ ~new.released
<1> USE DEF Reservations
<1>1. CASE UNCHANGED reservations
  BY <1>1
<1>2. ASSUME NEW d \in ClaimIds, NEW q \in ReplicationIds, NEW amount \in Amounts,
             ReserveBountyPayout(d, q, amount), d = c, q = r
      PROVE  /\ reservations[c][r].amount = 0
             /\ ReplicationExists(r) /\ replications[r].claimId = c
             /\ reservations'[c][r].recipient = replications[r].replicator
             /\ ~reservations'[c][r].released
  BY <1>2 DEF ReserveBountyPayout, NoReservation, BountyReservation
<1>3. ASSUME NEW d \in ClaimIds, NEW q \in ReplicationIds, NEW amount \in Amounts,
             ReserveBountyPayout(d, q, amount), d # c \/ q # r
      PROVE  reservations'[c][r] = reservations[c][r]
  BY <1>3 DEF ReserveBountyPayout
<1>4. ASSUME NEW d \in ClaimIds, NEW q \in ReplicationIds, ReleaseReservedPayout(d, q)
      PROVE  \/ reservations'[c][r] = reservations[c][r]
             \/ /\ Active(reservations[c][r])
                /\ reservations'[c][r].amount = reservations[c][r].amount
                /\ reservations'[c][r].recipient = reservations[c][r].recipient
                /\ IsReplicationResolved(r) /\ ~reservations'[c][r].cancelled
  BY <1>4 DEF ReleaseReservedPayout, Active, BountyReservation
<1>5. ASSUME NEW d \in ClaimIds, NEW q \in ReplicationIds, CancelReservedPayout(d, q)
      PROVE  \/ reservations'[c][r] = reservations[c][r]
             \/ /\ Active(reservations[c][r])
                /\ reservations'[c][r].amount = reservations[c][r].amount
                /\ reservations'[c][r].recipient = reservations[c][r].recipient
                /\ reservations'[c][r].released = reservations[c][r].released
                /\ ~reservations'[c][r].released
  BY <1>5 DEF CancelReservedPayout, Active, BountyReservation
<1> QED
  BY <1>1, <1>2, <1>3, <1>4, <1>5
  DEF EscrowStep, SetDepositsPaused, balanceVars, DepositAuthorBond, FundReplicationBounty,
      SlashAuthorBond, RefundAuthorBond, WithdrawAuthorBondRefund

\* A reservation is made for a replication that exists.
LEMMA ReservationsNameReplications ==
  ASSUME PaidForEvidence, NEW c \in ClaimIds, NEW r \in ReplicationIds,
         reservations[c][r].amount # 0
  PROVE  ReplicationExists(r)
<1>1. replications[r].claimId = c /\ c # 0
  BY DEF PaidForEvidence, ClaimIds
<1> QED
  BY <1>1 DEF ReplicationExists

\* What a reservation says of its replication stays true.
LEMMA EvidenceStepsKeepPayouts ==
  ASSUME Inv, PaidForEvidence, [Next]_claimVars, UNCHANGED reservations
  PROVE  PaidForEvidence'
BY ReplicationsKept, ReservationsNameReplications DEF PaidForEvidence

\* A payout is released to the replicator the reservation was made for.
LEMMA EscrowStepKeepsPayouts ==
  ASSUME Reservations, PaidForEvidence, EscrowStep, UNCHANGED claimVars
  PROVE  PaidForEvidence'
<1>1. UNCHANGED replications
  BY DEF claimVars, replicationVars
<1>2. ASSUME NEW c \in ClaimIds, NEW r \in ReplicationIds
      PROVE  /\ reservations'[c][r].released =>
                  ~reservations'[c][r].cancelled /\ IsReplicationResolved(r)'
             /\ reservations'[c][r].amount # 0 =>
                  /\ replications'[r].claimId = c
                  /\ reservations'[c][r].recipient = replications'[r].replicator
  <2>1. IsReplicationResolved(r)' <=> IsReplicationResolved(r)
    BY <1>1 DEF IsReplicationResolved, ReplicationExists
  <2>2. /\ reservations[c][r].released =>
             ~reservations[c][r].cancelled /\ IsReplicationResolved(r)
        /\ reservations[c][r].amount # 0 =>
             /\ replications[r].claimId = c
             /\ reservations[c][r].recipient = replications[r].replicator
    BY DEF PaidForEvidence
  <2> QED
    BY <1>1, <2>1, <2>2, ReservationSteps DEF Active
<1> QED
  BY <1>2 DEF PaidForEvidence

\* A required bond is a number.
LEMMA BondsAreNumbers ==
  ASSUME TypeOK, NEW c \in ClaimIds
  PROVE  claims[c].requiredAuthorBond \in Int
<1>1. claims[c] \in ClaimRecord
  BY DEF TypeOK
<1>2. claims[c].requiredAuthorBond \in Bonds
  BY <1>1 DEF ClaimRecord
<1>3. Bonds \subseteq Int
  BY ModuleAssumption
<1> HIDE DEF ClaimRecord
<1> QED
  BY <1>2, <1>3

\* The bond is there when the registry asks for it, and what was deposited is not
\* forgotten when it is slashed or refunded.
LEMMA RegistryKeepsBonded ==
  ASSUME Inv, Books, PublishedWasBonded,
         [EscrowedNext]_vars, UNCHANGED escrowVars
  PROVE  PublishedWasBonded'
<1> TypeOK
  BY DEF Inv
<1>1. UNCHANGED <<bondsDeposited, authorBondBalances>>
  BY DEF escrowVars, balanceVars
<1>2. \A c \in ClaimIds : NeedsBond(c) => bondsDeposited[c] >= claims[c].requiredAuthorBond
  BY DEF PublishedWasBonded, NeedsBond
<1>3. CASE UNCHANGED claimVars
  BY <1>1, <1>3 DEF PublishedWasBonded, claimVars, recordVars, decisionVars
<1>4. CASE RegistryStep
  <2>1. \A c \in ClaimIds :
          NeedsBond(c)' => bondsDeposited'[c] >= claims'[c].requiredAuthorBond
    BY <1>1, <1>2, <1>4, EvidenceNeedsNoBond
  <2> QED
    BY <2>1 DEF PublishedWasBonded, NeedsBond
<1>5. CASE \E c \in ClaimIds, s \in ClaimStatus : SetClaimStatus(c, s, IsAuthorBondSatisfied(c))
  <2>1. PICK e \in ClaimIds, s \in ClaimStatus : SetClaimStatus(e, s, IsAuthorBondSatisfied(e))
    BY <1>5
  <2>2. ASSUME NEW c \in ClaimIds, NeedsBond(c)'
        PROVE  bondsDeposited'[c] >= claims'[c].requiredAuthorBond
    <3>1. /\ claims'[c].requiredAuthorBond = claims[c].requiredAuthorBond
          /\ NeedsBond(c) \/ (c = e /\ IsAuthorBondSatisfied(e))
      BY <2>1, <2>2, PublicationNeedsBond
    <3>2. /\ authorBondBalances[c] \in Int /\ bondsDeposited[c] \in Int
          /\ authorBondBalances[c] <= bondsDeposited[c]
      BY DEF Books
    <3>3. claims[c].requiredAuthorBond \in Int
      BY BondsAreNumbers
    <3> QED
      BY <1>1, <1>2, <3>1, <3>2, <3>3 DEF IsAuthorBondSatisfied
  <2> QED
    BY <2>2 DEF PublishedWasBonded, NeedsBond
<1>6. CASE EscrowStep /\ UNCHANGED claimVars
  BY <1>3, <1>6
<1> QED
  BY <1>3, <1>4, <1>5, <1>6 DEF EscrowedNext, vars

\* No entry point takes back what was deposited.
LEMMA EscrowStepKeepsBonded ==
  ASSUME TypeOK, Books, PublishedWasBonded, EscrowStep, UNCHANGED claimVars
  PROVE  PublishedWasBonded'
<1>1. ASSUME NEW c \in ClaimIds
      PROVE  bondsDeposited'[c] \in Int /\ bondsDeposited'[c] >= bondsDeposited[c]
  <2>1. bondsDeposited[c] \in Nat
    BY DEF Books
  <2>2. CASE UNCHANGED bondsDeposited
    BY <2>1, <2>2
  <2>3. ASSUME NEW a \in Actors, NEW d \in ClaimIds, NEW amount \in Amounts,
               DepositAuthorBond(a, d, amount)
        PROVE  bondsDeposited'[c] \in Int /\ bondsDeposited'[c] >= bondsDeposited[c]
    BY <2>1, <2>3, EscrowAssumption DEF DepositAuthorBond, Amounts, Books
  <2> QED
    BY <2>2, <2>3, ZenonT(60)
    DEF EscrowStep, SetDepositsPaused, balanceVars, FundReplicationBounty, SlashAuthorBond,
        RefundAuthorBond, WithdrawAuthorBondRefund, ReserveBountyPayout,
        ReleaseReservedPayout, CancelReservedPayout
<1>2. \A c \in ClaimIds : bondsDeposited[c] \in Int /\ claims[c].requiredAuthorBond \in Int
  BY BondsAreNumbers DEF Books
<1>3. UNCHANGED <<claims, effectiveClaimDecisionId>>
  BY DEF claimVars, recordVars, decisionVars
<1> QED
  BY <1>1, <1>2, <1>3 DEF PublishedWasBonded

\* The deployed contracts satisfy the invariant.
LEMMA InitEscrowInv == Init /\ EscrowInit => EscrowInv
<1> SUFFICES ASSUME Init, EscrowInit
             PROVE  EscrowInv
  OBVIOUS
<1>1. Inv
  BY InitInv
<1>2. Books /\ Reservations
  BY BooksAtInit
<1>3. AuthorsKnown
  BY DEF AuthorsKnown, ClaimExists, Init, ZeroClaim
<1>4. PaidForEvidence
  BY DEF PaidForEvidence, EscrowInit, NoReservation
<1>5. PublishedWasBonded
  BY DEF PublishedWasBonded, Init, ZeroClaim
<1> QED
  BY <1>1, <1>2, <1>3, <1>4, <1>5 DEF EscrowInv

\* Every step of the composed contracts keeps it.
LEMMA EscrowedNextKeepsInv == EscrowInv /\ [EscrowedNext]_vars => EscrowInv'
<1> SUFFICES ASSUME EscrowInv, [EscrowedNext]_vars
             PROVE  EscrowInv'
  OBVIOUS
<1> USE DEF EscrowInv
<1>1. TypeOK
  BY DEF Inv
<1>2. CASE [Next]_claimVars /\ UNCHANGED escrowVars
  <2>1. Inv' /\ AuthorsKnown'
    BY <1>2, NextKeepsInv, AuthorsStayKnown
  <2>2. Books' /\ Reservations'
    BY <1>2, RegistryKeepsBooks
  <2>3. UNCHANGED reservations
    BY <1>2 DEF escrowVars, balanceVars
  <2>4. PaidForEvidence'
    BY <1>2, <2>3, EvidenceStepsKeepPayouts
  <2>5. PublishedWasBonded'
    BY <1>2, RegistryKeepsBonded
  <2> QED
    BY <2>1, <2>2, <2>4, <2>5
<1>3. CASE EscrowStep /\ UNCHANGED claimVars
  <2>1. Inv' /\ AuthorsKnown'
    BY <1>3, NextKeepsInv, AuthorsStayKnown
  <2>2. Books' /\ Reservations'
    BY <1>1, <1>3, EscrowStepKeepsBooks
  <2>3. PaidForEvidence'
    BY <1>3, EscrowStepKeepsPayouts
  <2>4. PublishedWasBonded'
    BY <1>1, <1>3, EscrowStepKeepsBonded
  <2> QED
    BY <2>1, <2>2, <2>3, <2>4
<1> QED
  BY <1>2, <1>3, EscrowedCases

\* The invariant holds of every reachable state.
THEOREM EscrowInvariant == EscrowedSpec => []EscrowInv
<1>1. Init /\ EscrowInit => EscrowInv
  BY InitEscrowInv
<1>2. EscrowInv /\ [EscrowedNext]_vars => EscrowInv'
  BY EscrowedNextKeepsInv
<1> QED
  BY <1>1, <1>2, PTL DEF EscrowedSpec

-----------------------------------------------------------------------------
(***************************************************************************)
(* The properties.                                                         *)
(***************************************************************************)

\* BondEscrow holds what it owes: the contract's balance is the bonds, bounties
\* and refunds it has on its books, and what is reserved is what is live.
THEOREM EscrowIsSolvent == EscrowedSpec => []Solvent
<1>1. EscrowInv => Solvent
  BY BooksSolvent DEF EscrowInv
<1> QED
  BY <1>1, EscrowInvariant, PTL

\* releaseReservedPayout pays the replicator of a resolved replication of the claim.
THEOREM PayoutsAreForEvidence == EscrowedSpec => []PaidForEvidence
<1>1. EscrowInv => PaidForEvidence
  BY DEF EscrowInv
<1> QED
  BY <1>1, EscrowInvariant, PTL

\* setClaimStatus publishes, and finalizeClaimResolution decides, bonded claims only.
THEOREM PublishedClaimsWereBonded == EscrowedSpec => []PublishedWasBonded
<1>1. EscrowInv => PublishedWasBonded
  BY DEF EscrowInv
<1> QED
  BY <1>1, EscrowInvariant, PTL

\* A reservation is made once and settled once.
THEOREM SettlementsAreFinal == EscrowedSpec => SettledIsFinal
<1>1. ASSUME EscrowInv, [EscrowedNext]_vars,
             NEW c \in ClaimIds, NEW r \in ReplicationIds, reservations[c][r].amount # 0
      PROVE  /\ reservations'[c][r].amount = reservations[c][r].amount
             /\ reservations'[c][r].recipient = reservations[c][r].recipient
             /\ reservations[c][r].released => reservations'[c][r].released
             /\ reservations[c][r].cancelled => reservations'[c][r] = reservations[c][r]
  <2>1. CASE UNCHANGED reservations
    BY <2>1
  <2>2. CASE EscrowStep
    BY <1>1, <2>2, ReservationSteps DEF EscrowInv, Active
  <2> QED
    BY <1>1, <2>1, <2>2, EscrowedCases DEF escrowVars, balanceVars
<1>2. EscrowInv /\ [EscrowedNext]_vars =>
        [\A c \in ClaimIds, r \in ReplicationIds :
           reservations[c][r].amount # 0 =>
             /\ reservations'[c][r].amount = reservations[c][r].amount
             /\ reservations'[c][r].recipient = reservations[c][r].recipient
             /\ reservations[c][r].released => reservations'[c][r].released
             /\ reservations[c][r].cancelled =>
                  reservations'[c][r] = reservations[c][r]]_vars
  BY <1>1
<1> QED
  BY <1>2, EscrowInvariant, PTL DEF EscrowedSpec, SettledIsFinal

-----------------------------------------------------------------------------
(***************************************************************************)
(* The exits, "never behind this switch" (DepositPausable).  What the      *)
(* prover cannot say is ENABLED; what stands in the way of a step is the   *)
(* guards, so: each exit is a step to the state written out below from     *)
(* every reachable state where something is owed, paused or not.           *)
(***************************************************************************)

\* Bond is only on the books of a claim that was created.
BondsHaveClaims == \A c \in ClaimIds : authorBondBalances[c] > 0 => ClaimExists(c)

\* What the escrow asks before it pays holds of whatever is owed: its balance covers
\* each refund and each reserved payout, the payout is covered by the bounty and by
\* what is reserved of it, and the bond to refund belongs to a claim with an author.
ExitsAreCovered ==
  /\ \A a \in Actors : escrowBalance >= authorRefundCredits[a]
  /\ \A c \in ClaimIds, r \in ReplicationIds :
       Active(reservations[c][r]) =>
         /\ reservedBountyBalances[c] >= reservations[c][r].amount
         /\ bountyBalances[c] >= reservations[c][r].amount
         /\ escrowBalance >= reservations[c][r].amount
  /\ BondsHaveClaims

\* Nobody's credit is more than the balance, nor is the bounty of a claim.
LEMMA BalanceCovers ==
  ASSUME Books
  PROVE  /\ \A a \in Actors : escrowBalance >= authorRefundCredits[a]
         /\ \A c \in ClaimIds : escrowBalance >= bountyBalances[c]
<1>1. /\ \A a \in Actors : authorRefundCredits[a] \in Nat
                         /\ authorRefundCredits[a] <= TotalOf(authorRefundCredits, Actors)
      /\ \A c \in ClaimIds : bountyBalances[c] \in Nat
                         /\ bountyBalances[c] <= TotalOf(bountyBalances, ClaimIds)
  BY FiniteIds, BookTotals DEF Books
<1> QED
  BY <1>1, BookTypes DEF Books

\* A live reservation is one of those its claim's reserved bounty is the sum of.
LEMMA ReservedCovers ==
  ASSUME Books, Reservations, NEW c \in ClaimIds, NEW r \in ReplicationIds,
         Active(reservations[c][r])
  PROVE  /\ reservations[c][r].amount \in Nat
         /\ reservedBountyBalances[c] >= reservations[c][r].amount
         /\ bountyBalances[c] >= reservations[c][r].amount
         /\ escrowBalance >= reservations[c][r].amount
<1>1. /\ reservations[c][r].amount \in Nat
      /\ reservedBountyBalances[c] <= bountyBalances[c]
      /\ reservedBountyBalances[c] \in Nat /\ bountyBalances[c] \in Nat
  BY LiveIsCovered
<1>2. LiveAmounts(c) \in [ReplicationIds -> Nat]
  <2>1. \A q \in ReplicationIds : Reserved(c, q) \in Nat
    BY EscrowAssumption DEF Reserved, Reservations, BountyReservation
  <2> QED
    BY <2>1 DEF LiveAmounts
<1>3. LiveAmounts(c)[r] <= TotalOf(LiveAmounts(c), ReplicationIds)
  BY <1>2, FiniteIds, BookTotals
<1>4. LiveAmounts(c)[r] = reservations[c][r].amount
  BY DEF LiveAmounts, Reserved
<1>5. escrowBalance >= bountyBalances[c] /\ escrowBalance \in Nat
  BY BalanceCovers DEF Books
<1> QED
  BY <1>1, <1>3, <1>4, <1>5 DEF Reservations

\* depositAuthorBond is for a claim that exists, and a claim is never deleted.
LEMMA BondsKeepClaims ==
  ASSUME EscrowInv, BondsHaveClaims, [EscrowedNext]_vars
  PROVE  BondsHaveClaims'
<1> USE DEF EscrowInv
<1>1. ASSUME NEW c \in ClaimIds, ClaimExists(c)
      PROVE  ClaimExists(c)'
  <2>1. CASE [Next]_claimVars
    BY <1>1, <2>1, ClaimsKept DEF ClaimExists
  <2>2. CASE UNCHANGED claimVars
    BY <1>1, <2>2 DEF ClaimExists, claimVars, recordVars
  <2> QED
    BY <2>1, <2>2, EscrowedCases
<1>2. ASSUME NEW c \in ClaimIds, authorBondBalances'[c] > 0
      PROVE  ClaimExists(c)
  <2>1. authorBondBalances \in [ClaimIds -> Nat]
    BY DEF Books
  <2>2. CASE UNCHANGED authorBondBalances
    BY <1>2, <2>2 DEF BondsHaveClaims
  <2>3. ASSUME NEW a \in Actors, NEW d \in ClaimIds, NEW amount \in Amounts,
               DepositAuthorBond(a, d, amount)
        PROVE  ClaimExists(c)
    BY <1>2, <2>1, <2>3 DEF DepositAuthorBond, BondsHaveClaims
  <2>4. ASSUME NEW d \in ClaimIds, NEW amount \in Amounts,
               SlashAuthorBond(d, amount) \/ RefundAuthorBond(d, amount)
        PROVE  ClaimExists(c)
    <3>1. authorBondBalances' = [authorBondBalances EXCEPT ![d] = @ - amount]
      BY <2>4 DEF SlashAuthorBond, RefundAuthorBond
    <3>2. authorBondBalances'[c] <= authorBondBalances[c] /\ authorBondBalances[c] \in Nat
      BY <2>1, <3>1 DEF Amounts
    <3>3. authorBondBalances[c] > 0
      BY <1>2, <2>1, <3>1, <3>2, EscrowAssumption DEF Amounts
    <3> QED
      BY <3>3 DEF BondsHaveClaims
  <2>5. CASE EscrowStep
    BY <2>2, <2>3, <2>4, <2>5, ZenonT(60)
    DEF EscrowStep, SetDepositsPaused, balanceVars, FundReplicationBounty,
        WithdrawAuthorBondRefund, ReserveBountyPayout, ReleaseReservedPayout,
        CancelReservedPayout
  <2> QED
    BY <2>2, <2>5, EscrowedCases DEF escrowVars, balanceVars
<1> QED
  BY <1>1, <1>2 DEF BondsHaveClaims

\* Whatever was deposited, slashed, reserved, paid or decided before, and whether
\* deposits are paused or not, the escrow's exits find what they ask for.
THEOREM ExitsAlwaysCovered == EscrowedSpec => []ExitsAreCovered
<1>1. Init /\ EscrowInit => BondsHaveClaims
  BY DEF EscrowInit, BondsHaveClaims
<1>2. EscrowInv /\ BondsHaveClaims /\ [EscrowedNext]_vars => BondsHaveClaims'
  BY BondsKeepClaims
<1>3. EscrowInv /\ BondsHaveClaims => ExitsAreCovered
  BY BalanceCovers, ReservedCovers DEF EscrowInv, ExitsAreCovered
<1> QED
  BY <1>1, <1>2, <1>3, EscrowInvariant, PTL DEF EscrowedSpec

\* An author's whole refund is paid out: withdrawAuthorBondRefund is a step of the
\* system to the state in which the author is owed nothing.
THEOREM RefundsCanBeWithdrawn ==
  ASSUME Solvent, ExitsAreCovered, NEW a \in Actors, authorRefundCredits[a] > 0,
         authorRefundCredits' = [authorRefundCredits EXCEPT ![a] = 0],
         escrowBalance' = escrowBalance - authorRefundCredits[a],
         UNCHANGED <<claimVars, depositsPaused, authorBondBalances, bountyBalances,
                     reservedBountyBalances, reservations, bondsDeposited, received>>
  PROVE  WithdrawAuthorBondRefund(a, authorRefundCredits[a]) /\ EscrowedNext
<1>1. /\ authorRefundCredits[a] \in Amounts
      /\ authorRefundCredits[a] - authorRefundCredits[a] = 0
      /\ authorRefundCredits[a] >= authorRefundCredits[a]
  BY EscrowAssumption DEF Amounts, Solvent, EscrowTypeOK
<1>2. escrowBalance >= authorRefundCredits[a]
  BY DEF ExitsAreCovered
<1>3. Pay(authorRefundCredits[a])
  BY <1>2 DEF Pay
<1>4. authorRefundCredits' = [authorRefundCredits EXCEPT ![a] = @ - authorRefundCredits[a]]
  BY <1>1, Zenon
<1>5. WithdrawAuthorBondRefund(a, authorRefundCredits[a])
  BY <1>1, <1>3, <1>4, Zenon DEF WithdrawAuthorBondRefund
<1> QED
  BY <1>1, <1>5 DEF EscrowedNext, EscrowStep

\* A bond is returned in full: refundAuthorBond is a step of the system to the state
\* in which the claim has no bond left and its author is owed what it had.
THEOREM BondsCanBeRefunded ==
  ASSUME Solvent, ExitsAreCovered, NEW c \in ClaimIds, authorBondBalances[c] > 0,
         authorBondBalances' = [authorBondBalances EXCEPT ![c] = 0],
         authorRefundCredits' = [authorRefundCredits EXCEPT
                                   ![claims[c].author] = @ + authorBondBalances[c]],
         UNCHANGED <<claimVars, depositsPaused, escrowBalance, bountyBalances,
                     reservedBountyBalances, reservations, bondsDeposited, received>>
  PROVE  RefundAuthorBond(c, authorBondBalances[c]) /\ EscrowedNext
<1>1. /\ authorBondBalances[c] \in Amounts
      /\ authorBondBalances[c] - authorBondBalances[c] = 0
      /\ authorBondBalances[c] >= authorBondBalances[c]
  BY EscrowAssumption DEF Amounts, Solvent, EscrowTypeOK
<1>2. ClaimExists(c)
  BY DEF ExitsAreCovered, BondsHaveClaims
<1>3. RefundAuthorBond(c, authorBondBalances[c])
  BY <1>1, <1>2 DEF RefundAuthorBond
<1> QED
  BY <1>1, <1>3 DEF EscrowedNext, EscrowStep

\* What is reserved for a replication can be returned to the bounty at any time:
\* cancelReservedPayout is a step of the system.
THEOREM PayoutsCanBeCancelled ==
  ASSUME ExitsAreCovered, NEW c \in ClaimIds, NEW r \in ReplicationIds,
         Active(reservations[c][r]),
         reservations' = [reservations EXCEPT ![c][r].cancelled = TRUE],
         reservedBountyBalances' =
           [reservedBountyBalances EXCEPT ![c] = @ - reservations[c][r].amount],
         UNCHANGED <<claimVars, depositsPaused, authorBondBalances, authorRefundCredits,
                     bountyBalances, escrowBalance, bondsDeposited, received>>
  PROVE  CancelReservedPayout(c, r) /\ EscrowedNext
<1>1. reservedBountyBalances[c] >= reservations[c][r].amount
  BY DEF ExitsAreCovered
<1>2. CancelReservedPayout(c, r)
  BY <1>1 DEF CancelReservedPayout
<1> QED
  BY <1>2 DEF EscrowedNext, EscrowStep

\* Once the replication is resolved it can be paid: releaseReservedPayout is a step of
\* the system, whatever the claim's status and other reservations.
THEOREM PayoutsCanBeReleased ==
  ASSUME ExitsAreCovered, NEW c \in ClaimIds, NEW r \in ReplicationIds,
         Active(reservations[c][r]), IsReplicationResolved(r),
         reservations' = [reservations EXCEPT ![c][r].released = TRUE],
         reservedBountyBalances' =
           [reservedBountyBalances EXCEPT ![c] = @ - reservations[c][r].amount],
         bountyBalances' = [bountyBalances EXCEPT ![c] = @ - reservations[c][r].amount],
         escrowBalance' = escrowBalance - reservations[c][r].amount,
         UNCHANGED <<claimVars, depositsPaused, authorBondBalances, authorRefundCredits,
                     bondsDeposited, received>>
  PROVE  ReleaseReservedPayout(c, r) /\ EscrowedNext
<1>1. /\ reservedBountyBalances[c] >= reservations[c][r].amount
      /\ bountyBalances[c] >= reservations[c][r].amount
      /\ escrowBalance >= reservations[c][r].amount
  BY DEF ExitsAreCovered
<1>2. ReleaseReservedPayout(c, r)
  BY <1>1 DEF ReleaseReservedPayout, Pay
<1> QED
  BY <1>2 DEF EscrowedNext, EscrowStep
=============================================================================
