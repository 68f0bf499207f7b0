---------------------------- MODULE Checkpoints ----------------------------
(***************************************************************************)
(* Reputation and its publication: src/reputation/engine.ts computes the   *)
(* leaderboard of a domain from the read model, src/checkpoints/publisher  *)
(* .ts puts it on chain, subject by subject, in                            *)
(* ReputationCheckpointRegistry.sol, and the indexer brings the            *)
(* checkpoints back into the read model.  Engines and publishers are       *)
(* commands anybody may start while others run.  A step is one query, one  *)
(* transaction, or the pure code between two awaits.                       *)
(*                                                                         *)
(* A definition whose name begins with Bug is one the model does not use:  *)
(* its neighbour with a defect the properties must notice.                 *)
(***************************************************************************)
EXTENDS ProtocolTypes, FiniteSets, SequencesExt

CONSTANTS
  ReputationActors,     \* addresses, numbers, which break the ties
  DomainClaims,         \* claims of the domain, with one replication each
  DomainAgents,         \* agents whose work the domain may have
  Engines, CheckpointPublishers,  \* processes
  LeaderboardPage,      \* rows a page holds, 100 in the code
  MaxPayloads, MaxPublications    \* bounds of the model

ASSUME CheckpointsAssumption ==
  /\ ReputationActors \subseteq Nat
  /\ IsFiniteSet(DomainAgents)
  /\ LeaderboardPage \in Nat \ {0}
  /\ MaxPayloads \in Nat /\ MaxPublications \in Nat

VARIABLES
  claimRows,       \* claims and replications as the indexer last wrote them
  replicationRows,
  indexed,         \* how many checkpoints the indexer has written
  payloads,        \* reputation_payloads, each the sequence of its entries
  engines,         \* the locals of computeDomainLeaderboard
  moduleAddress,   \* the module of the domain, registered if it is not the zero address
  checkpoints,     \* the records of the registry
  checkpointRequests,  \* operator_requests, by status
  checkpointRows,  \* checkpoint_publications
  publishers       \* the locals of publishDomainCheckpoints

readVars == <<claimRows, replicationRows, indexed>>
publishVars == <<checkpoints, checkpointRequests, checkpointRows, publishers>>
checkpointVars == <<readVars, payloads, engines, moduleAddress, publishVars>>

NoEngine == [pc |-> "idle", claims |-> <<>>, replications |-> <<>>, subjects |-> {}]
NoPublisher ==
  [pc |-> "idle", payload |-> -1, offset |-> 0, paged |-> FALSE, quiet |-> TRUE,
   subjects |-> <<>>, publication |-> 0, request |-> 0, checkpoint |-> 0]

ClaimRows == [author : ReputationActors, status : ClaimStatus]
ReplicationRows == [replicator : ReputationActors, status : ResolutionStatus]
NoRow == [status |-> "none"]

CheckpointsInit ==
  /\ claimRows = [c \in DomainClaims |-> NoRow]
  /\ replicationRows = [c \in DomainClaims |-> NoRow]
  /\ indexed = 0
  /\ payloads = <<>>
  /\ engines = [e \in Engines |-> NoEngine]
  /\ moduleAddress = 0
  /\ checkpoints = <<>>
  /\ checkpointRequests = <<>>
  /\ checkpointRows = <<>>
  /\ publishers = [p \in CheckpointPublishers |-> NoPublisher]

-----------------------------------------------------------------------------
(* computeDomainLeaderboard.                                               *)

ClaimScore(status) ==
  10 + (CASE status = "ProvisionallySupported" -> 25
          [] status = "Qualified"              -> 40
          [] status = "Refuted"                -> -20
          [] status = "Fraudulent"             -> -60
          [] OTHER                             -> 0)
ReplicationScore(status) ==
  CASE status \in {"Supported", "Qualified"} -> 25
    [] status = "Inconclusive"               -> 10
    [] status = "Refuted"                    -> 30
    [] status = "FraudSignal"                -> 35
    [] status = "Escalated"                  -> 5
    [] OTHER                                 -> 0

\* The entries by falling score.  An actor whose claims are gone from the rows
\* but who was once published has an entry; how often does not count.
Leaderboard(claims, replications, published) ==
  LET Claims(a) == {c \in DomainClaims : claims[c] # NoRow /\ claims[c].author = a}
      Replications(a) ==
        {c \in DomainClaims : /\ claims[c] # NoRow /\ replications[c] # NoRow
                              /\ replications[c].replicator = a}
      Score(a) == MapThenSumSet(LAMBDA c : ClaimScore(claims[c].status), Claims(a))
                  + MapThenSumSet(LAMBDA c : ReplicationScore(replications[c].status),
                                  Replications(a))
      Entry(a) == [actor |-> a, score |-> Score(a)]
      Ahead(x, y) == x.score > y.score \/ (x.score = y.score /\ x.actor < y.actor)
  IN SetToSortSeq({Entry(a) : a \in {b \in ReputationActors :
                     Claims(b) # {} \/ Replications(b) # {} \/ b \in published}}, Ahead)

ReadClaims(e) ==
  /\ engines[e].pc = "idle"
  /\ engines' = [engines EXCEPT ![e] =
       [pc |-> "claims", claims |-> claimRows, replications |-> <<>>,
        subjects |-> {checkpoints[k].subject :
                        k \in {i \in 1 .. indexed : checkpoints[i].type = "Actor"}}]]
  /\ UNCHANGED <<readVars, payloads, moduleAddress, publishVars>>

\* Later than the claims: a replication without its claim is passed over.
ReadReplications(e) ==
  /\ engines[e].pc = "claims"
  /\ engines' = [engines EXCEPT ![e].pc = "computed", ![e].replications = replicationRows]
  /\ UNCHANGED <<readVars, payloads, moduleAddress, publishVars>>

\* insertReputationPayload and replaceLeaderboardEntries, in one transaction.
InsertPayload(e) ==
  /\ engines[e].pc = "computed"
  /\ Len(payloads) < MaxPayloads
  /\ payloads' = Append(payloads, Leaderboard(engines[e].claims, engines[e].replications,
                                              engines[e].subjects))
  /\ engines' = [engines EXCEPT ![e] = NoEngine]
  /\ publishers' = [p \in CheckpointPublishers |->
       [publishers[p] EXCEPT !.quiet = @ /\ publishers[p].pc # "reading"]]
  /\ UNCHANGED <<readVars, moduleAddress, checkpoints, checkpointRequests, checkpointRows>>

EngineStops(e) ==
  /\ engines[e].pc # "idle"
  /\ engines' = [engines EXCEPT ![e] = NoEngine]
  /\ UNCHANGED <<readVars, payloads, moduleAddress, publishVars>>

-----------------------------------------------------------------------------
(* publishDomainCheckpoints.                                               *)

PublisherAt(p, pc) == publishers[p].pc = pc
PublisherGoto(p, pc) == publishers' = [publishers EXCEPT ![p].pc = pc]
EndPublisher(p) == publishers' = [publishers EXCEPT ![p] = NoPublisher]
SubjectNow(p) == Head(publishers[p].subjects)

StartPublisher(p) ==
  /\ PublisherAt(p, "idle")
  /\ publishers' = [publishers EXCEPT ![p].pc = "reading", ![p].quiet = TRUE]
  /\ UNCHANGED <<readVars, payloads, engines, moduleAddress,
                 checkpoints, checkpointRequests, checkpointRows>>

\* The payload and the pages of the leaderboard are read at once, in any order.
ReadLatestReputationPayload(p) ==
  /\ PublisherAt(p, "reading") /\ publishers[p].payload = -1
  /\ publishers' = [publishers EXCEPT ![p].payload = Len(payloads)]
  /\ UNCHANGED <<readVars, payloads, engines, moduleAddress,
                 checkpoints, checkpointRequests, checkpointRows>>

\* Each page is one of the payload that is the latest then.
ReadLeaderboardPage(p) ==
  LET latest == Len(payloads)
      ranks == IF latest = 0 THEN {} ELSE DOMAIN payloads[latest]
      from == publishers[p].offset
      size == Cardinality(ranks \cap (from + 1 .. from + LeaderboardPage))
      page == [i \in 1 .. size |->
                 [type |-> "Actor", subject |-> payloads[latest][from + i].actor,
                  entry |-> <<latest, from + i>>]]
  IN /\ PublisherAt(p, "reading") /\ ~publishers[p].paged
     /\ publishers' = [publishers EXCEPT
          ![p].subjects = @ \o page,
          ![p].offset = from + size,
          ![p].paged = size = 0 \/ \A rank \in ranks : rank <= from + size]
     /\ UNCHANGED <<readVars, payloads, engines, moduleAddress,
                    checkpoints, checkpointRequests, checkpointRows>>

\* Without a payload it throws.  Agents and the domain's module come after the actors.
ReadSubjects(p) ==
  /\ PublisherAt(p, "reading") /\ publishers[p].paged /\ publishers[p].payload # -1
  /\ IF publishers[p].payload = 0 THEN EndPublisher(p)
     ELSE \E agents \in SUBSET DomainAgents :
            publishers' = [publishers EXCEPT
              ![p].pc = "subject",
              ![p].subjects =
                 @ \o SetToSeq({[type |-> "Agent", subject |-> a, entry |-> <<>>] : a \in agents})
                   \o <<[type |-> "Module", subject |-> moduleAddress, entry |-> <<>>]>>]
  /\ UNCHANGED <<readVars, payloads, engines, moduleAddress,
                 checkpoints, checkpointRequests, checkpointRows>>

\* The score vector is stored, a nonce is reserved, the envelope signed.
InsertCheckpointRequest(p) ==
  /\ PublisherAt(p, "subject")
  /\ Len(checkpointRequests) < MaxPublications
  /\ checkpointRequests' = Append(checkpointRequests, "prepared")
  /\ publishers' = [publishers EXCEPT
       ![p].pc = "requested", ![p].request = Len(checkpointRequests) + 1]
  /\ UNCHANGED <<readVars, payloads, engines, moduleAddress, checkpoints, checkpointRows>>

InsertCheckpointPublication(p) ==
  /\ PublisherAt(p, "requested")
  /\ checkpointRows' = Append(checkpointRows,
       [status |-> "prepared", request |-> publishers[p].request, checkpoint |-> 0,
        payload |-> publishers[p].payload, subject |-> SubjectNow(p),
        quiet |-> publishers[p].quiet])
  /\ publishers' = [publishers EXCEPT
       ![p].pc = "prepared", ![p].publication = Len(checkpointRows) + 1]
  /\ UNCHANGED <<readVars, payloads, engines, moduleAddress, checkpoints, checkpointRequests>>

\* _validateSubject: actors and known agents pass, the zero address is no module.
ValidSubject(s) == s.type = "Module" => s.subject # 0

\* publishCheckpoint, with a receipt or, when the connection fails, without.
PublishCheckpoint(p, pc) ==
  /\ PublisherAt(p, "prepared")
  /\ ValidSubject(SubjectNow(p))
  /\ checkpoints' = Append(checkpoints,
       [type |-> SubjectNow(p).type, subject |-> SubjectNow(p).subject,
        payload |-> publishers[p].payload, entry |-> SubjectNow(p).entry])
  /\ pc \in {"mined", "failing"}
  /\ publishers' = [publishers EXCEPT
       ![p].pc = pc, ![p].checkpoint = Len(checkpoints) + 1]
  /\ UNCHANGED <<readVars, payloads, engines, moduleAddress, checkpointRequests, checkpointRows>>

\* With an error after the statement, it is the failure that ends up in the row.
MarkCheckpointRequestSubmitted(p, pc) ==
  /\ PublisherAt(p, "mined")
  /\ checkpointRequests' = [checkpointRequests EXCEPT ![publishers[p].request] = "submitted"]
  /\ pc \in {"marked", "failing"}
  /\ PublisherGoto(p, pc)
  /\ UNCHANGED <<readVars, payloads, engines, moduleAddress, checkpoints, checkpointRows>>

NextSubject(p) ==
  IF Len(publishers[p].subjects) = 1 THEN NoPublisher
  ELSE [publishers[p] EXCEPT !.pc = "subject", !.subjects = Tail(@),
                             !.request = 0, !.publication = 0, !.checkpoint = 0]

BugMarkPublicationSubmitted(p) ==  \* the latest checkpoint for the event's
  /\ PublisherAt(p, "marked")
  /\ checkpointRows' = [checkpointRows EXCEPT ![publishers[p].publication] =
       [@ EXCEPT !.status = "submitted", !.checkpoint = Len(checkpoints)]]
  /\ publishers' = [publishers EXCEPT ![p] = NextSubject(p)]
  /\ UNCHANGED <<readVars, payloads, engines, moduleAddress, checkpoints, checkpointRequests>>

MarkPublicationSubmitted(p) ==
  /\ PublisherAt(p, "marked")
  /\ checkpointRows' = [checkpointRows EXCEPT ![publishers[p].publication] =
       [@ EXCEPT !.status = "submitted", !.checkpoint = publishers[p].checkpoint]]
  /\ publishers' = [publishers EXCEPT ![p] = NextSubject(p)]
  /\ UNCHANGED <<readVars, payloads, engines, moduleAddress, checkpoints, checkpointRequests>>

\* The catch covers what comes before the last mark, which is returned unawaited:
\* an error there only ends the call, as does one before the request is in.
ThrowInTry(p) ==
  /\ publishers[p].pc \in {"requested", "prepared", "mined"}
  /\ PublisherGoto(p, "failing")
  /\ UNCHANGED <<readVars, payloads, engines, moduleAddress,
                 checkpoints, checkpointRequests, checkpointRows>>

MarkCheckpointRequestFailed(p) ==
  /\ PublisherAt(p, "failing")
  /\ checkpointRequests' = [checkpointRequests EXCEPT ![publishers[p].request] = "failed"]
  /\ IF publishers[p].publication = 0 THEN EndPublisher(p) ELSE PublisherGoto(p, "failed")
  /\ UNCHANGED <<readVars, payloads, engines, moduleAddress, checkpoints, checkpointRows>>

MarkPublicationFailed(p) ==
  /\ PublisherAt(p, "failed")
  /\ checkpointRows' = [checkpointRows EXCEPT ![publishers[p].publication].status = "failed"]
  /\ EndPublisher(p)
  /\ UNCHANGED <<readVars, payloads, engines, moduleAddress, checkpoints, checkpointRequests>>

PublisherStops(p) ==
  /\ ~PublisherAt(p, "idle")
  /\ EndPublisher(p)
  /\ UNCHANGED <<readVars, payloads, engines, moduleAddress,
                 checkpoints, checkpointRequests, checkpointRows>>

-----------------------------------------------------------------------------
(* The indexer and the governance of modules.                              *)

RowsMove ==
  /\ \E c \in DomainClaims :
       \/ \E row \in ClaimRows :
            /\ claimRows[c] # NoRow => claimRows[c].author = row.author
            /\ claimRows' = [claimRows EXCEPT ![c] = row]
            /\ UNCHANGED replicationRows
       \/ \E row \in ReplicationRows :
            /\ claimRows[c] # NoRow
            /\ replicationRows[c] # NoRow => replicationRows[c].replicator = row.replicator
            /\ replicationRows' = [replicationRows EXCEPT ![c] = row]
            /\ UNCHANGED claimRows
  /\ UNCHANGED <<indexed, payloads, engines, moduleAddress, publishVars>>

IndexCheckpoint ==
  /\ indexed < Len(checkpoints)
  /\ indexed' = indexed + 1
  /\ UNCHANGED <<claimRows, replicationRows, payloads, engines, moduleAddress, publishVars>>

GiveDomainModule ==
  /\ moduleAddress = 0
  /\ moduleAddress' = 1
  /\ UNCHANGED <<readVars, payloads, engines, publishVars>>

CheckpointsNext ==
  \/ \E e \in Engines :
       ReadClaims(e) \/ ReadReplications(e) \/ InsertPayload(e) \/ EngineStops(e)
  \/ \E p \in CheckpointPublishers :
       \/ StartPublisher(p) \/ ReadLatestReputationPayload(p) \/ ReadLeaderboardPage(p)
       \/ ReadSubjects(p) \/ InsertCheckpointRequest(p) \/ InsertCheckpointPublication(p)
       \/ \E pc \in {"mined", "failing"} : PublishCheckpoint(p, pc)
       \/ \E pc \in {"marked", "failing"} : MarkCheckpointRequestSubmitted(p, pc)
       \/ MarkPublicationSubmitted(p) \/ ThrowInTry(p) \/ MarkCheckpointRequestFailed(p)
       \/ MarkPublicationFailed(p) \/ PublisherStops(p)
  \/ RowsMove \/ IndexCheckpoint \/ GiveDomainModule

CheckpointsSpec == CheckpointsInit /\ [][CheckpointsNext]_checkpointVars

-----------------------------------------------------------------------------
\* Whatever publishers overlap, fail or stop half way, a publication that is
\* submitted names the checkpoint its own transaction made, so that no two name
\* one, and its request is submitted too; a checkpoint on chain has a row of its
\* own, whatever became of it; and the entry published for an actor is of the
\* payload whose hash is published with it, once, unless a payload was inserted
\* while the publisher read.
Content(row) ==
  [type |-> row.subject.type, subject |-> row.subject.subject,
   payload |-> row.payload, entry |-> row.subject.entry]
CheckpointsAccounted ==
  /\ \A i \in DOMAIN checkpointRows :
       LET row == checkpointRows[i]
       IN /\ row.status = "submitted" =>
               /\ row.checkpoint \in DOMAIN checkpoints
               /\ checkpoints[row.checkpoint] = Content(row)
               /\ checkpointRequests[row.request] = "submitted"
               /\ \A j \in DOMAIN checkpointRows \ {i} :
                    checkpointRows[j].checkpoint # row.checkpoint
          /\ row.quiet /\ row.subject.type = "Actor" => row.subject.entry[1] = row.payload
  /\ \A k \in DOMAIN checkpoints :
       Cardinality({j \in DOMAIN checkpoints : checkpoints[j] = checkpoints[k]})
         <= Cardinality({i \in DOMAIN checkpointRows : Content(checkpointRows[i]) = checkpoints[k]})
=============================================================================
